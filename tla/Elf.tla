----------------------------------- MODULE Elf -----------------------------------
(***************************************************************************)
(* The loader of the program's ELF file and its symbol look-up             *)
(* (lib/bdd_elf.cpp), which `functions' and every `bp' by name rest on.    *)
(*                                                                         *)
(* ElfFile's constructor reads all sections through one stream into one    *)
(* buffer that it reuses. A read that meets the end of the file sets the   *)
(* stream's failbit, which nothing clears: each later seekg and read then  *)
(* does nothing, and the buffer keeps what it had.                         *)
(*                                                                         *)
(* A file is a row of cells. A cell is one entry of a symbol table, one    *)
(* string of a string table, or a piece of anything else; sizes count      *)
(* cells, and sections are numbered from 1.                                *)
(***************************************************************************)
EXTENDS Integers, SequencesExt

CONSTANTS
  Text,    \* the strings of string tables, "" among them
  Bare,    \* what each of them has in front of its first parenthesis
  Value,   \* the values of symbols
  Files    \* the files given to the debugger

SectionType == {"null", "progbits", "nobits", "symtab", "strtab"}

Section ==
  [type : SectionType, name : Nat, offset : Nat, size : Nat, link : Nat]

Symbol == [kind : {"symbol"}, func : BOOLEAN, value : Value, name : Nat]
Other == [kind : {"code"}]
Zero == [kind |-> "zero"]
Cell == Symbol \cup [kind : {"string"}, text : Text] \cup Other \cup {Zero}

File ==
  [magic : BOOLEAN, bytes : Seq(Cell), sections : Seq(Section), shstrndx : Nat]

\* What file f has where the header s of a section says it is.
Content(f, s) == [i \in 1 .. s.size |-> f.bytes[s.offset + i]]

\* A complete file: each section but .bss is in it.
Complete(f) ==
  \A i \in DOMAIN f.sections :
    LET s == f.sections[i] IN
    s.type # "nobits" => s.offset + s.size <= Len(f.bytes)

IsName(f, table, offset) ==
  /\ table \in DOMAIN f.sections
  /\ f.sections[table].type = "strtab"
  /\ offset < f.sections[table].size
  /\ f.bytes[f.sections[table].offset + offset + 1].kind = "string"

\* Symbol tables hold symbols and link to the string table with their names;
\* the sections have theirs in a string table, too.
Linked(f) ==
  \A i \in DOMAIN f.sections :
    LET s == f.sections[i] IN
    /\ IsName(f, f.shstrndx, s.name)
    /\ s.type = "symtab" =>
         \A k \in 1 .. s.size :
           LET cell == f.bytes[s.offset + k] IN
           cell \in Symbol /\ IsName(f, s.link, cell.name)

ASSUME FilesAssumption ==
  /\ Bare \in [Text -> Text]
  /\ Files \subseteq File
  /\ \A f \in Files : f.magic => Complete(f) /\ Linked(f)

\* The sections that only exist in memory would end within the file, too.
Roomy(f) ==
  \A i \in DOMAIN f.sections :
    f.sections[i].offset + f.sections[i].size <= Len(f.bytes)

VARIABLES
  file,
  phase,            \* what the constructor does next
  sectionsHeaders,
  next,             \* the section whose data for_each reads next
  buffer,
  failbit,          \* of the stream
  sectionsData

vars == <<file, phase, sectionsHeaders, next, buffer, failbit, sectionsData>>

TypeOK ==
  /\ file \in Files
  /\ phase \in {"header", "tables", "data", "loaded", "threw"}
  /\ sectionsHeaders \in Seq(Section)
  /\ next \in 1 .. Len(sectionsHeaders) + 1
  /\ buffer \in Seq(Cell)
  /\ failbit \in BOOLEAN
  /\ sectionsData \in Seq(Seq(Cell))
  /\ Len(sectionsData) = next - 1

Init ==
  /\ file \in Files
  /\ phase = "header"
  /\ sectionsHeaders = <<>>
  /\ next = 1
  /\ buffer = <<>>
  /\ failbit = FALSE
  /\ sectionsData = <<>>

-----------------------------------------------------------------------------
(* The constructor. *)

\* std::invalid_argument, "Not an ELF file".
ReadHeader ==
  /\ phase = "header"
  /\ phase' = IF file.magic THEN "tables" ELSE "threw"
  /\ UNCHANGED <<file, sectionsHeaders, next, buffer, failbit, sectionsData>>

\* Both header tables are in the file: their reads succeed.
ReadTables ==
  /\ phase = "tables"
  /\ sectionsHeaders' = file.sections
  /\ phase' = "data"
  /\ UNCHANGED <<file, next, buffer, failbit, sectionsData>>

\* std::vector::resize keeps what fits and fills up with zeros.
Resize(buf, n) == [i \in 1 .. n |-> IF i <= Len(buf) THEN buf[i] ELSE Zero]

\* seekg and read: the cells up to the end of the file, if the stream is good.
Read(buf, offset) ==
  [i \in DOMAIN buf |->
     IF ~failbit /\ offset + i <= Len(file.bytes) THEN file.bytes[offset + i]
     ELSE buf[i]]

MeetsEnd(s) == s.size > 0 /\ s.offset + s.size > Len(file.bytes)

\* Fault: the buffer keeps the size of the section before.
ReadUnsized ==
  /\ phase = "data"
  /\ next <= Len(sectionsHeaders)
  /\ LET sHdr == sectionsHeaders[next]
         sized == IF Len(buffer) < sHdr.size THEN Resize(buffer, sHdr.size) ELSE buffer
     IN  /\ buffer' = Read(sized, sHdr.offset)
         /\ failbit' = (failbit \/ MeetsEnd(sHdr))
  /\ sectionsData' = Append(sectionsData, buffer')
  /\ next' = next + 1
  /\ UNCHANGED <<file, phase, sectionsHeaders>>

\* Fault: a section without data in the file gets no place in sectionsData.
ReadSkippingNobits ==
  /\ phase = "data"
  /\ next <= Len(sectionsHeaders)
  /\ LET sHdr == sectionsHeaders[next] IN
     IF sHdr.type = "nobits" THEN UNCHANGED <<buffer, sectionsData>>
     ELSE /\ buffer' = Read(Resize(buffer, sHdr.size), sHdr.offset)
          /\ sectionsData' = Append(sectionsData, buffer')
  /\ next' = next + 1
  /\ UNCHANGED <<file, phase, sectionsHeaders, failbit>>

ReadSection ==
  /\ phase = "data"
  /\ next <= Len(sectionsHeaders)
  /\ LET sHdr == sectionsHeaders[next] IN
     /\ buffer' = Read(Resize(buffer, sHdr.size), sHdr.offset)
     /\ failbit' = (failbit \/ MeetsEnd(sHdr))
  /\ sectionsData' = Append(sectionsData, buffer')
  /\ next' = next + 1
  /\ UNCHANGED <<file, phase, sectionsHeaders>>

Close ==
  /\ phase = "data"
  /\ next > Len(sectionsHeaders)
  /\ phase' = "loaded"
  /\ UNCHANGED <<file, sectionsHeaders, next, buffer, failbit, sectionsData>>

Next == ReadHeader \/ ReadTables \/ ReadSection \/ Close

Spec == Init /\ [][Next]_vars

-----------------------------------------------------------------------------
(* Look-up in the loaded file. *)

\* Fault: the last entry is taken for the end of the table.
CountToLast(sHdr) == IF sHdr.size = 0 THEN 0 ELSE sHdr.size - 1

\* sh_size / sh_entsize, in cells.
getSymbolCount(sHdr) == sHdr.size

\* The string at `offset'; zeros and other data are taken for the empty one.
getNameFromStringTable(strTableIndex, offset) ==
  IF strTableIndex \notin DOMAIN sectionsData THEN "Unnamed"
  ELSE LET cell == sectionsData[strTableIndex][offset + 1]
       IN  IF cell.kind = "string" THEN cell.text ELSE ""

getSymbolName(sHdr, sym) == getNameFromStringTable(sHdr.link, sym.name)

\* STT_FUNC in st_info; data that is no symbol is taken for none.
IsFunction(cell) == cell.kind = "symbol" /\ cell.func

getSectionHeaderIndexesByType(type) ==
  FlattenSeq([i \in DOMAIN sectionsHeaders |->
                IF sectionsHeaders[i].type = type THEN <<i>> ELSE <<>>])

\* A function with a name goes on the list, as <<address, name>>; its name is cut
\* where its parameters begin.
FunctionEntry(sHdr, sym) ==
  IF IsFunction(sym) /\ getSymbolName(sHdr, sym) # ""
  THEN << <<sym.value, Bare[getSymbolName(sHdr, sym)]>> >>
  ELSE <<>>

FunctionsOf(e) ==
  LET sHdr == sectionsHeaders[e]
  IN  FlattenSeq([i \in 1 .. getSymbolCount(sHdr) |->
                    FunctionEntry(sHdr, sectionsData[e][i])])

getFunctionsList ==
  LET tables == getSectionHeaderIndexesByType("symtab")
  IN  FlattenSeq([i \in DOMAIN tables |-> FunctionsOf(tables[i])])

\* The first of that name. The caller must know that there is one: the end of
\* the list is dereferenced otherwise.
getFunctionAddress(name) ==
  LET list == getFunctionsList
      found == {i \in DOMAIN list : list[i][2] = name}
  IN  list[CHOOSE i \in found : \A j \in found : i <= j][1]

\* Fault: the index counts from the first section.
MenuWithoutHeader == [i \in DOMAIN sectionsHeaders |-> i]

\* elfCommand's menu: 1 is the ELF header, and the sections follow.
MenuIndex == [i \in DOMAIN sectionsHeaders |-> i + 1]

getSectionName(sHdr) == getNameFromStringTable(file.shstrndx, sHdr.name)

\* printSectionHeaderAt(asked - 2), where the sections count from 0.
SectionShown(asked) == sectionsHeaders[(asked - 2) + 1]

-----------------------------------------------------------------------------
(* The functions that the file itself names, read from it directly. *)
FunctionsInFile ==
  UNION {LET s == file.sections[i]
             names == file.sections[s.link]
             Name(sym) == file.bytes[names.offset + sym.name + 1].text
         IN  {<<sym.value, Bare[Name(sym)]>> :
                sym \in {c \in {Content(file, s)[k] : k \in 1 .. s.size} :
                           c.func /\ Name(c) # ""}} :
         i \in {j \in DOMAIN file.sections : file.sections[j].type = "symtab"}}

\* The data kept for a section is what the file has at the section's offset,
\* whatever was read through the same stream and buffer before it. Needs Roomy.
SectionsAreRead ==
  \A i \in DOMAIN sectionsData :
    sectionsHeaders[i].type # "nobits" =>
      sectionsData[i] = Content(file, sectionsHeaders[i])

\* getFunctionsList names the functions of the file, no more and no less, and
\* getFunctionAddress finds each of them. Needs Roomy.
FunctionsAreListed ==
  phase = "loaded" =>
    /\ LET list == getFunctionsList
       IN  {list[i] : i \in DOMAIN list} = FunctionsInFile
    /\ \A f \in FunctionsInFile :
         <<getFunctionAddress(f[2]), f[2]>> \in FunctionsInFile

\* The index that the menu of `elf' gives a section shows that section, under
\* the name the file has for it. Needs Roomy.
MenuIsRight ==
  phase = "loaded" =>
    \A i \in DOMAIN file.sections :
      LET names == file.sections[file.shstrndx]
          asked == MenuIndex[i]
      IN  /\ asked \in 2 .. Len(sectionsHeaders) + 1
          /\ SectionShown(asked) = file.sections[i]
          /\ getSectionName(SectionShown(asked)) =
               file.bytes[names.offset + file.sections[i].name + 1].text
================================================================================
