-------------------------------- MODULE ElfProofs --------------------------------
(***************************************************************************)
(* Proofs about module Elf, for every set of files.                        *)
(***************************************************************************)
EXTENDS Elf, FlattenProofs

-----------------------------------------------------------------------------
(* The reader's vector and stream. *)

\* A vector of cells has the size it is given, and still holds cells.
LEMMA ResizeType ==
  ASSUME NEW buf \in Seq(Cell), NEW n \in Nat
  PROVE  /\ Resize(buf, n) \in Seq(Cell)
         /\ Len(Resize(buf, n)) = n
<1>1. ASSUME NEW i \in 1 .. n
      PROVE  (IF i <= Len(buf) THEN buf[i] ELSE Zero) \in Cell
  BY <1>1 DEF Cell
<1> QED
  BY <1>1 DEF Resize

\* A read changes no size and puts only cells of the file into the vector.
LEMMA ReadType ==
  ASSUME file \in File, NEW buf \in Seq(Cell), NEW offset \in Nat
  PROVE  /\ Read(buf, offset) \in Seq(Cell)
         /\ Len(Read(buf, offset)) = Len(buf)
<1>1. file.bytes \in Seq(Cell)
  BY DEF File
<1>2. ASSUME NEW i \in DOMAIN buf
      PROVE  (IF ~failbit /\ offset + i <= Len(file.bytes)
              THEN file.bytes[offset + i] ELSE buf[i]) \in Cell
  BY <1>1, <1>2
<1> QED
  BY <1>2 DEF Read

\* On a good stream, a read that ends within the file fills the vector with
\* the section, whatever it held.
LEMMA ReadContent ==
  ASSUME file \in File, failbit = FALSE,
         NEW s \in Section, NEW buf \in Seq(Cell), Len(buf) = s.size,
         s.offset + s.size <= Len(file.bytes)
  PROVE  Read(buf, s.offset) = Content(file, s)
<1>1. /\ s.size \in Nat /\ s.offset \in Nat
      /\ file.bytes \in Seq(Cell)
  BY DEF Section, File
<1>2. DOMAIN buf = 1 .. s.size
  OBVIOUS
<1>3. ASSUME NEW i \in 1 .. s.size
      PROVE  s.offset + i <= Len(file.bytes)
  BY <1>1
<1> QED
  BY <1>2, <1>3 DEF Read, Content

-----------------------------------------------------------------------------
(* Type correctness. *)

\* The headers kept are those of the file once they are read.
HeadersOfFile ==
  /\ phase \in {"header", "tables", "threw"} => sectionsHeaders = <<>>
  /\ phase \in {"data", "loaded"} => sectionsHeaders = file.sections

TypeInv == TypeOK /\ HeadersOfFile

\* The section read next has a header.
LEMMA HeaderType ==
  ASSUME TypeInv, ReadSection
  PROVE  /\ next \in 1 .. Len(sectionsHeaders)
         /\ sectionsHeaders[next] \in Section
         /\ sectionsHeaders[next].size \in Nat
         /\ sectionsHeaders[next].offset \in Nat
<1>1. /\ sectionsHeaders \in Seq(Section)
      /\ next \in 1 .. Len(sectionsHeaders)
  BY DEF ReadSection, TypeInv, TypeOK
<1>2. sectionsHeaders[next] \in Section
  BY <1>1, ElementOfSeq
<1> QED
  BY <1>1, <1>2 DEF Section

LEMMA TypeInit == Init => TypeInv
<1> SUFFICES ASSUME Init
             PROVE  TypeInv
  OBVIOUS
<1>1. /\ sectionsHeaders \in Seq(Section) /\ Len(sectionsHeaders) = 0
      /\ buffer \in Seq(Cell)
      /\ sectionsData \in Seq(Seq(Cell)) /\ Len(sectionsData) = 0
  <2>1. \A S : <<>> \in Seq(S) /\ Len(<<>>) = 0
    OBVIOUS
  <2> QED
    BY <2>1 DEF Init
<1>2. next \in 1 .. Len(sectionsHeaders) + 1 /\ Len(sectionsData) = next - 1
  BY <1>1 DEF Init
<1> QED
  BY <1>1, <1>2 DEF Init, TypeInv, TypeOK, HeadersOfFile

LEMMA TypeStep == TypeInv /\ [Next]_vars => TypeInv'
<1> SUFFICES ASSUME TypeInv, [Next]_vars
             PROVE  TypeInv'
  OBVIOUS
<1>0. file \in File /\ file.sections \in Seq(Section)
  BY FilesAssumption DEF TypeInv, TypeOK, File
<1>1. CASE ReadHeader
  BY <1>1 DEF ReadHeader, TypeInv, TypeOK, HeadersOfFile
<1>2. CASE ReadTables
  <2>1. next = 1
    BY <1>2 DEF ReadTables, TypeInv, TypeOK, HeadersOfFile
  <2> QED
    BY <1>0, <1>2, <2>1 DEF ReadTables, TypeInv, TypeOK, HeadersOfFile
<1>3. CASE ReadSection
  <2> DEFINE sHdr == sectionsHeaders[next]
  <2>1. sHdr.size \in Nat /\ sHdr.offset \in Nat
    BY <1>3, HeaderType
  <2>2. buffer \in Seq(Cell)
    BY DEF TypeInv, TypeOK
  <2>3. /\ Resize(buffer, sHdr.size) \in Seq(Cell)
        /\ Read(Resize(buffer, sHdr.size), sHdr.offset) \in Seq(Cell)
    BY <1>0, <2>1, <2>2, ResizeType, ReadType
  <2>4. buffer' \in Seq(Cell)
    BY <1>3, <2>3 DEF ReadSection
  <2>5. failbit' \in BOOLEAN
    BY <1>3 DEF ReadSection, TypeInv, TypeOK, MeetsEnd
  <2>6. /\ sectionsData' \in Seq(Seq(Cell))
        /\ Len(sectionsData') = next
        /\ next' = next + 1
    BY <1>3, <2>4 DEF ReadSection, TypeInv, TypeOK
  <2>7. next' \in 1 .. Len(sectionsHeaders) + 1
    BY <1>3 DEF ReadSection, TypeInv, TypeOK
  <2> QED
    BY <1>3, <2>4, <2>5, <2>6, <2>7 DEF ReadSection, TypeInv, TypeOK, HeadersOfFile
<1>4. CASE Close
  BY <1>4 DEF Close, TypeInv, TypeOK, HeadersOfFile
<1>5. CASE UNCHANGED vars
  BY <1>5 DEF vars, TypeInv, TypeOK, HeadersOfFile
<1> QED
  BY <1>1, <1>2, <1>3, <1>4, <1>5 DEF Next

\* Every section read has one place in sectionsData, in the order of the
\* headers, and the loader keeps to its types.
THEOREM TypeCorrect == Spec => []TypeOK
<1>1. TypeInv => TypeOK
  BY DEF TypeInv
<1> QED
  BY TypeInit, TypeStep, <1>1, PTL DEF Spec

-----------------------------------------------------------------------------
(* What is read. *)

\* In a file that has room for all sections, no read meets its end.
ReadInv ==
  /\ TypeInv
  /\ failbit = FALSE
  /\ sectionsData # <<>> => phase \in {"data", "loaded"}
  /\ \A i \in DOMAIN sectionsData :
       sectionsData[i] = Content(file, sectionsHeaders[i])

LEMMA ReadInit == Init => ReadInv
  BY TypeInit DEF Init, ReadInv

LEMMA ReadStep ==
  ASSUME \A f \in Files : Roomy(f)
  PROVE  ReadInv /\ [Next]_vars => ReadInv'
<1> SUFFICES ASSUME ReadInv, [Next]_vars
             PROVE  ReadInv'
  OBVIOUS
<1>0. /\ file \in File /\ Roomy(file)
      /\ TypeInv'
      /\ sectionsHeaders \in Seq(Section)
  BY FilesAssumption, TypeStep DEF ReadInv, TypeInv, TypeOK
<1>1. CASE ReadHeader
  BY <1>0, <1>1 DEF ReadHeader, ReadInv
<1>2. CASE ReadTables
  <2>1. sectionsData = <<>>
    BY <1>2 DEF ReadTables, ReadInv
  <2> QED
    BY <1>0, <1>2, <2>1 DEF ReadTables, ReadInv
<1>3. CASE ReadSection
  <2> DEFINE sHdr == sectionsHeaders[next]
  <2>1. next \in DOMAIN file.sections /\ sHdr = file.sections[next]
    BY <1>3 DEF ReadSection, ReadInv, TypeInv, TypeOK, HeadersOfFile
  <2>2. sHdr \in Section /\ sHdr.size \in Nat /\ sHdr.offset \in Nat
    BY <1>3, HeaderType DEF ReadInv
  <2>3. sHdr.offset + sHdr.size <= Len(file.bytes)
    BY <1>0, <2>1 DEF Roomy
  <2>4. failbit' = FALSE
    <3>1. file.bytes \in Seq(Cell)
      BY <1>0 DEF File
    <3>2. ~MeetsEnd(sHdr)
      BY <2>2, <2>3, <3>1 DEF MeetsEnd
    <3> QED
      BY <1>3, <3>2, Zenon DEF ReadSection, ReadInv
  <2>5. buffer' = Content(file, sHdr)
    <3>1. /\ Resize(buffer, sHdr.size) \in Seq(Cell)
          /\ Len(Resize(buffer, sHdr.size)) = sHdr.size
      BY <2>2, ResizeType DEF ReadInv, TypeInv, TypeOK
    <3>2. failbit = FALSE
      BY DEF ReadInv
    <3>3. Read(Resize(buffer, sHdr.size), sHdr.offset) = Content(file, sHdr)
      BY <1>0, <2>2, <2>3, <3>1, <3>2, ReadContent
    <3> QED
      BY <1>3, <3>3 DEF ReadSection
  <2>6. ASSUME NEW i \in DOMAIN sectionsData'
        PROVE  sectionsData'[i] = Content(file, sectionsHeaders[i])
    <3>1. /\ sectionsData \in Seq(Seq(Cell)) /\ Len(sectionsData) = next - 1
          /\ next \in Nat /\ buffer' \in Seq(Cell)
      BY <1>0 DEF ReadInv, TypeInv, TypeOK
    <3>2. /\ sectionsData' = Append(sectionsData, buffer')
          /\ DOMAIN sectionsData' = 1 .. next
      BY <1>3, <3>1 DEF ReadSection
    <3>3. CASE i = next
      BY <2>5, <3>1, <3>2, <3>3
    <3>4. CASE i # next
      <4>1. i \in DOMAIN sectionsData /\ sectionsData'[i] = sectionsData[i]
        BY <2>6, <3>1, <3>2, <3>4
      <4> QED
        BY <4>1 DEF ReadInv
    <3> QED
      BY <3>3, <3>4
  <2> QED
    BY <1>0, <1>3, <2>4, <2>6 DEF ReadSection, ReadInv
<1>4. CASE Close
  BY <1>0, <1>4 DEF Close, ReadInv
<1>5. CASE UNCHANGED vars
  BY <1>0, <1>5 DEF vars, ReadInv
<1> QED
  BY <1>1, <1>2, <1>3, <1>4, <1>5 DEF Next

\* If even the .bss sections would end within the file, the data kept for each
\* section is what the file has at its offset: one stream and one buffer for
\* all sections are enough then.
THEOREM SectionsAlwaysRead ==
  ASSUME \A f \in Files : Roomy(f)
  PROVE  Spec => []SectionsAreRead
<1>1. ReadInv => SectionsAreRead
  BY DEF ReadInv, SectionsAreRead
<1>2. ReadInv /\ [Next]_vars => ReadInv'
  BY ReadStep
<1> QED
  BY ReadInit, <1>1, <1>2, PTL DEF Spec

-----------------------------------------------------------------------------
(* The menu of `elf'. *)

\* When the file is loaded, it is one and the data of every section was read.
LoadedInv ==
  /\ ReadInv
  /\ phase \in {"tables", "data", "loaded"} => file.magic
  /\ phase = "loaded" => next > Len(sectionsHeaders)

LEMMA LoadedInit == Init => LoadedInv
  BY ReadInit DEF Init, LoadedInv

LEMMA LoadedStep ==
  ASSUME \A f \in Files : Roomy(f)
  PROVE  LoadedInv /\ [Next]_vars => LoadedInv'
<1> SUFFICES ASSUME LoadedInv, [Next]_vars
             PROVE  LoadedInv'
  OBVIOUS
<1>1. ReadInv'
  BY ReadStep DEF LoadedInv
<1>2. CASE ReadHeader
  BY <1>1, <1>2 DEF ReadHeader, LoadedInv
<1>3. CASE ReadTables
  BY <1>1, <1>3 DEF ReadTables, LoadedInv
<1>4. CASE ReadSection
  BY <1>1, <1>4 DEF ReadSection, LoadedInv
<1>5. CASE Close
  BY <1>1, <1>5 DEF Close, LoadedInv
<1>6. CASE UNCHANGED vars
  BY <1>1, <1>6 DEF vars, LoadedInv
<1> QED
  BY <1>2, <1>3, <1>4, <1>5, <1>6 DEF Next

\* A name that the file has in a string table is found in the data kept for it.
LEMMA NameIsFound ==
  ASSUME LoadedInv, phase = "loaded",
         NEW table, NEW offset \in Nat, IsName(file, table, offset)
  PROVE  getNameFromStringTable(table, offset) =
           file.bytes[file.sections[table].offset + offset + 1].text
<1> DEFINE s == file.sections[table]
<1>1. /\ file.sections \in Seq(Section) /\ sectionsHeaders = file.sections
      /\ sectionsData \in Seq(Seq(Cell)) /\ Len(sectionsData) = Len(sectionsHeaders)
  BY FilesAssumption DEF LoadedInv, ReadInv, TypeInv, TypeOK, HeadersOfFile, File
<1>2. /\ table \in DOMAIN sectionsData
      /\ s.size \in Nat /\ s.offset \in Nat /\ offset + 1 \in 1 .. s.size
  <2>1. table \in DOMAIN file.sections /\ offset < s.size
    BY DEF IsName
  <2>2. DOMAIN sectionsData = DOMAIN file.sections
    BY <1>1
  <2>3. s \in Section
    BY <1>1, <2>1, ElementOfSeq
  <2>4. s.size \in Nat /\ s.offset \in Nat
    BY <2>3 DEF Section
  <2>5. offset + 1 \in 1 .. s.size
    BY <2>1, <2>4
  <2> QED
    BY <2>1, <2>2, <2>4, <2>5
<1>3. sectionsData[table] = Content(file, s)
  BY <1>1, <1>2 DEF LoadedInv, ReadInv
<1>4. sectionsData[table][offset + 1] = file.bytes[s.offset + (offset + 1)]
  BY <1>2, <1>3 DEF Content
<1>5. s.offset + (offset + 1) = s.offset + offset + 1
  BY <1>2
<1> QED
  BY <1>2, <1>4, <1>5 DEF getNameFromStringTable, IsName

\* elfCommand: the entry of the menu that the user chooses shows its section, and
\* was offered under the name that the file has for it.
THEOREM MenuAlwaysRight ==
  ASSUME \A f \in Files : Roomy(f)
  PROVE  Spec => []MenuIsRight
<1>1. ASSUME LoadedInv, phase = "loaded", NEW i \in DOMAIN file.sections
      PROVE  /\ MenuIndex[i] \in 2 .. Len(sectionsHeaders) + 1
             /\ SectionShown(MenuIndex[i]) = file.sections[i]
             /\ getSectionName(SectionShown(MenuIndex[i])) =
                  file.bytes[file.sections[file.shstrndx].offset
                               + file.sections[i].name + 1].text
  <2>1. /\ file.sections \in Seq(Section) /\ sectionsHeaders = file.sections
        /\ Linked(file)
    BY <1>1, FilesAssumption
       DEF LoadedInv, ReadInv, TypeInv, TypeOK, HeadersOfFile, File
  <2>2. /\ MenuIndex[i] = i + 1 /\ i \in 1 .. Len(sectionsHeaders)
        /\ (MenuIndex[i] - 2) + 1 = i
    BY <1>1, <2>1 DEF MenuIndex
  <2>3. SectionShown(MenuIndex[i]) = file.sections[i]
    BY <2>1, <2>2 DEF SectionShown
  <2>4. file.sections[i].name \in Nat
    <3>1. file.sections[i] \in Section
      BY <1>1, <2>1, ElementOfSeq
    <3> QED
      BY <3>1 DEF Section
  <2>5. IsName(file, file.shstrndx, file.sections[i].name)
    BY <1>1, <2>1 DEF Linked
  <2>6. getSectionName(file.sections[i]) =
          file.bytes[file.sections[file.shstrndx].offset + file.sections[i].name + 1].text
    BY <1>1, <2>4, <2>5, NameIsFound DEF getSectionName
  <2> QED
    BY <2>2, <2>3, <2>6
<1>2. LoadedInv => MenuIsRight
  BY <1>1 DEF MenuIsRight
<1>3. LoadedInv /\ [Next]_vars => LoadedInv'
  BY LoadedStep
<1> QED
  BY LoadedInit, <1>2, <1>3, PTL DEF Spec

-----------------------------------------------------------------------------
(* The list of functions. *)

SymbolTables ==
  {i \in DOMAIN file.sections : file.sections[i].type = "symtab"}

\* The sections of a type are found by their headers, each of them.
LEMMA TablesAreFound ==
  ASSUME sectionsHeaders \in Seq(Section), NEW type
  PROVE  /\ getSectionHeaderIndexesByType(type) \in Seq(Nat)
         /\ Elements(getSectionHeaderIndexesByType(type)) =
              {i \in DOMAIN sectionsHeaders : sectionsHeaders[i].type = type}
<1> DEFINE n == Len(sectionsHeaders)
           parts == [i \in DOMAIN sectionsHeaders |->
                       IF sectionsHeaders[i].type = type THEN <<i>> ELSE <<>>]
           S == {i \in DOMAIN sectionsHeaders : sectionsHeaders[i].type = type}
<1>1. n \in Nat /\ DOMAIN sectionsHeaders = 1 .. n
  OBVIOUS
<1>2. ASSUME NEW i \in 1 .. n
      PROVE  /\ parts[i] \in Seq(Nat)
             /\ Elements(parts[i]) = IF i \in S THEN {i} ELSE {}
  <2>1. i \in Nat /\ i \in DOMAIN sectionsHeaders
    BY <1>1
  <2>2. <<i>> \in Seq(Nat) /\ Elements(<<i>>) = {i}
    BY <2>1 DEF Elements
  <2>3. <<>> \in Seq(Nat) /\ Elements(<<>>) = {}
    BY DEF Elements
  <2> QED
    BY <2>1, <2>2, <2>3
<1>3. parts \in Seq(Seq(Nat)) /\ DOMAIN parts = 1 .. n
  <2>1. parts = [i \in 1 .. n |-> parts[i]]
    BY <1>1
  <2> HIDE DEF parts
  <2> QED
    BY <1>1, <1>2, <2>1
<1>4. getSectionHeaderIndexesByType(type) = FlattenSeq(parts)
  BY DEF getSectionHeaderIndexesByType
<1>5. S \subseteq 1 .. n
  BY <1>1
<1> HIDE DEF parts, S
<1>6. /\ FlattenSeq(parts) \in Seq(Nat)
      /\ Elements(FlattenSeq(parts)) = UNION {Elements(parts[i]) : i \in DOMAIN parts}
  BY <1>3, FlattenElements
<1>7. UNION {Elements(parts[i]) : i \in DOMAIN parts} = S
  <2>1. ASSUME NEW i \in 1 .. n PROVE Elements(parts[i]) \subseteq S
    BY <1>2
  <2>2. ASSUME NEW i \in S PROVE i \in 1 .. n /\ i \in Elements(parts[i])
    BY <1>2, <1>5
  <2> QED
    BY <1>3, <2>1, <2>2
<1>8. getSectionHeaderIndexesByType(type) \in Seq(Nat)
      /\ Elements(getSectionHeaderIndexesByType(type)) = S
  BY <1>4, <1>6, <1>7
<1> QED
  BY <1>8 DEF S

\* The text that the file has at a symbol's name.
TextOf(s, sym) ==
  file.bytes[file.sections[s.link].offset + sym.name + 1].text

\* An entry of a symbol table was read as the file has it, and is found there
\* with its name.
LEMMA SymbolIsRead ==
  ASSUME \A f \in Files : Roomy(f), LoadedInv, phase = "loaded",
         NEW e \in SymbolTables, NEW k \in 1 .. file.sections[e].size
  PROVE  LET s == file.sections[e]
             sym == sectionsData[e][k]
         IN  /\ sectionsHeaders[e] = s
             /\ sym = Content(file, s)[k]
             /\ sym \in Symbol
             /\ getSymbolName(s, sym) = TextOf(s, sym)
             /\ TextOf(s, sym) \in Text
<1> DEFINE s == file.sections[e]
           sym == sectionsData[e][k]
           names == file.sections[s.link]
<1>1. /\ file \in File /\ file.sections \in Seq(Section) /\ file.bytes \in Seq(Cell)
      /\ sectionsHeaders = file.sections
      /\ sectionsData \in Seq(Seq(Cell)) /\ Len(sectionsData) = Len(sectionsHeaders)
      /\ Linked(file) /\ Roomy(file)
  BY FilesAssumption DEF LoadedInv, ReadInv, TypeInv, TypeOK, HeadersOfFile, File
<1>2. /\ e \in DOMAIN sectionsData /\ e \in DOMAIN file.sections
      /\ s \in Section /\ s.type = "symtab"
  BY <1>1, ElementOfSeq DEF SymbolTables
<1>3. s.size \in Nat /\ s.offset \in Nat /\ s.link \in Nat
  BY <1>2 DEF Section
<1>4. sectionsData[e] = Content(file, s)
  BY <1>1, <1>2 DEF LoadedInv, ReadInv
<1>5. sym = Content(file, s)[k] /\ sym = file.bytes[s.offset + k]
  BY <1>4 DEF Content
<1>6. sym \in Symbol /\ IsName(file, s.link, sym.name)
  BY <1>1, <1>2, <1>5 DEF Linked
<1>7. sym.name \in Nat
  BY <1>6 DEF Symbol
<1>8. getSymbolName(s, sym) = TextOf(s, sym)
  BY <1>6, <1>7, NameIsFound DEF getSymbolName, TextOf
<1>9. TextOf(s, sym) \in Text
  <2>1. /\ s.link \in DOMAIN file.sections
        /\ sym.name < names.size
        /\ file.bytes[names.offset + sym.name + 1].kind = "string"
    BY <1>6 DEF IsName
  <2>2. names \in Section
    BY <1>1, <2>1, ElementOfSeq
  <2>3. names.offset \in Nat /\ names.size \in Nat
    BY <2>2 DEF Section
  <2>4. names.offset + names.size <= Len(file.bytes)
    BY <1>1, <2>1 DEF Roomy
  <2>5. names.offset + sym.name + 1 \in DOMAIN file.bytes
    <3>1. /\ Len(file.bytes) \in Nat
          /\ DOMAIN file.bytes = 1 .. Len(file.bytes)
      BY <1>1
    <3>2. ASSUME NEW a \in Nat, NEW b \in Nat, NEW c \in Nat, NEW n \in Nat,
                 a + b <= n, c < b
          PROVE  a + c + 1 \in 1 .. n
      BY <3>2
    <3> QED
      BY <1>7, <2>1, <2>3, <2>4, <3>1, <3>2
  <2>6. file.bytes[names.offset + sym.name + 1] \in Cell
    BY <1>1, <2>5, ElementOfSeq
  <2>7. ASSUME NEW cell \in Cell, cell.kind = "string" PROVE cell.text \in Text
    BY <2>7 DEF Cell, Symbol, Other, Zero
  <2> QED
    BY <2>1, <2>6, <2>7 DEF TextOf
<1> QED
  BY <1>1, <1>5, <1>6, <1>8, <1>9

\* The functions with a name that the file has in one symbol table.
FunctionsInTable(e) ==
  LET s == file.sections[e]
  IN  {<<sym.value, Bare[TextOf(s, sym)]>> :
         sym \in {c \in {Content(file, s)[k] : k \in 1 .. s.size} :
                    c.func /\ TextOf(s, c) # ""}}

\* A function with a name puts one entry on the list, and another symbol none.
LEMMA EntryOfSymbol ==
  ASSUME \A f \in Files : Roomy(f), LoadedInv, phase = "loaded",
         NEW e \in SymbolTables, NEW k \in 1 .. file.sections[e].size
  PROVE  LET s == file.sections[e]
             sym == Content(file, s)[k]
         IN  /\ FunctionEntry(sectionsHeaders[e], sectionsData[e][k]) \in Seq(Value \X Text)
             /\ Elements(FunctionEntry(sectionsHeaders[e], sectionsData[e][k])) =
                  IF sym.func /\ TextOf(s, sym) # ""
                  THEN {<<sym.value, Bare[TextOf(s, sym)]>>} ELSE {}
<1> DEFINE s == file.sections[e]
           sym == sectionsData[e][k]
           pair == <<sym.value, Bare[TextOf(s, sym)]>>
<1>1. /\ sectionsHeaders[e] = s /\ sym = Content(file, s)[k] /\ sym \in Symbol
      /\ getSymbolName(s, sym) = TextOf(s, sym) /\ TextOf(s, sym) \in Text
  BY SymbolIsRead
<1>2. sym.kind = "symbol" /\ sym.value \in Value /\ sym.func \in BOOLEAN
  BY <1>1 DEF Symbol
<1>3. pair \in Value \X Text
  <2>1. Bare[TextOf(s, sym)] \in Text
    BY <1>1, FilesAssumption
  <2> QED
    BY <1>2, <2>1
<1>4. FunctionEntry(s, sym) =
        IF sym.func /\ TextOf(s, sym) # "" THEN <<pair>> ELSE <<>>
  BY <1>1, <1>2 DEF FunctionEntry, IsFunction
<1>5. <<pair>> \in Seq(Value \X Text) /\ Elements(<<pair>>) = {pair}
  <2> HIDE DEF pair
  <2> QED
    BY <1>3 DEF Elements
<1>6. <<>> \in Seq(Value \X Text) /\ Elements(<<>>) = {}
  BY DEF Elements
<1>7. /\ FunctionEntry(s, sym) \in Seq(Value \X Text)
      /\ Elements(FunctionEntry(s, sym)) =
           IF sym.func /\ TextOf(s, sym) # "" THEN {pair} ELSE {}
  <2> HIDE DEF pair
  <2>1. CASE sym.func /\ TextOf(s, sym) # ""
    BY <1>4, <1>5, <2>1
  <2>2. CASE ~(sym.func /\ TextOf(s, sym) # "")
    BY <1>4, <1>6, <2>2
  <2> QED
    BY <2>1, <2>2
<1> QED
  BY <1>1, <1>7

\* getFunctionsList's inner loop finds the functions of one symbol table.
LEMMA TableIsListed ==
  ASSUME \A f \in Files : Roomy(f), LoadedInv, phase = "loaded",
         NEW e \in SymbolTables
  PROVE  /\ FunctionsOf(e) \in Seq(Value \X Text)
         /\ Elements(FunctionsOf(e)) = FunctionsInTable(e)
<1> DEFINE s == file.sections[e]
           n == s.size
           parts == [k \in 1 .. n |->
                       FunctionEntry(sectionsHeaders[e], sectionsData[e][k])]
           C(k) == Content(file, s)[k]
           Pair(c) == <<c.value, Bare[TextOf(s, c)]>>
           Listed(c) == c.func /\ TextOf(s, c) # ""
<1>1. n \in Nat /\ sectionsHeaders[e] = s
  <2>1. /\ file.sections \in Seq(Section) /\ sectionsHeaders = file.sections
        /\ e \in DOMAIN file.sections
    BY FilesAssumption
       DEF LoadedInv, ReadInv, TypeInv, TypeOK, HeadersOfFile, File, SymbolTables
  <2>2. s \in Section
    BY <2>1, ElementOfSeq
  <2> QED
    BY <2>1, <2>2 DEF Section
<1>2. ASSUME NEW k \in 1 .. n
      PROVE  /\ parts[k] \in Seq(Value \X Text)
             /\ Elements(parts[k]) = IF Listed(C(k)) THEN {Pair(C(k))} ELSE {}
  BY EntryOfSymbol
<1>3. parts \in Seq(Seq(Value \X Text)) /\ DOMAIN parts = 1 .. n
  <2>1. parts = [k \in 1 .. n |-> parts[k]]
    OBVIOUS
  <2>2. \A k \in 1 .. n : parts[k] \in Seq(Value \X Text)
    BY <1>2
  <2> HIDE DEF parts
  <2> QED
    BY <1>1, <2>1, <2>2, PartsType
<1>4. FunctionsOf(e) = FlattenSeq(parts)
  BY <1>1 DEF FunctionsOf, getSymbolCount
<1>5. FunctionsInTable(e) =
        {Pair(c) : c \in {d \in {C(k) : k \in 1 .. n} : Listed(d)}}
  BY DEF FunctionsInTable
<1> HIDE DEF parts
<1>6. /\ FlattenSeq(parts) \in Seq(Value \X Text)
      /\ Elements(FlattenSeq(parts)) = UNION {Elements(parts[k]) : k \in DOMAIN parts}
  BY <1>3, FlattenElements
<1> HIDE DEF C, Pair, Listed
<1>7. UNION {Elements(parts[k]) : k \in DOMAIN parts} = FunctionsInTable(e)
  <2>1. ASSUME NEW k \in 1 .. n PROVE Elements(parts[k]) \subseteq FunctionsInTable(e)
    BY <1>2, <1>5
  <2>2. ASSUME NEW f \in FunctionsInTable(e)
        PROVE  \E k \in 1 .. n : f \in Elements(parts[k])
    BY <1>2, <1>5
  <2> QED
    BY <1>3, <2>1, <2>2
<1> QED
  BY <1>4, <1>6, <1>7

\* getFunctionsList puts the lists of the tables together.
LEMMA ListIsComplete ==
  ASSUME \A f \in Files : Roomy(f), LoadedInv, phase = "loaded"
  PROVE  /\ getFunctionsList \in Seq(Value \X Text)
         /\ Elements(getFunctionsList) = FunctionsInFile
<1> DEFINE tables == getSectionHeaderIndexesByType("symtab")
           parts == [i \in DOMAIN tables |-> FunctionsOf(tables[i])]
<1>1. tables \in Seq(Nat) /\ Elements(tables) = SymbolTables
  <2>1. sectionsHeaders \in Seq(Section) /\ sectionsHeaders = file.sections
    BY DEF LoadedInv, ReadInv, TypeInv, TypeOK, HeadersOfFile
  <2> QED
    BY <2>1, TablesAreFound DEF SymbolTables
<1>2. getFunctionsList = FlattenSeq(parts)
  BY DEF getFunctionsList
<1> HIDE DEF tables
<1>3. ASSUME NEW i \in DOMAIN tables
      PROVE  /\ tables[i] \in SymbolTables
             /\ parts[i] \in Seq(Value \X Text)
             /\ Elements(parts[i]) = FunctionsInTable(tables[i])
  <2>1. tables[i] \in SymbolTables
    BY <1>1 DEF Elements
  <2>2. /\ FunctionsOf(tables[i]) \in Seq(Value \X Text)
        /\ Elements(FunctionsOf(tables[i])) = FunctionsInTable(tables[i])
    BY <2>1, TableIsListed
  <2> QED
    BY <2>1, <2>2
<1>4. parts \in Seq(Seq(Value \X Text)) /\ DOMAIN parts = DOMAIN tables
  <2>1. /\ Len(tables) \in Nat /\ DOMAIN tables = 1 .. Len(tables)
        /\ parts = [i \in 1 .. Len(tables) |-> parts[i]]
    BY <1>1
  <2> HIDE DEF parts
  <2> QED
    BY <1>3, <2>1, PartsType
<1> HIDE DEF parts
<1>5. /\ FlattenSeq(parts) \in Seq(Value \X Text)
      /\ Elements(FlattenSeq(parts)) = UNION {Elements(parts[i]) : i \in DOMAIN parts}
  BY <1>4, FlattenElements
<1>6. FunctionsInFile = UNION {FunctionsInTable(e) : e \in SymbolTables}
  BY DEF FunctionsInFile, FunctionsInTable, SymbolTables, TextOf
<1>7. UNION {Elements(parts[i]) : i \in DOMAIN parts} = FunctionsInFile
  <2>1. ASSUME NEW i \in DOMAIN parts PROVE Elements(parts[i]) \subseteq FunctionsInFile
    BY <1>3, <1>4, <1>6
  <2>2. ASSUME NEW e \in SymbolTables
        PROVE  \E i \in DOMAIN parts : Elements(parts[i]) = FunctionsInTable(e)
    <3>1. PICK i \in DOMAIN tables : tables[i] = e
      BY <1>1 DEF Elements
    <3> QED
      BY <1>3, <1>4, <3>1
  <2> QED
    BY <1>6, <2>1, <2>2
<1> QED
  BY <1>2, <1>5, <1>7

\* getFunctionAddress stops at an entry of the list with the name, if it has one.
LEMMA AddressIsListed ==
  ASSUME \A f \in Files : Roomy(f), LoadedInv, phase = "loaded",
         NEW f \in FunctionsInFile
  PROVE  <<getFunctionAddress(f[2]), f[2]>> \in FunctionsInFile
<1> DEFINE list == getFunctionsList
           found == {i \in DOMAIN list : list[i][2] = f[2]}
           first == CHOOSE i \in found : \A j \in found : i <= j
<1>1. list \in Seq(Value \X Text) /\ Elements(list) = FunctionsInFile
  BY ListIsComplete
<1>2. getFunctionAddress(f[2]) = list[first][1]
  BY DEF getFunctionAddress
<1> HIDE DEF list
<1>3. found \subseteq Nat /\ found # {}
  <2>1. DOMAIN list \subseteq Nat
    BY <1>1
  <2>2. PICK i \in DOMAIN list : list[i] = f
    BY <1>1 DEF Elements
  <2> QED
    BY <2>1, <2>2
<1>4. first \in found
  <2> HIDE DEF found
  <2> QED
    BY <1>3, LeastElement
<1> HIDE DEF first
<1>5. first \in DOMAIN list /\ list[first][2] = f[2]
  BY <1>4
<1>6. list[first] \in Value \X Text /\ list[first] \in FunctionsInFile
  BY <1>1, <1>5, ElementOfSeq DEF Elements
<1>7. list[first] = <<list[first][1], f[2]>>
  BY <1>5, <1>6
<1> QED
  BY <1>2, <1>6, <1>7

\* If even the .bss sections would end within the file, `functions' and every
\* breakpoint by name work on exactly the functions the file has in its symbol
\* tables: no table, entry or name is missed by the loops over them, and a
\* look-up never ends behind the list for a function of the file.
THEOREM FunctionsAlwaysListed ==
  ASSUME \A f \in Files : Roomy(f)
  PROVE  Spec => []FunctionsAreListed
<1>1. LoadedInv => FunctionsAreListed
  <2> SUFFICES ASSUME LoadedInv, phase = "loaded"
               PROVE  /\ Elements(getFunctionsList) = FunctionsInFile
                      /\ \A f \in FunctionsInFile :
                           <<getFunctionAddress(f[2]), f[2]>> \in FunctionsInFile
    BY DEF FunctionsAreListed, Elements
  <2> QED
    BY ListIsComplete, AddressIsListed
<1>2. LoadedInv /\ [Next]_vars => LoadedInv'
  BY LoadedStep
<1> QED
  BY LoadedInit, <1>1, <1>2, PTL DEF Spec
================================================================================
