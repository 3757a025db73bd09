---------------------------------- MODULE MCElf ----------------------------------
(***************************************************************************)
(* Small files for Elf: one section of each type behind the null section,  *)
(* in every order, laid out one after the other as a linker does. A .bss   *)
(* takes no room in the file. Behind the sections come the header tables.  *)
(***************************************************************************)
EXTENDS Elf, FiniteSets

MCText == {"", "main", "hidden(int)", "hidden", "counter"}
MCBare == [t \in MCText |-> IF t = "hidden(int)" THEN "hidden" ELSE t]
MCValue == {0, 3, 5, 7}

Code == [kind |-> "code"]
String(t) == [kind |-> "string", text |-> t]
Sym(f, v, n) == [kind |-> "symbol", func |-> f, value |-> v, name |-> n]

\* A static function that two objects define, a variable, an unnamed function,
\* an imported one.
Symbols == <<Sym(FALSE, 0, 0), Sym(TRUE, 3, 2), Sym(FALSE, 5, 3), Sym(TRUE, 3, 0),
             Sym(TRUE, 7, 2), Sym(TRUE, 0, 1)>>
Strings == <<String(""), String("main"), String("hidden(int)"), String("counter")>>

Types == {"progbits", "nobits", "symtab", "strtab"}
Orders == {o \in [1 .. 4 -> Types] : Cardinality({o[i] : i \in 1 .. 4}) = 4}

Layout(order, text, bss, tail) ==
  LET Data(t) == CASE t = "progbits" -> [i \in 1 .. text |-> Code]
                   [] t = "symtab" -> Symbols
                   [] t = "strtab" -> Strings
                   [] OTHER -> <<>>
      Start[i \in 1 .. 5] ==
        IF i = 1 THEN 1 ELSE Start[i - 1] + Len(Data(order[i - 1]))
      Position(t) == CHOOSE i \in 1 .. 4 : order[i] = t
      Header(i) == [type |-> order[i],
                    name |-> i - 1,
                    offset |-> Start[i],
                    size |-> IF order[i] = "nobits" THEN bss ELSE Len(Data(order[i])),
                    link |-> IF order[i] = "symtab" THEN Position("strtab") + 1 ELSE 0]
  IN  [magic |-> TRUE,
       bytes |-> <<Code>> \o Data(order[1]) \o Data(order[2]) \o Data(order[3])
                   \o Data(order[4]) \o [i \in 1 .. tail |-> Code],
       sections |-> <<[type |-> "null", name |-> 0, offset |-> 0, size |-> 0,
                       link |-> 0]>>
                      \o [i \in 1 .. 4 |-> Header(i)],
       shstrndx |-> Position("strtab") + 1]

NotElf == [magic |-> FALSE, bytes |-> <<Code>>, sections |-> <<>>, shstrndx |-> 0]

Layouts(bss) ==
  {Layout(o, 2, b, tail) : o \in Orders, b \in bss, tail \in {0, 3}}

RoomyFiles == {f \in Layouts({0, 1, 3, 5, 12}) : Roomy(f)} \cup {NotElf}

LargeBss == Layouts({20})
================================================================================
