----------------------------- MODULE MCBreakpoints -----------------------------
(***************************************************************************)
(* Small programs for Breakpoints. The numbers are byte addresses.         *)
(***************************************************************************)
EXTENDS Breakpoints, TLC

\* A loop over two-byte instructions with a conditional way out to exit at 8.
LoopInstr == {0, 2, 4, 6, 8}
LoopSucc == 0 :> {2} @@ 2 :> {4} @@ 4 :> {6} @@ 6 :> {2, 8} @@ 8 :> {}

\* One-byte instructions at 0 and 3 (a `push %rbp', a `ret'), a loop, exit at 6.
ShortInstr == {0, 1, 3, 4, 6}
ShortSucc == 0 :> {1} @@ 1 :> {3} @@ 3 :> {0, 4} @@ 4 :> {6} @@ 6 :> {}

\* The same instructions with a branch and a join instead of the loop.
ShortLineSucc == 0 :> {1, 3} @@ 1 :> {3} @@ 3 :> {4} @@ 4 :> {6} @@ 6 :> {}
================================================================================
