---------------------------- MODULE MCGhidraMap ----------------------------
(***************************************************************************)
(* Instances of GhidraMap for TLC: map files as an earlier process or a    *)
(* human may have left them, and MCB chains with a program's own block, an *)
(* environment block of the same program, a free block, and a program too  *)
(* high in memory for the segment of its code.                             *)
(***************************************************************************)
EXTENDS GhidraMap

Entry(label, lo, hi, delta) ==
  [label |-> label, lo |-> lo, hi |-> hi, delta |-> delta, ok |-> TRUE]

\* No file, a range from an earlier session, a file with a malformed entry and
\* a repeated label.
Files ==
  { <<>>,
    <<Entry("a", 0, 1, 0)>>,
    <<Entry("a", 0, 1, 0), [Entry("b", 0, 2, 1) EXCEPT !.ok = FALSE],
      Entry("a", 1, 2, 0), Entry("b", 2, 3, 0)>> }

NoFile == { <<>> }

\* Para = 2, ComPara = 1: the PSP of the program at segment 3 takes bytes 6
\* and 7, its code starts at 8.
Program     == [segment |-> 2, size |-> 6, psp |-> 3]
Environment == [segment |-> 6, size |-> 4, psp |-> 3]
Free        == [segment |-> 1, size |-> 4, psp |-> 0]

High        == [segment |-> 5, size |-> 6, psp |-> 6]

Chains == { <<Program, Environment>>, <<Environment, Program>>,
            <<Free, Program>>, <<Program, High>>, <<>> }
=============================================================================
