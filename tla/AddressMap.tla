----------------------------- MODULE AddressMap -----------------------------
(***************************************************************************)
(* What the Ghidra map promises a caller, whatever lists, positions, texts *)
(* and files it keeps: a table of ranges of Ghidra addresses, one for each *)
(* label, no two with an address in common.                                *)
(*                                                                         *)
(* To anchor a label sets its range and touches no other.  What has been   *)
(* saved is what the next process of the bridge starts with, without the   *)
(* live segments; changes since are lost with the process.                 *)
(***************************************************************************)
EXTENDS Integers

CONSTANTS
  Labels,    \* range labels
  Offsets,   \* live offsets
  Null       \* the segment of a range that is not anchored

VARIABLES
  table,     \* the ranges: [label, lo, hi, delta, seg]
  saved,     \* those the next process starts with
  dirty      \* may the table have changes that are not saved?

vars == <<table, saved, dirty>>

Others(label) == {r \in table : r.label # label}

Disjoint ==
  \A q, r \in table :
    q # r => q.label # r.label /\ (q.hi <= r.lo \/ r.hi <= q.lo)

Unanchored == {[r EXCEPT !.seg = Null] : r \in table}

\* What a Ghidra address translates to: the range it lies in decides.
Translation(g) ==
  {live \in {[seg |-> r.seg, off |-> g - r.delta] :
               r \in {q \in table : q.lo <= g /\ g < q.hi /\ q.seg # Null}} :
     live.off \in Offsets}

Init ==
  /\ Disjoint
  /\ table = Unanchored /\ saved = table
  /\ dirty = FALSE

AnchorLabel(label) ==
  /\ \E r \in table' : r.label = label /\ r.seg # Null
  /\ Others(label)' = Others(label)
  /\ Disjoint'
  /\ dirty' = TRUE
  /\ UNCHANGED saved

Save ==
  /\ dirty
  /\ saved' = Unanchored
  /\ dirty' = FALSE
  /\ UNCHANGED table

NextProcess ==
  /\ table' = saved
  /\ dirty' = FALSE
  /\ UNCHANGED saved

Next == (\E label \in Labels : AnchorLabel(label)) \/ Save \/ NextProcess

Spec == Init /\ [][Next]_vars
=============================================================================
