----------------------------- MODULE FreshCopy ------------------------------
(***************************************************************************)
(* What loading an instance's data promises the page that shows it: the    *)
(* page has a copy of the files' states that only ever moves forward, file *)
(* by file, and never shows a state a file has not been in.                *)
(***************************************************************************)
EXTENDS Naturals

CONSTANT Path

VARIABLES
  disk,   \* the number of changes made to each file
  copy    \* the state of each file that is shown

vars == <<disk, copy>>

Init ==
  /\ disk = [p \in Path |-> 0]
  /\ copy = [p \in Path |-> 0]

Change(p) ==
  /\ disk' = [disk EXCEPT ![p] = @ + 1]
  /\ UNCHANGED copy

Refresh ==
  /\ copy' \in [Path -> Nat]
  /\ \A p \in Path : copy[p] <= copy'[p] /\ copy'[p] <= disk[p]
  /\ UNCHANGED disk

Next == Refresh \/ \E p \in Path : Change(p)

Spec == Init /\ [][Next]_vars
=============================================================================
