------------------------------- MODULE IdMap -------------------------------
(***************************************************************************)
(* What an id promises: it names one thing from the time it is handed out  *)
(* until that thing is gone, and nothing ever after.                       *)
(***************************************************************************)
CONSTANTS Id, Value, None

VARIABLES
  map,    \* what each id names, or None
  spent   \* ids that are not handed out any more

Init == map = [id \in Id |-> None] /\ spent = {}

Insert(id, v) ==
  /\ id \notin spent
  /\ map' = [map EXCEPT ![id] = v]
  /\ spent \cup {id} \subseteq spent'

Put(id, v) ==
  /\ map[id] # None
  /\ map' = [map EXCEPT ![id] = v]
  /\ UNCHANGED spent

\* Some of the things are gone.
Remove ==
  /\ map' \in [Id -> Value \cup {None}]
  /\ \A id \in Id : map'[id] \in {map[id], None}
  /\ UNCHANGED spent

Next ==
  \/ Remove
  \/ \E id \in Id, v \in Value : Insert(id, v) \/ Put(id, v)

Spec == Init /\ [][Next]_<<map, spent>>
=============================================================================
