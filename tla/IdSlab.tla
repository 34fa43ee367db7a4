------------------------------- MODULE IdSlab -------------------------------
(***************************************************************************)
(* IdSlab (backend/src/id_slab.rs): a slab whose slots are used again, and *)
(* ids of a slot and a generation, by which the backend and the frontend   *)
(* name an instance in messages that may arrive after it is gone.          *)
(***************************************************************************)
EXTENDS Naturals

CONSTANTS
  Index,          \* the slots
  Value,          \* what is kept in them
  Vacant,
  Generations     \* ids handed out at most, fewer than there are values of usize

Id == Index \X (0 .. Generations - 1)
Entry == [id : Id, value : Value]

SlabAssumption ==
  Generations \in Nat /\ Vacant \notin Value \cup Entry

VARIABLES
  slots,          \* what each slot has, and its id
  generation      \* instances_generation: of the id that is handed out next

slab == <<slots, generation>>

SlabType ==
  /\ slots \in [Index -> Entry \cup {Vacant}]
  /\ generation \in 0 .. Generations

SlabInit ==
  /\ slots = [i \in Index |-> Vacant]
  /\ generation = 0

\* get and get_mut: nothing if the slot has another generation by now.
\* (A bug: the generation is not compared.)
get_by_index(id) == IF slots[id[1]] = Vacant THEN Vacant ELSE slots[id[1]].value
get(id) ==
  IF slots[id[1]] # Vacant /\ slots[id[1]].id = id THEN slots[id[1]].value ELSE Vacant

\* insert, into a slot the slab chooses, with the generation that is next.
insert(v) ==
  /\ generation < Generations
  /\ \E i \in Index :
       /\ slots[i] = Vacant
       /\ slots' = [slots EXCEPT ![i] = [id |-> <<i, generation>>, value |-> v]]
  /\ generation' = generation + 1

\* What is reached through get_mut is changed in place.
update(id, v) ==
  /\ get(id) # Vacant
  /\ slots' = [slots EXCEPT ![id[1]].value = v]
  /\ UNCHANGED generation

\* remove of an id; nothing if it names nothing.
remove(id) ==
  /\ slots' = IF get(id) = Vacant THEN slots ELSE [slots EXCEPT ![id[1]] = Vacant]
  /\ UNCHANGED generation

\* retain_mut and drain: of the values, those that are kept.
retain(kept) ==
  /\ slots' = [i \in Index |-> IF slots[i] # Vacant /\ slots[i].value \in kept THEN slots[i] ELSE Vacant]
  /\ UNCHANGED generation

Stored == {slots[i].value : i \in {j \in Index : slots[j] # Vacant}}
Ids == {slots[i].id : i \in {j \in Index : slots[j] # Vacant}}

SlabNext ==
  \/ \E v \in Value : insert(v) \/ \E id \in Id : update(id, v)
  \/ \E id \in Id : remove(id)
  \/ \E kept \in SUBSET Value : retain(kept)

SlabSpec == SlabInit /\ [][SlabNext]_slab

\* The map that an IdSlab is.
Map == INSTANCE IdMap WITH None <- Vacant,
         map <- [id \in Id |-> get(id)], spent <- {id \in Id : id[2] < generation}

\* An id names what it was handed out for, in memory that is used again and
\* again, and nothing when that is gone.
ImplementsIdMap == Map!Spec
=============================================================================
