--------------------------- MODULE PersistentFile ---------------------------
(***************************************************************************)
(* Persistent<T> (backend/src/persistent.rs): settings that are kept in    *)
(* memory and in a file, which the user may write as well; and write_safe  *)
(* (backend/src/lib.rs), by which the launcher writes all of its files.    *)
(***************************************************************************)
EXTENDS Naturals

CONSTANTS
  Setting,    \* settings, each on or off
  Torn,       \* a file that cannot be read
  MaxWrites   \* bound: writes by others and writes that fail

Settings == [Setting -> BOOLEAN]
Default == [s \in Setting |-> FALSE]

ASSUME TornAssumption == Torn \notin Settings /\ MaxWrites \in Nat

VARIABLES
  file,       \* what the file has
  temp,       \* what the temporary file has; Torn if there is none or a part of one
  data, stale,
  pc,         \* where modify is; "idle" if the lock is free; "down" if nothing runs
  event,      \* a change of the file has not been handled yet
  foreign,    \* the user's program is writing the file
  unwritten,  \* the last write failed (history)
  writes      \* counted

memory == <<data, stale>>
settings == <<file, temp, memory, pc, event, foreign, unwritten, writes>>

PersistentInit ==
  /\ file \in Settings \cup {Torn} /\ temp = Torn
  /\ data = Default /\ stale = FALSE /\ pc = "down" /\ event = FALSE
  /\ foreign = FALSE /\ unwritten = FALSE /\ writes = 0

\* load: an unreadable file is as good as none.
Load ==
  /\ pc = "down" /\ pc' = "idle"
  /\ data' = (IF file = Torn THEN Default ELSE file) /\ stale' = FALSE
  /\ unwritten' = FALSE
  /\ UNCHANGED <<file, temp, event, foreign, writes>>

\* load_from_disk: keeps what is in memory if the file cannot be read.
\* (A bug: what cannot be read is taken all the same.)
load_from_torn == IF stale THEN file ELSE data
load_from_disk == IF stale /\ file # Torn THEN file ELSE data

get ==
  /\ pc = "idle"
  /\ data' = load_from_disk /\ stale' = FALSE
  /\ unwritten' = IF stale /\ file # Torn THEN FALSE ELSE unwritten
  /\ UNCHANGED <<file, temp, pc, event, foreign, writes>>

mark_changed ==
  /\ pc = "idle" /\ event /\ event' = FALSE
  /\ stale' = TRUE
  /\ UNCHANGED <<file, temp, data, pc, foreign, unwritten, writes>>

\* modify, as far as write_safe.
modify(s) ==
  /\ pc = "idle" /\ pc' = "create"
  /\ data' = [load_from_disk EXCEPT ![s] = ~@]
  /\ stale' = FALSE /\ unwritten' = TRUE
  /\ UNCHANGED <<file, temp, event, foreign, writes>>

\* write_safe creates a temporary file, writes and syncs it, and renames it.
\* (A bug: the file itself is created and written.)
create_in_place ==
  /\ pc = "create" /\ pc' = "write"
  /\ file' = Torn
  /\ UNCHANGED <<temp, memory, event, foreign, unwritten, writes>>
create ==
  /\ pc = "create" /\ pc' = "write"
  /\ temp' = Torn
  /\ UNCHANGED <<file, memory, event, foreign, unwritten, writes>>
write ==
  /\ pc = "write" /\ pc' = "rename"
  /\ temp' = data
  /\ UNCHANGED <<file, memory, event, foreign, unwritten, writes>>
rename ==
  /\ pc = "rename" /\ pc' = "idle"
  /\ file' = temp /\ temp' = Torn /\ event' = TRUE
  /\ stale' = TRUE /\ unwritten' = FALSE
  /\ UNCHANGED <<data, foreign, writes>>

\* Any of the three fails; only a rename that fails takes the temporary file away.
fail ==
  /\ pc \in {"create", "write", "rename"} /\ pc' = "idle"
  /\ writes < MaxWrites /\ writes' = writes + 1
  /\ temp' = IF pc = "rename" THEN Torn ELSE temp
  /\ UNCHANGED <<file, memory, event, foreign, unwritten>>

\* The launcher is killed.
Crash ==
  /\ pc # "down" /\ pc' = "down"
  /\ event' = FALSE
  /\ UNCHANGED <<file, temp, memory, foreign, unwritten, writes>>

\* The user's program empties the file and writes it, or leaves it so.
ForeignStart ==
  /\ ~foreign /\ writes < MaxWrites /\ writes' = writes + 1
  /\ foreign' = TRUE /\ file' = Torn /\ event' = (pc # "down")
  /\ UNCHANGED <<temp, memory, pc, unwritten>>
ForeignEnd ==
  /\ foreign /\ foreign' = FALSE
  /\ file' \in Settings \cup {Torn} /\ event' = (pc # "down")
  /\ UNCHANGED <<temp, memory, pc, unwritten, writes>>

Launcher ==
  \/ Load \/ get \/ mark_changed \/ \E s \in Setting : modify(s)
  \/ create \/ write \/ rename \/ fail

PersistentNext == Launcher \/ Crash \/ ForeignStart \/ ForeignEnd

PersistentSpec == PersistentInit /\ [][PersistentNext]_settings

-----------------------------------------------------------------------------
PersistentType ==
  /\ file \in Settings \cup {Torn} /\ temp \in Settings \cup {Torn}
  /\ data \in Settings /\ stale \in BOOLEAN
  /\ pc \in {"down", "idle", "create", "write", "rename"}
  /\ event \in BOOLEAN /\ foreign \in BOOLEAN /\ unwritten \in BOOLEAN
  /\ writes \in 0 .. MaxWrites

\* When no change of the file is on its way, what the launcher goes by is what the
\* file has, but for a modification that could not be written (persistent.rs
\* ignores that).
MemoryIsFile ==
  pc = "idle" /\ ~stale /\ ~event /\ ~unwritten /\ file # Torn => data = file

\* The launcher, wherever it is stopped, leaves a file that it found readable.
FileStaysWhole == [][file # Torn /\ file' = Torn => foreign \/ foreign']_settings

\* What is in memory, in the file, and to be written, stays together.
SettingsAreKept == [](PersistentType /\ MemoryIsFile) /\ FileStaysWhole
=============================================================================
