--------------------------- MODULE ContentSummaries ---------------------------
(***************************************************************************)
(* The summaries of content files (backend/src/mod_metadata.rs), which are *)
(* kept by hash for all of a run.  That of a modpack holds those of its    *)
(* children, as far as they are in the library; one that could not be had  *)
(* is noted, so that the pack's summary is dropped when it comes.          *)
(*                                                                         *)
(* Loads of the instances' folders read summaries on threads of their own, *)
(* beside an install, of which there is one at a time and which downloads  *)
(* the children of a pack side by side.                                    *)
(***************************************************************************)
EXTENDS Naturals

CONSTANTS
  Modpack,     \* modpacks
  Wants,       \* Wants[p]: the files that p wants
  Curseforge,  \* the packs that know a child by a file id, and not by its hash
  Thread,      \* slots for readers
  NoPack,      \* no summary, nothing to do
  MaxInstalls, \* bound: installs
  MaxBreaks    \* bound: downloads that fail, and ends of the launcher

Child == UNION {Wants[p] : p \in Modpack}

ASSUME SummariesAssumption == Curseforge \subseteq Modpack /\ NoPack \notin Modpack

VARIABLES
  library,      \* the file of each child in the library
  by_hash,      \* the summaries of the children ...
  packs,        \* ... and of the packs: what each has of a child
  missing,      \* parents_by_missing_child
  infos,        \* cached_curseforge_info
  missing_info, \* parents_by_missing_curseforge_id
  reader,       \* what each thread does
  install,      \* how far the install is with each child
  installs, breaks,
  torn,         \* children that were read as they were written (history)
  raced         \* packs that were read as a child came (history)

kept == <<by_hash, packs, missing, infos, missing_info>>
history == <<installs, breaks, torn, raced>>
summaries_vars == <<library, kept, reader, install, history>>

NoReader == [pack |-> NoPack, at |-> [c \in Child |-> "done"], seen |-> [c \in Child |-> "none"]]

SummariesType ==
  /\ library \in [Child -> {"none", "part", "whole"}]
  /\ by_hash \in [Child -> {"none", "unknown", "known"}]
  /\ packs \in [Modpack -> [Child -> {"none", "info", "unknown", "known"}] \cup {NoPack}]
  /\ missing \in [Child -> SUBSET Modpack] /\ missing_info \in [Child -> SUBSET Modpack]
  /\ infos \subseteq Child
  /\ reader \in [Thread -> [pack : Modpack \cup {NoPack},
       at : [Child -> {"look", "ask", "open", "drop", "note", "done"}],
       seen : [Child -> {"none", "info", "unknown", "known"}]]]
  /\ install \in [Child -> {"none", "want", "info", "stream", "get", "drop"}]

\* The library is what earlier runs have left.
SummariesInit ==
  /\ library \in [Child -> {"none", "whole"}]
  /\ by_hash = [c \in Child |-> "none"]
  /\ packs = [p \in Modpack |-> NoPack]
  /\ missing = [c \in Child |-> {}] /\ missing_info = [c \in Child |-> {}]
  /\ infos = {}
  /\ reader = [t \in Thread |-> NoReader]
  /\ install = [c \in Child |-> "none"]
  /\ installs = 0 /\ breaks = 0
  /\ torn = {} /\ raced = {}

-----------------------------------------------------------------------------
(* put, and what comes of it. *)

\* load_mod_summary: a file of which a part is there cannot be read.
summary_of(c) == IF library[c] = "whole" THEN "known" ELSE "unknown"

Put(c, summary) == by_hash' = [by_hash EXCEPT ![c] = summary]

\* The packs that are without c are told, and read again when they are wanted.
Told(parents) == packs' = [p \in Modpack |-> IF p \in parents THEN NoPack ELSE packs[p]]

\* Who reads p and has made up its mind about c.
Reading(c) == {reader[t].pack : t \in {t \in Thread :
  /\ reader[t].pack # NoPack /\ c \in Wants[reader[t].pack]
  /\ reader[t].seen[c] \in {"none", "info"} /\ reader[t].at[c] # "look"}}

\* (A bug: the first of the packs alone.)
drop_one_parent(c) == {p \in missing[c] : p = CHOOSE q \in missing[c] : TRUE}
drop_parents(c) == missing[c]

DropParents(c) ==
  /\ Told(drop_parents(c))
  /\ missing' = [missing EXCEPT ![c] = {}]
  /\ raced' = raced \cup Reading(c)

-----------------------------------------------------------------------------
(* get_file of a pack, by a load of an instance's content: its children are    *)
(* looked at side by side.                                                     *)

GetPack(t, p) ==
  /\ reader[t].pack = NoPack /\ packs[p] = NoPack
  /\ reader' = [reader EXCEPT ![t] = [NoReader EXCEPT
       !.pack = p, !.at = [c \in Child |-> IF c \in Wants[p] THEN "look" ELSE "done"]]]
  /\ UNCHANGED <<library, kept, install, history>>

IsAt(t, c, pc) == reader[t].pack # NoPack /\ reader[t].at[c] = pc
Step(t, c, pc) == reader' = [reader EXCEPT ![t].at[c] = pc]
Sees(t, c, pc, summary) == reader' = [reader EXCEPT ![t].at[c] = pc, ![t].seen[c] = summary]

\* cached_curseforge_info and by_hash are read, each behind its own lock.
Look(t, c) ==
  /\ IsAt(t, c, "look")
  /\ IF reader[t].pack \notin Curseforge THEN Step(t, c, "ask")
     ELSE IF c \in infos THEN Sees(t, c, "ask", "info")
     ELSE Step(t, c, "note")
  /\ UNCHANGED <<library, kept, install, history>>

Ask(t, c) ==
  /\ IsAt(t, c, "ask")
  /\ IF by_hash[c] # "none" THEN Sees(t, c, "done", by_hash[c]) ELSE Step(t, c, "open")
  /\ UNCHANGED <<library, kept, install, history>>

\* The file in the library is taken by its name for what it has to be.
Open(t, c) ==
  /\ IsAt(t, c, "open")
  /\ IF library[c] = "none"
     THEN Step(t, c, "note") /\ UNCHANGED <<by_hash, torn>>
     ELSE /\ Sees(t, c, "drop", summary_of(c))
          /\ Put(c, summary_of(c))
          /\ torn' = torn \cup (IF library[c] = "part" THEN {c} ELSE {})
  /\ UNCHANGED <<library, packs, missing, infos, missing_info, install, installs, breaks, raced>>

ReaderDrops(t, c) ==
  /\ IsAt(t, c, "drop")
  /\ Step(t, c, "done")
  /\ DropParents(c)
  /\ UNCHANGED <<library, by_hash, infos, missing_info, install, installs, breaks, torn>>

\* The pack is noted under what it is without: the id, or the hash.
note(t, c) ==
  IF reader[t].pack \in Curseforge /\ reader[t].seen[c] = "none"
  THEN missing_info' = [missing_info EXCEPT ![c] = @ \cup {reader[t].pack}] /\ UNCHANGED missing
  ELSE missing' = [missing EXCEPT ![c] = @ \cup {reader[t].pack}] /\ UNCHANGED missing_info

Note(t, c) ==
  /\ IsAt(t, c, "note")
  /\ Step(t, c, "done")
  /\ note(t, c)
  /\ UNCHANGED <<library, by_hash, packs, infos, install, history>>

PutPack(t) ==
  /\ reader[t].pack # NoPack /\ \A c \in Child : reader[t].at[c] = "done"
  /\ packs' = [packs EXCEPT ![reader[t].pack] = reader[t].seen]
  /\ reader' = [reader EXCEPT ![t] = NoReader]
  /\ UNCHANGED <<library, by_hash, missing, infos, missing_info, install, history>>

-----------------------------------------------------------------------------
(* DownloadContentChildren, and the install of a pack: all children, or those  *)
(* the pack's summary has no information about.                                *)

wanted(p) ==
  IF p \in Curseforge THEN {c \in Wants[p] : packs[p] = NoPack \/ packs[p][c] = "none"}
  ELSE Wants[p]

StartInstall(p) ==
  /\ \A c \in Child : install[c] = "none"
  /\ installs < MaxInstalls
  /\ wanted(p) # {}
  /\ install' = [c \in Child |-> IF c \notin wanted(p) THEN "none"
                                 ELSE IF p \in Curseforge THEN "info" ELSE "want"]
  /\ installs' = installs + 1
  /\ UNCHANGED <<library, kept, reader, breaks, torn, raced>>

Go(c, pc) == install' = [install EXCEPT ![c] = pc]

\* Those who wait for an information are told as well.
set_cached_curseforge_info(c) ==
  /\ install[c] = "info"
  /\ Go(c, "want")
  /\ infos' = infos \cup {c}
  /\ Told(missing_info[c])
  /\ missing_info' = [missing_info EXCEPT ![c] = {}]
  /\ raced' = raced \cup {p \in Reading(c) : p \in Curseforge}
  /\ UNCHANGED <<library, by_hash, missing, reader, installs, breaks, torn>>

\* download_file_into_library_inner: the file is checked, or created and filled.
RequestFile(c) ==
  /\ install[c] = "want"
  /\ IF library[c] = "whole" THEN Go(c, "get") /\ UNCHANGED library
     ELSE Go(c, "stream") /\ library' = [library EXCEPT ![c] = "part"]
  /\ UNCHANGED <<kept, reader, history>>

Receive(c) ==
  /\ install[c] = "stream"
  /\ library' = [library EXCEPT ![c] = "whole"]
  /\ Go(c, "get")
  /\ UNCHANGED <<kept, reader, history>>

\* The author does not allow the download, it breaks off, or its data are wrong
\* and the file is removed; the others of the pack's children are dropped
\* where they wait.
FailInstall(c) ==
  /\ install[c] \in {"info", "want", "stream"}
  /\ breaks < MaxBreaks
  /\ breaks' = breaks + 1
  /\ library' \in {library} \cup (IF install[c] = "stream" THEN {[library EXCEPT ![c] = "none"]} ELSE {})
  /\ install' = [k \in Child |-> IF install[k] \in {"get", "drop"} THEN install[k] ELSE "none"]
  /\ UNCHANGED <<kept, reader, installs, torn, raced>>

\* get_path of the file, by what is in it.
Get(c) ==
  /\ install[c] = "get"
  /\ IF by_hash[c] = "none" THEN Put(c, "known") /\ Go(c, "drop")
     ELSE UNCHANGED by_hash /\ Go(c, "none")
  /\ UNCHANGED <<library, packs, missing, infos, missing_info, reader, history>>

InstallDrops(c) ==
  /\ install[c] = "drop"
  /\ Go(c, "none")
  /\ DropParents(c)
  /\ UNCHANGED <<library, by_hash, infos, missing_info, reader, installs, breaks, torn>>

-----------------------------------------------------------------------------
\* The launcher ends and starts again, with what it has written of the infos.
StartAgain ==
  /\ breaks < MaxBreaks
  /\ breaks' = breaks + 1
  /\ by_hash' = [c \in Child |-> "none"]
  /\ packs' = [p \in Modpack |-> NoPack]
  /\ missing' = [c \in Child |-> {}] /\ missing_info' = [c \in Child |-> {}]
  /\ infos' \in {infos, {}}
  /\ reader' = [t \in Thread |-> NoReader]
  /\ install' = [c \in Child |-> "none"]
  /\ torn' = {} /\ raced' = {}
  /\ UNCHANGED <<library, installs>>

ReaderStep(t) ==
  \/ \E p \in Modpack : GetPack(t, p)
  \/ \E c \in Child : Look(t, c) \/ Ask(t, c) \/ Open(t, c) \/ ReaderDrops(t, c) \/ Note(t, c)
  \/ PutPack(t)

SummariesNext ==
  \/ \E t \in Thread : ReaderStep(t)
  \/ \E p \in Modpack : StartInstall(p)
  \/ \E c \in Child :
       set_cached_curseforge_info(c) \/ RequestFile(c) \/ Receive(c) \/ FailInstall(c) \/ Get(c) \/ InstallDrops(c)
  \/ StartAgain

SummariesSpec == SummariesInit /\ [][SummariesNext]_summaries_vars

-----------------------------------------------------------------------------
\* Somebody is about to tell the packs that are without c.
Dropping(c) == install[c] = "drop" \/ \E t \in Thread : IsAt(t, c, "drop")

\* A pack's summary that is kept has what there is of each child, or will be
\* dropped: whatever is without a child is noted under what it waits for, and
\* nobody waits for what has come.  Unless the pack was read as the child came:
\* then the note may be taken before the summary is kept, or left after.
PacksAreCurrent ==
  \A p \in Modpack \ raced : packs[p] # NoPack => \A c \in Wants[p] :
    /\ packs[p][c] = "none" /\ p \in Curseforge => c \notin infos /\ p \in missing_info[c]
    /\ packs[p][c] = "info" \/ (packs[p][c] = "none" /\ p \notin Curseforge) =>
         p \in missing[c] /\ (by_hash[c] = "none" \/ Dropping(c))

\* A child whose file nobody read while it was written is what its file says.
UnknownIsTorn == \A c \in Child : by_hash[c] = "unknown" => c \in torn

SummariesAreCurrent == SummariesType /\ PacksAreCurrent /\ UnknownIsTorn
=============================================================================
