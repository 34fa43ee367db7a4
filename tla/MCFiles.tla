------------------------------- MODULE MCFiles -------------------------------
(* What the launcher keeps in step with the file system, one behaviour for     *)
(* each: the directories it watches, a file of settings, what instances share,  *)
(* the list of an instance's mods, the summaries of their files, and the         *)
(* launcher itself.                                                              *)
EXTENDS MCFileWatching, PersistentFile, SelfUpdate, Syncing, ContentList, ContentSummaries, TLC

CONSTANTS i1, i2, h1, h2, mrpack, zip, t1, t2

VARIABLE part

MCInstance == {i1, i2}

\* Two packs: Modrinth's wants both files, Curseforge's one of them.
MCWants == mrpack :> {h1, h2} @@ zip :> {h1}
MCThread == {t1, t2}
Symmetry == Permutations(MCThread) \cup Permutations(MCInstance)

MCKinds == {"exe", "app"}

FilesInit ==
  /\ part \in {"watching", "settings", "sync", "mods", "summaries", "itself"}
  /\ Init /\ PersistentInit /\ SyncInit /\ ListInit /\ SummariesInit /\ UpdateInit
  /\ part # "settings" => file = Torn
  /\ part # "mods" => on = {} /\ disabled = {}
  /\ part # "summaries" => \A c \in Child : library[c] = "none"
  /\ part # "itself" => kind = "app"

FilesNext ==
  /\ UNCHANGED part
  /\ \/ /\ part = "watching" /\ Next
        /\ UNCHANGED <<settings, syncing, listing, summaries_vars, update_vars>>
     \/ /\ part = "settings" /\ PersistentNext
        /\ UNCHANGED <<vars, syncing, listing, summaries_vars, update_vars>>
     \/ /\ part = "sync" /\ SyncNext
        /\ UNCHANGED <<vars, settings, listing, summaries_vars, update_vars>>
     \/ /\ part = "mods" /\ ListNext
        /\ UNCHANGED <<vars, settings, syncing, summaries_vars, update_vars>>
     \/ /\ part = "summaries" /\ SummariesNext
        /\ UNCHANGED <<vars, settings, syncing, listing, update_vars>>
     \/ /\ part = "itself" /\ UpdateNext
        /\ UNCHANGED <<vars, settings, syncing, listing, summaries_vars>>

FilesSpec ==
  FilesInit /\ [][FilesNext]_<<part, vars, settings, syncing, listing, summaries_vars, update_vars>>
=============================================================================
