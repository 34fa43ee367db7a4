------------------------------ MODULE SelfUpdate ------------------------------
(***************************************************************************)
(* How the launcher replaces itself (backend/src/update.rs): the check for *)
(* an update when it starts, the download, and the exchange of the         *)
(* executable, the AppImage or the app of macOS, by commands with the      *)
(* rights of an administrator where its own do not suffice. The launcher   *)
(* may end at any time; the commands go on without it.                     *)
(*                                                                         *)
(* A copy of the launcher is its version and whether it may be run. What   *)
(* passes the hash and the signature is the version they were made for.    *)
(***************************************************************************)
EXTENDS Naturals, Sequences

CONSTANTS
  Kinds,       \* UpdateInstallType: "exe", which stands for AppImages too, or "app"
  Nil,         \* nothing
  MaxVersion,  \* bound: releases
  MaxStarts    \* bound: starts of the launcher

\* Where a copy of the launcher may be, and what there is to say of one.
Place == {"old", "new"}
Copy == [version : 1 .. MaxVersion, runs : BOOLEAN]

ASSUME KindAssumption == Kinds \subseteq {"exe", "app"} /\ MaxVersion \in Nat \ {0}
ASSUME NilAssumption == Nil \notin Copy \cup {"success", "error"}

VARIABLES
  kind,
  renames,   \* the file name holds the version, which an update drops
  latest,    \* what the server has
  running,   \* the version that runs; Nil if none does
  checking,  \* check_for_updates is at work
  prompt,    \* the update that the title bar shows
  stage,     \* where install_update is
  to,        \* the version it installs
  installed, \* what is at the path of the launcher and at the new one
  fetched,   \* the temporary file, or the app that was extracted
  backup,    \* the app_backup folder
  shell,     \* the commands with elevated rights that are still to come
  outcome,   \* what the user was told; Nil before
  cut,       \* history: an update stopped in the middle: the launcher ended, a later
             \* command failed, or permissions could not be set
  before,    \* history: what was there before the update
  starts

\* What install_update and its commands leave alone.
outside == <<kind, renames, latest, running, checking, prompt, to, before, starts>>
update_vars == <<outside, stage, installed, fetched, backup, shell, outcome, cut>>

\* The path of the launcher: the new one, unless that has another name.
path == IF renames THEN "old" ELSE "new"

UpdateType ==
  /\ kind \in Kinds /\ latest \in 1 .. MaxVersion /\ running \in 1 .. MaxVersion \cup {Nil}
  /\ prompt \in 1 .. MaxVersion \cup {Nil} /\ outcome \in {"success", "error", Nil}
  /\ installed \in [Place -> Copy \cup {Nil}] /\ {fetched, backup} \subseteq Copy \cup {Nil}

UpdateInit ==
  /\ kind \in Kinds /\ renames \in BOOLEAN /\ (kind = "app" => ~renames)
  /\ latest = 1 /\ running = 1 /\ checking = TRUE /\ prompt = Nil /\ starts = 1
  /\ stage = "idle" /\ to = Nil /\ fetched = Nil /\ backup = Nil /\ shell = <<>>
  /\ installed = [p \in Place |-> IF p = path THEN [version |-> 1, runs |-> TRUE] ELSE Nil]
  /\ outcome = Nil /\ cut = FALSE /\ before = Nil

\* The server has a new version.
Release ==
  /\ latest < MaxVersion /\ latest' = latest + 1
  /\ UNCHANGED <<kind, renames, running, checking, prompt, stage, to, installed, fetched, backup,
                 shell, outcome, cut, before, starts>>

\* check_for_updates: only what is newer, for this architecture and this kind.
check_for_updates ==
  /\ checking /\ checking' = FALSE
  /\ prompt' \in IF latest > running THEN {latest, Nil} ELSE {Nil}
  /\ UNCHANGED <<kind, renames, latest, running, stage, to, installed, fetched, backup, shell, outcome,
                 cut, before, starts>>

\* The prompt's button: InstallUpdate. A bound: once in a run of the launcher.
Update ==
  /\ prompt # Nil /\ stage = "idle" /\ outcome = Nil /\ running # Nil /\ shell = <<>>
  /\ stage' = "download" /\ to' = prompt /\ before' = installed
  /\ fetched' = Nil /\ backup' = Nil
  /\ UNCHANGED <<kind, renames, latest, running, checking, prompt, installed, shell, outcome, cut,
                 starts>>

\* install_update, with an error or without: what it leaves is removed if that
\* can be.
End(result) ==
  /\ stage' = "idle" /\ outcome' = result
  /\ fetched' \in {fetched, Nil} /\ backup' \in {backup, Nil}

\* An error before there is anything to remove.
Fails ==
  /\ stage' = "idle" /\ outcome' = "error" /\ UNCHANGED <<fetched, backup>>

\* The bytes are what the hash and the signature were made for, or are refused.
Download ==
  /\ stage = "download"
  /\ \/ stage' = "write" /\ UNCHANGED <<outcome, fetched, backup>>
     \/ Fails
  /\ UNCHANGED <<outside, installed, shell, cut>>

\* write_new_exe: the temporary file may not be run yet.
write_new_exe ==
  /\ stage = "write" /\ kind # "app"
  /\ \/ stage' = "move" /\ fetched' = [version |-> to, runs |-> FALSE] /\ UNCHANGED <<outcome, backup>>
     \/ Fails
  /\ UNCHANGED <<outside, installed, shell, cut>>

\* Of an app, unpack and find_child_with_extension.
unpack ==
  /\ stage = "write" /\ kind = "app"
  /\ \/ stage' = "move" /\ fetched' = [version |-> to, runs |-> TRUE] /\ UNCHANGED <<outcome, backup>>
     \/ End("error")
  /\ UNCHANGED <<outside, installed, shell, cut>>

-----------------------------------------------------------------------------
(* An executable or an AppImage: move_new_exe_into. *)

move_renamed ==
  /\ stage = "move" /\ kind # "app"
  /\ installed' = [installed EXCEPT !["new"] = fetched] /\ fetched' = Nil
  /\ stage' = IF renames THEN "remove" ELSE "permit"
  /\ UNCHANGED <<outside, backup, shell, outcome, cut>>

\* The whole is one command: what follows a command that fails is not run.
move_denied ==
  /\ stage = "move" /\ kind # "app"
  /\ stage' = "elevated"
  /\ shell' = IF renames THEN <<"mv", "chmod", "rm">> ELSE <<"mv", "chmod">>
  /\ UNCHANGED <<outside, installed, fetched, backup, outcome, cut>>

move_failed ==
  /\ stage = "move" /\ kind # "app" /\ End("error")
  /\ UNCHANGED <<outside, installed, shell, cut>>

\* The new one is there: the old one may go. (A bug: it goes first.)
remove_first ==
  /\ stage = "move" /\ kind # "app" /\ renames /\ installed["old"] # Nil
  /\ installed' = [installed EXCEPT !["old"] = Nil]
  /\ UNCHANGED <<outside, stage, fetched, backup, shell, outcome, cut>>
remove_old ==
  /\ stage = "remove" /\ stage' = "permit"
  /\ installed' \in {installed, [installed EXCEPT !["old"] = Nil]}
  /\ UNCHANGED <<outside, fetched, backup, shell, outcome, cut>>

\* set_permissions, which may fail unnoticed.
permitted == [installed EXCEPT !["new"] = [version |-> installed["new"].version, runs |-> TRUE]]
permit ==
  /\ stage = "permit"
  /\ \/ installed' = permitted /\ UNCHANGED cut
     \/ UNCHANGED installed /\ cut' = TRUE
  /\ End("success")
  /\ UNCHANGED <<outside, shell>>

-----------------------------------------------------------------------------
(* An app: install_app_update. *)

\* The rename of the app to the backup succeeds. The test that follows is meant
\* for one that failed: the backup is there, so this ends in an error, and
\* install_update_inner removes the backup.
backup_moved ==
  /\ stage = "move" /\ kind = "app" /\ installed["new"] # Nil
  /\ installed' = [installed EXCEPT !["new"] = Nil] /\ backup' \in {installed["new"], Nil}
  /\ stage' = "idle" /\ outcome' = "error" /\ fetched' \in {fetched, Nil}
  /\ UNCHANGED <<outside, shell, cut>>

backup_denied ==
  /\ stage = "move" /\ kind = "app"
  /\ stage' = "elevated" /\ shell' = <<"backup", "mv">>
  /\ UNCHANGED <<outside, installed, fetched, backup, outcome, cut>>

backup_failed ==
  /\ stage = "move" /\ kind = "app" /\ End("error")
  /\ UNCHANGED <<outside, installed, shell, cut>>

\* The command with elevated rights failed: if there is a backup, another puts
\* it back.
undo ==
  /\ stage = "elevated" /\ kind = "app" /\ shell = <<"failed">> /\ backup # Nil
  /\ stage' = "undo" /\ shell' = <<"restore">>
  /\ UNCHANGED <<outside, installed, fetched, backup, outcome, cut>>

-----------------------------------------------------------------------------
(* The commands with elevated rights. *)

run_command(command) ==
  \/ /\ command = "mv" /\ installed' = [installed EXCEPT !["new"] = fetched]
     /\ fetched' = Nil /\ UNCHANGED backup
  \/ /\ command = "chmod" /\ installed' = permitted
     /\ UNCHANGED <<fetched, backup>>
  \/ /\ command = "rm" /\ installed' = [installed EXCEPT !["old"] = Nil]
     /\ UNCHANGED <<fetched, backup>>
  \/ /\ command = "backup" /\ installed' = [installed EXCEPT !["new"] = Nil]
     /\ backup' = installed["new"] /\ UNCHANGED fetched
  \/ /\ command = "restore" /\ installed' = [installed EXCEPT !["new"] = backup]
     /\ backup' = Nil /\ UNCHANGED fetched

\* A command may fail, or be refused by the user.
Shell ==
  /\ shell # <<>> /\ shell # <<"failed">>
  /\ \/ run_command(Head(shell)) /\ shell' = Tail(shell) /\ UNCHANGED cut
     \/ /\ shell' = (IF stage = "idle" THEN <<>> ELSE <<"failed">>)
        /\ cut' = (cut \/ Head(shell) \in {"chmod", "rm", "restore"})
        /\ UNCHANGED <<installed, fetched, backup>>
  /\ UNCHANGED <<outside, stage, outcome>>

\* status() returns.
elevated ==
  /\ stage = "elevated" /\ shell \in {<<>>, <<"failed">>}
  /\ ~(kind = "app" /\ shell = <<"failed">> /\ backup # Nil)
  /\ End(IF shell = <<>> THEN "success" ELSE "error")
  /\ shell' = <<>>
  /\ UNCHANGED <<outside, installed, cut>>

undone ==
  /\ stage = "undo" /\ shell \in {<<>>, <<"failed">>}
  /\ End("error") /\ shell' = <<>>
  /\ UNCHANGED <<outside, installed, cut>>

-----------------------------------------------------------------------------
\* The launcher ends, at any time.
Quit ==
  /\ running # Nil /\ running' = Nil
  /\ checking' = FALSE /\ prompt' = Nil /\ stage' = "idle" /\ outcome' = Nil
  /\ cut' = (cut \/ stage # "idle") /\ shell' = IF shell = <<"failed">> THEN <<>> ELSE shell
  /\ UNCHANGED <<kind, renames, latest, to, installed, fetched, backup, before, starts>>

\* The user starts the launcher where it is.
Start ==
  /\ running = Nil /\ starts < MaxStarts /\ starts' = starts + 1
  /\ \E p \in Place :
       /\ installed[p] # Nil /\ installed[p].runs
       /\ running' = installed[p].version /\ renames' = (p = "old")
  /\ checking' = TRUE
  /\ UNCHANGED <<kind, latest, prompt, stage, to, installed, fetched, backup, shell, outcome, cut,
                 before>>

UpdateNext ==
  \/ Release \/ check_for_updates \/ Update \/ Download \/ write_new_exe \/ unpack
  \/ move_renamed \/ move_denied \/ move_failed \/ remove_old \/ permit
  \/ backup_moved \/ backup_denied \/ backup_failed \/ undo
  \/ Shell \/ elevated \/ undone
  \/ Quit \/ Start

UpdateSpec == UpdateInit /\ [][UpdateNext]_update_vars

-----------------------------------------------------------------------------
\* Wherever an update of an executable stops or fails, and whatever runs on
\* without the launcher, there is a copy of it that was released, and unless it
\* was cut off or what may fail unnoticed did, one that can be started.
ThereIsALauncher ==
  kind # "app" =>
    \E p \in Place :
      /\ installed[p] # Nil
      /\ ~cut /\ stage = "idle" => installed[p].runs

\* What the user is told is so: after a success the new version is there; after
\* an error that no command has caused, what was there is there still.
OutcomeIsTrue ==
  /\ outcome = "success" => installed["new"] # Nil /\ installed["new"].version = to
  /\ outcome = "error" /\ kind # "app" /\ ~cut => installed = before

\* An app that is to be replaced is at its place or in the backup until the
\* update has ended. (Then it may be gone, see backup_moved.)
AppIsSomewhere ==
  kind = "app" /\ stage # "idle" /\ ~cut => installed["new"] # Nil \/ backup # Nil

\* Replacing the launcher never leaves the user without one.
UpdatesAreSafe == UpdateType /\ ThereIsALauncher /\ OutcomeIsTrue /\ AppIsSomewhere
=============================================================================
