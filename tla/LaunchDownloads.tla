--------------------------- MODULE LaunchDownloads ---------------------------
(***************************************************************************)
(* What a launch gets ready before it starts the game (backend/src/        *)
(* launch.rs): the version, for Forge after its installer has run, then    *)
(* Java, assets, libraries and the configuration of the log, which are     *)
(* checked, downloaded and written side by side.                           *)
(*                                                                         *)
(* A launch may be cancelled or fail at any await, which drops what runs   *)
(* with it; but a write that was given to a blocking thread goes on, and   *)
(* may meet the next launch.  At most eight files of a kind are downloaded *)
(* at a time, each kind on its own; nothing here depends on it.            *)
(***************************************************************************)
EXTENDS Naturals

CONSTANTS
  Java, Installer, Output,  \* files; the last is a processor's
  Assets, Libraries, Logs,  \* sets of files
  Hashed,      \* files of which the hash is known from the start
  MaxLaunches, MaxFileEdits  \* bounds

File == {Java, Installer, Output} \cup Assets \cup Libraries \cup Logs

DownloadsAssumption == Hashed \subseteq File /\ MaxLaunches \in Nat /\ MaxFileEdits \in Nat

VARIABLES
  mod_loader,      \* of the instance; "legacy" is Forge with an old installer
  own,         \* the instance has a Java of its own
  stage,       \* where the launch is
  file_task,        \* in this stage, where the task of each file is
  late,        \* writes that have outlived their launch: a file, opened or not
  disk,        \* what there is of each file
  executable,  \* Java may be executed
  known,       \* files of which the launch knows the hash
  count, total, \* of the progress tracker
  cancelled,
  launches, file_edits,  \* counted
  torn,        \* files last left in part by a launch, or edited (history)
  rewritten,     \* files written by others since the launch began (history)
  abandoned    \* a launch has ended while Java was written (history)

setting == <<mod_loader, own>>
progress == <<count, total>>
downloads_history == <<torn, rewritten, abandoned>>
downloads_vars == <<setting, stage, file_task, late, disk, executable, known, progress, cancelled, launches,
                    file_edits, downloads_history>>

Stage == {"idle", "version", "installer", "profile", "libraries", "process", "join", "natives", "running"}
Pending == {"open", "write", "written"}

DownloadsType ==
  /\ mod_loader \in {"vanilla", "fabric", "forge", "legacy"} /\ own \in BOOLEAN
  /\ stage \in Stage
  /\ file_task \in [File -> {"off", "check", "get", "done"} \cup Pending]
  /\ late \subseteq File \X {"open", "write"}
  /\ disk \in [File -> {"none", "part", "whole"}] /\ executable \in BOOLEAN
  /\ known \subseteq File /\ count \in Nat /\ total \in Nat /\ cancelled \in BOOLEAN
  /\ launches \in 0 .. MaxLaunches /\ file_edits \in 0 .. MaxFileEdits
  /\ torn \subseteq File /\ rewritten \subseteq File /\ abandoned \in BOOLEAN

IsForge == mod_loader \in {"forge", "legacy"}
Off == [f \in File |-> "off"]

DownloadsInit ==
  /\ mod_loader \in {"vanilla", "fabric", "forge", "legacy"} /\ own \in BOOLEAN
  /\ stage = "idle" /\ file_task = Off /\ late = {}
  /\ disk \in [File -> {"none", "whole"}]
  /\ ~IsForge => disk[Installer] = "none" /\ disk[Output] = "none"
  /\ executable = TRUE /\ known = Hashed
  /\ count = 0 /\ total = 0 /\ cancelled = FALSE /\ launches = 0 /\ file_edits = 0
  /\ torn = {} /\ rewritten = {} /\ abandoned = FALSE

-----------------------------------------------------------------------------
(* The stages. *)

\* The files of a stage.
Needed(s) ==
  CASE s = "installer" -> {Installer} \cup (IF own THEN {} ELSE {Java})
    [] s = "libraries" -> Libraries
    [] s = "join" -> Assets \cup Libraries \cup Logs \cup (IF own THEN {} ELSE {Java})
    [] OTHER -> {}

Enter(s) ==
  /\ stage' = s
  /\ file_task' = [f \in File |-> IF f \in Needed(s) THEN "check" ELSE "off"]

CountedOn(n) == count' = count + n /\ UNCHANGED total

\* The launch is over; the next one has a tracker and a button of its own.
End ==
  /\ stage' = "idle" /\ file_task' = Off /\ known' = Hashed /\ rewritten' = {}
  /\ count' = 0 /\ total' = 0 /\ cancelled' = FALSE
  /\ UNCHANGED <<setting, launches, file_edits>>

\* All that ran with it is dropped: a write that was submitted goes on, and Java may
\* have been written and nothing more.
DropTasks ==
  /\ End
  /\ late' = late \cup {<<f, file_task[f]>> : f \in {g \in File : file_task[g] \in {"open", "write"}}}
  /\ torn' = torn \cup {f \in File : file_task[f] \in {"open", "write"}}
  /\ UNCHANGED disk
\* set_permissions may have been submitted as well.
DroppedJava ==
  /\ executable' \in {executable, executable \/ file_task[Java] = "written"}
  /\ abandoned' = (abandoned \/ file_task[Java] \in Pending)

BeginLaunch ==
  /\ stage = "idle" /\ launches < MaxLaunches /\ launches' = launches + 1
  /\ Enter("version")
  /\ total' = 6 + (CASE mod_loader = "vanilla" -> 1 [] mod_loader = "fabric" -> 4 [] OTHER -> 7)
  /\ rewritten' = {w[1] : w \in late}
  /\ UNCHANGED <<setting, late, disk, executable, known, count, cancelled, file_edits, torn, abandoned>>

\* create_launch_version as far as the metadata goes; the hash of an installer is
\* asked for, and may remain unknown.
\* Asked for, with 40 characters in the answer or not.
download_sha1 == {known, known \cup {Installer}}

Metadata ==
  /\ stage = "version"
  /\ IF IsForge
     THEN /\ Enter("installer") /\ CountedOn(2)
          /\ known' \in download_sha1
     ELSE Enter("join") /\ CountedOn(1 + (total - 6)) /\ UNCHANGED known
  /\ UNCHANGED <<setting, late, disk, executable, cancelled, launches, file_edits, downloads_history>>

Done(s) == stage = s /\ \A f \in Needed(s) : file_task[f] = "done"

Installed ==
  /\ Done("installer") /\ Enter("profile") /\ CountedOn(IF own THEN 1 ELSE 2)
  /\ UNCHANGED <<setting, late, disk, executable, known, cancelled, launches, file_edits, downloads_history>>

\* The profile in the installer, and a mirror, which may be none.
counted_before == IF mod_loader = "legacy" THEN 2 ELSE 1

Profile ==
  /\ stage = "profile" /\ Enter("libraries") /\ CountedOn(counted_before)
  /\ UNCHANGED <<setting, late, disk, executable, known, cancelled, launches, file_edits, downloads_history>>

LibrariesThere ==
  /\ Done("libraries")
  /\ IF mod_loader = "forge" THEN Enter("process") /\ CountedOn(1)
     ELSE Enter("join") /\ CountedOn(2)
  /\ UNCHANGED <<setting, late, disk, executable, known, cancelled, launches, file_edits, downloads_history>>

\* can_skip_forge_processor: by hashes when they are known, or what is there.
\* (A bug in checks of this kind: what is there, always.)
there(f) == disk[f] # "none"
valid(f) == IF f \in known THEN disk[f] = "whole" ELSE disk[f] # "none"

SkipProcessor ==
  /\ stage = "process" /\ valid(Output) /\ Enter("join") /\ CountedOn(2)
  /\ UNCHANGED <<setting, late, disk, executable, known, cancelled, launches, file_edits, downloads_history>>

\* A processor is waited for in place: the launch notices nothing meanwhile.
RunProcessor ==
  /\ stage = "process" /\ ~valid(Output)
  /\ Enter("join") /\ CountedOn(2)
  /\ disk' = [disk EXCEPT ![Output] = "whole"] /\ torn' = torn \ {Output}
  /\ UNCHANGED <<setting, late, executable, known, cancelled, launches, file_edits, rewritten, abandoned>>
ProcessorFails ==
  /\ stage = "process" /\ ~valid(Output)
  /\ End
  /\ disk' = [disk EXCEPT ![Output] = "part"] /\ torn' = torn \cup {Output}
  /\ UNCHANGED <<late, executable, abandoned>>

Joined ==
  /\ Done("join") /\ Enter("natives") /\ CountedOn(IF own THEN 3 ELSE 4)
  /\ UNCHANGED <<setting, late, disk, executable, known, cancelled, launches, file_edits, downloads_history>>

\* Natives are extracted without an await, and the last look is taken at the button.
may_start == ~cancelled

Start ==
  /\ stage = "natives" /\ may_start
  /\ stage' = "running" /\ file_task' = Off /\ CountedOn(1)
  /\ UNCHANGED <<setting, late, disk, executable, known, cancelled, launches, file_edits, downloads_history>>

\* The process cannot be started, or the launch was cancelled.
NotStarted ==
  /\ stage = "natives" /\ End
  /\ UNCHANGED <<late, disk, executable, torn, abandoned>>

\* The game is over as far as this goes.
Return ==
  /\ stage = "running" /\ End
  /\ UNCHANGED <<late, disk, executable, torn, abandoned>>

\* The stages that are awaited next to the button.
Awaits == stage \in {"version", "installer", "profile", "libraries", "join"}
LaunchInterrupted == Awaits /\ cancelled /\ DropTasks /\ DroppedJava

\* Metadata, a profile or a file cannot be had.
CannotBeHad ==
  /\ stage \in {"version", "profile"} \/ \E f \in File \ Logs : file_task[f] = "get"
  /\ DropTasks /\ DroppedJava

-----------------------------------------------------------------------------
(* The task of a file. *)

Step(f, from, to) == file_task[f] = from /\ file_task' = [file_task EXCEPT ![f] = to]
Calm == UNCHANGED <<setting, stage, known, progress, cancelled, launches, file_edits>>

CheckFile(f) ==
  /\ Step(f, "check", IF valid(f) THEN "done" ELSE "get")
  /\ Calm /\ UNCHANGED <<late, disk, executable, downloads_history>>

\* Size and hash are right, as far as they are known; a log that cannot be had is
\* done without.
Receive(f) ==
  /\ Step(f, "get", "open") \/ (f \in Logs /\ Step(f, "get", "done"))
  /\ Calm /\ UNCHANGED <<late, disk, executable, downloads_history>>

\* A new file is not executable.
Opened(f) ==
  /\ disk' = [disk EXCEPT ![f] = "part"]
  /\ executable' = (executable /\ ~(f = Java /\ disk[f] = "none"))

\* Who else writes the file writes the same; while one does, there may be a gap.
Finished(f, another) ==
  \/ disk' = [disk EXCEPT ![f] = "whole"]
  \/ another /\ UNCHANGED disk

Open(f) ==
  /\ Step(f, "open", "write") /\ Opened(f)
  /\ Calm /\ UNCHANGED <<late, downloads_history>>
Write(f) ==
  /\ Step(f, "write", IF f = Java THEN "written" ELSE "done")
  /\ Finished(f, <<f, "write">> \in late) /\ torn' = torn \ {f}
  /\ Calm /\ UNCHANGED <<late, executable, rewritten, abandoned>>
SetPermissions ==
  /\ Step(Java, "written", "done") /\ executable' = TRUE /\ abandoned' = FALSE
  /\ Calm /\ UNCHANGED <<late, disk, torn, rewritten>>

\* The disk is full, or the like.
WriteFailed(f) ==
  /\ file_task[f] = "write" /\ f \notin Logs
  /\ End
  /\ late' = late \cup {<<g, file_task[g]>> : g \in {g \in File \ {f} : file_task[g] \in {"open", "write"}}}
  /\ torn' = torn \cup {g \in File : file_task[g] \in {"open", "write"}}
  /\ DroppedJava /\ UNCHANGED disk

Touched(f) == rewritten' = IF stage = "idle" THEN {} ELSE rewritten \cup {f}

LateOpen(f) ==
  /\ <<f, "open">> \in late /\ late' = (late \ {<<f, "open">>}) \cup {<<f, "write">>}
  /\ Opened(f) /\ Touched(f)
  /\ abandoned' = (abandoned \/ ~executable')
  /\ Calm /\ UNCHANGED <<file_task, torn>>
LateWrite(f) ==
  /\ <<f, "write">> \in late /\ late' = late \ {<<f, "write">>}
  /\ Finished(f, file_task[f] = "write")
  /\ Touched(f)
  /\ torn' = IF file_task[f] = "write" THEN torn ELSE torn \ {f}
  /\ Calm /\ UNCHANGED <<file_task, executable, abandoned>>

-----------------------------------------------------------------------------
(* The user, and the end of the launcher. *)

Cancel ==
  /\ stage \notin {"idle", "running"} /\ ~cancelled /\ cancelled' = TRUE
  /\ UNCHANGED <<setting, stage, file_task, late, disk, executable, known, progress, launches, file_edits, downloads_history>>

LauncherCrashes ==
  /\ stage # "idle" \/ late # {}
  /\ End /\ late' = {}
  /\ torn' = torn \cup {f \in File : file_task[f] = "write" \/ <<f, "write">> \in late}
               \cup (IF stage = "process" /\ ~valid(Output) THEN {Output} ELSE {})
  /\ disk' = IF stage = "process" /\ ~valid(Output) THEN [disk EXCEPT ![Output] = "part"] ELSE disk
  /\ abandoned' = (abandoned \/ file_task[Java] \in Pending)
  /\ UNCHANGED executable

\* A file is deleted or changed.
FileEdited(f) ==
  /\ file_edits < MaxFileEdits /\ file_edits' = file_edits + 1
  /\ disk' \in {[disk EXCEPT ![f] = "none"], [disk EXCEPT ![f] = "part"]}
  /\ torn' = torn \cup {f} /\ Touched(f)
  /\ UNCHANGED <<setting, stage, file_task, late, executable, known, progress, cancelled, launches, abandoned>>

\* Nothing is asked for any more, and nothing is on its way.
Rest == stage = "idle" /\ late = {} /\ launches = MaxLaunches /\ UNCHANGED downloads_vars

DownloadsNext ==
  \/ Rest \/ BeginLaunch \/ Metadata \/ Installed \/ Profile \/ LibrariesThere
  \/ SkipProcessor \/ RunProcessor \/ ProcessorFails \/ Joined
  \/ Start \/ NotStarted \/ Return \/ LaunchInterrupted \/ CannotBeHad \/ Cancel \/ LauncherCrashes
  \/ SetPermissions
  \/ \E f \in File :
       \/ CheckFile(f) \/ Receive(f) \/ Open(f) \/ Write(f) \/ WriteFailed(f)
       \/ LateOpen(f) \/ LateWrite(f) \/ FileEdited(f)

DownloadsSpec == DownloadsInit /\ [][DownloadsNext]_downloads_vars

-----------------------------------------------------------------------------
\* What a launch needs, of the files that it does not do without.
Required ==
  (Needed("join") \cup IF IsForge THEN Needed("installer") ELSE {}
     \cup IF mod_loader = "forge" THEN {Output} ELSE {}) \ Logs

\* A game is started with every file whole that somebody knows the hash of, and the
\* others unless a launch has left them in part; with a Java that can be executed;
\* and not once it was cancelled.  Nobody else may have written the files meanwhile.
StartsReady ==
  [][stage # "running" /\ stage' = "running" =>
       /\ \A f \in Required :
            disk[f] = "whole" \/ f \in rewritten \/ f \in torn \ known
       /\ own \/ executable \/ abandoned
       /\ ~cancelled]_downloads_vars

\* Progress is never beyond the total, and at its end with a started game, but for a
\* Java of the instance's own, which is not counted.
ProgressAddsUp ==
  /\ count <= total
  /\ stage = "running" =>
       count = total - (IF ~own THEN 0 ELSE IF IsForge THEN 2 ELSE 1)

\* What a launch gets ready is what it starts with and counts.
DownloadsAreReady == StartsReady /\ [](DownloadsType /\ ProgressAddsUp)
=============================================================================
