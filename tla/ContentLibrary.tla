--------------------------- MODULE ContentLibrary ---------------------------
(***************************************************************************)
(* One file of the shared content library: how installs put it there, each *)
(* guarded by a lock file, and link it into the folders of instances       *)
(* (backend/src/install_content.rs, backend/src/lockfile.rs).              *)
(*                                                                         *)
(* A launcher, of which several may run, works on one install at a time;   *)
(* the files of an install are downloaded or copied side by side.  Several *)
(* of them may be the same file.  A hard link shares the file, so what is  *)
(* written to the library is written to the instances.                     *)
(***************************************************************************)
EXTENDS Naturals, Sequences, FiniteSets

CONSTANTS
  Task,       \* slots for the files of installs
  Launcher,   \* running launchers
  Inode,      \* the files that the name in the library may stand for
  Nil,        \* no such name, no file, nobody
  Permits,    \* downloads of one install at a time: 8
  MaxEdits    \* bound: changes made to files in place

ASSUME LibraryAssumption == Nil \notin Inode /\ Permits \in Nat \ {0} /\ MaxEdits \in Nat

VARIABLES
  lib,        \* the file in the library
  content,    \* what is in each file; "part" stands for the empty file too
  linked,     \* the files that instances have
  task,       \* where each task is, and the file it writes to
  unlocked,   \* a download has gone on without the lock (history)
  copied,     \* a copy has been written, which takes no lock (history)
  raced,      \* a file has been written to from two sides (history)
  edited,     \* files that were changed in place (history)
  edits       \* how often

library_history == <<unlocked, copied, raced, edited, edits>>
library_vars == <<lib, content, linked, task, library_history>>

NoTask == [pc |-> "idle", kind |-> "download", file |-> Nil, locked |-> FALSE, owner |-> Nil]

LibraryType ==
  /\ lib \in Inode \cup {Nil}
  /\ content \in [Inode -> {"part", "whole", "edited"}]
  /\ linked \subseteq Inode
  /\ task \in [Task -> [pc : {"idle", "permit", "path", "flock", "check", "request", "stream",
                               "read", "create", "write", "dropped", "done"},
                        kind : {"download", "copy"}, file : Inode \cup {Nil}, locked : BOOLEAN,
                        owner : Launcher \cup {Nil}]]
  /\ unlocked \in BOOLEAN /\ copied \in BOOLEAN /\ raced \in BOOLEAN
  /\ edited \subseteq Inode
  /\ edits \in 0 .. MaxEdits

\* The library has the file or not, or what an earlier run left of it.
LibraryInit ==
  /\ lib \in Inode \cup {Nil}
  /\ \E c \in {"part", "whole"} : content = [i \in Inode |-> c]
  /\ linked = {}
  /\ task = [t \in Task |-> NoTask]
  /\ unlocked = FALSE /\ copied = FALSE /\ raced = FALSE
  /\ edited = {} /\ edits = 0

-----------------------------------------------------------------------------
Own(l) == {u \in Task : task[u].owner = l}
Siblings(t) == Own(task[t].owner)

\* What a download takes, in this order, and gives back when it returns.
resources == <<"permit", "path", "flock">>

Course == resources \o <<"check", "request", "stream">>
Place(pc) == CHOOSE i \in DOMAIN Course : Course[i] = pc

\* (A bug: nothing is given back before the install links.)
kept_until_linked(t, r) ==
  \/ task[t].pc = "done"
  \/ /\ task[t].kind = "download" /\ task[t].pc \in {Course[i] : i \in DOMAIN Course}
     /\ Place(task[t].pc) > Place(r)

\* A task that was refused the lock file has given back its place in line.
Holds(t, r) ==
  /\ task[t].kind = "download" /\ task[t].pc \in {Course[i] : i \in DOMAIN Course}
  /\ Place(task[t].pc) > Place(r)
  /\ r # "permit" => task[t].locked

\* semaphore.acquire, get_path_semaphore(path).acquire_owned, File::lock.
Available(t, r) ==
  CASE r = "permit" -> Cardinality({u \in Siblings(t) : Holds(u, r)}) < Permits
    [] r = "path"   -> \A u \in Siblings(t) : ~Holds(u, r)
    [] r = "flock"  -> \A u \in Task : ~Holds(u, r)

Writing == {t \in Task : task[t].pc \in {"stream", "write", "dropped"}}

\* The hash of the file in the library is the one that is wanted.
\* (A bug: the file is there.)
exists_on_disk == lib # Nil
valid_hash_on_disk == lib # Nil /\ content[lib] = "whole"

-----------------------------------------------------------------------------
(* download_file_into_library_inner *)

Go(t, pc) == task' = [task EXCEPT ![t].pc = pc]

\* The task has its file, and gives back what it held.
Ready(t) == task' = [task EXCEPT ![t] = [NoTask EXCEPT !.pc = "done", !.owner = task[t].owner]]

\* An install begins when the one before has ended; its files come all at once.
StartInstall(l) ==
  /\ \A t \in Own(l) : task[t].pc = "dropped"
  /\ \E new \in SUBSET {t \in Task : task[t].pc = "idle"} \ {{}} :
     \E kind \in [new -> {"download", "copy"}] :
       task' = [t \in Task |->
         IF t \in new
         THEN [pc |-> IF kind[t] = "copy" THEN "read" ELSE Course[1],
               kind |-> kind[t], file |-> Nil, locked |-> TRUE, owner |-> l]
         ELSE task[t]]
  /\ UNCHANGED <<lib, content, linked, library_history>>

Acquire(t) ==
  /\ task[t].kind = "download"
  /\ \E i \in DOMAIN resources :
       task[t].pc = resources[i] /\ Available(t, resources[i]) /\ Go(t, Course[i + 1])
  /\ UNCHANGED <<lib, content, linked, library_history>>

\* Lockfile::create fails and its error is not looked at.
LockFails(t) ==
  /\ task[t].pc = "flock"
  /\ task' = [task EXCEPT ![t].pc = Course[Place("flock") + 1], ![t].locked = FALSE]
  /\ unlocked' = TRUE
  /\ UNCHANGED <<lib, content, linked, copied, raced, edited, edits>>

Check(t) ==
  /\ task[t].pc = "check"
  /\ IF valid_hash_on_disk THEN Ready(t) ELSE Go(t, "request")
  /\ UNCHANGED <<lib, content, linked, library_history>>

\* File::create: an old file is emptied, wherever it is linked.
CreateFile(t, pc) ==
  /\ \E i \in Inode :
       /\ IF lib # Nil THEN i = lib
                        ELSE i \notin linked /\ \A u \in Task : task[u].file # i
       /\ lib' = i
       /\ content' = [content EXCEPT ![i] = "part"]
       /\ task' = [task EXCEPT ![t].pc = pc, ![t].file = i]
       /\ edited' = edited \ (IF lib = Nil THEN {i} ELSE {})
  /\ raced' = (raced \/ Writing # {} \/ valid_hash_on_disk \/ \E u \in Task : task[u].pc = "done")
  /\ UNCHANGED <<linked, unlocked, edits>>

ReceiveHead(t) ==
  /\ task[t].pc = "request"
  /\ CreateFile(t, "stream") /\ UNCHANGED copied

\* All bytes have arrived and are right.  Another writer may have emptied the
\* file meanwhile.
ReceiveAll(t) ==
  /\ task[t].pc = "stream"
  /\ \E c \in IF raced THEN {"part", "whole"} ELSE {"whole"} :
       content' = [content EXCEPT ![task[t].file] = c]
  /\ Ready(t)
  /\ UNCHANGED <<lib, linked, library_history>>

-----------------------------------------------------------------------------
(* install_into_content_library: ContentDownload::File, without the lock. *)

CopyCheck(t) ==
  /\ task[t].pc = "read"
  /\ IF valid_hash_on_disk THEN Ready(t) ELSE Go(t, "create")
  /\ UNCHANGED <<lib, content, linked, library_history>>

CopyCreate(t) ==
  /\ task[t].pc = "create"
  /\ CreateFile(t, "write") /\ copied' = TRUE

\* The write is on a blocking thread, which goes on when its task is dropped.
CopyWritten(t) ==
  /\ task[t].pc \in {"write", "dropped"}
  /\ \E c \in IF raced THEN {"part", "whole"} ELSE {"whole"} :
       content' = [content EXCEPT ![task[t].file] = c]
  /\ IF task[t].pc = "write" THEN Ready(t) ELSE task' = [task EXCEPT ![t] = NoTask]
  /\ UNCHANGED <<lib, linked, library_history>>

-----------------------------------------------------------------------------
(* install_content *)

\* A task that is dropped where it stands.
Dropped(k) == IF k.pc \in {"write", "dropped"} THEN [k EXCEPT !.pc = "dropped"] ELSE NoTask

\* try_join_all drops the others; dependencies are joined, and the others go on.
Fails(t) ==
  \/ task' = [u \in Task |-> IF u = t THEN NoTask
                             ELSE IF u \in Siblings(t) THEN Dropped(task[u]) ELSE task[u]]
  \/ task' = [task EXCEPT ![t] = NoTask]

\* No answer, a bad status; an error of the stream or the disk, which leaves
\* the file as it is.
Fail(t) ==
  /\ task[t].pc \in {"request", "stream", "read", "create", "write"}
  /\ Fails(t)
  /\ UNCHANGED <<lib, content, linked, library_history>>

\* The wrong hash or size: the file is emptied and removed.
WrongData(t) ==
  /\ task[t].pc = "stream"
  /\ content' = [content EXCEPT ![task[t].file] = "part"]
  /\ lib' = Nil
  /\ Fails(t)
  /\ UNCHANGED <<linked, library_history>>

\* All files of the install are there: one after the other is linked, unless
\* the link fails, or the target is the library.
Link(t) ==
  /\ \A u \in Siblings(t) : task[u].pc \in {"idle", "dropped", "done"}
  /\ task[t].pc = "done"
  /\ linked' \in {linked, linked \cup ({lib} \ {Nil})}
  /\ task' = [task EXCEPT ![t] = NoTask]
  /\ UNCHANGED <<lib, content, library_history>>

-----------------------------------------------------------------------------
\* A launcher is closed or killed, and its locks with it.
LauncherEnds(l) ==
  /\ task' = [t \in Task |-> IF t \in Own(l) THEN NoTask ELSE task[t]]
  /\ task' # task
  /\ UNCHANGED <<lib, content, linked, library_history>>

\* A file of an instance is changed in place ...
Edit(i) ==
  /\ i \in linked /\ edits < MaxEdits
  /\ content' = [content EXCEPT ![i] = "edited"]
  /\ edited' = edited \cup {i}
  /\ edits' = edits + 1
  /\ UNCHANGED <<lib, linked, task, unlocked, copied, raced>>

\* ... or removed.
RemoveFile(i) ==
  /\ i \in linked
  /\ linked' = linked \ {i}
  /\ UNCHANGED <<lib, content, task, library_history>>

TaskStep(t) ==
  \/ Acquire(t) \/ LockFails(t) \/ Check(t) \/ ReceiveHead(t) \/ ReceiveAll(t)
  \/ CopyCheck(t) \/ CopyCreate(t) \/ CopyWritten(t)
  \/ Fail(t) \/ WrongData(t) \/ Link(t)

LibraryNext ==
  \/ \E t \in Task : TaskStep(t)
  \/ \E l \in Launcher : StartInstall(l) \/ LauncherEnds(l)
  \/ \E i \in Inode : Edit(i) \/ RemoveFile(i)

LibrarySpec == LibraryInit /\ [][LibraryNext]_library_vars

-----------------------------------------------------------------------------
\* Whatever fails, is dropped, crashes or downloads at the same time: a file an
\* instance has is whole, and stays whole, unless it was changed in place or two
\* wrote to it at once.
LinkedIsWhole == ~raced => \A i \in linked \ edited : content[i] = "whole"

\* Only a copy, or a download without the lock, writes beside another.
LockKeepsApart ==
  ~unlocked => \A t, u \in Writing :
    t # u => task[t].kind = "copy" \/ task[u].kind = "copy"

\* Downloads that have the lock never empty a file that another one writes, has
\* found whole, or is about to link: what is there is looked at again under the lock.
DownloadsDoNotRace == ~unlocked /\ ~copied /\ edits = 0 => ~raced

\* Files of the library are whole, and written by one at a time.
LibraryIsWhole == LinkedIsWhole /\ LockKeepsApart /\ DownloadsDoNotRace

\* The permits and the two locks never wait for one another: while a launcher has
\* files on their way, one of its tasks can go on, or waits for the lock file of
\* another launcher, of which the same is true.
SomeoneGoesOn ==
  \A t \in Task : task[t].pc # "idle" =>
    \/ \E u \in Siblings(t) : ENABLED TaskStep(u)
    \/ task[t].pc = "flock" /\ \E u \in Task \ Siblings(t) : Holds(u, "flock") /\ ENABLED TaskStep(u)
=============================================================================
