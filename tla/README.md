# PandoraLauncher in TLA+

PandoraLauncher is a Minecraft launcher in Rust. Its backend keeps instances,
accounts, downloads and running games; its frontend draws them; the two talk
through channels and share a few atomics. This directory holds TLA+ models of
the parts in which tasks, threads, the file system and remote services
interleave, the TLC configurations that check them on small instances, and
TLAPS proofs of what matters most for every instance.

Paths below are relative to `src/crates/`; `backend/…` is short for
`src/crates/backend/src/…`, and likewise for the other crates.

    tlc -workers 2 -config InstanceLoad.cfg MCInstanceLoad.tla
    tlapm InstanceLoadProofs.tla

`PROJECT.json` lists the runs with their properties, the lines each definition
translates, and for every property a change to the code's logic that breaks it.

## 1. The system

### How it runs

`backend/backend.rs` starts a tokio runtime with one worker thread and a pool of
blocking threads. One task, `BackendState::handle` (backend.rs:392-420), is a `select!` over three
sources: messages from the frontend, batches of file events from the watcher
(debounced), and a tick every second. It awaits the handler of each before it
takes the next. Handlers spawn tasks for some work and await other work in
place. Files are read on blocking threads. The frontend is one thread (gpui)
which draws pages, sends `MessageToBackend` and takes `MessageToFrontend`.
State shared by tasks is behind `parking_lot` locks, which are never held across
an await, and which are not reentrant.

A step of a model is therefore what happens from one await to the next in a
task, under a lock in a thread, or at one access to an atomic where the code
uses atomics without a lock. The atomics are accessed with `Relaxed` ordering in
places; each model orders its accesses sequentially, which for a single atomic
byte (`BridgeDataLoadState`) is what the hardware does as well.

### Components

| component | state | operations | what makes it correct |
|---|---|---|---|
| Instance data loading (`backend/instance.rs`, `bridge/message.rs`) | summaries, dirty set, pending load, watched; the load-state byte | load, mark dirty, publish, set_observed, request | one read at a time; waiting loads are woken; no change is forgotten; pages catch up |
| Filesystem watching (`backend/backend.rs`, `backend_filesystem.rs`) | path ↔ target, link ↔ source | watch, unwatch, all_paths, removal, change, rename | maps agree with one another and with what the system watches; events find their target |
| Requests with serials (`bridge/handle.rs`, `serial.rs`) | processed and next serial, a slot per request, the queue | send, send_with_serial, recv | no request lost, no flood, across the wrap |
| Notify signal (`bridge/notify_signal.rs`) | a flag, a semaphore | notify, is_notified, await_notification | nobody early, nobody left behind, no panic |
| Accounts and login (`backend/backend.rs`, `backend_handler.rs`, `account.rs`, `auth/`) | account list, stored credentials, profile cache, semaphore | the login loop and the four calls around it, add, select, delete | the loop ends and never goes round; logins of one launcher do not overwrite one another's tokens |
| Handler and main loop (`backend_handler.rs`) | none of its own | one message at a time | nothing it awaits goes on for ever |
| Instance registry (`backend.rs`, `id_slab.rs`) | slab with generations, ids by path | load all, add, rename, remove | an old id never reaches a new instance; folders and slab agree |
| Launch and processes (`backend_handler.rs`, `launch.rs`, `launch_wrapper.rs`) | launch keepalive, processes, session | start, kill, tick | the frontend's status agrees; playtime is counted once |
| Metadata cache (`metadata/manager.rs`, `frontend/entity/metadata.rs`) | state per item, cache files, keepalives | fetch, load, force reload, expire | never stuck loading; a later answer is not overwritten by an earlier one |
| Content installation (`install_content.rs`, `lockfile.rs`) | shared library by hash, lock files | download, copy, link, resolve, replace | an instance only has complete files; no install waits for ever; a replacement is never half done |
| Modpacks (`prelaunch_apply_modpacks` in `backend.rs`, `schema/auxiliary.rs`) | the auxiliary file, temporary mods, copied files | apply at launch, disable children, update | a game starts with what the pack wants; what the user changed stays |
| Persistent settings (`persistent.rs`, `lib.rs`) | value in memory, dirty flag, file | get, modify, mark_changed, write_safe | no crash leaves neither version |
| Skin library (`skin_manager.rs`) | skins, dirty set, load | load, mark dirty | as for instance data, and no lock is taken twice |
| Syncing (`syncing.rs`) | links, shared folders, newest files | enable, disable, apply at launch | nothing is taken from a folder; what is shared is the newest |
| Mod metadata (`mod_metadata.rs`) | summaries by hash, packs that wait for children, sources of content and their files | read, put, set, write at a tick, take over | a pack knows what has come; no source is forgotten |
| Content list (`frontend/component/content_list.rs`) | rows, selection, search | toggle, delete, confirm | only what was meant is changed, whatever is loaded meanwhile |
| Game output and logs (`log_reader.rs`, `frontend/game_output/`, `readonly_text_field.rs`, `ftree/`) | what was read, items and their sizes, the view | read, paint, wrap, search, scroll, follow | nothing lost, repeated or out of order; the view stays where it was |
| Search and install dialogs (`frontend/pages/modrinth_page.rs`, `frontend/modals/`) | hits, the portion that is out, reloads that wait; what is on offer, selected and drawn | type, filter, reload, scroll; select, list, install | hits are of one search and the one shown; what is sent is for its target and what was selected |
| Self update (`backend/update.rs`) | the copies on the disk, the download, commands with elevated rights | check, download, exchange, undo | there is always a copy that can be started; what the user is told is so |
| Import, shortcuts, NBT, rendering | | | sequential code |

Interactions: the watcher feeds `handle_filesystem`, which routes by the watch
maps and dirties instance data; loads publish and watch what they found, and
wait for one another with notify signals; pages ask for loads through
`send_with_serial`; a launch logs in, loads content, downloads by the metadata
cache and starts a process that the tick watches.

What is hard: loads that race with changes, with one another and with the
removal of the instance; the lock-free load state; wake-ups; events that come
in batches, late or not at all; logins that race over one refresh token while
tokens expire; two-step replacement of files and a crash in between.
`PROJECT.json` lists each hazard at its line with the properties that cover it.

## 2. Plan

Written, in the order of what matters most to a user:

1. `InstanceLoad` with `FreshCopy`; `FileWatching`; `Login`; `LaunchLifecycle`; `Modpacks`.
   `SerialChannel`, `NotifySignal`, `MetadataCache`, `SkinLibrary`, `ContentLibrary`.
2. `IdSlab` with its abstract specification `IdMap`, and `InstanceRegistry` over it;
   `PersistentFile` with `write_safe` and crashes. `Syncing`, `ContentList`.
3. `LaunchDownloads`. 4. `LogReader`, `GameOutput`, `FenwickTree`, `ReadonlyTextField`, `LogPage`.
5. `ContentSummaries`, `ContentSources`, `ContentInstalls`.
6. `InstallDialog`, `SearchPage`, `SelfUpdate`.
7. Proofs, a module for what belongs together: `InstanceLoadProofs` (InstanceLoad, ContentInstalls); `LoginProofs`;
   `LaunchLifecycleProofs` (LaunchLifecycle, LaunchDownloads); `ModpacksProofs` (Modpacks, ContentLibrary);
   `BridgeProofs` (SerialChannel, NotifySignal, IdSlab, InstanceRegistry, InstallDialog); `FilesProofs` (FileWatching, PersistentFile, SelfUpdate, Syncing, ContentList);
   `ContentProofs` (ContentSources, ContentSummaries); `MetadataCacheProofs`
   (MetadataCache, SearchPage, LogPage).

Left: renames between two directories in `FileWatching`; the merge of a skin
that is downloaded or added; several packs in one instance; the import from other launchers; NBT as an
algorithm; the launch arguments.

A run asks one question of a composition. Components that have no state in
common share an MC module and a run, one behaviour for each, picked by a
variable `part` (`MCBridge`, `MCLogin`, `MCLaunch`, `MCFiles`, `MCPages`, `MCContent`), while the
others stay in one of their first states. Where a proof speaks of a component its module is
EXTENDed, so that the run checks the very definition that is proved; the others, and
second instances of a module, are INSTANCEs. A property of such a run is the
conjunction of what the part's module promises; this table says which.

| run | its properties | and what they are made of |
|---|---|---|
| `bridge` | AskedOnce | AskedIsComing, NoFlood of SerialChannel |
| | SignalIsSound | NoEarlyReturn, NoOverflow of NotifySignal |
| | EveryoneIsServed | AskedIsServed, EveryoneGoesOn of the two |
| | FrontendIsTold | EveryModalFinishes, StatusIsShown, WindowComesBack of LaunchLifecycle |
| `login` | SkinsAreShown | StaleIsCovered, EventuallyShown of SkinLibrary |
| `launch` | LibraryIsWhole | LinkedIsWhole, LockKeepsApart, DownloadsDoNotRace of ContentLibrary |
| | PacksAreKept | PackIsApplied, UserChangesKept of Modpacks |
| | DownloadsAreReady | DownloadsType, StartsReady, ProgressAddsUp of LaunchDownloads |
| | DownloadersGoOn | SomeoneGoesOn of ContentLibrary; the types of the run's other modules |
| `files` | MapsAgree | TypeOK, TargetsAgree, LinksAgree of FileWatching |
| | SettingsAreKept | PersistentType, MemoryIsFile, FileStaysWhole of PersistentFile |
| | SharedIsKept | SyncType, SyncedIsLinked, NothingIsTaken, LatestIsShared of Syncing |
| | OnlyWhatWasMeant | ListType of ContentList, and what its section says |
| | SummariesAreCurrent | SummariesType, PacksAreCurrent, UnknownIsTorn of ContentSummaries |
| | UpdatesAreSafe | UpdateType, ThereIsALauncher, OutcomeIsTrue, AppIsSomewhere of SelfUpdate |
| `pages` | HandlesAreRight | SameHandleSameResult, LiveHandlesExpire, Verified of MetadataCache |
| | OutputIsShown | EverythingIsRead of LogReader, ViewerIsRight, ViewStays of GameOutput, SumsAgree of FenwickTree; LogIsShown of LogPage, ViewerIsRight of ReadonlyTextField; ButtonsFit of SearchPage |
| | HitsAreRight | SearchType, HitsAreOfOneSearch, HitsAreCurrent, AllCanBeReached of SearchPage |
| | InstallsFit | DialogType, FitsTarget, FitsSelection, NeedsAreSent of InstallDialog |
| `content` | SourcesAreKept | SourcesType, FilesAreSources, NothingIsForgotten of ContentSources |
| | ContentIsThereOnce | InstallsType, RequiredOnce, RoundsEnd, OneOfEach, NothingIsLost of ContentInstalls |
| | RegistryIsDisk | TypeOK, FoldersAreInstances, InstancesAreWatched, OnePerFolder of InstanceRegistry, ImplementsIdMap of IdSlab |

## 3. The models

### InstanceLoad and FreshCopy

*Code*: `backend/instance.rs` (ContentFolderState, load_content_inner,
load_servers_inner, mark_\*_dirty), `bridge/message.rs` (BridgeDataLoadState),
`backend/lib.rs` (FolderChanges), the page in `frontend/pages/instance/`, and the
callers in `backend_handler.rs` and `backend_filesystem.rs`.

*State*: what the instance lock guards (`alive`, `dirty`, `pending`, `loaded`,
`data`, `watched`), the shared byte (`flags`), per load task where it stands and
what its blocking read has so far, the files (`disk` counts each file's changes,
so a summary is the number of the state it was read from), the events the
watcher holds, and the page with the messages on their way in both directions.
`pending` is the task whose signal is stored, and None once it has been
notified, since `load_*_inner` treats both alike.

*Actions*: `LoadMissing`, `LoadWait`, `LoadClean`, `LoadStart` are the ways out
of one pass of the loop in `load_*_inner`; `LoadRead` is the blocking read, file
by file; `LoadFinish` and `LoadAbandon` what follows its await. `HandlerLoad` and
`HandlerResume` are the update check, installation and launch, which await a
load within the handler, so that no message, event or tick is handled
meanwhile. `HandleFilesystem` takes any part of the pending events as its
batch. `RenderObserve` and `RenderRequest` are the two halves of a page's render,
between which the backend may run.

*Abstraction*: the variable `kind`, chosen at the start from `Kinds`, picks
content folders or servers.dat. Summaries are
versions; the ids of content are in ContentList; a file and its
`.disabled` twin are one file; the load of a world list has the same shape and
is not repeated. The watcher reports what it watches (see FileWatching for when
it does not).

`FreshCopy` is the promise to a page: it shows, file by file, a state the file
has been in, and never goes back. `InstanceLoad` implements it with `copy <- view`.

*Runs.*

| run | instance | what it shows |
|---|---|---|
| `load` | content or servers.dat; two files, one that goes and comes back and one that appears; two tasks; reloads or not; a removal of the instance | Control (SingleFlight, NoLostWakeup, FlagsAgree), StaleIsCovered, and the implementation of FreshCopy |
| `load_live` | either kind; one file with one change, two tasks | an open page ends up with what is on the disk (servers.dat: if it is drawn again and again); every load and the handler that awaits one come to an end |

Two tasks are enough for one load to wait for another, to start between
another's steps and for the handler to await one while the other runs; two
files for a partial dirty set; two changes for a file to go away during one
read and come back during the next. `MaxInbox` keeps the frontend at most one
update behind, which delays a load but does not change what it does.

What the runs taught:

* *A reload of servers.dat may be lost.* `mark_servers_dirty` returns at once when the
  servers are dirty, without looking at `reload`. After `mark_all_dirty(_, false)`
  (.minecraft was removed or created, or the instance renamed on Windows) a
  change to servers.dat loads nothing, and an open page shows the old list
  until something else draws it. `EventuallyFresh` therefore asks of content folders
  that a visible page is fresh in the end, and of servers only that one is which
  is drawn again and again.
* *A load may be overtaken for as long as something keeps dirtying the data*: the
  waiting task goes round its loop and may find the next load in flight. Hence
  the assumption in `EveryLoadReturns`.

### FileWatching

*Code*: `BackendStateFileWatching` in `backend.rs` (watch_filesystem, remove,
all_paths, unwatch_subdirectories_of_instance), the removal and change events of
`backend_filesystem.rs`, and the loop in load_worlds_inner that watches worlds.

*State*: the four maps, what the system watches (`os`), what each path resolves
to (`canonical`), the removals and world changes that are yet to be reported, and
the published and dirty worlds. All of it is guarded by one lock; the loop over
worlds holds it, hence `publishing = {}` in the other guards. Directories and
links are deleted and created at any time. The system's watches belong to
directories and go when they do.

*Runs*: `files`, the behaviours with `part = "watching"` (two instance folders, which may be invalid ones, and a world; one
folder and the world may be or become links; creations and deletions at any time, coalesced with
removals or not; loads that publish worlds): MapsAgree and WatchedBySystem. `watch_worlds` (two worlds) expects
a violation, below. Three paths and three targets let two paths compete for one
target, one path for two targets, and a link take the place of a directory.

What the runs taught:

* *Only one world of an instance is watched.* All of them share the target
  `InstanceWorldDir { id }` and a target has one path. The comment at
  `backend_filesystem.rs:396` says that a change within a world marks it dirty; run
  `watch_worlds` shows a loaded world whose change is reported and marks nothing.
* *The same holds for invalid instance folders*, which share `InvalidInstanceDir`: only
  the one that was watched last is noticed when it is repaired.
* *WatchedBySystem needs batches that do not coalesce.* `handle_filesystem` drops an
  event when the next one is about the same path. When a directory is removed
  and created again within one batch its removal is not handled, the maps go on
  saying it is watched, `watch_filesystem` returns early, and nothing watches it
  any more. The model has this, and `coalesced` remembers that it happened; the
  property is about behaviours in which it has not. MapsAgree holds in all.

### SerialChannel

*Code*: `bridge/handle.rs:100-130`, `bridge/serial.rs`. Every access to an atomic is a
step. Serials are 0 .. Modulus − 1, start anywhere and wrap; a behaviour hands
out less than half of them, as the comparison requires. A slot that is left
alone for half of all serials (2^63) would be misjudged; that is out of scope.

Run `bridge`, the behaviours with `part = "channel"`: one sending thread, two slots, Modulus 13, five serials from any
start, two plain messages in the queue: the wrap falls at every place of every
behaviour. AskedOnce (AskedIsComing, NoFlood) and EveryoneIsServed (AskedIsServed) say
that no request is lost and none is queued twice.

*One sender.* With two sending threads AskedIsComing fails: serials are taken before
the message is queued, two messages may be queued in the other order, and
`processed_serial` goes back to the lower one, so the request of the higher counts
as pending for good. Requests to the backend come from the frontend thread
alone, which is why the run has one sender. The channel to the frontend uses the same
code for its `Refresh` message, and there progress is reported from tasks and
from blocking threads (`bridge/modal_action.rs:223`): a progress bar may stop
being redrawn this way.
The channel is the release build's; a debug build has room for 64 messages and
panics beyond.

### NotifySignal

*Code*: `bridge/notify_signal.rs`, with tokio's semaphore modelled from what the code
needs of it (FIFO; permits go to waiting tasks first; more than MAX_PERMITS
panics). Run `bridge`, the behaviours with `part = "signal"`: two notifiers, three waiters, two permits, fewer than
waiters so that the give-back of permits matters. In InstanceLoad the signal is
one atomic step; this module is why that is sound: a waiter goes on exactly
once the signal is given, wherever it stands.

### Login

*Code*: `BackendState::login` (backend.rs:453-641), `login_flow`,
`noninteractive_login_flow` and `get_minecraft_profile` (backend_handler.rs), the
account messages, `auth/credentials.rs`.

*State*: the semaphore as a queue whose head holds the permit; the stored
credentials per account, as the set of tokens that are there; the profiles
cached less than five minutes ago; the account list and the selection; and for
each caller the locals of its call. Callers are the handler, one message after
the other, and the spawned profile tasks.

*Actions*: one for each stretch between awaits: the permit arrives (`Acquired`),
the storage is read (`ReadCredentials`), the top of the loop (`CheckStage`), the
request (`SendRequest`) and its three answers (`Accepted`, `Refused`, `Unreachable`),
and the ends (`Fail`, `Store`, `WriteCredentials`, `PostProfile`, `NoStorage`, `Cancel`).
`Expire` takes a token away at any time, since the code compares it with the
clock at the top of the loop and again when it picks the request. What services
answer and whether the key store works is free.

*Run*: `login`, the behaviours with `part = "login"` (one account, the handler and one profile task, two calls):
CredentialsAreCurrent, NoAuthFlowBug, NoRepeatedLogin and
EveryCallReturns. All calls share one semaphore, so a second account adds no
race; two calls are one race, and a third would queue behind the second.
Deadlock is not checked because `MaxCalls` ends every behaviour.

What the runs taught:

* The errors "most likely a bug with the auth flow" (backend.rs:488, 493) can
  come up without a bug: when a token expires between two looks at the clock.
  They come up in no other way (NoAuthFlowBug).
* Any error of a login, a connection error too, deletes the stored credentials
  (backend_handler.rs:1789-1793, 1873-1886).
* An account that is deleted while a profile task logs in to it is entered again
  by that task.

### MetadataCache

*Code*: `backend/metadata/manager.rs`, `bridge/keep_alive.rs`, `RequestMetadata` in
`backend_handler.rs`, `frontend/entity/metadata.rs`.

*State*: one item, of one of the kinds in `Items` (whether it expires, has a
known hash, has a cache file). The asynchronous lock as the queue of those who hold or want
it; what it guards (`handle`, `state`); each load task, which may have been
replaced and go on by itself; the list of KeepAlives; what the server would
answer, the cache file, the two message queues and the page. A handle is the
load it was created for, or `Dead`, everywhere at once, since the flag is shared.

*Actions*: a call queues (`Begin`), holds the lock and finds what it wants
(`UseLoaded`), a load to wait for (`Join`, `Take`) or nothing (`Renew`, `StartExpiring`,
`StartForGood`); a load goes through file, server, file (`ReadFile`, `Receive`,
`FailRequest`, `WriteFile`). A write that fails may leave a torn file, which the next `ReadFile` takes
for none, since neither its hash nor its JSON fits. A file is read as a whole. `Cancel` drops a call of the backend's own wherever it waits:
a launch that is cancelled (launch.rs:100) or a `try_join!` of which another part
failed (install_content.rs:146). Calls of the page are tasks and are never dropped.
`Return` sends the result with the lock in hand, as the runtime has one worker
thread and nothing is awaited between unlocking and sending.

*Runs*: `pages`, the behaviours with `part = "metadata"` (the version manifest, which expires, or a version, whose hash is
known, both with a file; two calls, two loads, two changes of the server): handles
and results belong together, nothing live escapes expiry, no data is served
for another hash, and the page goes back to older data only through the file.
`metadata_live` (a list without a file, three loads): calls return, expired data
that is drawn is refreshed. Two loads let one replace another and outlive it; a
third is needed for calls to get through while two are replaced.
`MaxKeepAlives` bounds forced reloads, each of which adds a KeepAlive for five
minutes.

What the runs taught:

* *The cache file may go back.* A replaced load goes on and may write what it
  received earlier over what its successor wrote. The page never sees this
  while the server answers; when a download then fails, the older data is what
  it falls back to (hence the exception in BackwardsOnlyByFallback).
* *An item that does not expire keeps its error* until the launcher is restarted:
  `state` is done, and nothing but `force` loads it again.
* *A page that is drawn while its data has expired sends a request with every
  draw*, until the answer arrives. They all join one load; the answers are equal.

### LaunchLifecycle

*Code*: `StartInstance` and `KillInstance` in `backend_handler.rs`, the tick in
`backend.rs`, session, playtime and status in `instance.rs`, the Persistent that
holds the statistics, `processor.rs` for what the frontend makes of the messages.

*State*: per instance its processes, launch keepalive, session and statistics
(in memory, in the file, dirty); what has become of each process of the system;
where the handler is in a launch; the modals; both message queues; the status,
the playtime and the hidden window of the frontend. Statistics are the seconds
played; the clock counts in the same unit.

*Actions*: a launch goes through login, prelaunch (syncing, modpacks), loading and
the spawn, with its failures and its looks at `request_cancel`. The deferred
closure, which runs on every way out, is the operator `Ends`. `Tick` is the whole of
`handle_tick` for all instances in slot order. `StatsChange` is the event of the file
that the launcher itself wrote. `RemoveInstance` is `remove_instance` and the failed reload.
What a login or a download answers is free; that it answers is Login's promise.

*Runs*: `launch`, the behaviours with `part = "games"` (one instance, two processes, two
modals, three steps of the clock, a kill that may fail, a removal): a second game
starts while the first runs, each may end, be killed or fail, and the session
spans them. `bridge`, those with `part = "games"` (two instances, a hidden window, no
clock): a status of one instance meets the window of the other, what the
system runs is known, and everything that is said arrives in the end. Two
launches are enough for one to meet what the other left behind; `MaxOutbox` holds
ticks and events back while messages wait, as time does. The two runs differ in
`HidesWindow`, `Removable` and `KillFails` because each hides what the other is about:
see below.

What the runs taught:

* *"Already launching" is never said.* The handler awaits the whole launch, so a
  second StartInstance is read when the first launch is over
  (LaunchingIsInHandler), and starts a second game.
* *A kill that fails leaves the game running unknown* (`KillFails`; GamesAreKnown then
  fails): `drain` forgets the process before it is known to be gone.
* *A write that fails loses playtime later* (`WriteFails`): the sum in memory is right
  until something marks the file as changed, and then the older file is read.
* *A removed instance takes its session along* (`Removable`): the playtime since the
  session began is not written, the game cannot be killed, and a main window
  that was hidden for it stays hidden, as nobody sends NotRunning any more.
* *The window comes back early*: any message of any instance that is not running
  shows it, a change of a file of another instance for one.

### Modpacks

*Code*: `prelaunch_apply_modpacks` (backend.rs:662-1016), which every launch runs
through; the messages that enable content and its children
(backend_handler.rs:296-364); `replace_aux_path` (install_content.rs:743-768); the
auxiliary file (schema/auxiliary.rs).

*State*: one instance with one pack of Modrinth or Curseforge, in a version. What
the library has of each file, which infos of Curseforge are cached, what is at
each path of the instance, the temporary `.pandora.` mods, the auxiliary file
(the hashes that were applied, the children that are disabled), and the launch.
A file is a path of the pack and a hash is a version of it; what the user
makes of it is `user`, and `part` is half a file.

*Actions*: `Begin` up to the first await, `DownloadFiles` to the last one, then one
`Apply` per file (a crash can come between them), downloads before overrides, and `Finish`.
`Interrupted` is a launch that is cancelled at one of the awaits, or a launcher
that stops there; `Crash` one that stops later. The rest is what the user does:
edit a file, disable the pack or a child, change the loader, update the pack.

*Abstraction*: a child that is disabled by its id or its name is disabled, as if by
its file name. A file of Curseforge that may not be downloaded by third parties
is one whose download fails. The download itself is ContentLibrary.

*Runs*: `launch`, the behaviours with `part = "packs"`: a configuration file and a mod are
downloaded, the mod by one version only, and one override, which is in
config/yosbr. Two changes by the user (update and edit, disable and enable) and one
fault, in every order. PackIsApplied says that a game which starts has what the
pack wants or the user has made of it; UserChangesKept that what the user has made
of a file stays. Both are proved. With three changes both hold too; the run has two for its time.
`packs_downloads` expects a violation:

* *A pack without overrides does not know what it has copied.* The auxiliary file is
  saved only if the pack has overrides (backend.rs:958-1010), so the files such a pack
  downloads to other places than mods are copied over the user's changes at every
  launch, against the comment at 892-893.
* *A file that was half copied stays.* When the launcher stops in the middle of a
  copy or a download failed, the hash on the disk is neither the old nor the new
  one, and the file counts as changed by the user for good (`disturbed`).
* *Curseforge is best effort.* When the infos of its files cannot be had the game
  starts without those files and without an error. A file whose info is cached is
  not downloaded again at a launch, and is skipped when the library has lost it.
  PackIsApplied is therefore only an inclusion there.

### ContentLibrary

*Code*: `install_content`, `download_file_into_library_inner` and the copy in
`install_into_content_library` (install_content.rs), `lockfile.rs`.

*State*: one file of the library, which several files of several installs may be.
`lib` is the file (an inode) that has the name, `linked` those that instances have: a
hard link shares its contents with the library. Each task is one file of an
install, with the launcher it belongs to; where it stands says what it holds
(`Holds`): one of the permits of its install, its place in line for the path, the
lock file.

*Actions*: a download takes its `resources` in order (`Acquire`, `LockFails`), looks at what is
there (`Check`), empties the file (`ReceiveHead`) and fills it (`ReceiveAll`) or fails
(`Fail`, `WrongData`). A copy looks, empties and fills without a lock (`CopyCheck`,
`CopyCreate`, `CopyWritten`). When one fails the others are dropped, except the writes on
blocking threads, which go on (`Dropped`). When all are there they are linked one
by one (`Link`). Launchers are killed (`LauncherEnds`), files of instances are changed in
place or removed. The dependencies of a file, which are installed in a second
round, are among the files of the install from the start: which those are, and
the replacement of an older file, is in ContentInstalls.

*Run*: `launch`, the behaviours with `part = "files"`: two tasks, of one launcher or of two,
one permit, two inodes (an old one that is linked and a new one under the
name), one edit. Two tasks are enough, as every property is about two writers, or
one that waits for another. LibraryIsWhole is LinkedIsWhole (what instances have is whole), LockKeepsApart (who
writes beside another is a copy or has no lock) and DownloadsDoNotRace: as long as everybody is a
download with the lock, nobody empties a file that another one writes, has found whole, or is about to link,
since each looks again once it has the lock. It is proved for any
number of tasks, launchers, permits and files. SomeoneGoesOn, with ENABLED, is in DownloadersGoOn: no
install waits for ever, whatever the order of the locks and whoever is killed while
holding them. Deadlock is checked in this run.

What the run taught:

* *A copy has no lock.* `ContentDownload::File` may empty the file while a download of
  the same contents is linked, or be emptied by it; what is linked then is whole
  only when both have ended: LinkedIsWhole says nothing once two have written at once (`raced`), DownloadsDoNotRace
  nothing once a copy has been written (`copied`).
* *The lock may be missing.* `Lockfile::create` may fail, its result is not looked
  at, and the download goes on beside others (`unlocked`): LockKeepsApart and DownloadsDoNotRace say nothing then.
* *An edit in place goes to every instance that has the file*, and the next install of
  the same file empties it before it downloads it again: for all of them (`edited`, `edits`).

### SkinLibrary

*Code*: `skin_manager.rs` (`skin_library_mark_dirty`, `load_skin_library`), the events in
`backend_filesystem.rs`, `use_skin_library` in `frontend/src/entity/mod.rs`.

*State*: the files, numbered by their changes; the events that wait; the load state
and the dirty set behind the lock of the SkinManager; the load and what its
thread has read; the library and the copy the page has. It resembles InstanceLoad
with three differences: nobody waits for a load, a load starts the next one by
itself, and it does so with the lock in hand. `Locked` is when that lock is held
across steps.

*Runs*: `login`, the behaviours with `part = "skins"` (two files, a change of each, the folder
goes once, and then before the second file was there; the bound `SkinsBound`): SkinsAreShown, which is
StaleIsCovered and, unless a load has blocked itself, EventuallyShown. `skins_reload` expects a
violation:

* *A load that has more to do waits for itself.* When the folder changes during a
  load and the page has been drawn since, the end of the load (lines 257, 312, 367)
  calls `load_skin_library` with the write guard in scope, which takes the lock again.
  The thread is stuck, and the handler with the next message or event about
  skins. `skin_library_mark_dirty` drops its guard before the same call.

### InstanceRegistry, IdSlab and IdMap

*Code*: `load_all_instances`, `load_instance_from_path`, `create_instance`, `rename_instance`,
`remove_instance` and the watch maps (backend.rs); the batches, renames and handlers
of folders (backend_filesystem.rs); `id_slab.rs`.

*State*: what each folder is on the disk (absent, an instance, broken, a plain
file), the slots with their ids, the path of each target and what the system
watches, the folders that `load_all_instances` has yet to look at, and the events
that wait. An event is handled in one step, as the handler awaits nothing that
lets others in; `Coalesce` drops an event that the next of the batch is about.

`IdSlab` gives ids of a slot and a generation; `IdMap` is what an id promises: it
names one thing until that is gone, and nothing ever after. `IdSlab` implements
it, which is checked in the run and proved.

*Run*: `content`, the behaviours with `part = "registry"`: two folders, two slots, five
changes, four events. Two folders are enough for one to be renamed to the other,
for two to compete for the one target of invalid folders, and for a slot to be
used again. FoldersAreInstances: when all events have been handled the
instances are the folders that can be read as one; InstancesAreWatched: at any time each is
watched under its own id, and no folder under the id of another's instance;
OnePerFolder: none is there twice. They except folders of which the
launcher was not told or did not look (`missed`), and a watch that was
taken (`taken`). RegistryIsDisk says the three, and is proved for any folders, events and changes.
What the run and the proof taught is what those two are for:

* *An invalid folder takes the watch of another one*, and when that other one has been
  repaired meanwhile, of an instance: it is not heard of any more.
* *A plain file in the instances directory ends `load_all_instances`*: what comes after it
  in the order of the directory is not loaded. `create_instance` with the name of a
  plain file panics.
* *A rename there and back within one batch* leaves an instance without a folder, and
  one that comes after a load has seen the new name leaves two with one folder.
* *A listing of the directory notices only what is there*: an instance whose folder goes unreported, as
  the directory is not watched just then, stays an instance, although a listing is still to come.
  It takes five changes for that to be all that is wrong; the proof met it.
* *The instances directory, removed and made again within one batch, is not watched
  again*; events that come late remove instances that are there.

### PersistentFile

*Code*: `Persistent<T>` (persistent.rs) and `write_safe` (lib.rs), which writes a
temporary file and renames it over the old one.

*State*: the file and the temporary one, memory and its dirty flag, where `modify`
stands, and whether another program writes. `Crash` stops the launcher between any
two steps; a step of `write_safe` may fail, and `modify` ignores that.

*Run*: `files`, the behaviours with `part = "settings"` (two settings, three writes by
others or that fail). MemoryIsFile: with no change under way memory is what a
readable file has; FileStaysWhole: wherever the launcher stops, a readable file
stays readable. Both are proved. Allowed, and seen: a file that cannot be read
counts as the defaults, which the next `modify` writes over it; what another program
wrote and the launcher has not read yet is written over by a `modify`; a failed write
leaves the temporary file behind.

### Syncing

*Code*: `syncing.rs`; `apply_syncing_to_instance` and the three messages.

*State*: per instance and folder nothing (`Missing`), a link (`Shared`) or a directory with items; the
shared directories; what is synced; a file and options.txt per instance with the
time of their last write; the fallback options.

*Actions*: a call is one step, as its handler awaits nothing. Within it each thing that is done to the disk
may fail, or never be done because the launcher has ended: a link that is made or removed (`failing`, and `gone`
for the empty directory that went before it), either `write_safe` of `combine`, and the copy of a file, which
empties its target first and may stop there (`Cut`). syncing.rs:81 ignores that; nobody hears of it.
What a failure leaves in a folder counts as `strayed` until the next launch.

*Run*: `files`, the behaviours with `part = "sync"` (two instances, one folder, one item, three
writes, two deeds of users and games: a file that both write, or a folder that is filled and then taken;
any number of calls between them). SyncedIsLinked: what is synced is a link,
unless something is in its way; NothingIsTaken: the launcher takes nothing that is in
a folder, and gives no instance that has resource packs other ones; LatestIsShared: what it
copies is what any game wrote last, as long as no copy of it has been cut off since. SharedIsKept says the three,
and is proved. Seen: *a copy that was cut off is the newest file*, so each launch that follows gives what is left of
it to the other instances, over the whole files they have, until a game writes the file again; an instance that has no resource
packs gets those of the instance that was launched last, through the fallback;
an instance with syncing disabled is still a source for the others; folders
have one level in the model. Left out: a file that is there and cannot be read (it counts as absent), and
that a copy keeps the time of its source on Windows.

### ContentList

*Code*: `content_list.rs`, `SetContentEnabled` and `DeleteContent` in `backend_handler.rs`,
`load_content_inner` for the ids.

*State*: files with their disabled twins, what was loaded last and under which
generation of ids, updates and requests on their way, the rows, the search, the
selection, the confirmation and the expanded row.

*Run*: `files`, the behaviours with `part = "mods"` (two files, two loads, three clicks).
OnlyWhatWasMeant: whatever loads come between a click and its request, only what
the user meant is deleted, enabled or disabled. It is proved. Seen, and allowed: the rest of a selection
is dropped at the first id that is unknown, or the first file that is already as it should
be; a deletion after a toggle that was not read yet does nothing; a selection
acts on rows that a search has hidden; a rename goes over a file of that name.
The expanded element is looked up by row where an index is meant
(content_list.rs:239 and 640-675), which may be out of range with a modpack above it.
Selecting a range with shift is not modelled.

### LaunchDownloads

*Code*: `launch.rs`, from the version's metadata to the start of the process.

*State*: the stage of the launch, the task of each file in it, what is on the disk,
whether Java may be executed, the hashes that are known, the progress tracker, and
the writes that have outlived their launch: dropping a task does not stop what it gave to a
blocking thread.

*Run*: `launch`, the behaviours with `part = "downloads"` (vanilla, Fabric, Forge with a new or an old
installer; Java, an installer, a processor's output, a library, a log
configuration; two launches and one edit). StartsReady: a game starts with
every file whole that somebody knows the hash of, the others unless a launch
has left them in part, a Java that can be executed, and never after it was
cancelled; ProgressAddsUp: progress ends at its total. DownloadsAreReady says both, and is proved. Seen:

* *Java that was written and not made executable stays so*: a launch that ends between
  the two leaves a file whose hash is right, and nothing looks at its mode again
  (`abandoned`).
* *A file without a hash is taken when it is there*: libraries of Forge and what its
  processors write, also when a launch left half of it (`torn`).
* *A write may meet the next launch*, which has checked the file already (`rewritten`).
* A Java of the instance's own is not counted, so progress ends short of its total.
  `Loader::Unknown` panics (`todo!()`). Natives are written to a directory that running games share.

### LogReader

*Code*: `log_reader.rs`: lines of text, or the XML events of log4j, from a pipe that
may be cut anywhere.

Input is a sequence of symbols, one for each that the reader tells apart. `Printings`
(MCPages) are pairs of events, lines and markup that says nothing, and torn
ends; the buffer has any part of them. EverythingIsRead: however it is cut, the
messages are those of the lines and events in their order, but for what is read twice. Seen:

* *The rest of a line is read twice.* A line of text that the buffer ends in is completed by
  `read_rest_of_line`, which sends it and returns without consuming what it was completed with
  (log_reader.rs:1025-1027). `handle_output` reads that again and sends it as a line of its own. The history
  `reread` marks the rest, `repeated` the messages; EverythingIsRead leaves those out, and no others.
* *Such a rest may be taken for markup*, if it begins with `<` or blanks and `<`, although the line has text before
  it, which log_reader.rs:227 says to read as "a literal line instead of markup". What follows may then be
  lost, or end the reading in an error; EverythingIsRead promises nothing after that.

What else was seen and is
left out of `Printings`: a comment that ends in `--->` and is cut between the dashes is not
recognised; a line of text that begins with `<` swallows what follows (and panics in
a debug build); a throwable of one line after a message of several is dropped.

### GameOutput, FenwickTree, ReadonlyTextField

*Code*: `game_output/mod.rs`, `ftree/src/lib.rs`, `readonly_text_field.rs`.

Items wait for the next paint, are wrapped when they are painted, change their size
in the tree of partial sums, and are taken away for as long as a search runs.
`FenwickTree` is the tree against a sequence of values. The text field has the code
of the window once more, with items of one line; its module says so by
instantiating `GameOutput`.

*Run*: `pages`, the behaviours with `part = "window"`, `"text_field"` and `"tree"`: three items of one or
two lines, two widths, one height, one item of look-back; values 0 .. 2, six in the tree. ViewerIsRight:
all output is there in its order, sizes, total and tree agree, and what is shown is
what the last search found. ViewStays: scrolling up into items that are wrapped
now keeps what was seen where it was. Seen, and excepted there: a `max_offset`
from before rewrapping sends a small step up to the bottom; an offset may get above
the first line; painting during a search puts the view to the bottom; an item
that two searches have skipped has no lines when the search is cleared.

### LogPage

*Code*: `logs_subpage.rs`; `GetLogFiles`, `ReadLog`, `CleanupOldLogFiles` in `backend_handler.rs`.

*Run*: `pages`, the behaviours with `part = "logs"` (a log that grows and a gzipped one, two readers, a buffer of
two, a channel of one). LogIsShown, in OutputIsShown: nothing of the file is lost, repeated or out of order.
Proved for any logs, readers, buffers and channels (`LogsAreShown`).
Seen: a log smaller than the first buffer is shown when more of it is written; the first
piece ends in an empty line; a line that is still being written is shown as two.

### ContentSources

*Code*: `ContentSources` and `cached_curseforge_info` in `mod_metadata.rs`.

*State*: the source of each hash, dirty bits by the first byte of the hash, the files, the
single file of older versions (`legacy`) and what a start has yet to write of it.

*Run*: `content`, the behaviours with `part = "sources"` (three hashes in two files, three sets, two
faults). FilesAreSources: what is neither dirty nor waiting, nor was lost in a
failed write, is in its file; NothingIsForgotten: a source that is written is there ever
after, and a project is not replaced by "some project". Both are proved. Seen:

* *A write that fails is not repeated*: the bits are clear before it, until another
  source of the same byte is set (`lost`).
* *A takeover that is interrupted is not resumed.* The folder is there from the first file on,
  and the next start reads it and leaves the single file alone (`takeover`).
* A truncated cached_curseforge_info.dat may panic at the start (a slice out of range), and
  one file of sources that cannot be read gives all of them up (`unwrap_or_default`). Neither is modelled.

### ContentSummaries

*Code*: `get_file`, `put`, `load_modrinth_modpack`, `load_curseforge_modpack` and
`set_cached_curseforge_info` in `mod_metadata.rs`; the install of a pack's children.

*State*: the file of each child, summaries of children and packs, the two maps of packs that wait (for
a hash, or for an id of Curseforge), readers on two threads, one install.
The children of a pack are looked at side by side, each behind its own locks.

*Run*: `files`, the behaviours with `part = "summaries"` (a pack of Modrinth with two children, one of
Curseforge with one of them, two threads, one install, one fault). SummariesAreCurrent: a pack's
summary without a child is noted under what it waits for, unless somebody is about to drop it. It is proved. Seen:

* *A child that comes while a pack is read* finds nobody to tell; the summary that is stored
  afterwards shows it as missing for all of the run (`raced`).
* *Half a file is read by its name* and counts as UNKNOWN under the whole file's hash (`torn`): such a
  child cannot be disabled by id or name, and one of Curseforge's is left out of a launch.
* `DownloadContentChildren` never finishes its modal, and skips children of Curseforge whose info is
  known and whose file is gone.

### ContentInstalls

*Code*: `install_content` and what it awaits (install_content.rs); `UpdateCheck`, `UpdateContent`,
`SetContentEnabled`, `DeleteContent` (backend_handler.rs).

*State*: the mods folder, the list as it was read last, the sources (`from`), what the checks have found, the install with
what it runs and what it has got, and the projects and ids it has seen.

*Actions*: `Install` is one of two. "Install latest" sends a project; the dialogs send a version by its URL, and
beside it the required projects the user has left ticked and the list did not have (any of them, as that list may be old).
`install_content(files)` starts all of them in round 0, whatever there is. A file by its URL (`by_url`) enters no set
of projects and brings no requirements, and of it only the id in the file is known afterwards. Then come
per round `Finish` or `Fail` of each file and `NextRound`, `EndRounds` (the sources), `Link` per file (the replacement). `UpdateCheck` is one step: the handler awaits it.
A content is a version of a project. The version a dependency is pinned to, the auxiliary file
that `replace_aux_path` renames (it is in Modpacks), a version that lists a project twice, the loader that an install may
set, and installs into a new instance or the library alone are left out.

*Run*: `content`, the behaviours with `part = "installs"` (two projects that require each other, one of Curseforge's with the
id of another, two targets, three clicks, one release, one fault). RequiredOnce: what is brought because it
is required was not there and is brought once, but beside a file without an id that was sent by its URL; RoundsEnd:
projects that require each other end the rounds; OneOfEach: what is of Modrinth is in the folder once, unless the user
brings it in twice, or a dialog does (`doubled`); NothingIsLost:
an update takes nothing away. They are ContentIsThereOnce, and proved. Seen:

* *A dialog may bring a project twice.* It sends A by its URL and B, which A requires, as a project. If B requires A
  and A's file has no id, nothing says that A is under way: the second round brings its newest version as well
  (install_content.rs:615-645 enters no project). With an id the second one is dropped.
  "Install latest" brings A once.
* *What is asked for is brought, there or not* (install_content.rs:142-146): only the dialog looks for a dependency
  that is there already, in the list it was drawn from.
* *A dependency from Curseforge gets its parent's project as source* (install_content.rs:595, where Modrinth's
  has its own, 432). The check for updates then asks for the parent's files, and the comparison that would
  "refuse to update, mismatched project ids" (backend_handler.rs:716-720) compares with the same wrong
  project: the update replaces the dependency by the parent's file. OneOfEach and NothingIsLost are
  therefore about Modrinth's (`~curseforge`). The page shows updates of Modrinth's only, at present.
* *The old file is removed before the new one is linked*, and that the link failed is not noticed (`gone`).
* *An update of a file that was toggled since* replaces nothing and adds a second copy (`doubled`).
* An install into an instance without a loader sets `content.loader_hint` and not the `loader_hint` it has
  worked out (install_content.rs:195): `Unknown`, which a launch then panics at.

### SearchPage

*Code*: `pages/modrinth_page.rs`; `pages/curseforge_page.rs` has the same code but for the fields of its
request, and is not modelled a second time. `FrontendMetadata::{request, set}` in `entity/metadata.rs`.

*State*: the page with its hits, the request whose result it waits for (`loading`, the subscription),
`pending_reload`, `pending_clear` and the task that clears after 300 ms; what the metadata of the frontend knows
of each request, and which of them were sent again because their result is too old; the content of the
instance the page installs for. A hit is its search and its place, a portion has two.

*Actions*: one for each filter, each with the `reload` and the `load_more` it ends in; `render_items` asks for
more when the row below the last hit is drawn; `ResultArrives` is the subscription's callback, which
discards what comes too late and reloads; `DelayedClear` comes at any time after a reload, and `Open`
replaces the page while its request is out. `ContentArrives` is the observer of the instance's mods,
`Click` the button of a hit.

*Run*: `pages`, the behaviours with `part = "search"` (two instances, one without a loader, or none; two types,
one loader, one category, two texts of which one finds nothing, three hits; three pages or
filters) and `"buttons"` (up to two copies of a project, each with any status, which change once).
HitsAreRight has three parts. HitsAreOfOneSearch: what is shown are the first hits of one search, in order, none missing or
twice, and the total is of the same; HitsAreCurrent: it is the search that the page shows, or
the hits are about to go; AllCanBeReached: a row that loads the rest is there, or says why not. It is
proved for any number of texts, filters, hits and portions, and any number of changes.
ButtonsFit, in OutputIsShown: the button of a hit depends on the statuses and not on their order, and updates those that are outdated, once.
Three changes let a portion be overtaken by a filter and a filter by another while its
answer, from the network or from before, is yet to come; four were tried with the same result. Seen: a search that has failed is
not tried again until something else is selected.

### InstallDialog

*Code*: `modals/modrinth_install.rs`, `modals/curseforge_install.rs`; one module, `curseforge` says which.

*State*: the target, what is on offer and selected in the three lists, the selections the last redraw saw (`last_selected`), the
message in place of a list, what the buttons of the last redraw hold (`drawn`), and what was sent.
Each redraw takes the changes of selection up in turn, so `Redraw` is one action with the parts of
`render` as operators, and `Install` sends what `Redraw` has captured.

*Run*: `pages`, the behaviours with `part = "dialog"` (either site, three selections): four files that differ in versions, loaders and type,
one of which cannot be downloaded; instances with a loader, without one, and with a version that no file is for; one
change of the instance's content while the dialog is open. FitsTarget, FitsSelection: what is sent is for the instance, and for the version and the
loader it is sent with; NeedsAreSent: with what it requires, unless that was there. InstallsFit says the three, and is proved. Seen, and excepted:

* *Curseforge's dialog keeps the list of the selection before.* The redraw that finds the files still loading
  notes the selection as the last one (curseforge_install.rs:414-445); when they have come, nothing differs and the
  list is not made again. Below "Loading files..." are the files of another version, and what is
  installed is one of them (`message` in FitsSelection).
* The hint that goes with a file which is for several loaders is none of them.

### SelfUpdate

*Code*: `update.rs`; `update_prompt.rs`; `InstallUpdate` in `backend_handler.rs`.

*State*: the copies at the launcher's path and at the new one, the download or the extracted app, the backup of an
app, the commands that a shell with elevated rights has yet to run (they go on when the launcher has ended), what
the user was told. A copy is its version and whether it may be run; hash and signature make sure that what passes
is the version. A download, a rename, a removal and a change of permissions may each fail, and the launcher
may end between any two steps and be started again.

*Run*: `files`, the behaviours with `part = "itself"` (an executable whose name holds its version or not, or an app; three
releases, three starts). ThereIsALauncher: a copy that was released is there at every moment, and one that can
be started when the update has ended and was not cut off; OutcomeIsTrue: after a
success the new version is in its place, after an error that no command caused all is as it was;
AppIsSomewhere. The model has one update per run of the launcher, and none begins while commands of an earlier one run. Seen, and
excepted (AppIsSomewhere ends with the update): *an app that can be renamed is lost.* The test after the
rename (update.rs:409) is the one for its failure, so a rename that works goes on
without the new app, and line 260 removes the backup. No button leads there on macOS so far (the title bar hides it).
An executable that was exchanged and then not permitted to run stays so (`cut`).

## 4. Fairness

Used by `load_live`, `bridge`, `login` (with the skins) and `metadata_live`. The other runs check safety.

* A task that can go on does (WF per task): tokio schedules every runnable task,
  and blocking reads end.
* `HandleFilesystem`, `HandleRequest`: SF. `select!` picks among its ready branches at
  random and the queues are FIFO, so neither source is passed over for ever,
  although the handler is unavailable now and then.
* The page's pending render: WF; a render's second half: WF; updates: SF, as the
  frontend thread drains its queue between renders.
* The page that shows expired data is drawn again and again (SF): it is, as long
  as it is on the screen. StaleIsRefreshed assumes that expiry stops in the end:
  with a period of five minutes it leaves time for any download that ends. The
  answers of the server do not change in that run (`LauncherNext`), since who waits for whom does
  not depend on them.
* Services: a request has an answer or fails (timeouts of the HTTP client), and a
  user who is asked to log in does so or cancels. No fairness for changes to
  files, expiry, new messages or calls.

Deadlock is checked in `launch` and `packs_downloads`. It is off where the bounds (`MaxVersion`, `MaxSerials`, `MaxCalls`,
one signal) end a behaviour.

## 5. Proofs

For all values of the constants, from the named assumptions of the modules only.

*InstanceLoadProofs.* `Control` (SingleFlight, NoLostWakeup, FlagsAgree) is inductive
with TypeOK. Most steps are `Quiet`: they leave the reads and waits alone and only
add to what is dirty; `StepCases` shows that all but four actions are, and these
are taken one by one. StaleIsCovered is not inductive: a load could
publish an older file than the one it replaces, or read before it watches. The
strengthening is `IInv == TypeOK /\ Control /\ InOrder /\ UnwatchedIsUnread /\ StaleIsCovered`,
where `InOrder` says that view, inbox, data, the read in flight and the disk are
ordered, file by file, and `UnwatchedIsUnread` that what is not watched has not been
read. InOrder also gives `LoadImplementsFreshCopy`: every step is a change, a refresh
or a stutter of the copy.

ContentIsThereOnce of ContentInstalls looks at the folder; what decides it is on its way long before. `InstallsInv` says of what
an install runs and has got that each project is in it once and marked as asked for (`AskedOnce`; but a file by its URL is not
marked, and may have a second beside it if it has no id or the project is `doubled`), that what is required was
neither listed nor has an id that was (`RequiredIsNew`), and that the folder has none of it but the file
that is replaced (`KeptOnce`). This holds for what only installs have brought (`Kept`), whose sources are known (`SourcesAreKnown`)
and are their own (`SourcesFit`). RoundsEnd is a count: each round but the last asks for a project that was not asked for before
(`RoundsAskAnew`, with a cardinality). The last part, NothingIsLost, has a hypothesis, `NamesDiffer`: no other project gives a file the
name of one of Modrinth's. A link goes over a file of its name, whose ever it is; the catalogue of the run
meets the hypothesis, and `InstallsStayOnce` says what holds without it.

*FilesProofs* has one part per component, each with an inductive invariant of its own.

* FileWatching. `IInv` is TypeOK, TargetsAgree, LinksAgree (together MapsAgree) and WatchedBySystem.
  The lemmas `WithoutGone`, `Removed` and `Watched` say what removing paths and watching one do to
  the four maps; the actions follow.
* PersistentFile. MemoryIsFile is inductive with the types, with `Ahead` (while a change is being
  written, memory is ahead of the file) and with `TempIsWhole` (the temporary file is complete when it
  is renamed); FileStaysWhole follows, as nothing but a whole temporary file is renamed.
* SelfUpdate. `UpdateInv` says what is where at each stage and before each command:
  what was fetched, and what is at the new path, is the version that was asked for
  (`FetchedIsRight`, `NewIsRight`); until then the old copy is untouched (`ExeIsSafe`); an app is in its place or in
  the backup (`AppIsSafe`). UpdatesAreSafe only looks at the ends, and says too little of the middle.
* Syncing. LatestIsShared needs to know which file is the newest: `NewestIsLatest` says that what games wrote
  last is what the latest of the files says, and `WrittenBefore` that no file is from the future, so
  that who writes now is the latest. `SaysLast` is the lemma for one write; `OptionsAreGiven` and `CopyIsGiven` say what
  `combine` and a copy leave, done, failed or cut off: NewestIsLatest has the copy's remains as the newest there is.
* ContentList. OnlyWhatWasMeant is about requests that arrive after other loads. `ListInv` says of each row, update
  and request what its id stands for now (`StandsFor`, `IsMeant`): the mod it was made for, or, once the content
  has been read again, nothing at all, since an id has its load's generation.

*LoginProofs.* `IInv == TypeOK /\ PermitInv /\ CredentialsAreCurrent /\ LoopInv`. `PermitInv`: a
caller between acquire and return is in the queue, once, and at its head when it
works; so nobody else works, and nobody else writes the credentials. `LoopInv`: at
the top of the loop, unless a token has expired, the stage differs from the last
one and is below it only while going back is allowed. NoRepeatedLogin is a property of steps: a
profile task that reads credentials has just been given the permit, so it has just looked at
the cache (`Further`: any other step leaves a call where it is, or past that), and a profile
task asks for nothing but profiles (`ProfilersAsk`).

*LaunchLifecycleProofs.* PlaytimeIsReal is not inductive: the file could hold more
than the memory and be read again, or a session could have begun in the future.
SessionIffProcesses alone is not either: an instance could know of a process that
never began, which a launch then starts a second time. The strengthening
`IInv == BackendTypes /\ LaunchedIsThere /\ HadBegun /\ PlayedInThePast /\
SessionIffProcesses /\ LaunchingIsInHandler` has, per instance, a file not ahead of the
memory and a memory that together with the open session is not ahead of the
clock (`Played`), processes that have begun, and a launched instance that is
there. `BackendTypes` leaves out the messages to the frontend and what it draws,
which no invariant reads. `SessionCloses` says what `update_session` adds;
`GetsProcesses` serves the start, the kill and the tick. GamesAreKnown follows with
`AllStay` (no instance is gone) under the two assumptions the runs show to be
needed, ~Removable and ~KillFails. WriteFails is allowed in all of these.

PlaytimeNeverGoesBack is about what the frontend shows, which is what some message said when it was sent.
`PlaytimeInv` orders the three places: what is shown is not above any message on its way
(`NewerThanShown`), these do not go down from one to the next (`InOrder`), and none is above what the backend
knows (`WasTrue`, `ShownWasTrue`). A tick sends one message per instance, joined by `FlattenSeq`;
what that returns for any number of instances is `FlattenedIsSeq`, by an induction over
the numbers that is stated for a set (`NumbersAreReached`, from the well-foundedness of
finite subsets). The hypothesis is ~WriteFails, as in the run: a write that fails
loses a session's time as soon as the file is read again, see LaunchLifecycle.

DownloadsAreReady of LaunchDownloads speaks of the step that starts a game. `DownloadsInv` says what that step finds. The
progress is a function of the stage (`CountAt` in `CountsUp`), so it cannot pass its total; what a task has
got through with is `Fine` (`ThroughIsFine`) and stays so through later stages (`GotIsFine`), for a part of
a file is what somebody is about to finish or has left behind (`PartIsLeft`), and a write that outlived its launch is known to the
next one (`LateIsTouched`); a Java that cannot be executed is about to be made so, or was given up (`JavaRuns`).

*BridgeProofs.* Five parts.

* NotifySignal, for any number of threads and permits. NoEarlyReturn and NoOverflow need an account of the permits: those that are free and those that are held are
  MaxPermits from the moment they were added, and none before (`PermitsKept`, a sum with a cardinality);
  one notifier adds them (`OneAdds`), and who is in the queue waits (`Queued`). `SignalInv` has these;
  `ReleaseGives` says whom a release serves.
* SerialChannel. AskedIsComing and NoFlood compare serials that wrap. `ChannelInv` has a `base`, a serial from
  which the ones in flight are counted upwards (`Offset`): with fewer than half of the modulus in
  flight, `partial_cmp` is the order of these distances (`BeforeIsOrder`). Counted so, the
  queue is in order, what is about to be queued is the last, and a slot remembers its
  last message until that has been processed. The theorem has the hypothesis `OneSender`, which
  the code meets for requests, since gpui's thread sends them all; with two senders it is false (see SerialChannel).
* IdSlab implements `IdMap`: the ids in use are spent, and a spent id is below the
  generation that is handed out next, so no id is handed out twice; each operation is an operation of
  the map or a stutter.
* InstanceRegistry. `SlabCases` says what each handler asks of the slab; so the registry implements `IdMap` too, and
  OnePerFolder is inductive: a folder is inserted only if nobody has it. InstancesAreWatched needs more of the watches
  (`WatchInv`): their ids have been handed out, so no new instance gets one that is still watched somewhere, and an
  instance that is not watched under its id has lost its watch to an invalid folder. One lemma for each kind of step:
  `InsertKeepsWatches`, `UpdateKeepsWatches` (a rename) and `FewerKeepWatches` (the others).
  FoldersAreInstances is about the moment when nothing waits, and `ToldInv` about the others: of an instance whose folder
  is none any more an event will say so (`GoneIsTold`), and of a folder that has become one (`NewIsTold`), unless
  it is about to be loaded or listed, which only notices the first if something else is in its place. `SettledIsTold` is the lemma for what an event settles, `CoalesceTells` and
  `ListTells` for events that are dropped and for listings, `ChangeTells` for what the system reports.
* InstallDialog, for either site and any files. What is sent was drawn by one redraw, from lists and selections that others have left.
  `DialogInv` ties them together: what is fixed is the instance's (`FixedForTarget`), what is on offer is what is fixed or is for the
  version that was last drawn (`SelectionsFit`), and the list of files is for the last selections unless a message stands over it, but always
  for what is fixed (`DrawnFits`). So InstallsFit holds for an instance under a message too. `FileAssumption` has what the
  sites list: a file is for some loader, and there is a newest version of the game.

*MetadataCacheProofs.* HandlesAreRight needs the lock (`LockInv`: whoever is in a call is in its queue, once,
and only the head works), that a call which is about to list its handle is the only one to know
it (`FreshHandle`), that somebody waits only while there is a load (`PendingInv`), and that whoever has
a live handle has the result of the cache (`SameHandle`). For BackwardsOnlyByFallback nothing
anywhere is newer than the server (`OldData`), and what a page, a message and the cache have is in this order,
unless a download has failed.

HitsAreRight of SearchPage looks at the hits, and needs to know what the page waits for. `SearchInv` has
`PageIsRight`: the hits are those of one search (`OneSearch`), a request that is out has no answer yet, and unless
a reload waits for it, it asks for the next portion of the very search that the page shows, whose hits these are
or which are about to be cleared (`UpToDate`). So a portion that arrives with no reload waiting
continues what is there, and one that arrives with a reload is discarded. There is a lemma for each operation the
actions share: `LoadMoreKeeps`, `ReloadKeeps` (for a page whose filters have changed, of which less is known), `ObservedKeeps` and `AppliedPage`.

LogIsShown of LogPage says nothing of a reader that is about to read. `LogsInv` says for every reader that what it has got
is one piece of the file (`ReaderGoesOn`): linked from the start, and what it reads next begins where it ends; and that a reader is
asked for once (`AskedOnce`), with nothing sent before. The lines of the first buffer are cut at the ends
it has in ascending order. That there is such an order is proved by counting, for each end, those up to it (`NumbersAscend`),
as the induction of the library is out of reach; `SplitIsWhole` is what follows for the lines.

*ContentProofs.* FilesAreSources is inductive with the types and `FolderIsThere`: while there is a
single file there is a folder too, so a start reads what is written. NothingIsForgotten is then a
property of each step: a restart reads what the files say, which FilesAreSources makes the sources.
The bounds in SourcesType are a second, smaller invariant (`HasBounds`).
SummariesAreCurrent speaks of summaries that are kept, but is decided while one is read: `SummaryInv` follows
each reader of a pack through each child (`ReaderIsCurrent`). Where it has seen the child missing and has got
past the lookup, the child is yet to come, or those who lack it are about to be told (`ToCome`), and
it has noted the pack when it is done with that child. `Together` puts what the children's steps keep into what the pack's keep.

*ModpacksProofs.* ContentLibrary: LinkedIsWhole is not inductive, since what is linked is decided while files are
written. `LibraryInv` has what the tasks are (`Tasks`), that one at a time has the lock file (`OneWithin`), and two
accounts. `NobodyRaces`: while nobody has raced, at most one writes, to the file that has the name, which is not
whole until then; when somebody is done it is, and nobody writes. `LookedUnderLock`: with the lock, no copy and no edit, whoever is
about to empty the file has seen that it is not whole, and nobody but the one with the lock could have made it so.
The actions share the lemmas `TaskMoves`, `TasksEnd`, `FileIsCreated` and `FileIsWritten`.

UserChangesKept of Modpacks is a property of steps. What is needed is that the
auxiliary file knows each path a launch has put there (`GivenIsKnown`), and that the
launch's own copy knows at least as much (`Applying`), so that `should_override_file`
compares with a hash, which what the user has made never equals (`NotOverridden`).
The theorem assumes that each version of the pack has overrides; `packs_downloads`
shows what happens without.

PackIsApplied, under the same hypothesis, is about the state in which a game has been started. `PackInv` adds `Fits` to this: what has had its turn is in
the instance (`TurnsFit`), as what is copied from the library is whole (`LibraryFits`), the mods that were given are wanted
(`GivesWanted`), and what the auxiliary file, or while a launch applies its copy of it, remembers of a path is
there unless the user has touched it (`RememberedFits`), so that a file which is not copied needs no copy. The
last three speak of packs of Modrinth while no download fails and the launcher is not killed (`Steady`), which is where PackIsApplied
is more than an inclusion. PacksAreKept is the two together.

Model-checked only, and why:

* what speaks of fairness or of ENABLED, which the prover does not reason about: EventuallyFresh, EveryLoadReturns,
  EveryoneIsServed, FrontendIsTold, EveryCallReturns, StaleIsRefreshed, SkinsAreShown, and
  SomeoneGoesOn in DownloadersGoOn;
* what recursive operators compute, and folds over sequences, for which induction over data would be needed:
  GameOutput, ReadonlyTextField, FenwickTree, LogReader and the ButtonsFit of SearchPage, in OutputIsShown.

## 6. Not modelled

See "components" in `PROJECT.json`, with the reason for each. In short: the import from other launchers is
sequential translation of files; NBT, the launch
arguments and rules, and what the archives and services say (`metadata/items.rs`, the readers of mod archives)
are data to the models; drawing, data types, HTTP glue, the panic handler and shortcuts have no state
worth checking. Of the modelled parts: what each section above says is left out.
