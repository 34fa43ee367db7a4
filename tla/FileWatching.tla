---------------------------- MODULE FileWatching ----------------------------
(***************************************************************************)
(* BackendStateFileWatching (backend/src/backend.rs): which directories    *)
(* are watched and on whose behalf.  A directory is watched under a target *)
(* (an instance's folder, its saves, one of its worlds, ...), through the  *)
(* path the launcher knows it by, which may be a symbolic link.  Two pairs *)
(* of maps have to agree: path to target and back, link to source and      *)
(* back.  The file system and the operating system's watches are external. *)
(*                                                                         *)
(* Every action holds the file_watching lock.                              *)
(***************************************************************************)
EXTENDS Naturals

CONSTANTS
  Path,       \* directories, by the paths the launcher uses and their real paths
  Target,     \* WatchTargets
  None,       \* no path or no target
  Calls,      \* {<<p, t>> : watch_filesystem is called with path p, target t}
  Subdirs,    \* the targets that renaming an instance unwatches
  WorldDir,   \* the target of the worlds of an instance
  Worlds,     \* the paths of its worlds
  Link        \* the paths that may be symbolic links

ASSUME NoneAssumption == None \notin Path /\ None \notin Target
ASSUME CallsAssumption == Calls \subseteq Path \X Target
ASSUME WorldAssumption == WorldDir \in Target /\ Worlds \subseteq Path
ASSUME SubdirsAssumption == Subdirs \subseteq Target

VARIABLES
  watching,               \* the target each path is watched under
  watch_target_to_path,   \* the path watched for each target
  symlink_link_to_src,    \* the real path of a watched path that is a link
  symlink_src_to_links,   \* the links that are watched for a real path
  publishing,             \* worlds that a finished load has yet to watch; it
                          \* holds the lock until there are none
  published,              \* the worlds that existed when they were published
  dirty,                  \* the worlds that file events have marked dirty
  changed,                \* worlds of whose files a change has been reported
  os,                     \* the directory the system watches for each path
  canonical,              \* what each path resolves to
  removed,                \* removals the backend has not been told of yet
  coalesced               \* it was never told of some removal, for a creation in
                          \* the same batch of events

maps == <<watching, watch_target_to_path, symlink_link_to_src, symlink_src_to_links>>
worlds == <<publishing, published, dirty>>
external == <<changed, os, canonical, removed, coalesced>>
vars == <<maps, worlds, external>>

-----------------------------------------------------------------------------
TypeOK ==
  /\ watching \in [Path -> Target \cup {None}]
  /\ watch_target_to_path \in [Target -> Path \cup {None}]
  /\ symlink_link_to_src \in [Path -> Path \cup {None}]
  /\ symlink_src_to_links \in [Path -> SUBSET Path]
  /\ publishing \in SUBSET Worlds
  /\ published \in SUBSET Worlds
  /\ dirty \in SUBSET Path
  /\ changed \in SUBSET Worlds
  /\ os \in [Path -> Path \cup {None}]
  /\ canonical \in [Path -> Path \cup {None}]
  /\ removed \in SUBSET Path
  /\ coalesced \in BOOLEAN

Init ==
  /\ watching = [p \in Path |-> None]
  /\ watch_target_to_path = [t \in Target |-> None]
  /\ symlink_link_to_src = [p \in Path |-> None]
  /\ symlink_src_to_links = [p \in Path |-> {}]
  /\ publishing = {}
  /\ published = {}
  /\ dirty = {}
  /\ changed = {}
  /\ os = [p \in Path |-> None]
  /\ canonical = [p \in Path |-> p]
  /\ removed = {}
  /\ coalesced = FALSE

-----------------------------------------------------------------------------
(* remove, for each path of gone: what becomes of the four maps. *)

watching_without(gone) ==
  [p \in Path |-> IF p \in gone THEN None ELSE watching[p]]
targets_without(gone) ==
  [t \in Target |-> IF \E p \in gone : watching[p] = t THEN None ELSE watch_target_to_path[t]]
\* (A bug: a removed link keeps its source.)
sources_kept(gone) == symlink_link_to_src
sources_without(gone) ==
  [p \in Path |-> IF p \in gone THEN None ELSE symlink_link_to_src[p]]
links_without(gone) ==
  [s \in Path |-> symlink_src_to_links[s] \ {p \in gone : symlink_link_to_src[p] = s}]

remove(gone) ==
  /\ watching' = watching_without(gone)
  /\ watch_target_to_path' = targets_without(gone)
  /\ symlink_link_to_src' = sources_without(gone)
  /\ symlink_src_to_links' = links_without(gone)

\* The directory that path p was watched through, as the maps remember it.
Source(p) == IF symlink_link_to_src[p] # None THEN symlink_link_to_src[p] ELSE p

\* watch_filesystem(p, t): nothing happens to a path that does not exist or is
\* watched for t already.  (Nor to one the system refuses to watch.)
watch_filesystem(p, t) ==
  LET old  == watch_target_to_path[t]
      gone == {old} \ {None}
      c    == canonical[p]
  IN  IF c = None \/ (old = p /\ Source(p) = c)
      THEN UNCHANGED <<maps, os>>
      ELSE /\ os' = [os EXCEPT ![p] = c]
           /\ watching' = [watching_without(gone) EXCEPT ![p] = t]
           /\ watch_target_to_path' = [targets_without(gone) EXCEPT ![t] = p]
           /\ symlink_link_to_src' =
                [sources_without(gone) EXCEPT ![p] = IF c = p THEN @ ELSE c]
           /\ symlink_src_to_links' =
                [links_without(gone) EXCEPT ![c] = IF c = p THEN @ ELSE @ \cup {p}]

\* all_paths(p), as far as they are watched: the paths by which the launcher
\* knows the directory that an event calls p.
\* (A bug: only the links to the directory are looked up.)
all_links(p) == {q \in symlink_src_to_links[p] : watching[q] # None}
all_paths(p) == {q \in {p} \cup symlink_src_to_links[p] : watching[q] # None}

-----------------------------------------------------------------------------
(* What the backend does. *)

\* One of the callers of watch_filesystem.
Watch(p, t) ==
  /\ publishing = {} /\ <<p, t>> \in Calls
  /\ watch_filesystem(p, t)
  /\ UNCHANGED <<worlds, changed, canonical, removed, coalesced>>

\* unwatch_subdirectories_of_instance, before an instance is renamed.
UnwatchSubdirectories ==
  /\ publishing = {}
  /\ LET gone == {watch_target_to_path[t] : t \in Subdirs} \ {None}
     IN  /\ watching' = watching_without(gone)
         /\ watch_target_to_path' =
              [t \in Target |-> IF t \in Subdirs THEN None ELSE targets_without(gone)[t]]
         /\ symlink_link_to_src' = sources_without(gone)
         /\ symlink_src_to_links' = links_without(gone)
         /\ os' = [p \in Path |-> IF p \in gone THEN None ELSE os[p]]
  /\ UNCHANGED <<worlds, changed, canonical, removed, coalesced>>

\* The backend is told that p has been removed (handle_filesystem_event).
HandleRemove(p) ==
  /\ publishing = {} /\ p \in removed
  /\ remove(all_paths(p))
  /\ removed' = removed \ {p}
  /\ UNCHANGED <<worlds, changed, os, canonical, coalesced>>

\* load_worlds_inner takes the dirty worlds and reads them ...
TakeDirtyWorlds ==
  /\ publishing = {}
  /\ dirty' = {}
  /\ UNCHANGED <<maps, publishing, published, external>>

\* ... and comes to the loop in which it watches the worlds it has found ...
LoadWorlds ==
  /\ publishing = {}
  /\ publishing' = {w \in Worlds : canonical[w] # None}
  /\ UNCHANGED <<maps, published, dirty, external>>

\* ... one after the other.  The system may refuse to.
PublishWorld(w) ==
  /\ w \in publishing
  /\ publishing' = publishing \ {w}
  /\ \/ /\ watch_filesystem(w, WorldDir)
        /\ published' = IF canonical[w] # None THEN published \cup {w} ELSE published \ {w}
     \/ /\ published' = published \ {w}
        /\ UNCHANGED <<maps, os>>
  /\ UNCHANGED <<dirty, changed, canonical, removed, coalesced>>

\* The backend is told that level.dat or icon.png of world w has changed.  The
\* event is routed by the directory it is in.
HandleWorldChange(w) ==
  /\ publishing = {} /\ w \in changed
  /\ changed' = changed \ {w}
  /\ dirty' = dirty \cup {q \in all_paths(w) : watching[q] = WorldDir}
  /\ UNCHANGED <<maps, publishing, published, os, canonical, removed, coalesced>>

-----------------------------------------------------------------------------
(* What the file system does. *)

\* A file of a world is written, and the system reports it if it watches the
\* world's directory.
ChangeWorldFile(w) ==
  /\ os[w] # None /\ os[w] = canonical[w]
  /\ changed' = changed \cup {w}
  /\ UNCHANGED <<maps, worlds, os, canonical, removed, coalesced>>

\* A directory is deleted.  Its watches go away with it.
DeleteDirectory(p) ==
  /\ canonical[p] = p
  /\ canonical' = [q \in Path |-> IF canonical[q] = p THEN None ELSE canonical[q]]
  /\ os' = [q \in Path |-> IF os[q] = p THEN None ELSE os[q]]
  /\ removed' = removed \cup {q \in Path : os[q] = p}
  /\ published' = {w \in published : canonical[w] # p}
  /\ UNCHANGED <<maps, publishing, dirty, changed, coalesced>>

\* A symbolic link is deleted: what it pointed to is still there.
DeleteLink(p) ==
  /\ canonical[p] \notin {None, p}
  /\ canonical' = [canonical EXCEPT ![p] = None]
  /\ removed' = removed \cup {p}
  /\ published' = published \ {p}
  /\ UNCHANGED <<maps, publishing, dirty, changed, os, coalesced>>

\* A directory, or a link to an existing one, is created.  When p was removed
\* in the same batch, handle_filesystem drops the removal for the creation.
Create(p) ==
  /\ canonical[p] = None
  /\ \E c \in {p} \cup {q \in Path : p \in Link /\ canonical[q] = q} :
       canonical' = [canonical EXCEPT ![p] = c]
  /\ \/ UNCHANGED <<removed, coalesced>>
     \/ p \in removed /\ removed' = removed \ {p} /\ coalesced' = TRUE
  /\ UNCHANGED <<maps, worlds, changed, os>>

-----------------------------------------------------------------------------
Next ==
  \/ \E p \in Path, t \in Target : Watch(p, t)
  \/ UnwatchSubdirectories
  \/ TakeDirtyWorlds \/ LoadWorlds
  \/ \E w \in Worlds : PublishWorld(w) \/ HandleWorldChange(w) \/ ChangeWorldFile(w)
  \/ \E p \in Path : HandleRemove(p) \/ DeleteDirectory(p) \/ DeleteLink(p) \/ Create(p)

Spec == Init /\ [][Next]_vars

-----------------------------------------------------------------------------
(* Properties. *)

\* The path a target is found under is the one that is watched for it, so no
\* target is watched through two paths (watch_filesystem, remove).
TargetsAgree ==
  \A p \in Path : watching[p] # None => watch_target_to_path[watching[p]] = p

\* An event of a watched link's source finds its way to the link.
LinksAgree ==
  \A p \in Path :
    symlink_link_to_src[p] # None =>
      /\ p \in symlink_src_to_links[symlink_link_to_src[p]]
      /\ symlink_link_to_src[p] # p
      /\ watching[p] # None

\* No two of the maps contradict one another, whatever was watched, unwatched,
\* removed or replaced by a link before.
MapsAgree == TypeOK /\ TargetsAgree /\ LinksAgree

\* What the maps take to be watched the system does watch, unless the backend
\* is about to be told that it is gone, or was not told (handle_filesystem drops
\* an event for the next one about the same path).
WatchedBySystem ==
  ~coalesced => \A p \in Path : watching[p] # None => os[p] # None \/ p \in removed

\* "If a file inside the world folder is changed (e.g. icon.png), mark the
\* world (parent) as dirty" (backend_filesystem.rs).
WorldChangeMarksWorld ==
  [][\A w \in published : HandleWorldChange(w) => w \in dirty']_vars
=============================================================================
