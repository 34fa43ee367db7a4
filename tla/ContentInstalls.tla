---------------------------- MODULE ContentInstalls ----------------------------
(***************************************************************************)
(* How mods come into an instance: install_content with the files that are *)
(* asked for and, round by round, what those require; UpdateCheck and      *)
(* UpdateContent (backend/src/install_content.rs, backend_handler.rs).     *)
(*                                                                         *)
(* The handler does one of these at a time, and lets the downloads of one  *)
(* round run side by side.  What it knows of the folder is what was read   *)
(* last.  Files are known by their content, a project's version; where a   *)
(* content is from is a source, kept for all instances.  An install knows  *)
(* what is there and what has been asked for, but not the project of a     *)
(* file it is sent by its URL: of that only the id in the file.            *)
(***************************************************************************)
EXTENDS Naturals, FiniteSets

CONSTANTS
  Mod,     \* projects of Modrinth and of Curseforge
  Catalogue,   \* what is known of each
  Target,      \* a loader and a version of the game
  Nil,         \* no file, no source
  MaxClicks,   \* bound: what the user does
  MaxReleases, \* bound: new versions
  MaxFailures    \* bound: requests, links that fail

Content == Mod \X (1 .. 1 + MaxReleases)
project(c) == c[1]
mod_id(c) == Catalogue[project(c)].id
mod_ids(what) == {mod_id(c) : c \in what} \ {Nil}

\* The names files may have, enabled and disabled.
Place == {Catalogue[p].names[v] : p \in Mod, v \in 1 .. 1 + MaxReleases} \X BOOLEAN
place(c, enabled) == <<Catalogue[project(c)].names[c[2]], enabled>>

\* Whether it is Curseforge's; the id in its files, if they have one, and their
\* names; the projects they require; what they are for, and whether they mind.
CatalogueAssumption ==
  /\ IsFiniteSet(Mod) /\ Nil \notin Mod \cup Content \cup Place /\ MaxReleases \in Nat
  /\ \A p \in Mod :
       /\ Catalogue[p].curseforge \in BOOLEAN /\ Catalogue[p].strict \in BOOLEAN
       /\ Catalogue[p].requires \subseteq {q \in Mod : Catalogue[q].curseforge = Catalogue[p].curseforge}
       /\ Catalogue[p].offers \subseteq Target

VARIABLES
  mods,    \* the mods folder: the content of each file
  listed,    \* what was in it, and from where, when it was read last
  target,    \* the loader and version of the instance
  newest,    \* the newest version of each project
  from,   \* content_sources: the project a content is from
  updates,   \* what the checks have found, for a content and a target
  job,       \* the install
  projects,  \* InstalledContentIds: modrinth_projects and curseforge_projects,
  ids,       \* summary_ids
  clicks, failures,
  had,       \* the sources and ids of what was listed when the install began (history)
  doubled,   \* projects the user has brought in twice, or behind the list's back, or that were
             \* brought for a file after they had been sent by their URL (history)
  gone       \* projects that the user has deleted, or whose link failed (history)

known == <<from, updates>>
installed_ids == <<projects, ids>>
installs_history == <<clicks, failures, had, doubled, gone>>
installs_vars == <<mods, listed, target, newest, known, job, installed_ids, installs_history>>

NoJob == [pc |-> "idle", running |-> {}, dependencies |-> FALSE, round |-> 0, next |-> {}, got |-> {}]

\* A file to install: a project's, with the source that is kept for it; a version of it,
\* by its URL, or 0 for the newest, with what it requires.
FileToInstall == [project : Mod, source : Mod, version : 0 .. 1 + MaxReleases]
by_url(k) == k.version # 0
content_of(k) == <<k.project, IF by_url(k) THEN k.version ELSE newest[k.project]>>
latest(p, source) == [project |-> p, source |-> source, version |-> 0]

InstallsType ==
  /\ mods \in [Place -> Content \cup {Nil}] /\ listed \in [Place -> (Content \cup {Nil}) \X (Mod \cup {Nil})]
  /\ target \in Target
  /\ newest \in [Mod -> 1 .. 1 + MaxReleases]
  /\ from \in [Content -> Mod \cup {Nil}]
  /\ updates \in [Content \X Target -> Content \cup {Nil}]
  /\ job.pc \in {"idle", "files", "link"}
  /\ job.running \subseteq FileToInstall /\ job.next \subseteq FileToInstall
  /\ projects \subseteq Mod

Nothing == [sources |-> {}, ids |-> {}]

InstallsInit ==
  /\ mods = [f \in Place |-> Nil] /\ listed = [f \in Place |-> <<Nil, Nil>>]
  /\ target \in Target
  /\ newest = [p \in Mod |-> 1]
  /\ from = [c \in Content |-> Nil]
  /\ updates = [k \in Content \X Target |-> Nil]
  /\ job = NoJob
  /\ projects = {} /\ ids = {}
  /\ clicks = 0 /\ failures = 0
  /\ had = Nothing /\ doubled = {} /\ gone = {}

In(what) == {what[f] : f \in Place} \ {Nil}
Listed(f) == listed[f][1]
InList(list) == {list[f][1] : f \in Place} \ {Nil}
Copies(p) == {f \in Place : mods[f] # Nil /\ project(mods[f]) = p}

\* What has changed is read, or everything.
Read ==
  \E everything \in BOOLEAN :
    listed' = [f \in Place |->
      IF ~everything /\ Listed(f) = mods[f] THEN listed[f]
      ELSE <<mods[f], IF mods[f] = Nil THEN Nil ELSE from[mods[f]]>>]

Click == job.pc = "idle" /\ clicks < MaxClicks /\ clicks' = clicks + 1

-----------------------------------------------------------------------------
(* install_content *)

\* The content of the instance is loaded, as far as changes have been heard of.
already_there == {listed'[f][2] : f \in Place} \ {Nil}

\* All files are brought, whatever there is; those sent by their URL enter no set.
install_content(files) ==
  LET asked == {k.project : k \in {k \in files : ~by_url(k)}}
      dependencies == asked # {}
      twice == {k.project : k \in {k \in files : \E l \in files \ {k} : k.project = l.project}}
  IN  /\ Click
      /\ UNCHANGED listed \/ (dependencies /\ Read)
      /\ had' = IF dependencies THEN [sources |-> {listed'[f][2] : f \in Place}, ids |-> mod_ids(InList(listed'))]
                ELSE Nothing
      /\ projects' = IF dependencies THEN already_there \cup asked ELSE {}
      /\ ids' = IF dependencies THEN mod_ids(InList(listed')) ELSE {}
      /\ job' = [NoJob EXCEPT !.pc = "files", !.running = files, !.dependencies = dependencies]
      /\ doubled' = doubled \cup {project(c) : c \in In(mods) \ InList(listed')}
                      \cup twice \cup {p \in {k.project : k \in files} : Copies(p) # {}}
      /\ UNCHANGED <<mods, target, newest, known, failures, gone>>

\* "Install latest" sends the project.  A dialog sends a version by its URL, and beside it
\* what that requires, unless the list had it when the dialog was drawn or it is not wanted.
Install(p) ==
  \/ install_content({latest(p, p)})
  \/ \E version \in 1 .. newest[p], needs \in SUBSET Catalogue[p].requires :
       install_content({[project |-> p, source |-> p, version |-> version]} \cup {latest(q, q) : q \in needs})

\* The newest version is asked for, first for the loader and the version of the
\* game, then for the version, then for any; a file that minds is refused.
fits(p) == target \in Catalogue[p].offers \/ (Catalogue[p].offers # {} /\ ~Catalogue[p].strict)
available(k) == by_url(k) \/ fits(k.project)

\* The source that is kept for q, which p requires: with Curseforge that is p.
source_of(p, q) == IF Catalogue[p].curseforge THEN p ELSE q

required(p) == {latest(q, source_of(p, q)) : q \in Catalogue[p].requires}

known_id(c) == mod_id(c) \in ids

\* A file is in the library: if it is required and its id is known, it is left there.
Finish(k) ==
  /\ job.pc = "files" /\ k \in job.running /\ available(k)
  /\ LET c == content_of(k)
         already == job.round > 0 /\ known_id(c)
         again == {g \in job.got : project(g.content) = k.project /\ g.by_url /\ mod_id(c) = Nil}
     IN  /\ ids' = IF job.dependencies THEN ids \cup mod_ids({c}) ELSE ids
         /\ job' = [job EXCEPT
              !.running = @ \ {k},
              !.next = IF already \/ by_url(k) THEN @ ELSE @ \cup required(k.project),
              !.got = IF already THEN @
                      ELSE @ \cup {[content |-> c, to |-> place(c, TRUE), replace |-> Nil, source |-> k.source,
                                    required |-> job.round > 0, by_url |-> by_url(k)]}]
         /\ doubled' = IF again = {} THEN doubled ELSE doubled \cup {k.project}
  /\ UNCHANGED <<mods, listed, target, newest, known, projects, clicks, failures, had, gone>>

\* It is not to be had: the install ends with an error, or does without it.
Fail(k) ==
  /\ job.pc = "files" /\ k \in job.running
  /\ IF available(k) THEN failures < MaxFailures /\ failures' = failures + 1 ELSE UNCHANGED failures
  /\ job' = IF job.round = 0 THEN NoJob ELSE [job EXCEPT !.running = @ \ {k}]
  /\ UNCHANGED <<mods, listed, target, newest, known, installed_ids, clicks, had, doubled, gone>>

\* (A bug: whatever is required is installed.)
all_required(k) == TRUE
not_yet_asked(k) == k.project \notin projects

\* The next round: what is required by the files of the last, and was not asked
\* for before; of the same project only one.
NextRound ==
  /\ job.pc = "files" /\ job.running = {} /\ job.next # {}
  /\ \E round \in SUBSET {k \in job.next : not_yet_asked(k)} :
       /\ {k.project : k \in round} = {k.project : k \in {k \in job.next : not_yet_asked(k)}}
       /\ \A k, l \in round : k.project = l.project => k = l
       /\ job' = [job EXCEPT !.running = round, !.next = {}, !.round = @ + 1]
       /\ projects' = projects \cup {k.project : k \in round}
  /\ UNCHANGED <<mods, listed, target, newest, known, ids, installs_history>>

\* set_content_sources, for all that the install has got.
EndRounds ==
  /\ job.pc = "files" /\ job.running = {} /\ job.next = {}
  /\ from' = [c \in Content |->
       IF \E g \in job.got : g.content = c THEN (CHOOSE g \in job.got : g.content = c).source
       ELSE from[c]]
  /\ job' = [job EXCEPT !.pc = IF job.got = {} THEN "idle" ELSE "link"]
  /\ UNCHANGED <<mods, listed, target, newest, updates, installed_ids, installs_history>>

without(g, what) == IF g.replace = Nil THEN what ELSE [what EXCEPT ![g.replace] = Nil]
with(g, what) == IF what[g.to] = Nil THEN [what EXCEPT ![g.to] = g.content] ELSE what

\* The file that is replaced is removed, if it is there; then the new one is
\* linked, unless there is a file of that name.
replaced(g) == with(g, without(g, mods))

\* That a link fails is not noticed.
Link(g) ==
  /\ job.pc = "link" /\ g \in job.got
  /\ \/ /\ mods' = replaced(g)
        /\ UNCHANGED <<failures, gone>>
     \/ /\ failures < MaxFailures /\ failures' = failures + 1
        /\ mods' = without(g, mods)
        /\ gone' = gone \cup {project(c) : c \in In(mods) \ In(mods')}
  /\ job' = IF job.got = {g} THEN NoJob ELSE [job EXCEPT !.got = @ \ {g}]
  /\ UNCHANGED <<listed, target, newest, known, installed_ids, clicks, had, doubled>>

-----------------------------------------------------------------------------
(* UpdateCheck and UpdateContent *)

\* What there is for content c: Modrinth is asked for the newest version by the
\* content, and an answer of another project than the source is refused;
\* Curseforge is asked by the source.
newer(c) ==
  LET asked == IF Catalogue[project(c)].curseforge THEN from[c] ELSE project(c)
      found == <<asked, newest[asked]>>
  IN  IF from[c] = Nil \/ asked # from[c] THEN Nil
      ELSE IF target \notin Catalogue[asked].offers \/ found = c THEN Nil ELSE found

\* All answers are there, or none is kept.
UpdateCheck ==
  /\ Click
  /\ UNCHANGED listed \/ Read
  /\ updates' = [k \in Content \X Target |->
       IF k[1] \in InList(listed') /\ k[2] = target THEN newer(k[1]) ELSE updates[k]]
  /\ UNCHANGED <<mods, target, newest, from, job, installed_ids, failures, had, doubled, gone>>

\* The file that is listed at f is replaced, by one of the name that the newer
\* has, disabled if the old one is.
UpdateContent(f) ==
  /\ Click
  /\ Listed(f) # Nil
  /\ LET c == updates[<<Listed(f), target>>]
     IN  /\ c # Nil
         /\ job' = [NoJob EXCEPT !.pc = "files", !.got =
              {[content |-> c, to |-> place(c, f[2]), replace |-> f, source |-> project(c),
                required |-> FALSE, by_url |-> TRUE]}]
         /\ doubled' = IF Listed(f) # mods[f] THEN doubled \cup {project(c)} ELSE doubled
  /\ UNCHANGED <<mods, listed, target, newest, known, installed_ids, failures, had, gone>>

\* The download of an update fails.
FailUpdate ==
  /\ job.pc = "files" /\ job.round = 0 /\ job.running = {} /\ ~job.dependencies
  /\ \E g \in job.got : g.replace # Nil
  /\ failures < MaxFailures /\ failures' = failures + 1
  /\ job' = NoJob
  /\ UNCHANGED <<mods, listed, target, newest, known, installed_ids, clicks, had, doubled, gone>>

-----------------------------------------------------------------------------
\* The folder is read again.
Reload ==
  /\ Read /\ listed' # listed
  /\ UNCHANGED <<mods, target, newest, known, job, installed_ids, installs_history>>

\* ContentDownload::File: a file the user has, of which nothing is kept.
AddFile(c) ==
  /\ Click /\ c[2] <= newest[project(c)]
  /\ mods' = IF mods[place(c, TRUE)] = Nil THEN [mods EXCEPT ![place(c, TRUE)] = c] ELSE mods
  /\ doubled' = doubled \cup {project(c)}
  /\ UNCHANGED <<listed, target, newest, known, job, installed_ids, failures, had, gone>>

\* SetContentEnabled: the file that is listed at f is renamed, over another.
Toggle(f) ==
  /\ Click
  /\ Listed(f) # Nil
  /\ LET to == <<f[1], ~f[2]>>
     IN  /\ mods' = IF mods[f] = Nil THEN mods ELSE [mods EXCEPT ![f] = Nil, ![to] = mods[f]]
         /\ gone' = gone \cup (IF mods[f] # Nil /\ mods[to] # Nil THEN {project(mods[to])} ELSE {})
  /\ UNCHANGED <<listed, target, newest, known, job, installed_ids, failures, had, doubled>>

DeleteContent(f) ==
  /\ Click
  /\ Listed(f) # Nil
  /\ mods' = [mods EXCEPT ![f] = Nil]
  /\ gone' = gone \cup (IF mods[f] # Nil THEN {project(mods[f])} ELSE {})
  /\ UNCHANGED <<listed, target, newest, known, job, installed_ids, failures, had, doubled>>

ChangeTarget(t) ==
  /\ Click /\ t # target
  /\ target' = t
  /\ UNCHANGED <<mods, listed, newest, known, job, installed_ids, failures, had, doubled, gone>>

Release(p) ==
  /\ newest[p] <= MaxReleases
  /\ newest' = [newest EXCEPT ![p] = @ + 1]
  /\ UNCHANGED <<mods, listed, target, known, job, installed_ids, installs_history>>

InstallsNext ==
  \/ \E p \in Mod : Release(p) \/ Install(p)
  \/ \E k \in job.running : Finish(k) \/ Fail(k)
  \/ NextRound \/ EndRounds \/ FailUpdate
  \/ \E g \in job.got : Link(g)
  \/ UpdateCheck \/ Reload
  \/ \E f \in Place : UpdateContent(f) \/ Toggle(f) \/ DeleteContent(f)
  \/ \E c \in Content : AddFile(c)
  \/ \E t \in Target : ChangeTarget(t)

InstallsSpec == InstallsInit /\ [][InstallsNext]_installs_vars

-----------------------------------------------------------------------------
\* What an install brings because something requires it was not there, by its
\* source or its id, when the install began, and is brought once, whatever else
\* requires it in this round or another: but beside the file that the user has
\* chosen in a dialog, if what that brings requires it and it has no id.
RequiredOnce ==
  \A g \in job.got : g.required =>
    /\ project(g.content) \notin had.sources
    /\ \A h \in job.got \ {g} :
         project(h.content) = project(g.content) => h.by_url /\ mod_id(h.content) = Nil
    /\ mod_ids({g.content}) \cap (had.ids \cup mod_ids({h.content : h \in job.got \ {g}})) = {}

\* Projects that require each other do not keep an install in its loop.
RoundsEnd == job.round <= Cardinality(Mod)

\* What is of Modrinth is in the folder once, unless the user brings it in
\* twice, or changes a file that is updated before the list knows, or a dialog
\* sends it by its URL and what comes with it requires it and knows no id.
OneOfEach ==
  \A p \in Mod \ doubled : ~Catalogue[p].curseforge => Cardinality(Copies(p)) <= 1

InstallsAreOnce == RequiredOnce /\ RoundsEnd /\ OneOfEach

\* An update takes nothing of Modrinth away: the project that is replaced is in
\* the folder afterwards, as it is through everything but a deletion, a link
\* that fails, or a rename over it.
NothingIsLost ==
  [][\A p \in Mod : ~Catalogue[p].curseforge /\ Copies(p) # {} /\ p \notin gone' => Copies(p)' # {}]_installs_vars

\* What is asked for is there, and once.
ContentIsThereOnce == [](InstallsType /\ InstallsAreOnce) /\ NothingIsLost
=============================================================================
