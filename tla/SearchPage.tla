----------------------------- MODULE SearchPage -----------------------------
(***************************************************************************)
(* The page that searches the projects of Modrinth (frontend/src/pages/    *)
(* modrinth_page.rs; that of Curseforge differs in how a request is        *)
(* written).  The hits come in portions, asked for one at a time when the  *)
(* row below the last is drawn; a search that changes meanwhile is asked   *)
(* for when the portion has come.  The hits of the search before stay      *)
(* until there are others, at most 300 ms from the reload.                 *)
(*                                                                         *)
(* How many hits a search has depends on what is typed only, and the site  *)
(* keeps its answers.  A hit is its search and its place.  An instance     *)
(* stays as it is configured while its page is open.                       *)
(***************************************************************************)
EXTENDS Integers, Sequences, SequencesExt, FiniteSetsExt

CONSTANTS
  Matching,   \* what may be typed, and how many hits there are for it
  Type,       \* ModrinthProjectType
  Loader, Category,
  Instance,   \* for each instance, its version of the game and its loader
  Vanilla,    \* no loader
  Project,
  Contents,   \* what an instance has: sequences of [id, project, status]
  Limit,      \* hits in a portion (20)
  Nil,        \* None
  MaxChanges, \* bound: pages opened, filters changed
  MaxLists    \* bound: changes of the content of the instance

\* What may be searched for, and a request of a portion.
Query == [text : DOMAIN Matching, type : Type,
          version : {Instance[i].game : i \in DOMAIN Instance} \cup {Nil},
          loaders : SUBSET Loader, categories : SUBSET Category]
Request == [query : Query, offset : Nat]

ASSUME SearchAssumption ==
  Matching \in [DOMAIN Matching -> Nat] /\ "" \in DOMAIN Matching /\ Limit \in Nat /\ Nil \notin Request

VARIABLES
  config,     \* InterfaceConfig
  search_page, \* ModrinthSearchPage, or Nil
  known,      \* FrontendMetadata: what is known of the requests sent
  again,      \* those that were sent again, their result being too old
  mods,       \* the content of each instance
  pressed,    \* what the button of a hit did
  changes, relists

search_vars == <<config, search_page, known, again, mods, pressed, changes, relists>>

Mods == {"mod", "modpack"}
Status == {"unknown", "up_to_date", "outdated", "failed"}

SearchInit ==
  /\ config \in [project_type : Type, filter_version : BOOLEAN, install_latest : BOOLEAN]
  /\ search_page = Nil /\ known = <<>> /\ again = {} /\ mods \in [DOMAIN Instance -> Contents]
  /\ pressed = Nil /\ changes = 0 /\ relists = 0

-----------------------------------------------------------------------------
(* Asking for hits. *)

\* What is searched for: last_search and the facets.
query(p, cfg) ==
  [text |-> p.last_search, type |-> cfg.project_type,
   version |-> IF cfg.project_type \in Mods /\ cfg.filter_version THEN p.filter_version ELSE Nil,
   loaders |-> IF cfg.project_type \in Mods THEN p.filter_loaders ELSE {},
   categories |-> p.filter_categories]

portion(r) ==
  [i \in 1 .. Max({0, Min({Limit, Matching[r.query.text] - r.offset})}) |->
     [of |-> r.query, at |-> r.offset + i]]

clear(p) == [p EXCEPT !.pending_clear = FALSE, !.hits = <<>>, !.total_hits = 1]

apply_search_data(p, r) ==
  LET kept == IF p.pending_clear THEN [clear(p) EXCEPT !.clear_task = FALSE] ELSE p
  IN  [kept EXCEPT !.hits = @ \o portion(r), !.total_hits = Matching[r.query.text]]

failed(p) == [p EXCEPT !.search_error = TRUE]

\* The next portion.  (A bug: after the hits that are about to be cleared.)
request_more(p, cfg) == [query |-> query(p, cfg), offset |-> Len(p.hits)]
request(p, cfg) ==
  [query |-> query(p, cfg), offset |-> IF p.pending_clear THEN 0 ELSE Len(p.hits)]

\* The state of the page and of what it has asked for.
Asking(p, data, resent) == [page |-> p, data |-> data, again |-> resent]
With(st, p) == Asking(p, st.data, st.again)

\* The result of a request that was sent before is taken as it is; when it is too old, another
\* one is asked for, which this page does not see.
load_more(st, cfg, stale) ==
  LET r == request(st.page, cfg)
      p == [st.page EXCEPT !.pending_reload = FALSE, !.search_error = FALSE]
      resent == IF stale THEN st.again \cup {r} ELSE st.again
  IN  IF st.page.loading # Nil THEN st
      ELSE IF r \notin DOMAIN st.data
      THEN Asking([p EXCEPT !.loading = r], [q \in DOMAIN st.data \cup {r} |->
                     IF q = r THEN "loading" ELSE st.data[q]], st.again)
      ELSE CASE st.data[r] = "loading" -> With(st, [p EXCEPT !.loading = r])
             [] st.data[r] = "loaded"  -> Asking(apply_search_data(p, r), st.data, resent)
             [] st.data[r] = "error"   -> Asking(failed(p), st.data, resent)

reload(st, cfg, stale) ==
  IF st.page.loading # Nil THEN With(st, [st.page EXCEPT !.pending_reload = TRUE])
  ELSE load_more(With(st, [st.page EXCEPT !.pending_clear = TRUE, !.clear_task = TRUE]), cfg, stale)

\* The page's subscription, when its request has got a result.
observed(st, r, cfg, stale) ==
  LET p == st.page
      told == CASE st.data[r] = "error" -> failed(p)
                [] st.data[r] = "loaded" /\ ~p.pending_reload -> apply_search_data(p, r)
                [] OTHER -> p
      idle == With(st, [told EXCEPT !.loading = Nil])
  IN  IF p.pending_reload THEN reload(idle, cfg, stale) ELSE idle

Becomes(st) == search_page' = st.page /\ known' = st.data /\ again' = st.again
Now == Asking(search_page, known, again)

-----------------------------------------------------------------------------
(* What is installed, and the button of a hit. *)

by_project(content) ==
  [p \in Project |-> SelectSeq(content, LAMBDA m : m.project = p)]

Action(kind) == [kind |-> kind, ids |-> <<>>]

after_mod(action, mod) ==
  CASE mod.status = "unknown"    -> action
    [] mod.status = "up_to_date" -> IF action.kind = "update" THEN action ELSE Action("up_to_date")
    [] mod.status = "outdated"   -> [kind |-> "update", ids |-> Append(action.ids, mod.id)]
    [] mod.status = "failed"     -> IF action.kind = "check" THEN Action("failed") ELSE action

get_primary_action(p, project) ==
  LET install_latest == p.can_install_latest /\ config.install_latest
      installed == p.installed[project]
  IN  IF installed = <<>> THEN Action(IF install_latest THEN "install_latest" ELSE "install")
      ELSE IF ~install_latest THEN Action("reinstall")
      ELSE FoldLeft(after_mod, Action("check"), installed)

\* The dialog that opens is InstallDialog; of the rest, what goes to the backend.
perform(action, i) ==
  CASE action.kind \in {"install", "reinstall"} -> [does |-> "dialog"]
    [] action.kind = "install_latest" ->
         [does |-> "install", loader |-> Instance[i].loader, game |-> Instance[i].game]
    [] action.kind = "check"  -> [does |-> "check"]
    [] action.kind = "update" -> [does |-> "update", ids |-> action.ids]
    [] OTHER -> pressed

-----------------------------------------------------------------------------
(* Actions. *)

\* A page is opened, in place of another; the buttons of an instance's page choose the type.
Open(i, type, stale) ==
  /\ changes < MaxChanges /\ changes' = changes + 1
  /\ type = config.project_type \/ (i # Nil /\ type \in {"mod", "resourcepack"} \cap Type)
  /\ config' = [config EXCEPT !.project_type = type]
  /\ LET opened ==
           [install_for |-> i, filter_version |-> IF i = Nil THEN Nil ELSE Instance[i].game,
            can_install_latest |-> i # Nil /\ Instance[i].loader # Vanilla,
            installed |-> by_project(IF i = Nil THEN <<>> ELSE mods[i]),
            last_search |-> "", filter_loaders |-> {}, filter_categories |-> {},
            hits |-> <<>>, total_hits |-> 1, loading |-> Nil, pending_reload |-> FALSE,
            pending_clear |-> FALSE, clear_task |-> FALSE, search_error |-> FALSE]
     IN  Becomes(load_more(Asking(opened, known, again), config', stale))
  /\ UNCHANGED <<mods, pressed, relists>>

\* A change of what is searched for.
Changed(p, cfg, stale) ==
  /\ search_page # Nil /\ changes < MaxChanges /\ changes' = changes + 1
  /\ config' = cfg /\ Becomes(reload(With(Now, p), cfg, stale))
  /\ UNCHANGED <<mods, pressed, relists>>

on_search_input_event(text, stale) ==
  /\ search_page.last_search # text
  /\ Changed([search_page EXCEPT !.last_search = text], config, stale)

set_project_type(type, stale) ==
  /\ config.project_type # type
  /\ Changed([search_page EXCEPT !.filter_categories = {}], [config EXCEPT !.project_type = type], stale)

set_filter_loaders(loaders, stale) ==
  /\ config.project_type \in Mods /\ search_page.filter_loaders # loaders
  /\ Changed([search_page EXCEPT !.filter_loaders = loaders], config, stale)

set_filter_categories(categories, stale) ==
  /\ search_page.filter_categories # categories
  /\ Changed([search_page EXCEPT !.filter_categories = categories], config, stale)

toggle_filter_version(stale) ==
  /\ config.project_type \in Mods /\ search_page.filter_version # Nil
  /\ Changed(search_page, [config EXCEPT !.filter_version = ~@], stale)

toggle_install_latest ==
  /\ search_page # Nil /\ search_page.can_install_latest
  /\ changes < MaxChanges /\ changes' = changes + 1
  /\ config' = [config EXCEPT !.install_latest = ~@]
  /\ UNCHANGED <<search_page, known, again, mods, pressed, relists>>

\* 300 ms after a reload.
DelayedClear ==
  /\ search_page # Nil /\ search_page.clear_task
  /\ LET p == IF search_page.pending_clear THEN clear(search_page) ELSE search_page
     IN  search_page' = [p EXCEPT !.clear_task = FALSE]
  /\ UNCHANGED <<config, known, again, mods, pressed, changes, relists>>

item_count(p) == Len(p.hits) + IF p.total_hits > Len(p.hits) \/ p.search_error THEN 1 ELSE 0

\* The row below the last hit is drawn.
render_items(stale) ==
  /\ search_page # Nil /\ item_count(search_page) > Len(search_page.hits) /\ ~search_page.search_error
  /\ Becomes(load_more(Now, config, stale))
  /\ UNCHANGED <<config, mods, pressed, changes, relists>>

ResultArrives(r, outcome, stale) ==
  /\ known[r] = "loading" \/ r \in again
  /\ LET st == Asking(search_page, [known EXCEPT ![r] = outcome], again \ {r})
     IN  Becomes(IF search_page # Nil /\ search_page.loading = r THEN observed(st, r, config, stale) ELSE st)
  /\ UNCHANGED <<config, mods, pressed, changes, relists>>

\* The content of an instance is listed anew, and the page of that instance looks.
ContentArrives(i, content) ==
  /\ relists < MaxLists /\ relists' = relists + 1
  /\ mods' = [mods EXCEPT ![i] = content]
  /\ search_page' = IF search_page # Nil /\ search_page.install_for = i
                    THEN [search_page EXCEPT !.installed = by_project(content)] ELSE search_page
  /\ UNCHANGED <<config, known, again, pressed, changes>>

Click(project) ==
  /\ search_page # Nil /\ search_page.hits # <<>>
  /\ pressed' = perform(get_primary_action(search_page, project), search_page.install_for)
  /\ UNCHANGED <<config, search_page, known, again, mods, changes, relists>>

UserNext(stale) ==
  \/ \E i \in DOMAIN Instance \cup {Nil}, type \in Type : Open(i, type, stale)
  \/ search_page # Nil /\
       \/ \E text \in DOMAIN Matching : on_search_input_event(text, stale)
       \/ \E type \in Type : set_project_type(type, stale)
       \/ \E loaders \in SUBSET Loader : set_filter_loaders(loaders, stale)
       \/ \E categories \in SUBSET Category : set_filter_categories(categories, stale)
       \/ toggle_filter_version(stale)
       \/ render_items(stale)

SearchNext ==
  \/ toggle_install_latest \/ DelayedClear
  \/ \E stale \in BOOLEAN :
       UserNext(stale) \/ \E r \in DOMAIN known, outcome \in {"loaded", "error"} :
                            ResultArrives(r, outcome, stale)
  \/ \E i \in DOMAIN Instance, content \in Contents : ContentArrives(i, content)
  \/ \E project \in Project : Click(project)

SearchSpec == SearchInit /\ [][SearchNext]_search_vars

-----------------------------------------------------------------------------
(* Properties. *)

\* The state of the page as it is declared, and what its flags mean: only a request that
\* is out can be waited for, and hits are waiting to be cleared as long as the task is.
SearchType ==
  search_page # Nil =>
    /\ search_page.last_search \in DOMAIN Matching /\ search_page.total_hits \in Nat
    /\ search_page.loading # Nil =>
         search_page.loading \in DOMAIN known /\ known[search_page.loading] = "loading"
    /\ search_page.pending_reload => search_page.loading # Nil
    /\ search_page.pending_clear => search_page.clear_task

\* The hits shown are the first ones of one search, in order, none missing and none twice,
\* and the number of them all is of the same search, whatever came in between (apply_search_data).
HitsAreOfOneSearch ==
  search_page # Nil /\ search_page.hits # <<>> =>
    LET of == search_page.hits[1].of IN
    /\ \A n \in DOMAIN search_page.hits : search_page.hits[n] = [of |-> of, at |-> n]
    /\ search_page.total_hits = Matching[of.text]

\* They are of the search that the page shows, or about to go: a reload comes when the
\* portion has come, or has begun and clears them (reload and its task).  The same goes for
\* the portion that is asked for.
HitsAreCurrent ==
  search_page # Nil =>
    LET current == query(search_page, config) IN
    /\ search_page.loading # Nil => search_page.loading.query = current \/ search_page.pending_reload
    /\ search_page.hits # <<>> /\ search_page.hits[1].of # current =>
         search_page.pending_reload \/ (search_page.pending_clear /\ search_page.clear_task)

\* While hits of the search are missing there is a row that asks for them or says why not
\* (render).
AllCanBeReached ==
  search_page # Nil /\ Len(search_page.hits) < Matching[search_page.last_search] =>
    \/ item_count(search_page) > Len(search_page.hits)
    \/ search_page.pending_reload \/ search_page.pending_clear

\* What is shown is what is searched for, and all of it in the end.
HitsAreRight == SearchType /\ HitsAreOfOneSearch /\ HitsAreCurrent /\ AllCanBeReached

\* The button of a hit says what the listed content asks for, in whatever order it is listed:
\* an update is of those that are outdated, each once, and only what is not there is installed
\* without a question (get_primary_action, the observer of mods).
ButtonsFit ==
  search_page # Nil =>
    \A project \in Project :
      LET action == get_primary_action(search_page, project)
          there == IF search_page.install_for = Nil THEN {}
                   ELSE {m \in Range(mods[search_page.install_for]) : m.project = project}
          outdated == {m.id : m \in {m \in there : m.status = "outdated"}}
          latest == search_page.can_install_latest /\ config.install_latest
      IN  /\ Range(action.ids) = IF latest THEN outdated ELSE {}
          /\ Len(action.ids) = Cardinality(Range(action.ids))
          /\ action.kind \in {"install", "install_latest"} <=> there = {}
          /\ action.kind = "check" <=> latest /\ there # {} /\ \A m \in there : m.status = "unknown"
          /\ action.kind = "up_to_date" => \E m \in there : m.status = "up_to_date"

=============================================================================
