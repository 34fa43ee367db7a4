----------------------------- MODULE ContentList -----------------------------
(***************************************************************************)
(* The list of an instance's mods (frontend/src/component/content_list.rs) *)
(* and what the backend does for it (backend_handler.rs).  The list shows  *)
(* what the last load found, by ids that are an index and the generation   *)
(* of that load, while clicks, loads and updates of the list cross.        *)
(***************************************************************************)
EXTENDS Naturals, Sequences, FiniteSets, SequencesExt

CONSTANTS
  Mod,        \* names of files
  Pack,       \* of them, those that are modpacks and have children
  Children,   \* how many children a modpack has
  MaxLoads, MaxClicks  \* bounds

ASSUME PackAssumption ==
  /\ Pack \subseteq Mod /\ Children \in Nat /\ IsFiniteSet(Mod)
  /\ MaxLoads \in Nat /\ MaxClicks \in Nat

VARIABLES
  on, disabled, \* files in the folder: m, and m.disabled
  summaries, generation, \* of the last load
  updates,    \* on their way to the list
  requests,   \* on their way to the backend, with the files the user meant (history)
  content,    \* the list
  searched,   \* what a search shows, or all
  selected, confirming, expanded,
  clicks

backend == <<on, disabled, summaries, generation>>
list == <<content, searched, selected, confirming, expanded>>
listing == <<backend, updates, requests, list, clicks>>

Summary == [mod : Mod, enabled : BOOLEAN, id : Nat \X (0 .. MaxLoads)]

ListType ==
  /\ on \subseteq Mod /\ disabled \subseteq Mod /\ generation \in 0 .. MaxLoads
  /\ ToSet(content) \subseteq Summary /\ ToSet(summaries) \subseteq Summary
  /\ searched \subseteq Mod /\ selected \subseteq Mod /\ confirming \subseteq Mod
  /\ expanded \in Nat /\ clicks \in 0 .. MaxClicks

ListInit ==
  /\ on \in SUBSET Mod /\ disabled \in SUBSET (Mod \ on)
  /\ summaries = <<>> /\ generation = 0 /\ updates = <<>> /\ requests = <<>>
  /\ content = <<>> /\ searched = Mod /\ selected = {} /\ confirming = {} /\ expanded = 0
  /\ clicks = 0

-----------------------------------------------------------------------------
(* The backend. *)

\* A load numbers what it finds.
load_content ==
  /\ generation < MaxLoads /\ generation' = generation + 1
  /\ \E order \in SetToSeqs((on \X {TRUE}) \cup (disabled \X {FALSE})) :
       summaries' = [i \in DOMAIN order |->
         [mod |-> order[i][1], enabled |-> order[i][2], id |-> <<i, generation'>>]]
  /\ updates' = Append(updates, summaries')
  /\ UNCHANGED <<on, disabled, requests, list, clicks>>

\* try_get_content: what an id stands for, if no load came after it.
\* (A bug: whatever has the index now.)
try_get_index(id) ==
  IF id[1] <= Len(summaries) THEN {summaries[id[1]]} ELSE {}
try_get_content(id) ==
  IF id[2] = generation /\ id[1] <= Len(summaries) THEN {summaries[id[1]]} ELSE {}

\* A request has ids in the order of the rows they are of.  SetContentEnabled returns
\* at the first file that is as it should be; a rename that fails is ignored.
Before(ids, value) ==
  {i \in DOMAIN ids : \A j \in DOMAIN ids : j <= i =>
     \A s \in try_get_content(ids[j]) : s.enabled # value}
SetContentEnabled ==
  /\ requests # <<>> /\ Head(requests).kind = "enable"
  /\ LET r == Head(requests)
         moved == UNION {{s.mod : s \in try_get_content(r.ids[i])} : i \in Before(r.ids, r.value)}
     IN  IF r.value THEN on' = on \cup (moved \cap disabled) /\ disabled' = disabled \ moved
         ELSE disabled' = disabled \cup (moved \cap on) /\ on' = on \ moved
  /\ requests' = Tail(requests)
  /\ UNCHANGED <<summaries, generation, updates, list, clicks>>

\* DeleteContent returns at the first id that is not valid.
DeleteContent ==
  /\ requests # <<>> /\ Head(requests).kind = "delete"
  /\ LET ids == Head(requests).ids
         valid == {i \in DOMAIN ids : \A j \in DOMAIN ids : j <= i => try_get_content(ids[j]) # {}}
         gone == UNION {try_get_content(ids[i]) : i \in valid}
     IN  /\ on' = on \ {s.mod : s \in {t \in gone : t.enabled}}
         /\ disabled' = disabled \ {s.mod : s \in {t \in gone : ~t.enabled}}
  /\ requests' = Tail(requests)
  /\ UNCHANGED <<summaries, generation, updates, list, clicks>>

-----------------------------------------------------------------------------
(* The list. *)

\* set_content: nothing is to be confirmed any more, and nothing stays expanded if
\* the list has another length.
set_content ==
  /\ updates # <<>> /\ updates' = Tail(updates)
  /\ content' = Head(updates)
  /\ confirming' = {}
  /\ expanded' = IF Len(content') # Len(content) THEN 0 ELSE expanded
  /\ UNCHANGED <<backend, requests, searched, selected, clicks>>

Click == clicks < MaxClicks /\ clicks' = clicks + 1 /\ UNCHANGED <<backend, updates>>

\* items_count and render_item: what is drawn at row n when no search is on; the
\* children of the modpack that is expanded come after it.
ChildrenOf(i) == IF content[i].mod \in Pack THEN Children ELSE 0
RowOf(i) == IF expanded > 0 /\ i > expanded THEN i + ChildrenOf(expanded) ELSE i
Shown == {i \in DOMAIN content : content[i].mod \in searched}

\* A click on a row, and with Ctrl.
Select(i, ctrl) ==
  /\ Click /\ i \in Shown
  /\ selected' = IF ~ctrl THEN {content[i].mod}
                 ELSE IF content[i].mod \in selected THEN selected \ {content[i].mod}
                 ELSE selected \cup {content[i].mod}
  /\ confirming' = {}
  /\ UNCHANGED <<requests, content, searched, expanded>>

\* The rows that a button of a row is about: all that are selected, if the row is,
\* and whether they are shown or not.
Meant(i) ==
  {n \in DOMAIN content :
     IF content[i].mod \in selected THEN content[n].mod \in selected ELSE n = i}
Request(what, i, value) ==
  Append(requests, [kind |-> what, value |-> value,
                    ids |-> [n \in Meant(i) |-> content[n].id],
                    meant |-> {content[n].mod : n \in Meant(i)}])

Toggle(i) ==
  /\ Click /\ i \in Shown
  /\ requests' = Request("enable", i, ~content[i].enabled)
  /\ UNCHANGED list

\* Delete, which is to be confirmed by a second click.
Delete(i) ==
  /\ Click /\ i \in Shown
  /\ IF content[i].mod \in confirming
     THEN requests' = Request("delete", i, FALSE) /\ UNCHANGED confirming
     ELSE /\ confirming' = {content[n].mod : n \in Meant(i)} \cup
                           (IF content[i].mod \in selected THEN selected ELSE {})
          /\ UNCHANGED requests
  /\ UNCHANGED <<content, searched, selected, expanded>>

\* The arrow of a modpack, which is not there in a search.  It takes the row for the
\* index: below a modpack that is expanded, what it expands may not be in the list.
Expand(i) ==
  /\ Click /\ searched = Mod /\ content[i].mod \in Pack
  /\ expanded' = IF expanded = RowOf(i) THEN 0 ELSE RowOf(i)
  /\ UNCHANGED <<requests, content, searched, selected, confirming>>

Search ==
  /\ Click /\ searched' \in (SUBSET Mod) \ {{}}
  /\ UNCHANGED <<requests, content, selected, confirming, expanded>>

ListNext ==
  \/ load_content \/ SetContentEnabled \/ DeleteContent \/ set_content \/ Search
  \/ \E i \in DOMAIN content :
       \/ Toggle(i) \/ Delete(i) \/ Expand(i)
       \/ \E ctrl \in BOOLEAN : Select(i, ctrl)

ListSpec == ListInit /\ [][ListNext]_listing

-----------------------------------------------------------------------------
\* Whatever loads come between a click and its request: only files that the user
\* meant are deleted, enabled or disabled.
OnlyWhatWasMeant ==
  []ListType /\ [][\A m \in Mod :
       (m \in on /\ m \notin on') \/ (m \in disabled /\ m \notin disabled') => m \in Head(requests).meant]_listing
=============================================================================
