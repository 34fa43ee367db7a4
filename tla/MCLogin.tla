------------------------------ MODULE MCLogin ------------------------------
(* Two things behind a lock of their own, one behaviour for each: the logins,   *)
(* with the handler and a profile task, and the library of skins.               *)
EXTENDS Login

CONSTANTS a1, p1, s1, s2, MaxChanges, MaxFolders, MaxInbox

MCOneAccount == {a1}
MCProfilers == {p1}
MCPath == {s1, s2}

VARIABLES
  part,
  disk, changes, folder, removals, events, event, watched, flags, dirty, library, load,
  request, inbox, view, observing

skin_vars == <<disk, changes, folder, removals, events, event, watched, flags, dirty, library,
               load, request, inbox, view, observing>>

Skins == INSTANCE SkinLibrary WITH Path <- MCPath

ASSUME SkinsAssumption == Skins!BoundAssumption

\* The other one stays where one of its first states is.
PartsInit ==
  /\ part \in {"login", "skins"}
  /\ Init /\ (part # "login" => ~storage_opens /\ accounts = {} /\ selected_account = None)
  /\ Skins!Init /\ (part # "skins" => ~folder /\ \A p \in MCPath : changes[p] = 0)

\* A bound: the folder goes away where there never was a second skin.
SkinsBound == removals = 0 \/ changes[s2] = 0

PartsNext ==
  \/ part = "login" /\ Next /\ UNCHANGED <<part, skin_vars>>
  \/ part = "skins" /\ Skins!Next /\ SkinsBound' /\ UNCHANGED <<part, vars>>

\* The fairness of each: nobody logs in where skins are looked at, and the
\* fairness of Login asks nothing of those who do not.
PartsFairness ==
  /\ Fairness
  /\ WF_skin_vars(part = "skins" /\ Skins!LoadStep)
  /\ SF_skin_vars(part = "skins" /\ Skins!HandleRequest)
  /\ SF_skin_vars(part = "skins" /\ Skins!HandleEvents)
  /\ WF_skin_vars(part = "skins" /\ Skins!Draw)
  /\ WF_skin_vars(part = "skins" /\ Skins!Receive)

PartsSpec == PartsInit /\ [][PartsNext]_<<part, vars, skin_vars>> /\ PartsFairness

\* A change of a skin or of the folder is not forgotten, and an open page ends
\* up with what is there (SkinLibrary's StaleIsCovered and EventuallyShown).
SkinsAreShown ==
  /\ [](Skins!TypeOK /\ Skins!StaleIsCovered)
  /\ part = "skins" => Skins!EventuallyShown
=============================================================================
