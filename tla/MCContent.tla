------------------------------ MODULE MCContent ------------------------------
(* The instances and their content, one behaviour for each: the registry of the *)
(* instances; of their content the sources, and the installs.                    *)
EXTENDS ContentSources, ContentInstalls, InstanceRegistry, TLC

CONSTANTS
  h1, h2, h3, f1, f2,
  A, B, D, x, y

\* Three contents, the sources of two of them in one file.
MCHash == {h1, h2, h3}
MCBucket == h1 :> f1 @@ h2 :> f1 @@ h3 :> f2

\* Two of Modrinth's that require each other, and one of Curseforge's that says
\* to be one of them.
MCCatalogue ==
  A :> [curseforge |-> FALSE, strict |-> TRUE, id |-> Nil, names |-> <<"a1", "a2">>,
        requires |-> {B}, offers |-> {x, y}]
  @@ B :> [curseforge |-> FALSE, strict |-> TRUE, id |-> "b", names |-> <<"b", "b">>,
           requires |-> {A}, offers |-> {x}]
  @@ D :> [curseforge |-> TRUE, strict |-> FALSE, id |-> "b", names |-> <<"d", "d">>,
           requires |-> {}, offers |-> {x}]

VARIABLE part

ASSUME ContentAssumption ==
  SourceAssumption /\ CatalogueAssumption /\ SlabAssumption /\ RegistryAssumption

\* The others stay where one of their first states is.
ContentInit ==
  /\ part \in {"sources", "installs", "registry"}
  /\ SourcesInit /\ (part # "sources" => legacy = NoSource)
  /\ InstallsInit /\ (part # "installs" => target = x)
  /\ Init /\ (part # "registry" => \A f \in Folder : disk[f] = "absent")

ContentNext ==
  /\ UNCHANGED part
  /\ \/ part = "sources" /\ SourcesNext /\ UNCHANGED <<installs_vars, vars>>
     \/ part = "installs" /\ InstallsNext /\ UNCHANGED <<sources_vars, vars>>
     \/ part = "registry" /\ Next /\ UNCHANGED <<sources_vars, installs_vars>>

ContentSpec == ContentInit /\ [][ContentNext]_<<part, sources_vars, installs_vars, vars>>

=============================================================================
