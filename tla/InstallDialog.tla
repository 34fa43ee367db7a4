---------------------------- MODULE InstallDialog ----------------------------
(***************************************************************************)
(* The dialogs by which the user installs a project into an instance or    *)
(* into a new one (frontend/src/modals/modrinth_install.rs and             *)
(* curseforge_install.rs): the versions of the game, the loaders and the   *)
(* files on offer, and what is sent to the backend.                        *)
(*                                                                         *)
(* The two differ in where the files come from.  Modrinth's waits for all  *)
(* of them before it opens; Curseforge's opens at once, and asks for those *)
(* of a version and a loader when they are selected.                       *)
(***************************************************************************)
EXTENDS Naturals, Sequences

CONSTANTS
  IsMod,         \* a mod or a modpack: it is for a loader
  Files,         \* the files of the project, as the site lists them
  ModLoader,     \* Fabric, Forge and NeoForge: the ones a hint can name
  InstanceEntry, \* for each instance, its version of the game and its loader
  NoLoader,      \* no loader
  Dependency,    \* what files may require
  Null,          \* None
  MaxClicks,     \* bound: selections
  MaxListings    \* bound: changes of the content of an instance

Offered == {Files[n] : n \in DOMAIN Files}
Game == UNION {f.games : f \in Offered}
Target == DOMAIN InstanceEntry \cup {"new"}

\* What the buttons hold, and the message of one.
Drawn ==
  [game : Game, loader : SUBSET ModLoader, file : Offered \cup {Null}, requires : SUBSET Dependency]
ContentInstall ==
  [target : Target, version_hint : Game, loader_hint : ModLoader \cup {Null}, file : Offered,
   dependencies : SUBSET Dependency]

FileAssumption ==
  /\ Files \in Seq(Offered) /\ Game \subseteq Nat
  /\ Game # {} => \E newest \in Game : \A g \in Game : g <= newest
  /\ \A f \in Offered :
       /\ f.loaders \subseteq ModLoader /\ f.loaders # {}
       /\ f.type \in {"release", "beta", "alpha"} /\ f.requires \subseteq Dependency
       /\ f.whole \in BOOLEAN   \* it has a URL, a hash and a name that can be used
  /\ \A i \in DOMAIN InstanceEntry :
       InstanceEntry[i].game \in Nat /\ InstanceEntry[i].loader \in ModLoader \cup {NoLoader}
  /\ NoLoader \notin ModLoader /\ "new" \notin DOMAIN InstanceEntry
  /\ Null \notin Target \cup Nat \cup ModLoader \cup Offered \cup Drawn \cup ContentInstall
               \cup {"loading", "error"}

VARIABLES
  curseforge,    \* which of the two it is
  dialog,        \* "closed", "loading", "open" or "error"
  target,        \* an instance, "new" or Null
  fixed,         \* fixed_minecraft_version and fixed_loader
  versions,      \* of Modrinth: what is known of the files
  mod_files,     \* of Curseforge: mod_files, what is known of the files of a version and a loader
  game,          \* minecraft_version_select_state: what is on offer and selected
  loader,        \* loader_select_state; a loader is a set, for "A / B"
  any_loader,    \* skip_loader_check_for_mod_version
  file_select,   \* mod_version_select_state
  last_selected, \* last_selected_minecraft_version and last_selected_loader
  message,       \* mod_version_not_loaded_message
  with_deps,     \* install_dependencies
  content,       \* the projects that are in the instance, as far as listed
  drawn,         \* what the buttons of the last redraw hold
  installs,      \* the ContentInstall
  clicks, lists

dialog_vars == <<curseforge, dialog, target, fixed, versions, mod_files, game, loader, any_loader,
                 file_select, last_selected, message, with_deps, content, drawn, installs, clicks,
                 lists>>

Select(options, selected) == [options |-> options, selected |-> selected]
NoSelect == Select({}, Null)
Nothing == [game |-> Null, loader |-> Null]

\* A file is for a version and, unless any will do, for a loader.
IsFor(f, g, l) == g \in f.games /\ (l = Null \/ l \in f.loaders)

DialogType ==
  /\ dialog \in {"closed", "loading", "open", "error"} /\ target \in Target \cup {Null}
  /\ versions \in {"none", "loading", "loaded", "error"}
  /\ \A key \in DOMAIN mod_files : mod_files[key] \in {"loading", "loaded", "error"}
  /\ game.selected \in Game \cup {Null} /\ loader.selected \in (SUBSET ModLoader) \cup {Null}
  /\ file_select.selected \in Offered \cup {Null} /\ message \in {"loading", "error", Null}

DialogInit ==
  /\ curseforge \in BOOLEAN
  /\ dialog = "closed" /\ target = Null /\ fixed = Nothing
  /\ versions = "none" /\ mod_files = <<>>
  /\ game = NoSelect /\ loader = NoSelect /\ any_loader = FALSE
  /\ file_select = NoSelect /\ last_selected = Nothing
  /\ message = Null /\ with_deps = TRUE /\ content \in SUBSET Dependency
  /\ drawn = Null /\ installs = Null /\ clicks = 0 /\ lists = 0

-----------------------------------------------------------------------------
(* What is on offer. *)

\* version_matrix: the sets of loaders that are listed for a version. Curseforge
\* lists a version and one loader at a time.
matrix(g) ==
  LET listed == {f.loaders : f \in {f \in Offered : g \in f.games}}
  IN  IF curseforge THEN {{l} : l \in UNION listed} ELSE listed

supported(i) ==
  /\ InstanceEntry[i].game \in Game
  /\ \/ ~IsMod \/ InstanceEntry[i].loader = NoLoader
     \/ InstanceEntry[i].loader \in UNION matrix(InstanceEntry[i].game)

\* The instances that are on offer.
entries == {i \in DOMAIN InstanceEntry : supported(i)}

fixed_for(i) ==
  [game |-> InstanceEntry[i].game,
   loader |-> IF IsMod /\ InstanceEntry[i].loader # NoLoader THEN InstanceEntry[i].loader ELSE Null]

\* The first release, or else the first beta, or else the first alpha.
first_of(files) ==
  Files[CHOOSE n \in DOMAIN Files :
          Files[n] \in files /\ \A m \in DOMAIN Files : Files[m] \in files => n <= m]
highest(files) ==
  LET of(type) == {f \in files : f.type = type}
  IN  IF files = {} THEN Null
      ELSE first_of(IF of("release") # {} THEN of("release")
                 ELSE IF of("beta") # {} THEN of("beta") ELSE of("alpha"))

listing(g, l) ==
  LET files == {f \in Offered : IsFor(f, g, l)}
  IN  Select(files, highest(files))

-----------------------------------------------------------------------------
(* Opening. *)

\* open_from_entity, with the files at hand, if they are for any version: for an
\* instance, which must be supported, or for one to choose.
Show(install_for) ==
  IF Game # {} /\ (install_for = Null \/ supported(install_for))
  THEN /\ dialog' = "open" /\ target' = install_for
       /\ fixed' = IF install_for = Null THEN Nothing ELSE fixed_for(install_for)
  ELSE dialog' = "error" /\ UNCHANGED <<target, fixed>>

OpenDialog(install_for) ==
  /\ dialog = "closed" /\ installs = Null
  /\ \/ (curseforge \/ versions = "loaded") /\ Show(install_for) /\ UNCHANGED versions
     \/ ~curseforge /\ versions = "error" /\ dialog' = "error" /\ UNCHANGED <<target, fixed, versions>>
     \/ /\ ~curseforge /\ versions \in {"none", "loading"}
        /\ dialog' = "loading" /\ target' = install_for /\ versions' = "loading" /\ UNCHANGED fixed
  /\ UNCHANGED <<curseforge, mod_files, game, loader, any_loader, file_select, last_selected,
                 message, with_deps, content, drawn, installs, clicks, lists>>

\* Modrinth's files are there: the dialog that waits for them opens anew.
VersionsArrive ==
  /\ versions = "loading" /\ versions' \in {"loaded", "error"}
  /\ IF dialog # "loading" THEN UNCHANGED <<dialog, target, fixed>>
     ELSE IF versions' = "loaded" THEN Show(target)
     ELSE dialog' = "error" /\ UNCHANGED <<target, fixed>>
  /\ UNCHANGED <<curseforge, mod_files, game, loader, any_loader, file_select, last_selected,
                 message, with_deps, content, drawn, installs, clicks, lists>>

\* The first page: the instances it fits, or a new one.
Choose(i) ==
  /\ dialog = "open" /\ target = Null
  /\ i \in entries \cup {"new"} /\ target' = i
  /\ fixed' = IF i = "new" THEN Nothing ELSE fixed_for(i)
  /\ UNCHANGED <<curseforge, dialog, versions, mod_files, game, loader, any_loader, file_select,
                 last_selected, message, with_deps, content, drawn, installs, clicks, lists>>

-----------------------------------------------------------------------------
(* The second page. *)

\* The versions of the game do not change once they are there.
game_drawn ==
  IF game # NoSelect THEN game
  ELSE IF fixed.game # Null THEN Select({fixed.game}, fixed.game)
  ELSE Select(Game, CHOOSE g \in Game : \A h \in Game : h <= g)

\* With one set of loaders for all files of a version there is nothing to select.
OneForAll(g) == fixed.loader = Null /\ \A a, b \in matrix(g) : a = b

\* A loader that was selected stays so if it is still there.
loader_for(g) ==
  LET options == {{l} : l \in UNION matrix(g)}
  IN  IF fixed.loader # Null THEN Select({{fixed.loader}}, {fixed.loader})
      ELSE IF OneForAll(g) THEN Select(matrix(g), UNION matrix(g))
      ELSE Select(options, IF loader.selected \in options THEN loader.selected
                           ELSE CHOOSE option \in options : TRUE)

required(f) == IF f = Null THEN {} ELSE IF target = "new" THEN f.requires ELSE f.requires \ content

\* What the list of files becomes once something else is selected, and what is
\* shown in its place.
Listed(g, l) ==
  IF ~curseforge THEN file_select' = listing(g, l) /\ UNCHANGED <<mod_files, message>>
  ELSE LET key == <<g, l>> IN
       IF key \notin DOMAIN mod_files
       THEN mod_files' = [k \in DOMAIN mod_files \cup {key} |->
                            IF k = key THEN "loading" ELSE mod_files[k]]
            /\ message' = "loading" /\ UNCHANGED file_select
       ELSE /\ UNCHANGED mod_files
            /\ message' = IF mod_files[key] = "loaded" THEN Null ELSE mod_files[key]
            /\ file_select' = IF mod_files[key] = "loaded" THEN listing(g, l) ELSE file_select

\* Whether the files are listed anew.
\* (A bug: not if it is another version for the same loader.)
only_loader(game_changed, loader_changed) == file_select = NoSelect \/ loader_changed
list_anew(game_changed, loader_changed) == file_select = NoSelect \/ game_changed \/ loader_changed

\* render: the last selections decide what has changed.
Redraw ==
  /\ dialog = "open" /\ target # Null
  /\ game' = game_drawn
  /\ LET g == game'.selected
         game_changed == last_selected.game # g
     IN  /\ IF loader = NoSelect \/ game_changed
            THEN loader' = loader_for(g) /\ any_loader' = OneForAll(g)
            ELSE UNCHANGED <<loader, any_loader>>
         /\ last_selected' = [game |-> g, loader |-> loader'.selected]
         /\ IF list_anew(game_changed, last_selected.loader # loader'.selected)
            THEN Listed(g, IF any_loader' THEN Null ELSE CHOOSE l \in loader'.selected : TRUE)
            ELSE UNCHANGED <<file_select, mod_files, message>>
         /\ drawn' = [game |-> g, loader |-> loader'.selected, file |-> file_select'.selected,
                      requires |-> required(file_select'.selected)]
  /\ UNCHANGED <<curseforge, dialog, target, fixed, versions, with_deps, content, installs, clicks,
                 lists>>

\* What the user selects; the next redraw sees it.
Selects ==
  /\ dialog = "open" /\ drawn # Null /\ clicks < MaxClicks /\ clicks' = clicks + 1
  /\ \/ \E g \in game.options \ {game.selected} :
          game' = [game EXCEPT !.selected = g] /\ UNCHANGED <<loader, file_select, with_deps>>
     \/ \E l \in loader.options \ {loader.selected} :
          loader' = [loader EXCEPT !.selected = l] /\ UNCHANGED <<game, file_select, with_deps>>
     \/ \E f \in file_select.options \ {file_select.selected} :
          file_select' = [file_select EXCEPT !.selected = f] /\ UNCHANGED <<game, loader, with_deps>>
     \/ with_deps' = ~with_deps /\ drawn.requires # {} /\ UNCHANGED <<game, loader, file_select>>
  /\ UNCHANGED <<curseforge, dialog, target, fixed, versions, mod_files, any_loader, last_selected,
                 message, content, drawn, installs, lists>>

\* What Curseforge answers.
FilesArrive(key) ==
  /\ mod_files[key] = "loading"
  /\ \E answer \in {"loaded", "error"} : mod_files' = [mod_files EXCEPT ![key] = answer]
  /\ UNCHANGED <<curseforge, dialog, target, fixed, versions, game, loader, any_loader,
                 file_select, last_selected, message, with_deps, content, drawn, installs, clicks,
                 lists>>

\* The content of the instance is listed, or changes.
ContentIsListed ==
  /\ lists < MaxListings /\ lists' = lists + 1
  /\ content' \in SUBSET Dependency /\ content' # content
  /\ UNCHANGED <<curseforge, dialog, target, fixed, versions, mod_files, game, loader, any_loader,
                 file_select, last_selected, message, with_deps, drawn, installs, clicks>>

\* A name of two loaders is no loader.
hint(loaders) == IF \E l \in ModLoader : loaders = {l} THEN CHOOSE l \in loaders : TRUE ELSE Null

\* The button holds what was drawn, but the dependencies are wanted or not as
\* of now.
content_install ==
  [target |-> target, version_hint |-> drawn.game, loader_hint |-> hint(drawn.loader),
   file |-> drawn.file, dependencies |-> IF with_deps THEN drawn.requires ELSE {}]

Install ==
  /\ dialog = "open" /\ drawn # Null /\ drawn.file # Null /\ drawn.file.whole
  /\ dialog' = "closed" /\ installs' = content_install
  /\ UNCHANGED <<curseforge, target, fixed, versions, mod_files, game, loader, any_loader,
                 file_select, last_selected, message, with_deps, content, drawn, clicks, lists>>

Close ==
  /\ dialog # "closed" /\ dialog' = "closed" /\ target' = Null /\ fixed' = Nothing
  /\ game' = NoSelect /\ loader' = NoSelect /\ any_loader' = FALSE /\ file_select' = NoSelect
  /\ last_selected' = Nothing /\ message' = Null /\ with_deps' = TRUE /\ drawn' = Null
  /\ UNCHANGED <<curseforge, versions, mod_files, content, installs, clicks, lists>>

DialogNext ==
  \/ \E i \in DOMAIN InstanceEntry \cup {Null} : OpenDialog(i)
  \/ VersionsArrive
  \/ \E i \in Target : Choose(i)
  \/ Redraw \/ Selects
  \/ \E key \in DOMAIN mod_files : FilesArrive(key)
  \/ ContentIsListed \/ Install \/ Close

DialogSpec == DialogInit /\ [][DialogNext]_dialog_vars

-----------------------------------------------------------------------------
\* What is sent to the backend is a file for the instance it is to be put into.
FitsTarget ==
  installs # Null /\ installs.target \in DOMAIN InstanceEntry =>
    LET i == InstanceEntry[installs.target] IN
    IsFor(installs.file, i.game, IF IsMod /\ i.loader # NoLoader THEN i.loader ELSE Null)

\* It is a file for the version and the loader that are sent with it, though the
\* list, the selections and what was drawn are each of another redraw. Not so under
\* "Loading files...": the list of the selection before stays below it, also when
\* the files have come, and what is installed is from there.
FitsSelection ==
  installs # Null /\ message = Null => IsFor(installs.file, installs.version_hint, installs.loader_hint)

\* What a file requires is sent with it unless the instance had it when the
\* dialog was drawn, and nothing else is.
NeedsAreSent ==
  installs # Null =>
    /\ installs.dependencies \subseteq installs.file.requires
    /\ with_deps /\ installs.target = "new" => installs.dependencies = installs.file.requires

\* All three, of things that have their types.
InstallsFit == DialogType /\ FitsTarget /\ FitsSelection /\ NeedsAreSent
=============================================================================
