------------------------------- MODULE MCPages -------------------------------
(* What is shown, one behaviour for each: an item of the metadata cache and the *)
(* page that asks for it; what a game prints, as it is read and as its window    *)
(* shows it, with the tree of sizes; a log file in its text field and the page    *)
(* that follows it; the page that searches Modrinth and the buttons of its       *)
(* hits; and the dialogs of Modrinth and Curseforge that install a project.      *)
EXTENDS MetadataCache, SearchPage, InstallDialog, LogPage, TLC

CONSTANTS t1, t2, l1, l2, r1, r2

VARIABLES
  part,
  printed, input, at, upto, mode, buffer, stack, seen, sent, reread, repeated,
  output, pending, item_state, scrolling, drag, lines, bounds_y,
  inner, values

printing == <<printed, input, at, upto, mode, buffer, stack, seen, sent, reread, repeated>>
viewing == <<output, pending, item_state, scrolling, drag, lines, bounds_y>>
tree == <<inner, values>>

-----------------------------------------------------------------------------
\* The version manifest, and a version of the game.
MCFileItems == {[expires |-> TRUE, hashed |-> FALSE, cached |-> TRUE],
                [expires |-> FALSE, hashed |-> TRUE, cached |-> TRUE]}
MCTask == {t1, t2}
MCLoad == {l1, l2}
MCSymmetry == Permutations(MCTask) \cup Permutations(MCLoad)

\* What a game prints: lines and events, markup that says nothing between and within them, and
\* the start of what it was printing when it crashed.
X == <<"x">>
Two == <<"x", "n", ">", "]">>
Comment == <<"<", "!", "-", "-", "x", "-", ">", "x", "-", "-", ">">>
Instruction == <<"<", "?", "x", ">", "?", ">">>
Doctype == <<"<", "!", "D", "<", ">", "x", ">">>
Quoting == <<"<", "x", " ", "q", ">", "q", "/", ">">>
Closed == <<"<", "x", "/", ">">>
Torn == {<<"<", "E", " ">>, <<"<", "E", " ", "L">>, <<"<", "E", " ", "x", "=", "q", "x">>,
         <<"<", "E", " ", "L", "=", "x">>, <<"<", "!", "-", "x">>, <<"<", "/", "x", ">">>,
         <<"<", "!", "[", "x", "]", "]", ">">>, <<"<", "/", "E">>}

All(kind, texts) == {[kind |-> kind, text |-> t] : t \in texts}
NoText == <<"none">>
Event(aside, text, throwable) ==
  [kind |-> "event", level |-> "W", aside |-> aside, text |-> text, throwable |-> throwable]
Printings ==
  LET printed_lines == All("line", {X, <<" ">>, <<" ", "x", "<", "x">>})
      asides == All("aside", {Comment, Instruction, Doctype, Quoting, Closed})
      events == {Event(Comment, X, NoText), Event(Quoting, X, Two), Event(X, Two, X),
                 Event(<<>>, Two, Two), Event(Closed, X, X), Event(Instruction, NoText, X),
                 Event(<<>>, NoText, NoText)}
  IN  {<<a, b>> : a \in asides \cup printed_lines \cup {Event(Quoting, X, Two)}, b \in events}
        \cup (events \X printed_lines) \cup {<<last>> : last \in All("last", {X})}
        \cup {<<Event(Quoting, X, NoText), t>> : t \in All("torn", Torn)}

Three == <<[lines |-> <<1>>, matches |-> {"a"}], [lines |-> <<1, 2>>, matches |-> {}],
           [lines |-> <<1>>, matches |-> {"a"}]>>
TwoLines == <<[width |-> 4, matches |-> {}], [width |-> 2, matches |-> {"a"}]>>

\* A mod for two loaders and two versions of the game, of which files of each kind are for both
\* loaders or for one; instances with one of them, with none, and with a version it is not for.
ModFile(games, loaders, type, requires, whole) ==
  [games |-> games, loaders |-> loaders, type |-> type, requires |-> requires, whole |-> whole]
MCModFiles ==
  <<ModFile({2}, {"fabric", "forge"}, "beta", {"p"}, TRUE),
    ModFile({1, 2}, {"fabric", "forge"}, "release", {}, TRUE),
    ModFile({1}, {"fabric"}, "alpha", {"p"}, TRUE),
    ModFile({1}, {"forge"}, "release", {}, FALSE)>>
MCInstance == [a |-> [game |-> 1, loader |-> "fabric"], b |-> [game |-> 2, loader |-> "vanilla"],
               c |-> [game |-> 3, loader |-> "forge"]]

\* Three hits of every type, or none when something is typed.
MCMatching == "" :> 3 @@ "x" :> 0
MCType == {"mod", "shader"}
MCLoader == {"fabric"}
MCCategory == {"magic"}
MCModLoader == {"fabric", "forge"}
MCProject == {"p"}
MCSearching == [i \in {"a", "b"} |-> MCInstance[i]]
MCListed == {<<>>}
MCPath == {"latest.log", "old.log.gz"}
MCGzipped == {"old.log.gz"}
MCReader == {r1, r2}
Installed(id, status) == [id |-> id, project |-> "p", status |-> status]
MCStatus == {"unknown", "up_to_date", "outdated", "failed"}
MCContents == {<<>>} \cup {<<Installed(1, s)>> : s \in MCStatus}
                \cup {<<Installed(1, s), Installed(2, t)>> : s, t \in MCStatus}

Output == INSTANCE LogReader WITH Printed <- Printings
Window == INSTANCE GameOutput WITH
  Printing <- Three, Query <- {"a"}, Width <- {1, 3}, Height <- {1}, LookBack <- 1, MaxAbove <- 1
TextField == INSTANCE ReadonlyTextField WITH
  Content <- TwoLines, Query <- {"a"}, Width <- {1, 3}, Height <- {1}, LookBack <- 1, MaxAbove <- 1
Tree == INSTANCE FenwickTree WITH Value <- 0 .. 2, MaxLength <- 6
Buttons == INSTANCE SearchPage WITH
  Instance <- [i \in {"a"} |-> MCInstance[i]], Contents <- MCContents, MaxChanges <- 1, MaxLists <- 1

ASSUME DialogAssumption == FileAssumption
ASSUME LogsAssumption == LogAssumption

-----------------------------------------------------------------------------
\* The others stay where one of their first states is.
PagesInit ==
  /\ part \in {"metadata", "output", "window", "text_field", "tree", "logs", "dialog", "search", "buttons"}
  /\ part # "output" => printed = CHOOSE p \in Printings : TRUE
  /\ Output!Init /\ Window!Init
  /\ part # "tree" => values = <<>>
  /\ Tree!Init
  /\ part # "metadata" => item = (CHOOSE i \in Items : TRUE) /\ lock = <<>> /\ file = None
  /\ Init
  /\ part # "dialog" => content = {} /\ curseforge = FALSE
  /\ DialogInit
  /\ part \notin {"search", "buttons"} =>
       config = [project_type |-> "mod", filter_version |-> FALSE, install_latest |-> FALSE]
  /\ IF part = "buttons" THEN Buttons!SearchInit ELSE SearchInit
  /\ LogsInit /\ \A p \in Path : log[p].ends \in IF part = "logs" THEN {{}, {1}} ELSE {{}}

Of(p, A, others) == part = p /\ A /\ UNCHANGED <<part, others>>

PagesNext ==
  \/ Of("metadata", Next, <<printing, viewing, tree, log_vars, dialog_vars, search_vars>>)
  \/ Of("output", Output!Next, <<vars, viewing, tree, log_vars, dialog_vars, search_vars>>)
  \/ Of("window", Window!Next, <<vars, printing, tree, log_vars, dialog_vars, search_vars>>)
  \/ Of("text_field", TextField!Next, <<vars, printing, tree, log_vars, dialog_vars, search_vars>>)
  \/ Of("tree", Tree!Next, <<vars, printing, viewing, log_vars, dialog_vars, search_vars>>)
  \/ Of("logs", LogsNext, <<vars, printing, viewing, tree, dialog_vars, search_vars>>)
  \/ Of("dialog", DialogNext, <<vars, printing, viewing, tree, log_vars, search_vars>>)
  \/ Of("search", SearchNext, <<vars, printing, viewing, tree, log_vars, dialog_vars>>)
  \/ Of("buttons", Buttons!SearchNext, <<vars, printing, viewing, tree, log_vars, dialog_vars>>)

PagesSpec ==
  PagesInit /\ [][PagesNext]_<<part, vars, printing, viewing, tree, log_vars, dialog_vars, search_vars>>

-----------------------------------------------------------------------------
\* What a game prints is read, kept and shown, and stays where it is scrolled to: the
\* properties of LogReader, GameOutput and FenwickTree.  So is a log: those of LogPage
\* and of the text field.  The button of a hit fits what is installed: that of SearchPage.
OutputIsShown ==
  /\ [](/\ part = "output" => Output!EverythingIsRead
        /\ part = "tree" => Tree!SumsAgree
        /\ part = "window" => Window!ViewerIsRight
        /\ part = "logs" => LogIsShown
        /\ part = "text_field" => TextField!ViewerIsRight
        /\ part = "buttons" => Buttons!ButtonsFit)
  /\ Window!ViewStays
=============================================================================
