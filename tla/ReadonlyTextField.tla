-------------------------- MODULE ReadonlyTextField --------------------------
(***************************************************************************)
(* The text field that shows a log file (frontend/src/component/           *)
(* readonly_text_field.rs): the window of a game's output again, with      *)
(* items of one line and without the columns for the time and the level.   *)
(***************************************************************************)
EXTENDS Integers, Sequences

CONSTANTS
  Content,   \* the lines of the file: a sequence of [width : Nat, matches : SUBSET Query]
  Query, Width, Height,
  LookBack,  \* 32
  MaxAbove   \* bound

VARIABLES
  output, pending, item_state, scrolling, drag, lines, bounds_y

\* A TextFieldLine is an item whose text is the line.
AsText(line) == [lines |-> <<line.width>>, matches |-> line.matches]
Viewer == INSTANCE GameOutput WITH Printing <- [i \in DOMAIN Content |-> AsText(Content[i])]

vars == Viewer!vars
Init == Viewer!Init

add(line) == Viewer!add(AsText(line))

apply_pending(st, texts) == Viewer!apply_pending(st, texts)
compute_wrapped_text(item, width, cached) == Viewer!compute_wrapped_text(item, width, cached)
update_scrolling(st, dragged, width) == Viewer!update_scrolling(st, dragged, width)
paint_lines(st, info, width, height) == Viewer!paint_lines(st, info, width, height)

Paint(width, height) == Viewer!Paint(width, height) \/ Viewer!PaintNothing(height)

set_offset(offset) == Viewer!ScrollWheel(offset) \/ Viewer!DragTo(offset)
Buttons == Viewer!ToTop \/ Viewer!ToBottom
Drag == Viewer!start_drag \/ Viewer!end_drag

on_search_input_event(query) == Viewer!on_search_input_event(query)
SearchDone == Viewer!SearchDone

Next ==
  \/ Len(output) < Len(Content) /\ add(Content[Len(output) + 1])
  \/ \E width \in Width, height \in Height : Paint(width, height)
  \/ \E offset \in -(lines + drag.start) .. 0 : set_offset(offset)
  \/ Buttons \/ Drag \/ SearchDone
  \/ \E query \in Query \cup {Viewer!NoQuery} : on_search_input_event(query)

Spec == Init /\ [][Next]_vars

\* The text field keeps what the window of a game keeps.
ViewerIsRight == Viewer!ViewerIsRight
ViewStays == Viewer!ViewStays
=============================================================================
