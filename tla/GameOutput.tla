----------------------------- MODULE GameOutput -----------------------------
(***************************************************************************)
(* The window that shows what a game prints (frontend/src/game_output/     *)
(* mod.rs).  Items wait until the next paint takes them; an item is        *)
(* wrapped when it is painted first, and its size, until then the number   *)
(* of its lines, changes; a search has the items to itself and puts them   *)
(* back.                                                                   *)
(*                                                                         *)
(* Heights and offsets are counted in lines: an offset between two lines,  *)
(* the columns for the time and the level and the LRU limit of the cache   *)
(* are left out.  A text is the widths of its lines and the queries that   *)
(* it matches.                                                             *)
(***************************************************************************)
EXTENDS Integers, Sequences, SequencesExt, FiniteSetsExt

CONSTANTS
  Printing,  \* what the game prints: a sequence of [lines : Seq(Nat), matches : SUBSET Query]
  Query,     \* what is searched for
  Width,     \* wrap widths
  Height,    \* of the bounds
  LookBack,  \* items that are looked at above the one scrolled last (32)
  MaxAbove   \* bound: an offset that has got above the first line when items above shrunk

VARIABLES
  output,      \* what the game has printed
  pending,     \* GameOutput::pending
  item_state,  \* GameOutputItemState, or the search that has taken it
  scrolling,   \* GameOutputScrollState
  drag,        \* its active_drag
  lines,       \* what the last paint has written there
  bounds_y

scroll_state == <<scrolling, drag, lines, bounds_y>>
vars == <<output, pending, item_state, scroll_state>>

NoQuery == "none"
Tree == INSTANCE FenwickTree WITH
  Value <- {}, MaxLength <- 0, inner <- item_state.item_sizes,
  values <- [i \in DOMAIN item_state.items |-> item_state.items[i].total_lines]

Bottom == [at |-> "bottom", offset |-> 0]
Top(offset) == [at |-> "top", offset |-> offset]
NoDrag == [on |-> FALSE, start |-> 0, actual |-> 0]

Empty == [items |-> <<>>, last_scrolled_item |-> 0, item_sizes |-> <<>>, total_line_count |-> 0,
          cached |-> <<>>, search_query |-> NoQuery, searching |-> FALSE]

Init ==
  /\ output = <<>> /\ pending = <<>> /\ item_state = Empty
  /\ scrolling = Bottom /\ drag = NoDrag /\ lines = 0 /\ bounds_y = 0

-----------------------------------------------------------------------------
(* Items. *)

Matches(text, query) == query = NoQuery \/ query \in text.matches

\* An item that does not match what is searched for takes no lines.
Item(text, query) ==
  LET shown == Matches(text, query) IN
  [text |-> text, backup |-> Len(text.lines), total_lines |-> IF shown THEN Len(text.lines) ELSE 0,
   highlight |-> IF shown THEN query ELSE NoQuery, skip |-> ~shown]

apply_pending(st, texts) ==
  LET Push(s, text) ==
        LET item == Item(text, st.search_query) IN
        [s EXCEPT !.items = Append(@, item), !.item_sizes = Tree!push(@, item.total_lines),
                  !.total_line_count = @ + item.total_lines, !.cached = Append(@, <<>>)]
  IN  FoldLeft(Push, st, texts)

Wrapped(text, width) == [k \in DOMAIN text.lines |-> (text.lines[k] + width - 1) \div width]
Count(wrapped) == FoldLeft(LAMBDA a, b : a + b, 0, wrapped)

\* What was wrapped for another width is good when it is one line that fits.
compute_wrapped_text(item, width, cached) ==
  IF cached # <<>> /\ (cached.width = width \/ (cached.count = 1 /\ item.text.lines[1] < width))
  THEN cached
  ELSE [width |-> width, count |-> Count(Wrapped(item.text, width)), highlight |-> item.highlight]

\* Wraps item i, counted from 0, and writes its size down when it is another.
Rewrap(st, i, width) ==
  LET item == st.items[i + 1]
      wrapped == compute_wrapped_text(item, width, st.cached[i + 1])
      count == Max({wrapped.count, 1})
      sizes == IF item.total_lines <= count THEN Tree!add_at(st.item_sizes, i, count - item.total_lines)
               ELSE Tree!sub_at(st.item_sizes, i, item.total_lines - count)
  IN  IF item.skip THEN st
      ELSE [st EXCEPT !.cached[i + 1] = wrapped, !.items[i + 1].total_lines = count,
                      !.item_sizes = sizes, !.total_line_count = @ + count - item.total_lines]

RECURSIVE RewrapWhile(_, _, _, _, _)

\* The items from i on, in one direction, until they fill more than room.
RewrapWhile(st, i, step, room, width) ==
  IF room < 0 \/ i + 1 \notin DOMAIN st.items THEN st
  ELSE LET after == Rewrap(st, i, width)
           used == IF st.items[i + 1].skip THEN 0 ELSE after.items[i + 1].total_lines
       IN  RewrapWhile(after, i + step, step, room - used, width)

-----------------------------------------------------------------------------
(* Painting. *)

max_offset(st) == Max({st.total_line_count - bounds_y, 1})

\* The last item at the bottom, painted upwards.
AtBottom(st) ==
  LET last == Len(st.items) - 1 IN
  [st |-> [st EXCEPT !.last_scrolled_item = last], item |-> last, step |-> -1, offset |-> 0,
   scrolling |-> Bottom, drag |-> IF drag.on THEN [drag EXCEPT !.actual = -max_offset(st)] ELSE drag]

top_line(effective) == Max({-effective - 1, 0})

\* The item at the top of what is seen.  While the scrollbar is dragged, what is seen is wrapped
\* at once.
AtTop(st, to, effective, width) ==
  LET found == Tree!index_of_with_remainder(st.item_sizes, top_line(effective) + 1)
      offset == 1 - found[2] - Min({1, Max({-effective, 0})})
      seen == IF drag.on THEN RewrapWhile(st, found[1], 1, bounds_y - offset, width) ELSE st
  IN  [st |-> [seen EXCEPT !.last_scrolled_item = found[1]], item |-> found[1], step |-> 1,
       offset |-> offset, scrolling |-> to,
       drag |-> IF drag.on THEN [drag EXCEPT !.actual = effective] ELSE drag]

FirstAbove(st, effective) ==
  Max({Tree!index_of(st.item_sizes, top_line(effective) + 1), st.last_scrolled_item - LookBack})

\* Items above the one that was scrolled last, when those are seen now.
RewrapAbove(st, effective, width) ==
  FoldLeft(LAMBDA s, i : Rewrap(s, i - 1, width), st,
           [k \in 1 .. st.last_scrolled_item - FirstAbove(st, effective) |-> k + FirstAbove(st, effective)])

\* What they have grown by is above what is seen.
moved_by(offset, resized) == offset - resized

\* What has been resized above moves the offset; a drag stays with the scrollbar.
\* effective: where dragging the scrollbar to the offset goes to; it depends on what has been
\* resized since the drag has begun.
update_scrolling(st, dragged, width) ==
  LET offset == scrolling.offset
      follows == drag.on /\ offset < 0
      effective == IF follows THEN dragged ELSE offset
      above == RewrapAbove(st, effective, width)
      resized == above.total_line_count - st.total_line_count
      changed == \E i \in DOMAIN st.items : above.items[i].total_lines # st.items[i].total_lines
      moved == moved_by(offset, resized)
      moves == changed /\ ~drag.on
      top == IF ~changed THEN effective
             ELSE IF moves THEN moved
             ELSE IF follows THEN Min({effective - resized, 0}) ELSE offset
  IN  IF scrolling = Bottom \/ offset <= -max_offset(st) THEN AtBottom(st)
      ELSE IF moves /\ moved <= -max_offset(st) THEN AtBottom(above)
      ELSE AtTop(above, IF moves THEN Top(moved) ELSE scrolling, top, width)

paint_lines(st, info, width, height) ==
  RewrapWhile(st, info.item, info.step, height - info.offset, width)

\* A search has the items: nothing is painted, and the view is at the bottom afterwards.
PaintNothing(height) ==
  /\ item_state.searching
  /\ scrolling' = Bottom /\ lines' = 0 /\ bounds_y' = height
  /\ UNCHANGED <<output, pending, item_state, drag>>

Paint(width, height) ==
  /\ ~item_state.searching /\ scrolling.offset <= MaxAbove
  /\ pending' = <<>> /\ bounds_y' = height
  /\ LET st == apply_pending(item_state, pending) IN
     IF st.items = <<>>
     THEN scrolling' = Bottom /\ item_state' = Empty /\ lines' = 0 /\ UNCHANGED drag
     ELSE \E dragged \in (IF drag.on THEN -max_offset(st) .. 0 ELSE {0}) :
            LET info == update_scrolling(st, dragged, width) IN
            /\ item_state' = paint_lines(info.st, info, width, height)
            /\ lines' = item_state'.total_line_count
            /\ scrolling' = info.scrolling /\ drag' = info.drag
  /\ UNCHANGED output

add(text) ==
  /\ output' = Append(output, text) /\ pending' = Append(pending, text)
  /\ UNCHANGED <<item_state, scroll_state>>

-----------------------------------------------------------------------------
(* Scrolling. *)

content_height_for_scrollbar == IF drag.on THEN drag.start ELSE lines
max_scroll_amount == Max({lines - bounds_y, 0})
Offset == IF scrolling = Bottom THEN bounds_y - content_height_for_scrollbar ELSE scrolling.offset

ScrolledTo(offset, content) ==
  LET to == Min({offset, 0}) IN IF to <= bounds_y - content THEN Bottom ELSE Top(to)

OnlyScrolls == UNCHANGED <<output, pending, item_state, lines, bounds_y>>

ScrollWheel(offset) ==
  /\ offset \in -max_scroll_amount .. 0 /\ offset # Offset
  /\ scrolling' = ScrolledTo(offset, content_height_for_scrollbar)
  /\ UNCHANGED drag /\ OnlyScrolls

ToTop == scrolling' = Top(0) /\ UNCHANGED drag /\ OnlyScrolls
ToBottom == scrolling' = Bottom /\ UNCHANGED drag /\ OnlyScrolls

start_drag ==
  /\ ~drag.on /\ max_scroll_amount > 0
  /\ drag' = [on |-> TRUE, start |-> lines, actual |-> Offset]
  /\ UNCHANGED scrolling /\ OnlyScrolls

DragTo(offset) ==
  /\ drag.on /\ offset \in bounds_y - drag.start .. 0
  /\ scrolling' = ScrolledTo(offset, drag.start)
  /\ UNCHANGED drag /\ OnlyScrolls

end_drag ==
  /\ drag.on
  /\ drag' = NoDrag /\ scrolling' = ScrolledTo(drag.actual, lines)
  /\ OnlyScrolls

-----------------------------------------------------------------------------
(* Searching. *)

\* Enter does nothing while a search has the items.
on_search_input_event(query) ==
  /\ ~item_state.searching
  /\ item_state' = [item_state EXCEPT !.searching = TRUE, !.search_query = query]
  /\ UNCHANGED <<output, pending, scroll_state>>

nothing_cached(cached) == [i \in DOMAIN cached |-> <<>>]

\* An item that is skipped by two searches loses the number of its lines.
Searched(item, query) ==
  IF query = NoQuery
  THEN [item EXCEPT !.total_lines = IF item.skip THEN item.backup ELSE @,
                    !.skip = FALSE, !.highlight = NoQuery]
  ELSE IF Matches(item.text, query) THEN [item EXCEPT !.highlight = query, !.skip = FALSE]
  ELSE [item EXCEPT !.backup = item.total_lines, !.total_lines = 0, !.skip = TRUE]

SearchDone ==
  /\ item_state.searching
  /\ LET items == [i \in DOMAIN item_state.items |-> Searched(item_state.items[i], item_state.search_query)]
         lengths == [i \in DOMAIN items |-> items[i].total_lines]
     IN  item_state' = [item_state EXCEPT
           !.items = items, !.item_sizes = Tree!from_iter(lengths), !.total_line_count = Count(lengths),
           !.cached = nothing_cached(@), !.searching = FALSE]
  /\ UNCHANGED <<output, pending, scroll_state>>

Next ==
  \/ Len(output) < Len(Printing) /\ add(Printing[Len(output) + 1])
  \/ \E width \in Width, height \in Height : Paint(width, height)
  \/ \E height \in Height : PaintNothing(height)
  \/ \E offset \in -lines .. 0 : ScrollWheel(offset)
  \/ ToTop \/ ToBottom
  \/ start_drag \/ end_drag
  \/ \E offset \in bounds_y - drag.start .. 0 : DragTo(offset)
  \/ \E query \in Query \cup {NoQuery} : on_search_input_event(query)
  \/ SearchDone

Spec == Init /\ [][Next]_vars

-----------------------------------------------------------------------------
items == item_state.items

\* The output is all there, in its order; the sizes of the items, their sum and the tree agree,
\* whatever has been wrapped, searched or resized meanwhile.
OutputIsWhole ==
  /\ output = [i \in DOMAIN items |-> items[i].text] \o pending
  /\ Tree!SumsAgree
  /\ item_state.total_line_count = Tree!Before(Len(items))
  /\ item_state.last_scrolled_item \in 0 .. Len(items)

\* What is shown is what the last search has found, highlighted for that search also where it
\* comes from the cache.
SearchIsShown ==
  ~item_state.searching => \A i \in DOMAIN items :
    LET found == Matches(items[i].text, item_state.search_query) IN
    /\ items[i].skip = ~found
    /\ found => items[i].highlight = item_state.search_query
    /\ item_state.cached[i] # <<>> => item_state.cached[i].highlight = items[i].highlight

ViewerIsRight == OutputIsWhole /\ SearchIsShown

\* Scrolling up into items that are wrapped now keeps what was seen where it was, unless the
\* view falls to the bottom or ends up above the items that were looked at.
ViewStays ==
  [][LET last == item_state.last_scrolled_item
         Above(st) == Count([i \in 1 .. last |-> st.items[i].total_lines])
     IN  /\ ~item_state.searching /\ ~item_state'.searching /\ ~drag.on
         /\ pending' = <<>> /\ items # <<>>
         /\ scrolling # Bottom /\ scrolling' # Bottom
         /\ FirstAbove(item_state, scrolling.offset) <= item_state'.last_scrolled_item
         => Above(item_state') + scrolling'.offset = Above(item_state) + scrolling.offset]_<<item_state, bounds_y>>
=============================================================================
