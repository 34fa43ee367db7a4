------------------------------ MODULE LogReader ------------------------------
(***************************************************************************)
(* The reader of what a game prints (backend/src/log_reader.rs): lines of  *)
(* text, or the events that log4j writes as XML.  It takes what the pipe   *)
(* has, which may end anywhere, and sends a message for every line and     *)
(* every event.                                                            *)
(*                                                                         *)
(* Input is a sequence of symbols: E, M and T stand for log4j:Event,       *)
(* log4j:Message and log4j:Throwable, L for level, W for WARN, C for       *)
(* CDATA[, D for DOCTYPE, q for a quote, n for the end of a line, x for    *)
(* any other text.  This is the build without debug assertions: the other  *)
(* one panics at what is ignored here.                                     *)
(***************************************************************************)
EXTENDS Naturals, Sequences, SequencesExt

CONSTANTS Printed  \* what the game may print: sequences of lines, events and asides

Nothing == <<"none">>
Space == {" ", "n"}
Blank(text) == \A i \in DOMAIN text : text[i] \in Space

-----------------------------------------------------------------------------
(* What is printed, and what it means. *)

\* [kind, text]: a line, or the last one, which has no end; an aside, which is markup that
\* says nothing; markup that is torn, when the game has crashed.
\* [kind |-> "event", level, aside, text, throwable]: the last two may be Nothing.
Element(name, text) ==
  IF text = Nothing THEN <<>>
  ELSE <<"<", name, ">", "<", "!", "[", "C">> \o text \o <<"]", "]", ">", "<", "/", name, ">">>

Written(p) ==
  IF p.kind = "event"
  THEN <<"<", "E", " ", "L", "=", "q", p.level, "q", ">">> \o p.aside
         \o Element("M", p.text) \o Element("T", p.throwable) \o <<"<", "/", "E", ">", "n">>
  ELSE IF p.kind = "line" THEN p.text \o <<"n">> ELSE p.text

\* The lines of a text, by the places of their ends.
LinesOf(text) ==
  LET ends == SetToSortSeq({i \in DOMAIN text : text[i] = "n"} \cup {0, Len(text) + 1}, <)
  IN  [k \in 1 .. Len(ends) - 1 |-> SubSeq(text, ends[k] + 1, ends[k + 1] - 1)]
Lines(text) == IF text = Nothing THEN <<>> ELSE LinesOf(text)
Empty == <<"empty">>

\* A throwable of one line is dropped after a message of several.
Lost(p) == Len(Lines(p.text)) > 1 /\ Len(Lines(p.throwable)) = 1

Means(p) ==
  CASE p.kind \in {"aside", "torn"} -> <<>>
    [] p.kind \in {"line", "last"} -> IF Blank(p.text) THEN <<>> ELSE <<[level |-> "info", lines |-> <<p.text>>]>>
    [] OTHER ->
         LET lines == Lines(p.text) \o IF Lost(p) THEN <<>> ELSE Lines(p.throwable)
         IN  <<[level |-> p.level, lines |-> IF lines = <<>> THEN <<Empty>> ELSE lines]>>

-----------------------------------------------------------------------------
VARIABLES
  printed,    \* by the game
  input,      \* the same as symbols
  at, upto,   \* what the buffer of the reader has of it
  mode,       \* the loop the reader is in
  buffer,     \* LogInput::buffer
  stack,      \* LogReader::stack
  seen,       \* a depth, or how much of an end was seen before what is in the buffer
  sent,       \* messages AddGameOutput
  reread,      \* "tail" when the rest of a line that was sent is read again, and "markup"
              \* once such a rest was taken for markup (history)
  repeated    \* which of what was sent are such a rest (history)

given == <<printed, input>>
read == <<at, upto, mode, buffer, stack, seen, sent>>
vars == <<given, read, reread, repeated>>

Mode == {"output", "rest", "markup", "bang", "cdata", "dash", "comment", "angles", "instruction",
         "name", "space", "key", "level", "value", "quoted_level", "quoted", "skip", "skip_quoted",
         "end_name", "end_skip", "end_quoted", "done", "error"}
Frame == [kind : {"event", "message", "throwable", "unknown"}, level : {"other", "W", "x"},
          text : Seq(STRING), throwable : Seq(STRING)]

TypeOK ==
  /\ at \in 1 .. Len(input) + 1 /\ upto \in 0 .. Len(input)
  /\ mode \in Mode /\ buffer \in Seq(STRING) /\ seen \in Nat
  /\ \A i \in DOMAIN stack : stack[i] \in Frame
  /\ \A i \in DOMAIN sent : sent[i].level \in {"info", "other", "W", "x"}
  /\ reread \in {"no", "tail", "markup"} /\ repeated \subseteq DOMAIN sent

Init ==
  /\ printed \in Printed
  /\ input = FlattenSeq([i \in DOMAIN printed |-> Written(printed[i])])
  /\ at = 1 /\ upto = 0 /\ mode = "output" /\ buffer = <<>> /\ stack = <<>> /\ seen = 0 /\ sent = <<>>
  /\ reread = "no" /\ repeated = {}

\* fill_buf, when all was consumed.
Fill ==
  /\ at > upto /\ upto < Len(input) /\ mode \notin {"done", "error"}
  /\ upto' \in at .. Len(input)
  /\ UNCHANGED <<given, at, mode, buffer, stack, seen, sent>>

available == SubSeq(input, at, upto)
Found(S) == \E i \in DOMAIN available : available[i] \in S
Place(S) == CHOOSE i \in DOMAIN available :
              available[i] \in S /\ \A j \in 1 .. i - 1 : available[j] \notin S
Upto(n) == SubSeq(available, 1, n)
All == Len(available)
IsAt(n, symbol) == n \in DOMAIN available /\ available[n] = symbol

In(m) == mode = m /\ at <= upto
Consume(n) == at' = at + n /\ UNCHANGED <<given, upto>>
Go(m) == mode' = m
Buffer == buffer' = buffer \o available /\ Consume(All)
Clear == buffer' = <<>>

-----------------------------------------------------------------------------
(* Outside of markup. *)

send_raw_text(line) ==
  sent' = IF Blank(line) THEN sent ELSE Append(sent, [level |-> "info", lines |-> <<line>>])
\* (A bug: what was read of the line before is forgotten.)
finish_remaining(remaining) == send_raw_text(remaining) /\ Clear
finish_text(remaining) == send_raw_text(buffer \o remaining) /\ Clear

InsideXml ==
  /\ In("output") /\ stack # <<>>
  /\ IF Found({"<"}) THEN Consume(Place({"<"})) /\ Go("markup") ELSE Consume(All) /\ UNCHANGED mode
  /\ UNCHANGED <<buffer, stack, seen, sent>>

ReadLine ==
  /\ In("output") /\ stack = <<>>
  /\ IF ~Found({"n", "<"})
     THEN Buffer /\ Go(IF Blank(available) THEN "output" ELSE "rest") /\ UNCHANGED sent
     ELSE LET i == Place({"n", "<"}) IN
          IF available[i] = "n" THEN finish_text(Upto(i - 1)) /\ Consume(i) /\ UNCHANGED mode
          ELSE IF Blank(Upto(i - 1)) THEN Clear /\ Consume(i) /\ Go("markup") /\ UNCHANGED sent
          ELSE IF Found({"n"})
          THEN finish_text(Upto(Place({"n"}) - 1)) /\ Consume(Place({"n"})) /\ UNCHANGED mode
          ELSE Buffer /\ Go("rest") /\ UNCHANGED sent
  /\ UNCHANGED <<stack, seen>>

\* The rest of the line is sent and not consumed.
read_rest_of_line ==
  /\ mode = "rest"
  /\ \/ at <= upto /\ ~Found({"n"}) /\ Buffer /\ UNCHANGED <<mode, sent>>
     \/ at <= upto /\ Found({"n"}) /\ finish_text(Upto(Place({"n"}) - 1))
          /\ Consume(0) /\ Go("output")
     \/ at > Len(input) /\ finish_text(<<>>) /\ Consume(0) /\ Go("output")
  /\ UNCHANGED <<stack, seen>>

\* Nothing comes any more.
EndOfInput ==
  /\ at > Len(input) /\ mode \notin {"done", "error", "rest"}
  /\ Go(IF mode = "output" THEN "done" ELSE "error")
  /\ UNCHANGED <<given, at, upto, buffer, stack, seen, sent>>

read_markup ==
  /\ In("markup")
  /\ CASE available[1] = "!" -> Consume(1) /\ Go("bang")
       [] available[1] = "/" -> Consume(1) /\ Go("end_name")
       [] available[1] = "?" -> Consume(1) /\ Go("instruction")
       [] OTHER -> Consume(0) /\ Go("name")
  /\ seen' = 0 /\ UNCHANGED <<buffer, stack, sent>>

-----------------------------------------------------------------------------
(* CDATA, comments and what else begins with a mark. *)

read_bang ==
  /\ In("bang")
  /\ CASE available[1] = "[" -> Consume(0) /\ Go("cdata") /\ UNCHANGED seen
       [] available[1] = "-" ->
            \/ All >= 2 /\ available[2] = "-" /\ Consume(2) /\ Go("comment") /\ UNCHANGED seen
            \/ All >= 2 /\ available[2] # "-" /\ Consume(0) /\ Go("error") /\ UNCHANGED seen
            \/ All = 1 /\ Consume(1) /\ Go("dash") /\ UNCHANGED seen
       [] OTHER -> Consume(0) /\ Go("angles") /\ seen' = 1
  /\ UNCHANGED <<buffer, stack, sent>>

Dash ==
  /\ In("dash")
  /\ IF available[1] = "-" THEN Consume(1) /\ Go("comment") ELSE Consume(0) /\ Go("error")
  /\ UNCHANGED <<buffer, stack, seen, sent>>

Top == stack[Len(stack)]
SetTop(frame) == stack' = [stack EXCEPT ![Len(stack)] = frame]

apply_cdata(cdata) ==
  IF ~IsPrefix(<<"[", "C">>, cdata) THEN Go("error") /\ UNCHANGED <<stack, sent>>
  ELSE LET text == SubSeq(cdata, 3, Len(cdata)) IN
       /\ Go("output")
       /\ IF stack = <<>> THEN send_raw_text(text) /\ UNCHANGED stack
          ELSE /\ UNCHANGED sent
               /\ IF Top.kind \in {"message", "throwable"} THEN SetTop([Top EXCEPT !.text = text])
                  ELSE UNCHANGED stack

\* All of it, when what was read before and now ends it.
cdata_ended(before, now) == IF IsSuffix(<<"]", "]", ">">>, before \o now) THEN before \o now ELSE <<>>

read_cdata ==
  /\ In("cdata") /\ UNCHANGED seen
  /\ IF ~Found({">"}) THEN Buffer /\ UNCHANGED <<mode, stack, sent>>
     ELSE LET i == Place({">"})
              whole == cdata_ended(buffer, Upto(i)) IN
          /\ Consume(i)
          /\ IF whole # <<>> THEN Clear /\ apply_cdata(SubSeq(whole, 1, Len(whole) - 3))
             ELSE buffer' = buffer \o Upto(i) /\ UNCHANGED <<mode, stack, sent>>

\* 1 for a dash, 2 for two of them.
partial_end_sequence ==
  IF All = 1 /\ available[1] = "-" /\ seen = 1 THEN 2
  ELSE IF All >= 2 /\ IsSuffix(<<"-", "-">>, available) THEN 2
  ELSE IF available[All] = "-" THEN 1 ELSE 0
comment_ended(i) ==
  \/ i = 1 /\ seen = 2
  \/ i = 2 /\ seen = 1 /\ available[1] = "-"
  \/ i >= 3 /\ available[i - 1] = "-" /\ available[i - 2] = "-"

read_comment ==
  /\ In("comment")
  /\ IF ~Found({">"}) THEN Consume(All) /\ seen' = partial_end_sequence /\ UNCHANGED mode
     ELSE LET i == Place({">"}) IN
          Consume(i) /\ seen' = 0 /\ Go(IF comment_ended(i) THEN "output" ELSE "comment")
  /\ UNCHANGED <<buffer, stack, sent>>

skip_balanced_angle_brackets ==
  /\ In("angles")
  /\ IF ~Found({"<", ">"}) THEN Consume(All) /\ UNCHANGED <<mode, seen>>
     ELSE LET i == Place({"<", ">"}) IN
          /\ Consume(i) /\ seen' = (IF available[i] = "<" THEN seen + 1 ELSE seen - 1)
          /\ Go(IF seen' = 0 THEN "output" ELSE "angles")
  /\ UNCHANGED <<buffer, stack, sent>>

read_processing_instruction ==
  /\ In("instruction")
  /\ IF ~Found({">"})
     THEN Consume(All) /\ seen' = (IF available[All] = "?" THEN 1 ELSE 0) /\ UNCHANGED mode
     ELSE LET i == Place({">"}) IN
          /\ Consume(i) /\ seen' = 0
          /\ Go(IF (i = 1 /\ seen = 1) \/ IsAt(i - 1, "?") THEN "output" ELSE "instruction")
  /\ UNCHANGED <<buffer, stack, sent>>

-----------------------------------------------------------------------------
(* Elements. *)

Pushed(kind) == Append(stack, [kind |-> kind, level |-> "other", text |-> Nothing, throwable |-> Nothing])
Popped == SubSeq(stack, 1, Len(stack) - 1)
Pop == stack' = IF stack = <<>> THEN stack ELSE Popped

kind_of(name) ==
  CASE stack = <<>> /\ name = <<"E">> -> "event"
    [] stack # <<>> /\ Top.kind = "event" /\ name = <<"M">> -> "message"
    [] stack # <<>> /\ Top.kind = "event" /\ name = <<"T">> -> "throwable"
    [] OTHER -> "unknown"

ReadName ==
  /\ In("name") /\ UNCHANGED <<seen, sent>>
  /\ IF ~Found(Space \cup {">"}) THEN Buffer /\ UNCHANGED <<mode, stack>>
     ELSE LET i == Place(Space \cup {">"})
              name == buffer \o Upto(i - 1)
              closed == available[i] = ">" IN
          /\ Clear
          /\ IF name = <<>> THEN Consume(i - 1) /\ Go("skip") /\ UNCHANGED stack
             ELSE IF closed /\ Last(name) = "/" THEN Consume(i) /\ Go("output") /\ UNCHANGED stack
             ELSE /\ stack' = Pushed(kind_of(name))
                  /\ IF closed THEN Consume(i) /\ Go("output")
                     ELSE Consume(i - 1) /\ Go(IF kind_of(name) = "event" THEN "space" ELSE "skip")

skip_whitespace ==
  /\ In("space")
  /\ IF Blank(available) THEN Consume(All) /\ UNCHANGED mode
     ELSE /\ Go("key")
          /\ Consume((CHOOSE i \in DOMAIN available :
                        available[i] \notin Space /\ Blank(Upto(i - 1))) - 1)
  /\ UNCHANGED <<buffer, stack, seen, sent>>

ReadKey ==
  /\ In("key") /\ UNCHANGED <<seen, sent>>
  /\ LET ends == Space \cup {">", "q", "="} IN
     IF ~Found(ends) THEN Buffer /\ UNCHANGED <<mode, stack>>
     ELSE LET i == Place(ends) IN
          /\ Clear
          /\ IF available[i] = ">" /\ (i = 1 \/ available[i - 1] = "/")
             THEN /\ Consume(i) /\ Go("output")
                  /\ IF i = 1 /\ ~IsSuffix(<<"/">>, buffer) THEN UNCHANGED stack ELSE Pop
             ELSE /\ UNCHANGED stack
                  /\ IF available[i] # "=" THEN Consume(i - 1) /\ Go("skip")
                     ELSE Consume(i) /\ Go(IF buffer \o Upto(i - 1) = <<"L">> THEN "level" ELSE "value")

ReadValue ==
  /\ In("level") \/ In("value")
  /\ IF available[1] # "q" THEN Consume(0) /\ Go("skip")
     ELSE Consume(1) /\ Go(IF mode = "level" THEN "quoted_level" ELSE "quoted")
  /\ UNCHANGED <<buffer, stack, seen, sent>>

apply_attribute_key_value(value) ==
  SetTop([Top EXCEPT !.level = IF value = <<"W">> THEN "W" ELSE "x"])

ReadQuoted ==
  /\ In("quoted_level") \/ In("quoted")
  /\ IF ~Found({"q"}) THEN Buffer /\ UNCHANGED <<mode, stack>>
     ELSE LET i == Place({"q"}) IN
          /\ Consume(i) /\ Clear /\ Go("space")
          /\ IF mode = "quoted" THEN UNCHANGED stack
             ELSE apply_attribute_key_value(buffer \o Upto(i - 1))
  /\ UNCHANGED <<seen, sent>>

\* A slash just before the end, which may have come with what was read before.
closes_itself(i) == (i = 1 /\ seen = 1) \/ IsAt(i - 1, "/")

SkipElement ==
  /\ In("skip")
  /\ IF ~Found({">", "q"})
     THEN Consume(All) /\ seen' = (IF available[All] = "/" THEN 1 ELSE 0) /\ UNCHANGED <<mode, stack>>
     ELSE LET i == Place({">", "q"}) IN
          /\ Consume(i)
          /\ IF available[i] = "q" THEN Go("skip_quoted") /\ seen' = 0 /\ UNCHANGED stack
             ELSE /\ Go("output") /\ UNCHANGED seen
                  /\ IF closes_itself(i) THEN Pop ELSE UNCHANGED stack
  /\ UNCHANGED <<buffer, sent>>

SkipQuoted ==
  /\ In("skip_quoted") \/ In("end_quoted")
  /\ IF ~Found({"q"}) THEN Consume(All) /\ UNCHANGED mode
     ELSE Consume(Place({"q"})) /\ Go(IF mode = "skip_quoted" THEN "skip" ELSE "end_skip")
  /\ UNCHANGED <<buffer, stack, seen, sent>>

final_lines(text, throwable) ==
  LET several == IF Len(Lines(text)) > 1 THEN Lines(text) ELSE <<>>
      all == IF Len(Lines(throwable)) <= 1 THEN several
             ELSE (IF several = <<>> /\ text # Nothing THEN <<text>> ELSE several) \o Lines(throwable)
  IN  IF all # <<>> THEN all
      ELSE IF text # Nothing /\ throwable # Nothing THEN <<text, throwable>>
      ELSE IF text # Nothing THEN <<text>>
      ELSE IF throwable # Nothing THEN <<throwable>> ELSE <<Empty>>

\* The one below takes what the one that ends has read.
Ended(frame, below) ==
  CASE frame.kind = "message" -> [below EXCEPT !.text = frame.text]
    [] frame.kind = "throwable" -> [below EXCEPT !.throwable = frame.text]
    [] OTHER -> below

apply_end_element(name) ==
  IF stack = <<>> \/ (Top.kind # "unknown" /\
       name # (CASE Top.kind = "event" -> <<"E">> [] Top.kind = "message" -> <<"M">> [] OTHER -> <<"T">>))
  THEN Go("error") /\ UNCHANGED <<stack, sent>>
  ELSE /\ Go("end_skip")
       /\ stack' = IF Len(stack) = 1 THEN <<>>
                   ELSE [Popped EXCEPT ![Len(stack) - 1] = Ended(Top, @)]
       /\ sent' = IF Top.kind # "event" THEN sent
                  ELSE Append(sent, [level |-> Top.level, lines |-> final_lines(Top.text, Top.throwable)])

ReadEndName ==
  /\ In("end_name") /\ UNCHANGED seen
  /\ IF ~Found(Space \cup {">"}) THEN Buffer /\ UNCHANGED <<mode, stack, sent>>
     ELSE LET i == Place(Space \cup {">"}) IN
          Consume(i - 1) /\ Clear /\ apply_end_element(buffer \o Upto(i - 1))

SkipEnd ==
  /\ In("end_skip")
  /\ IF ~Found({">", "q"}) THEN Consume(All) /\ UNCHANGED mode
     ELSE LET i == Place({">", "q"}) IN
          Consume(i) /\ Go(IF available[i] = "q" THEN "end_quoted" ELSE "output")
  /\ UNCHANGED <<buffer, stack, seen, sent>>

Read ==
  \/ Fill \/ InsideXml \/ ReadLine \/ read_rest_of_line \/ EndOfInput \/ read_markup \/ read_bang
  \/ Dash \/ read_cdata \/ read_comment \/ skip_balanced_angle_brackets
  \/ read_processing_instruction \/ ReadName \/ skip_whitespace \/ ReadKey \/ ReadValue
  \/ ReadQuoted \/ SkipElement \/ SkipQuoted \/ ReadEndName \/ SkipEnd

\* What is left of a line that was sent is read by the step that comes next.
ReadAgain ==
  /\ reread' = IF reread = "markup" \/ (reread = "tail" /\ mode' = "markup") THEN "markup"
              ELSE IF mode = "rest" /\ mode' = "output" /\ at <= upto THEN "tail" ELSE "no"
  /\ repeated' = IF reread = "tail" /\ sent' # sent THEN repeated \cup {Len(sent')} ELSE repeated

Rest == mode \in {"done", "error"} /\ UNCHANGED vars

Next == (Read /\ ReadAgain) \/ Rest

Spec == Init /\ [][Next]_vars

-----------------------------------------------------------------------------
\* However the pipe cuts what a game prints, the messages are those of its lines and
\* events, in their order, and all of them at the end.  The end of a line that the pipe
\* has cut comes twice, at once after the line; and if there is nothing but markup in it, it
\* is read as such, after which nothing is promised.
EverythingIsRead ==
  LET messages == FlattenSeq([i \in DOMAIN printed |-> Means(printed[i])])
      firsts == SelectSeq([i \in DOMAIN sent |-> i], LAMBDA i : i \notin repeated)
      once == [i \in DOMAIN firsts |-> sent[firsts[i]]]
  IN
  reread = "markup" \/
    /\ IsPrefix(once, messages)
    /\ mode = "done" => once = messages
    /\ mode = "error" => Last(printed).kind = "torn"
    /\ \A i \in repeated :
         /\ i - 1 \in DOMAIN sent \ repeated
         /\ sent[i].level = "info" /\ IsSuffix(sent[i].lines[1], sent[i - 1].lines[1])
=============================================================================
