------------------------------- MODULE LogPage -------------------------------
(***************************************************************************)
(* The page of an instance that shows its log files (frontend/src/pages/   *)
(* instance/logs_subpage.rs), and what the backend does for it             *)
(* (backend/src/backend_handler.rs): it lists the files, follows the one   *)
(* that is read, which a game may still be writing, and removes the old.   *)
(*                                                                         *)
(* A log is the places of the ends of its lines and its length.  A message *)
(* that goes through the channel to the page is what it holds of the file: *)
(* a range of places, without the end of the line.                         *)
(***************************************************************************)
EXTENDS Naturals, Sequences, FiniteSets, SequencesExt, FiniteSetsExt

CONSTANTS
  Path,         \* log files
  Gzipped,      \* those that end with .log.gz
  Reader,       \* slots for readers, each with its channel and its text field
  Missing,      \* no path, no reader
  BufferSize,   \* of the file that is read first (8 kB)
  ChannelSize,  \* 256
  MaxLength,    \* bound: length of a log
  MaxAsked      \* bound: messages to the backend

VARIABLES
  log,         \* for each path: whether it is there, its ends and its length
  to_backend,  \* GetLogFiles, ReadLog and CleanupOldLogFiles for the handler
  reader,      \* what each reader has got to
  channel,     \* what is on its way to the page
  field,       \* what was added to the text field
  logs_page    \* InstanceLogsSubpage

\* A log that is there at first has three places.
LogAssumption ==
  /\ Missing \notin Reader /\ Missing \notin Path
  /\ BufferSize \in Nat /\ ChannelSize \in Nat /\ MaxLength \in Nat \ (0 .. 2)

log_vars == <<log, to_backend, reader, channel, field, logs_page>>

Piece(from, upto, ended) == [from |-> from, upto |-> upto, ended |-> ended]
\* Where what follows on a piece begins.
After(piece) == piece.upto + (IF piece.ended THEN 1 ELSE 0)

\* at: "off"; "asked" for; "reading"; "sending" what is in queue; "ended".
NoReader == [path |-> Missing, at |-> "off", first |-> TRUE, line |-> 0, pos |-> 0, queue |-> <<>>]
NoLogs == [listing |-> TRUE, available |-> Missing, selected |-> Missing, reader |-> Missing]

LogsType ==
  /\ log \in [Path -> [there : BOOLEAN, ends : SUBSET (0 .. MaxLength - 1), length : 0 .. MaxLength]]
  /\ \A r \in Reader : reader[r].path \in Path \cup {Missing} /\ Len(channel[r]) <= ChannelSize
  /\ logs_page.selected \in Path \cup {Missing} /\ logs_page.reader \in Reader \cup {Missing}

LogsInit ==
  /\ log \in [Path -> [there : {TRUE}, ends : SUBSET (0 .. 2), length : {3}]]
  /\ to_backend = <<[kind |-> "list"]>>
  /\ reader = [r \in Reader |-> NoReader]
  /\ channel = [r \in Reader |-> <<>>] /\ field = [r \in Reader |-> <<>>]
  /\ logs_page = NoLogs

-----------------------------------------------------------------------------
(* The page. *)

\* The receiver of the reader that was shown is dropped.
Shows(r) == logs_page.reader = r

get_log_files ==
  /\ Len(to_backend) < MaxAsked
  /\ logs_page' = NoLogs
  /\ \E clean \in BOOLEAN :
       /\ clean => /\ logs_page.available # Missing /\ logs_page.available \cap Gzipped # {}
                   /\ Len(to_backend) + 1 < MaxAsked
       /\ to_backend' = to_backend \o (IF clean THEN <<[kind |-> "cleanup"]>> ELSE <<>>) \o <<[kind |-> "list"]>>
  /\ UNCHANGED <<log, reader, channel, field>>

SelectLog(path, r) ==
  /\ logs_page.available # Missing /\ path \in logs_page.available /\ path # logs_page.selected
  /\ reader[r].at \in {"off", "ended"} /\ ~Shows(r) /\ Len(to_backend) < MaxAsked
  /\ logs_page' = [logs_page EXCEPT !.selected = path, !.reader = r]
  /\ reader' = [reader EXCEPT ![r] = [NoReader EXCEPT !.path = path, !.at = "asked"]]
  /\ channel' = [channel EXCEPT ![r] = <<>>] /\ field' = [field EXCEPT ![r] = <<>>]
  /\ to_backend' = Append(to_backend, [kind |-> "read", reader |-> r])
  /\ UNCHANGED log

\* _read_log_task.
ReceiveLine(r) ==
  /\ Shows(r) /\ channel[r] # <<>>
  /\ channel' = [channel EXCEPT ![r] = Tail(@)]
  /\ field' = [field EXCEPT ![r] = Append(@, Head(channel[r]))]
  /\ UNCHANGED <<log, to_backend, reader, logs_page>>

-----------------------------------------------------------------------------
(* The handler. *)

Handles(kind) == to_backend # <<>> /\ Head(to_backend).kind = kind /\ to_backend' = Tail(to_backend)

\* An answer to a question that was asked before get_log_files began again reaches nobody.
GetLogFiles ==
  /\ Handles("list")
  /\ logs_page' =
       IF logs_page.listing /\ \A i \in 2 .. Len(to_backend) : to_backend[i].kind # "list"
       THEN [logs_page EXCEPT !.listing = FALSE, !.available = {p \in Path : log[p].there}]
       ELSE logs_page
  /\ UNCHANGED <<log, reader, channel, field>>

CleanupOldLogFiles ==
  /\ Handles("cleanup")
  /\ log' = [p \in Path |-> [log[p] EXCEPT !.there = @ /\ p \notin Gzipped]]
  /\ UNCHANGED <<reader, channel, field, logs_page>>

\* The first buffer is read at once; its lines come out when the next end is found after it.
ReadLog ==
  /\ Handles("read")
  /\ LET r == Head(to_backend).reader
         p == reader[r].path
         buffered == IF p \in Gzipped THEN 0 ELSE Min({BufferSize, log[p].length})
     IN  reader' = [reader EXCEPT ![r] =
           IF ~log[p].there THEN [@ EXCEPT !.at = "ended"]
           ELSE [@ EXCEPT !.at = "reading", !.first = p \notin Gzipped, !.pos = buffered]]
  /\ UNCHANGED <<log, channel, field, logs_page>>

-----------------------------------------------------------------------------
(* A reader. *)

\* The numbers of S, the least first.
Ascending(S) ==
  CHOOSE s \in [1 .. Cardinality(S) -> S] : \A j, k \in DOMAIN s : j < k => s[j] < s[k]

\* The text between from and upto as lines, without their ends.
Split(ends, from, upto) ==
  LET inside == {e \in ends : from <= e /\ e < upto}
      cuts == Ascending(inside \cup {upto})
  IN  [k \in DOMAIN cuts |-> Piece(IF k = 1 THEN from ELSE cuts[k - 1] + 1, cuts[k], k < Len(cuts))]
\* (A bug: what comes after the first buffer is sent with it and then again.)
kept_twice(r, upto) == IF reader[r].first THEN reader[r].pos ELSE upto
kept_in_line(r, upto) == upto

read_until ==
  \E r \in Reader :
    LET now == reader[r]
        ends == {e \in log[now.path].ends : e >= now.pos}
        upto == IF ends = {} THEN log[now.path].length ELSE Min(ends) + 1
    IN  /\ now.at = "reading" /\ now.pos < log[now.path].length
        /\ reader' = [reader EXCEPT ![r].at = "sending", ![r].first = FALSE,
             ![r].pos = upto, ![r].line = kept_in_line(r, upto),
             ![r].queue = IF now.first THEN Split(log[now.path].ends, now.line, upto)
                          ELSE <<Piece(now.line, IF ends = {} THEN upto ELSE upto - 1, ends # {})>>]
        /\ UNCHANGED <<log, to_backend, channel, field, logs_page>>

\* The end of a compressed file ends its reader; another file may still grow.
EndOfFile(r) ==
  /\ reader[r].at = "reading" /\ reader[r].path \in Gzipped /\ reader[r].pos = log[reader[r].path].length
  /\ reader' = [reader EXCEPT ![r].at = "ended"]
  /\ UNCHANGED <<log, to_backend, channel, field, logs_page>>

send(r) ==
  /\ reader[r].at = "sending" /\ Shows(r) /\ Len(channel[r]) < ChannelSize
  /\ channel' = [channel EXCEPT ![r] = Append(@, Head(reader[r].queue))]
  /\ reader' = [reader EXCEPT ![r].queue = Tail(@), ![r].at = IF Len(reader[r].queue) = 1 THEN "reading" ELSE @]
  /\ UNCHANGED <<log, to_backend, field, logs_page>>

\* send fails, or send.closed() is awaited; what was in the channel is gone.
closed(r) ==
  /\ reader[r].at \in {"reading", "sending"} /\ ~Shows(r)
  /\ reader' = [reader EXCEPT ![r].at = "ended"]
  /\ channel' = [channel EXCEPT ![r] = <<>>] /\ field' = [field EXCEPT ![r] = <<>>]
  /\ UNCHANGED <<log, to_backend, logs_page>>

\* A game writes its log.
Write(p, whole) ==
  /\ p \notin Gzipped /\ log[p].length < MaxLength
  /\ log' = [log EXCEPT ![p].length = @ + 1, ![p].ends = IF whole THEN @ \cup {log[p].length} ELSE @]
  /\ UNCHANGED <<to_backend, reader, channel, field, logs_page>>

LogsNext ==
  \/ get_log_files \/ GetLogFiles \/ CleanupOldLogFiles \/ ReadLog \/ read_until
  \/ \E r \in Reader : (\E p \in Path : SelectLog(p, r)) \/ ReceiveLine(r) \/ EndOfFile(r) \/ send(r) \/ closed(r)
  \/ \E p \in Path, whole \in BOOLEAN : Write(p, whole)

LogsSpec == LogsInit /\ [][LogsNext]_log_vars

-----------------------------------------------------------------------------
\* What has come out of the file follows on what came before it: nothing is lost, repeated or out
\* of order, however the file grew meanwhile, and a field holds what is of the file it is for.
\* What a reader at the end of a file has not sent is the first buffer, until more is written.
LogIsShown ==
  /\ logs_page.reader # Missing => reader[logs_page.reader].path \in {logs_page.selected, Missing}
  /\ \A r \in Reader :
       LET got == field[r] \o channel[r] \o reader[r].queue
           now == reader[r]
       IN  got # <<>> /\ (Shows(r) \/ now.at # "ended") =>
             /\ got[1].from = 0
             /\ \A k \in 1 .. Len(got) - 1 : got[k + 1].from = After(got[k])
             /\ now.at = "reading" /\ now.pos = log[now.path].length => After(Last(got)) = now.pos
=============================================================================
