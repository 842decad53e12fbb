------------------------------- MODULE RayLogs --------------------------------
(***************************************************************************)
(* RayRunner.logs: the logs of a Ray job are read as a stream of bytes     *)
(* whose chunks end anywhere, out of a JSON object whose one string holds  *)
(* the whole log, without ever parsing the object.  The reader looks for   *)
(* the opening of the string, cuts lines at encoded newlines, decodes each *)
(* line, tells public lines from private ones, and keeps the newest lines  *)
(* within a bound.  A connection that breaks starts the reading over, up   *)
(* to a number of times.  A byte is a token; "[PUBLIC] " and "[PRIVATE] "  *)
(* are one token each, and one byte long.                                  *)
(***************************************************************************)
EXTENDS Integers, Sequences, SequencesExt

CONSTANTS Contents,    \* the logs that are read
          ChunkSizes,  \* sizes of the chunks
          LogLimit,    \* FUNCTIONS_LOGS_SIZE_LIMIT
          LogAttempts  \* num_retries of retry_function

PUBLIC == "[PUBLIC]"
PRIVATE == "[PRIVATE]"
NEWLINE == "newline"
BACKSLASH == "\\"

VARIABLES content,       \* the log of the job
          is_provider,   \* its function has a provider
          sent,          \* bytes received in this attempt
          reader,        \* the locals of _stream_logs_from_ray
          attempt,       \* attempts left
          call           \* whether the call is reading, has read the log or has failed

logVars == <<content, is_provider, sent, reader, attempt, call>>

-----------------------------------------------------------------------------
(* What Ray sends: {"logs": "...."}                                        *)

_LOG_VALUE_MARKER == <<"quote", "logs", "quote:quote">>

Encode(c) == IF c = NEWLINE THEN <<BACKSLASH, "n">> ELSE IF c = BACKSLASH THEN <<BACKSLASH, BACKSLASH>> ELSE <<c>>
Response(log) == <<"{">> \o _LOG_VALUE_MARKER \o FlattenSeq([i \in DOMAIN log |-> Encode(log[i])]) \o <<"quote", "}", "lf">>

-----------------------------------------------------------------------------
(* The helpers *)

\* bytearray.find: where the sub-sequence begins, 0 for nowhere.
Find(buffer, sub) ==
    LET at == {i \in 1..Len(buffer) : IsPrefix(sub, SubSeq(buffer, i, Len(buffer)))} IN
    IF at = {} THEN 0 ELSE CHOOSE i \in at : \A k \in at : i <= k
From(s, i) == SubSeq(s, i, Len(s))

\* Mutant: one byte too few is kept while the marker is not there.
KeepsTooLittle(buffer) ==
    LET at == Find(buffer, _LOG_VALUE_MARKER)
        keep == Len(_LOG_VALUE_MARKER) - 2
    IN IF at = 0 THEN [found |-> FALSE, rest |-> From(buffer, IF Len(buffer) > keep THEN Len(buffer) - keep + 1 ELSE 1)]
       ELSE [found |-> TRUE, rest |-> From(buffer, at + Len(_LOG_VALUE_MARKER))]

_seek_log_marker(buffer) ==
    LET at == Find(buffer, _LOG_VALUE_MARKER)
        keep == Len(_LOG_VALUE_MARKER) - 1
    IN IF at = 0 THEN [found |-> FALSE, rest |-> From(buffer, IF Len(buffer) > keep THEN Len(buffer) - keep + 1 ELSE 1)]
       ELSE [found |-> TRUE, rest |-> From(buffer, at + Len(_LOG_VALUE_MARKER))]

\* json.loads of the segment, or the segment itself when an escape is cut short.
_decode_json_string(data) ==
    LET Step(d, c) == IF ~d.escape THEN IF c = BACKSLASH THEN [d EXCEPT !.escape = TRUE] ELSE [d EXCEPT !.out = Append(@, c)]
                      ELSE [out |-> Append(d.out, IF c = "n" THEN NEWLINE ELSE c), escape |-> FALSE,
                            bad |-> d.bad \/ c \notin {"n", BACKSLASH}]
        d == FoldLeft(Step, [out |-> <<>>, escape |-> FALSE, bad |-> FALSE], data)
    IN IF d.escape \/ d.bad THEN data ELSE d.out

Size(lines) == FoldLeft(LAMBDA n, line : n + Len(line), 0, lines)

\* The lines from the first that leaves the rest within the limit.
Drop(lines) == CHOOSE i \in 0..Len(lines) :
                  /\ Size(From(lines, i + 1)) <= LogLimit
                  /\ \A k \in 0..i - 1 : Size(From(lines, k + 1)) > LogLimit

\* Mutant: at most one line makes room for the new one.
DropsOneLine(log, line) ==
    LET lines == Append(log.lines, line) IN
    IF Size(lines) > LogLimit THEN [lines |-> Tail(lines), truncated |-> TRUE] ELSE [log EXCEPT !.lines = lines]

_append_bounded(log, line) ==
    LET lines == Append(log.lines, line)
        n == Drop(lines)
    IN [lines |-> From(lines, n + 1), truncated |-> log.truncated \/ n > 0]

Starts(line, prefix) == line # <<>> /\ Head(line) = prefix

dispatch(logs, line) ==
    LET bare == IF Starts(line, PUBLIC) \/ Starts(line, PRIVATE) THEN Tail(line) ELSE line IN
    IF ~is_provider \/ Starts(line, PUBLIC) THEN [logs EXCEPT !.public = _append_bounded(@, bare)]
    ELSE [logs EXCEPT !.private = _append_bounded(@, bare)]

-----------------------------------------------------------------------------
(* _stream_logs_from_ray *)

Nothing == [lines |-> <<>>, truncated |-> FALSE]
Fresh == [buffer |-> <<>>, inside |-> FALSE, public |-> Nothing, private |-> Nothing]
_JSON_ENCODED_NL == <<BACKSLASH, "n">>
Reading == call = "reading"
HoldsLine == reader.inside /\ Find(reader.buffer, _JSON_ENCODED_NL) > 0

\* A chunk of any size arrives once the lines of the last one are taken.
Chunk(n) ==
    /\ Reading /\ ~HoldsLine /\ sent < Len(Response(content)) /\ n <= Len(Response(content)) - sent
    /\ LET buffer == reader.buffer \o SubSeq(Response(content), sent + 1, sent + n)
           sought == IF reader.inside THEN [found |-> TRUE, rest |-> buffer] ELSE _seek_log_marker(buffer)
       IN reader' = [reader EXCEPT !.buffer = sought.rest, !.inside = sought.found]
    /\ sent' = sent + n
    /\ UNCHANGED <<content, is_provider, attempt, call>>

\* One turn of the loop of _consume_logs.
_consume_logs ==
    LET nl == Find(reader.buffer, _JSON_ENCODED_NL) IN
    /\ Reading /\ HoldsLine
    /\ reader' = [dispatch(reader, _decode_json_string(SubSeq(reader.buffer, 1, nl - 1))) EXCEPT !.buffer = From(@, nl + 2)]
    /\ UNCHANGED <<content, is_provider, sent, attempt, call>>

\* What is left when the stream ends is the last line and the closing of the object.
Rstrip(s) == SubSeq(s, 1, CHOOSE n \in 0..Len(s) : (n = 0 \/ s[n] # "lf") /\ \A k \in n + 1..Len(s) : s[k] = "lf")
Closing(s) == IF IsSuffix(<<"quote", "}">>, s) THEN 2 ELSE IF IsSuffix(<<"quote">>, s) THEN 1 ELSE 0

\* Mutant: the closing of the object stays on the last line.
KeepsTheClosing ==
    LET tail == Rstrip(reader.buffer) IN
    /\ Reading /\ ~HoldsLine /\ sent = Len(Response(content))
    /\ reader' = IF tail = <<>> THEN reader ELSE dispatch(reader, _decode_json_string(tail))
    /\ call' = "read"
    /\ UNCHANGED <<content, is_provider, sent, attempt>>

EndOfStream ==
    LET stripped == Rstrip(reader.buffer)
        tail == SubSeq(stripped, 1, Len(stripped) - Closing(stripped))
    IN /\ Reading /\ ~HoldsLine /\ sent = Len(Response(content))
       /\ reader' = IF tail = <<>> THEN reader ELSE dispatch(reader, _decode_json_string(tail))
       /\ call' = "read"
       /\ UNCHANGED <<content, is_provider, sent, attempt>>

\* The request breaks off: retry_function starts over, or gives up with a RunnerError.
StreamBreaks ==
    /\ Reading
    /\ attempt' = attempt - 1
    /\ call' = IF attempt > 1 THEN "reading" ELSE "failed"
    /\ reader' = Fresh /\ sent' = 0
    /\ UNCHANGED <<content, is_provider>>

LogInit(contents) ==
    /\ content \in contents /\ is_provider \in (IF contents = Contents THEN BOOLEAN ELSE {FALSE})
    /\ sent = 0 /\ reader = Fresh /\ attempt = LogAttempts /\ call = "reading"

LogNext == (\E n \in ChunkSizes : Chunk(n)) \/ _consume_logs \/ EndOfStream \/ StreamBreaks

-----------------------------------------------------------------------------
(* Properties *)

\* The lines of the log, where a newline ends a line.
LinesOf(log) ==
    LET Step(ls, c) == IF c = NEWLINE THEN Append(ls, <<>>) ELSE [ls EXCEPT ![Len(ls)] = Append(@, c)]
        all == FoldLeft(Step, <<<<>>>>, log)
    IN IF Last(all) = <<>> THEN Front(all) ELSE all

Bare(line) == IF Starts(line, PUBLIC) \/ Starts(line, PRIVATE) THEN Tail(line) ELSE line
BareAll(lines) == [i \in DOMAIN lines |-> Bare(lines[i])]
IsPublic(line) == ~is_provider \/ Starts(line, PUBLIC)
Kept(lines) == [lines |-> From(lines, Drop(lines) + 1), truncated |-> Drop(lines) > 0]

\* A backslash before an n is encoded as the bytes of an encoded newline after another backslash, and is
\* cut there: such a line is not read back as it was written.
CutsAnEscape(log) == \E i \in 1..Len(log) - 1 : log[i] = BACKSLASH /\ log[i + 1] = "n"

\* However the bytes were cut into chunks and however often the reading started over, the public and the
\* private log are the lines of the log of that kind, each whole, in order, once, without their prefix; of
\* a log over the limit exactly the newest lines that fit, with a note (FilteredLogs).
LogsReadBack ==
    call = "read" /\ ~CutsAnEscape(content) =>
        LET lines == LinesOf(content) IN
        /\ reader.public = Kept(BareAll(SelectSeq(lines, IsPublic)))
        /\ reader.private = Kept(BareAll(SelectSeq(lines, LAMBDA l : ~IsPublic(l))))
=============================================================================
