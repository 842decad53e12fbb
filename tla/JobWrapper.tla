------------------------------ MODULE JobWrapper ------------------------------
(***************************************************************************)
(* The wrapper that runs inside the container of a Fleets job              *)
(* (templates/fleet_provider_job_wrapper.py, and the custom one, which has *)
(* only the public log).  The main thread starts the uploader thread and   *)
(* the user process, and appends every line the process prints to a local  *)
(* log; the uploader copies the logs to COS when their size changed, and   *)
(* shrinks the local one once it reaches the limit; a signal ends the user *)
(* process, and the end of its output leads to a last upload of each log.  *)
(*                                                                         *)
(* A line is its number and counts one unit of size.  Every read and write *)
(* of a file is a step, so the two threads interleave between them.        *)
(***************************************************************************)
EXTENDS Integers, Sequences

CONSTANTS Kinds,     \* {"provider", "custom"}, or one of them
          Output,    \* what the user process prints: the tag of each line
          LIMIT,     \* most lines kept of a log
          MaxFaults  \* bound on failed writes to COS

ASSUME WrapperAssumption == LIMIT \in Nat \ {0} /\ MaxFaults \in Nat

LogsOf(kind) == IF kind = "provider" THEN <<"public", "private">> ELSE <<"public">>
Logs == {"public", "private"}
SIGTERM == 15

VARIABLES
    kind,      \* which of the two wrappers this is
    main,      \* where the main thread is
    user,      \* the user process
    printed, taken,  \* lines the process printed, and those the main thread has read
    file, opened,    \* the local logs, and whether they exist
    cos,       \* the logs in COS
    exitCode,  \* exit_code, 0: None
    stop,      \* the stop event
    step,      \* where the upload in progress is
    log,       \* logs it still has to look at
    content,   \* log_tail
    lastSize,  \* last_public_size and last_private_size
    faults,
    missed     \* logs whose last upload failed

filesVars == <<file, opened, cos>>
uploadVars == <<step, log, content, lastSize>>
wrapperVars == <<kind, main, user, printed, taken, filesVars, exitCode, stop, uploadVars, faults, missed>>

\* Type correctness of the files and of the two threads.
WrapperTypeOK ==
    /\ kind \in Kinds
    /\ main \in {"start", "launch", "register", "open", "read", "flush", "final", "exited", "dead"}
    /\ user \in {"none", "running", "ended"}
    /\ printed \in 0..Len(Output) /\ taken \in 0..printed
    /\ file \in [Logs -> Seq(1..Len(Output))] /\ opened \in BOOLEAN
    /\ cos \in [Logs -> [lines : Seq(1..Len(Output)), truncated : BOOLEAN]]
    /\ exitCode \in {0, 128 + SIGTERM} /\ stop \in BOOLEAN
    /\ step \in {"wait", "look", "size", "copy", "tail", "put", "cut", "restore", "last", "done"}
    /\ log \in Seq(Logs) /\ content \in Seq(1..Len(Output))
    /\ lastSize \in [Logs -> -1..Len(Output)]
    /\ faults \in 0..MaxFaults /\ missed \subseteq Logs

WrapperInit ==
    /\ kind \in Kinds
    /\ main = "start" /\ user = "none" /\ printed = 0 /\ taken = 0
    /\ file = [l \in Logs |-> <<>>] /\ opened = FALSE
    /\ cos = [l \in Logs |-> [lines |-> <<>>, truncated |-> FALSE]]
    /\ exitCode = 0 /\ stop = FALSE
    /\ step = "done" /\ log = <<>> /\ content = <<>> /\ lastSize = [l \in Logs |-> -1]
    /\ faults = 0 /\ missed = {}

FileSize(l) == IF opened THEN Len(file[l]) ELSE -1
-----------------------------------------------------------------------------
(* The user process *)

\* It prints a line, or its output ends: at the end, or when it is terminated.
EmitLine ==
    /\ user = "running" /\ printed < Len(Output)
    /\ printed' = printed + 1
    /\ UNCHANGED <<kind, main, user, taken, filesVars, exitCode, stop, uploadVars, faults, missed>>

UserEnds ==
    /\ user = "running" /\ (printed = Len(Output) \/ exitCode # 0)
    /\ user' = "ended"
    /\ UNCHANGED <<kind, main, printed, taken, filesVars, exitCode, stop, uploadVars, faults, missed>>
-----------------------------------------------------------------------------
(* The main thread: run, on_signal and flush *)

\* The log a line goes to.  [PUBLIC] and [PRIVATE] are matched in any case, and stripped.
CleanLine(tag) == IF kind = "custom" \/ tag = "[PUBLIC]" THEN "public" ELSE "private"

StartUploader ==
    /\ main = "start"
    /\ main' = "launch" /\ step' = "wait"
    /\ UNCHANGED <<kind, user, printed, taken, filesVars, exitCode, stop, log, content, lastSize, faults, missed>>

Launch ==
    /\ main = "launch"
    /\ main' = "register" /\ user' = "running"
    /\ UNCHANGED <<kind, printed, taken, filesVars, exitCode, stop, uploadVars, faults, missed>>

RegisterSignals ==
    /\ main = "register"
    /\ main' = "open"
    /\ UNCHANGED <<kind, user, printed, taken, filesVars, exitCode, stop, uploadVars, faults, missed>>

OpenLogs ==
    /\ main = "open"
    /\ main' = "read" /\ opened' = TRUE
    /\ UNCHANGED <<kind, user, printed, taken, file, cos, exitCode, stop, uploadVars, faults, missed>>

\* SIGTERM.  The handler terminates the user process; before it is registered the wrapper just dies.
Signal ==
    /\ exitCode = 0
    /\ \/ /\ main \in {"open", "read", "flush", "final"}
          /\ exitCode' = 128 + SIGTERM
          /\ UNCHANGED main
       \/ /\ main \in {"start", "launch", "register"}
          /\ main' = "dead"
          /\ UNCHANGED exitCode
    /\ UNCHANGED <<kind, user, printed, taken, filesVars, stop, uploadVars, faults, missed>>

\* One line of output, appended and flushed.
WriteLine ==
    /\ main = "read" /\ taken < printed
    /\ file' = [file EXCEPT ![CleanLine(Output[taken + 1])] = Append(@, taken + 1)]
    /\ taken' = taken + 1
    /\ UNCHANGED <<kind, main, user, printed, opened, cos, exitCode, stop, uploadVars, faults, missed>>

\* The output ends, wait() returns and flush() begins.
BeginFlush ==
    /\ main = "read" /\ taken = printed /\ user = "ended"
    /\ main' = "flush" /\ stop' = TRUE
    /\ UNCHANGED <<kind, user, printed, taken, filesVars, exitCode, uploadVars, faults, missed>>

\* Mutant: the uploader is joined and nothing is uploaded after it.
JoinsOnly ==
    /\ main = "flush" /\ step = "done"
    /\ main' = "final" /\ step' = "size" /\ log' = <<>>
    /\ UNCHANGED <<kind, user, printed, taken, filesVars, exitCode, stop, content, lastSize, faults, missed>>

\* The uploader is joined, whatever it was doing, before the last upload of each log.
JoinUploader ==
    /\ main = "flush" /\ step = "done"
    /\ main' = "final" /\ step' = "size" /\ log' = LogsOf(kind)
    /\ UNCHANGED <<kind, user, printed, taken, filesVars, exitCode, stop, content, lastSize, faults, missed>>

Exit ==
    /\ main = "final" /\ step = "size" /\ log = <<>>
    /\ main' = "exited"
    /\ UNCHANGED <<kind, user, printed, taken, filesVars, exitCode, stop, uploadVars, faults, missed>>
-----------------------------------------------------------------------------
(* upload_log, in the uploader thread or, once that is joined, in flush *)

Alive == main \notin {"exited", "dead"}
Uploading(s) == Alive /\ step = s
uploadOnly == UNCHANGED <<kind, main, user, printed, taken, opened, exitCode, stop>>

\* Mutant: the stop event is not looked at.
WakesAlways ==
    /\ Uploading("wait")
    /\ step' = "look" /\ log' = LogsOf(kind)
    /\ UNCHANGED <<file, cos, content, lastSize, faults, missed>> /\ uploadOnly

\* The uploader wakes up, unless it is told to stop.
Wake ==
    /\ Uploading("wait")
    /\ \/ /\ ~stop /\ step' = "look" /\ log' = LogsOf(kind)
       \/ /\ stop /\ step' = "done" /\ UNCHANGED log
    /\ UNCHANGED <<file, cos, content, lastSize, faults, missed>> /\ uploadOnly

\* A log of the size it had after its last upload is skipped.
LookAtLogs ==
    /\ Uploading("look")
    /\ IF log = <<>>
       THEN step' = "wait" /\ UNCHANGED log
       ELSE IF FileSize(Head(log)) = lastSize[Head(log)]
            THEN log' = Tail(log) /\ UNCHANGED step
            ELSE step' = "size" /\ UNCHANGED log
    /\ UNCHANGED <<file, cos, content, lastSize, faults, missed>> /\ uploadOnly

\* After an upload: the uploader reads the size again, the last upload goes on with the next log.
Uploaded ==
    IF main = "final" THEN step' = "size" /\ log' = Tail(log) ELSE step' = "last" /\ UNCHANGED log

ReadSize ==
    /\ Uploading("size") /\ log # <<>>
    /\ IF FileSize(Head(log)) < 0 THEN Uploaded
       ELSE UNCHANGED log /\ step' = IF FileSize(Head(log)) >= LIMIT THEN "tail" ELSE "copy"
    /\ UNCHANGED <<file, cos, content, lastSize, faults, missed>> /\ uploadOnly

\* Below the limit: a plain copy.
CopyLog ==
    /\ Uploading("copy")
    /\ cos' = [cos EXCEPT ![Head(log)] = [lines |-> file[Head(log)], truncated |-> FALSE]]
    /\ missed' = missed \ {Head(log)}
    /\ Uploaded
    /\ UNCHANGED <<file, content, lastSize, faults>> /\ uploadOnly

\* At the limit: the tail is read, put into COS under a header ...
ReadTail ==
    /\ Uploading("tail")
    /\ content' = LET s == file[Head(log)] IN SubSeq(s, Len(s) - LIMIT + 1, Len(s))
    /\ step' = "put"
    /\ UNCHANGED <<log, file, cos, lastSize, faults, missed>> /\ uploadOnly

PutTail ==
    /\ Uploading("put")
    /\ cos' = [cos EXCEPT ![Head(log)] = [lines |-> content, truncated |-> TRUE]]
    /\ missed' = missed \ {Head(log)}
    /\ step' = "cut"
    /\ UNCHANGED <<log, file, content, lastSize, faults>> /\ uploadOnly

\* ... and truncate_file empties the local log and writes the tail at its beginning, over what may
\* have been appended in between.
CutFile ==
    /\ Uploading("cut")
    /\ file' = [file EXCEPT ![Head(log)] = <<>>]
    /\ step' = "restore"
    /\ UNCHANGED <<log, cos, content, lastSize, faults, missed>> /\ uploadOnly

\* Mutant: the tail is appended.
AppendsTail ==
    /\ Uploading("restore")
    /\ file' = [file EXCEPT ![Head(log)] = @ \o content]
    /\ content' = <<>>
    /\ Uploaded
    /\ UNCHANGED <<cos, lastSize, faults, missed>> /\ uploadOnly

RestoreTail ==
    /\ Uploading("restore")
    /\ file' = [file EXCEPT ![Head(log)] = content \o SubSeq(@, Len(content) + 1, Len(@))]
    /\ content' = <<>>
    /\ Uploaded
    /\ UNCHANGED <<cos, lastSize, faults, missed>> /\ uploadOnly

\* An OSError while COS is written ends the upload.
UploadFails ==
    /\ Alive /\ step \in {"copy", "put"} /\ faults < MaxFaults
    /\ faults' = faults + 1
    /\ missed' = missed \cup {Head(log)}
    /\ content' = <<>>
    /\ Uploaded
    /\ UNCHANGED <<file, cos, lastSize>> /\ uploadOnly

ReadLastSize ==
    /\ Uploading("last")
    /\ lastSize' = [lastSize EXCEPT ![Head(log)] = FileSize(Head(log))]
    /\ log' = Tail(log) /\ step' = "look"
    /\ UNCHANGED <<file, cos, content, faults, missed>> /\ uploadOnly

MainNext ==
    StartUploader \/ Launch \/ RegisterSignals \/ OpenLogs \/ WriteLine \/ BeginFlush \/ JoinUploader \/ Exit
UploadNext ==
    Wake \/ LookAtLogs \/ ReadSize \/ CopyLog \/ ReadTail \/ PutTail \/ CutFile \/ RestoreTail \/ UploadFails \/ ReadLastSize
Over == ~Alive /\ UNCHANGED wrapperVars

WrapperNext == MainNext \/ UploadNext \/ EmitLine \/ UserEnds \/ Signal \/ Over

\* Both threads are scheduled, and the user process ends (the platform kills it at the latest).
WrapperFairness == WF_wrapperVars(MainNext) /\ WF_wrapperVars(UploadNext) /\ WF_wrapperVars(EmitLine) /\ WF_wrapperVars(UserEnds)
WrapperSpec == WrapperInit /\ [][WrapperNext]_wrapperVars /\ WrapperFairness
-----------------------------------------------------------------------------
(* Properties *)

LinesOf(l) == SelectSeq([i \in 1..taken |-> i], LAMBDA i : CleanLine(Output[i]) = l)

\* At exit COS holds every line of a log that stayed below the limit, however the uploads, their
\* failures and the signal fell, unless the very last upload of that log failed (flush after join).
WholeLogAtExit ==
    main = "exited" =>
        \A l \in {LogsOf(kind)[i] : i \in DOMAIN LogsOf(kind)} \ missed :
            Len(LinesOf(l)) < LIMIT => cos[l] = [lines |-> LinesOf(l), truncated |-> FALSE]

\* What COS and the local file hold is always in the order it was printed, without repeats, and in the log it
\* belongs to, also while truncate_file and the line reader write to one file.
LogsInOrder ==
    \A l \in Logs : \A s \in {file[l], cos[l].lines} :
        /\ \A i, k \in DOMAIN s : i < k => s[i] < s[k]
        /\ \A i \in DOMAIN s : CleanLine(Output[s[i]]) = l

\* Once the limit is reached the header says that the oldest entries were discarded: at exit COS holds the newest
\* ones, up to the limit (upload_log and truncate_file).
NewestKept ==
    main = "exited" =>
        \A l \in {LogsOf(kind)[i] : i \in DOMAIN LogsOf(kind)} \ missed :
            LET n == Len(LinesOf(l))
            IN  n >= LIMIT => cos[l].lines = SubSeq(LinesOf(l), n - LIMIT + 1, n)

\* The wrapper exits once the user process has ended: the join of the uploader cannot hang (flush).
WrapperExits == user = "ended" ~> ~Alive

\* What the user reads is what the function printed: in order, in the right log at every moment, and
\* whole when the container has exited.
LogsAreFaithful == WrapperTypeOK /\ WholeLogAtExit /\ LogsInOrder
=============================================================================
