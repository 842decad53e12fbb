------------------------------- MODULE Client --------------------------------
(***************************************************************************)
(* The client library as a user's program waits for a job with it:         *)
(* Job.wait_for_final_state over ServerlessClient.get_job_data, which      *)
(* reads the job with the API key, keeps the job status token the gateway  *)
(* signs, and reads the status with the token while it is young.  Between  *)
(* them stand safe_json_request, which turns what a request meets into an  *)
(* error code, and the retries of the transient ones.                      *)
(*                                                                         *)
(* Time passes in units while the client sleeps, while a request is on its *)
(* way and between two waits; nothing is measured from the start, so the   *)
(* client may run for ever.                                                *)
(***************************************************************************)
EXTENDS Integers, Sequences, FiniteSets

CONSTANTS Unset,           \* Python's None
          BackoffSteps,    \* _BACKOFF_SECONDS, in units
          RetryTime,       \* _RETRY_SECONDS
          TokenReuse,      \* _STATUS_TOKEN_REUSE_SECONDS
          TokenMaxAge,     \* _MAX_AGE_SECONDS of the gateway
          RequestTimeout,  \* REQUESTS_TIMEOUT
          WaitTimeouts     \* the timeouts the user may give, Unset for none

VARIABLES
    jobStatus,   \* status and sub_status of the job in the gateway
    net,         \* what a request meets now: "up", "busy" (a transient failure) or "broken"
    user_active, \* the user is active
    tok,         \* _status_tokens: age since it was received, and since the gateway signed it
    finalStatus, \* _final_status
    wait,        \* the locals of the wait and of its request
    outcome,     \* how the last wait ended
    unheard      \* time since the wait began or heard of the job, up to RetryTime

clientVars == <<jobStatus, net, user_active, tok, finalStatus, wait, outcome, unheard>>

-----------------------------------------------------------------------------
(* What a request meets: a reply is lost or not sent, or has a status code *)
(* and a body that is JSON, empty or other text.                           *)

ok(code) == code \in {"200", "204"}

safe_json_request(reply) ==
    IF reply.way = "lost" THEN "CONN1001"
    ELSE IF reply.way = "unsendable" THEN "AUTH1001"
    ELSE IF ~ok(reply.code) THEN reply.code
    ELSE IF reply.body = "json" THEN "none"
    ELSE IF reply.body = "empty" THEN "EMPTY1001" ELSE "JSON1001"

TRANSIENT_ERROR_CODES == {"CONN1001", "EMPTY1001", "429", "502", "503", "504"}

is_transient_error(code) == code \in TRANSIENT_ERROR_CODES

Replies == [way : {"lost", "unsendable"}, code : {"none"}, body : {"none"}]
           \cup [way : {"http"}, code : {"200", "401", "404", "429", "500", "503"}, body : {"json", "empty", "text"}]

-----------------------------------------------------------------------------
(* Statuses *)

_FINAL_STATUSES == {"CANCELED", "DONE", "ERROR"}

STATUS_MAP ==
    [PENDING |-> "INITIALIZING", RUNNING |-> "RUNNING", STOPPING |-> "CANCELING", STOPPED |-> "CANCELED",
     SUCCEEDED |-> "DONE", FAILED |-> "ERROR", QUEUED |-> "QUEUED", MAPPING |-> "RUNNING: MAPPING",
     OPTIMIZING_HARDWARE |-> "RUNNING: OPTIMIZING_FOR_HARDWARE", WAITING_QPU |-> "RUNNING: WAITING_FOR_QPU",
     EXECUTING_QPU |-> "RUNNING: EXECUTING_QPU", POST_PROCESSING |-> "RUNNING: POST_PROCESSING"]
SubStatusNames == {"MAPPING", "OPTIMIZING_HARDWARE", "WAITING_QPU", "EXECUTING_QPU", "POST_PROCESSING"}

\* Times are counted from zero, and None is neither a time nor the name of a status.
ASSUME ClientAssumption ==
    /\ RetryTime \in Nat /\ WaitTimeouts \subseteq Nat \cup {Unset}
    /\ Unset \notin Nat /\ Unset \notin SubStatusNames /\ \A s \in DOMAIN STATUS_MAP : STATUS_MAP[s] # Unset

_map_status_from_serveless(s) == IF s \in DOMAIN STATUS_MAP THEN STATUS_MAP[s] ELSE s

\* The status and the sub-status a name of the client stands for.
_map_status_to_serverless(name) ==
    IF ~\E s \in DOMAIN STATUS_MAP : STATUS_MAP[s] = name THEN <<name, Unset>>
    ELSE LET s == CHOOSE s \in DOMAIN STATUS_MAP : STATUS_MAP[s] = name
         IN IF s \in SubStatusNames THEN <<"RUNNING", s>> ELSE <<s, Unset>>

_resets_backoff(previous, s) ==
    \/ s = STATUS_MAP["POST_PROCESSING"]
    \/ _map_status_to_serverless(previous)[1] # _map_status_to_serverless(s)[1]

\* _fetch_status, of the data the gateway sent
_fetch_status(data) ==
    _map_status_from_serveless(IF data.status = "RUNNING" /\ data.sub_status # Unset THEN data.sub_status ELSE data.status)

-----------------------------------------------------------------------------
(* Job.wait_for_final_state *)

Least(a, b) == IF a < b THEN a ELSE b
NoWait == [at |-> "idle", left |-> Unset, failing |-> Unset, step |-> 1, last |-> Unset, sleep |-> 0,
           flight |-> 0, using |-> "key", signed |-> 0, reply |-> [code |-> "none", data |-> Unset]]
NoToken == [held |-> FALSE, age |-> 0, signed |-> 0]
Ended(kind, what) == [kind |-> kind, what |-> what, left |-> wait.left]

NoOutcome == [kind |-> "none", what |-> "none", left |-> Unset]

Begin(timeout) ==
    /\ wait.at = "idle"
    /\ wait' = [NoWait EXCEPT !.at = "check", !.left = timeout]
    /\ outcome' = NoOutcome
    /\ unheard' = 0
    /\ UNCHANGED <<jobStatus, net, user_active, tok, finalStatus>>

Send(w, using) == [w EXCEPT !.at = "sent", !.flight = 0, !.using = using]

\* _next_wait, with the time that is left until the deadline; the jitter is left out.
_next_wait(step, left) ==
    LET base == BackoffSteps[step] IN IF left = Unset THEN base ELSE Least(base, left)

NextStep(step) == Least(step + 1, Len(BackoffSteps))

\* Mutant: the time of the first failure is kept when the gateway answers again.
OnStatusStillFailing(s) ==
    LET step == IF wait.last # Unset /\ s # wait.last /\ _resets_backoff(wait.last, s) THEN 1 ELSE wait.step
        final == s \in _FINAL_STATUSES
    IN /\ finalStatus' = IF final THEN s ELSE finalStatus
       /\ unheard' = 0
       /\ IF final \/ (wait.left # Unset /\ wait.left = 0)
          THEN /\ wait' = NoWait
               /\ outcome' = IF final THEN Ended("returned", s) ELSE Ended("timeout", s)
          ELSE /\ wait' = [wait EXCEPT !.at = "sleep", !.last = s, !.step = NextStep(step),
                                       !.sleep = _next_wait(step, wait.left)]
               /\ UNCHANGED outcome

\* Mutant: the deadline is not looked at after an answer.
OnStatusNoDeadline(s) ==
    LET step == IF wait.last # Unset /\ s # wait.last /\ _resets_backoff(wait.last, s) THEN 1 ELSE wait.step
        final == s \in _FINAL_STATUSES
    IN /\ finalStatus' = IF final THEN s ELSE finalStatus
       /\ unheard' = 0
       /\ IF final
          THEN /\ wait' = NoWait
               /\ outcome' = Ended("returned", s)
          ELSE /\ wait' = [wait EXCEPT !.at = "sleep", !.failing = Unset, !.last = s, !.step = NextStep(step),
                                       !.sleep = _next_wait(step, wait.left)]
               /\ UNCHANGED outcome

\* The loop with a status.
OnStatus(s) ==
    LET step == IF wait.last # Unset /\ s # wait.last /\ _resets_backoff(wait.last, s) THEN 1 ELSE wait.step
        final == s \in _FINAL_STATUSES
        late == wait.left # Unset /\ wait.left = 0
    IN /\ finalStatus' = IF final THEN s ELSE finalStatus
       /\ unheard' = 0
       /\ IF final \/ late
          THEN /\ wait' = NoWait
               /\ outcome' = IF final THEN Ended("returned", s) ELSE Ended("timeout", s)
          ELSE /\ wait' = [wait EXCEPT !.at = "sleep", !.failing = Unset, !.last = s, !.step = NextStep(step),
                                       !.sleep = _next_wait(step, wait.left)]
               /\ UNCHANGED outcome

\* The loop with an error: the transient ones are retried until the deadline, or for RetryTime.
OnError(code) ==
    LET failing == IF wait.failing = Unset THEN 0 ELSE wait.failing
        left == IF wait.left = Unset THEN RetryTime - failing ELSE wait.left
    IN /\ IF ~is_transient_error(code) \/ left <= 0
          THEN wait' = NoWait /\ outcome' = Ended("raised", code)
          ELSE /\ wait' = [wait EXCEPT !.at = "sleep", !.failing = failing, !.step = NextStep(wait.step),
                                       !.sleep = _next_wait(wait.step, left)]
               /\ UNCHANGED outcome
       /\ UNCHANGED <<finalStatus, unheard>>

\* Job.status and get_job_data up to the request.
Check ==
    /\ wait.at = "check"
    /\ IF finalStatus # Unset THEN OnStatus(finalStatus)
       ELSE /\ wait' = Send(wait, IF tok.held /\ tok.age < TokenReuse THEN "token" ELSE "key")
            /\ UNCHANGED <<finalStatus, outcome, unheard>>
    /\ UNCHANGED <<jobStatus, net, user_active, tok>>

-----------------------------------------------------------------------------
(* The gateway *)

\* JobStatusTokenBackend.authenticate, and job_status for the job of the token.
job_status == IF tok.signed > TokenMaxAge \/ ~user_active THEN [code |-> "401", data |-> Unset]
              ELSE [code |-> "none", data |-> jobStatus]

\* The retrieve endpoint, with a new token in the header of the answer.
job_retrieve == IF ~user_active THEN [code |-> "401", data |-> Unset] ELSE [code |-> "none", data |-> jobStatus]

Failure == [code |-> safe_json_request([way |-> "http", code |-> IF net = "busy" THEN "503" ELSE "500", body |-> "text"]), data |-> Unset]

\* The gateway serves the request; a token it signs ages on its way.
Serve ==
    /\ wait.at = "sent"
    /\ LET reply == IF net # "up" THEN Failure ELSE IF wait.using = "token" THEN job_status ELSE job_retrieve
       IN wait' = [wait EXCEPT !.at = "back", !.reply = reply, !.signed = 0]
    /\ UNCHANGED <<jobStatus, net, user_active, tok, finalStatus, outcome, unheard>>

\* Mutant: a refused token is an error like the others.
ArriveWithoutFallback ==
    /\ wait.at = "back"
    /\ IF wait.reply.code # "none" THEN OnError(wait.reply.code) /\ UNCHANGED tok
       ELSE /\ OnStatus(_fetch_status(wait.reply.data))
            /\ tok' = IF wait.using = "token" THEN tok ELSE [held |-> TRUE, age |-> 0, signed |-> wait.signed]
    /\ UNCHANGED <<jobStatus, net, user_active>>

\* The answer arrives.  A refused token is dropped, and the same call asks again with the API key.
Arrive ==
    /\ wait.at = "back"
    /\ IF wait.using = "token" /\ wait.reply.code \in {"401", "403", "404"}
       THEN /\ tok' = NoToken
            /\ wait' = Send(wait, "key")
            /\ UNCHANGED <<finalStatus, outcome, unheard>>
       ELSE IF wait.reply.code # "none" THEN OnError(wait.reply.code) /\ UNCHANGED tok
       ELSE /\ OnStatus(_fetch_status(wait.reply.data))
            /\ tok' = IF wait.using = "token" THEN tok ELSE [held |-> TRUE, age |-> 0, signed |-> wait.signed]
    /\ UNCHANGED <<jobStatus, net, user_active>>

\* The request takes longer than its timeout, wherever it was.
Expire ==
    /\ wait.at \in {"sent", "back"} /\ wait.flight = RequestTimeout
    /\ OnError(safe_json_request([way |-> "lost", code |-> "none", body |-> "none"]))
    /\ UNCHANGED <<jobStatus, net, user_active, tok>>

Wake ==
    /\ wait.at = "sleep" /\ wait.sleep = 0
    /\ wait' = [wait EXCEPT !.at = "check"]
    /\ UNCHANGED <<jobStatus, net, user_active, tok, finalStatus, outcome, unheard>>

-----------------------------------------------------------------------------
(* Time, and what happens in the meantime *)

Older(age, cap) == Least(age + 1, cap)
Shorter(left) == IF left = Unset \/ left = 0 THEN left ELSE left - 1

Tick ==
    /\ \/ wait.at = "sleep" /\ wait.sleep > 0
       \/ wait.at \in {"sent", "back"} /\ wait.flight < RequestTimeout
       \/ wait.at = "idle" /\ tok.held /\ tok.age < TokenReuse
    /\ tok' = IF tok.held THEN [tok EXCEPT !.age = Older(@, TokenReuse), !.signed = Older(@, TokenMaxAge + 1)] ELSE tok
    /\ unheard' = Older(unheard, RetryTime)
    /\ wait' = [wait EXCEPT !.left = Shorter(@), !.sleep = Shorter(@),
                            !.failing = IF @ = Unset THEN @ ELSE Older(@, RetryTime),
                            !.signed = IF wait.at = "back" /\ wait.using = "key" THEN Older(@, TokenMaxAge + 1) ELSE @,
                            !.flight = IF wait.at \in {"sent", "back"} THEN @ + 1 ELSE @]
    /\ UNCHANGED <<jobStatus, net, user_active, finalStatus, outcome>>

JobData(s, sub) == [status |-> s, sub_status |-> sub]
Moves ==
    {<<JobData("QUEUED", Unset), JobData("RUNNING", Unset)>>, <<JobData("RUNNING", Unset), JobData("RUNNING", "POST_PROCESSING")>>,
     <<JobData("RUNNING", "POST_PROCESSING"), JobData("SUCCEEDED", Unset)>>, <<JobData("QUEUED", Unset), JobData("STOPPED", Unset)>>}

JobMoves ==
    /\ \E m \in Moves : m[1] = jobStatus /\ jobStatus' = m[2]
    /\ UNCHANGED <<net, user_active, tok, finalStatus, wait, outcome, unheard>>

NetChanges ==
    /\ net' \in {"up", "busy", "broken"} \ {net}
    /\ UNCHANGED <<jobStatus, user_active, tok, finalStatus, wait, outcome, unheard>>

Deactivate ==
    /\ user_active /\ user_active' = FALSE
    /\ UNCHANGED <<jobStatus, net, tok, finalStatus, wait, outcome, unheard>>

ClientInit ==
    /\ jobStatus = JobData("QUEUED", Unset)
    /\ net = "up" /\ user_active = TRUE
    /\ tok = NoToken /\ finalStatus = Unset
    /\ wait = NoWait /\ outcome = NoOutcome /\ unheard = 0

WaitSteps == Check \/ Serve \/ Arrive \/ Expire \/ Wake

ClientNext ==
    \/ \E t \in WaitTimeouts : Begin(t)
    \/ WaitSteps \/ Tick
    \/ JobMoves \/ NetChanges \/ Deactivate

ClientSpec == ClientInit /\ [][ClientNext]_clientVars

-----------------------------------------------------------------------------
(* Properties *)

\* A wait ends as its docstring says: it returns the status the job has ended with, gives up on
\* transient errors only after RetryTime without a word of the job or at the deadline, and never shows
\* the user that a job status token was refused: only a user who is not active any more is refused.
WaitsEndForAReason ==
    /\ finalStatus # Unset => finalStatus = _fetch_status(jobStatus)
    /\ outcome.kind = "returned" => outcome.what = finalStatus
    /\ outcome.kind = "raised" /\ is_transient_error(outcome.what) =>
          IF outcome.left = Unset THEN unheard = RetryTime ELSE outcome.left = 0
    /\ outcome.kind = "timeout" => outcome.left = 0
    /\ outcome.kind = "raised" /\ outcome.what = "401" => ~user_active

\* A status of the client's stands for one status and sub-status of the gateway, so that a filter by
\* status asks for the status the user saw.
StatusesMapBack ==
    \A s \in DOMAIN STATUS_MAP :
        _map_status_to_serverless(STATUS_MAP[s]) = IF s \in SubStatusNames THEN <<"RUNNING", s>> ELSE <<s, Unset>>

\* A retry is only for replies that do not speak of the request: one that carries a 4xx other than 429,
\* or a body that is no JSON, ends the wait at once.
RetriesAreForOutages ==
    \A r \in Replies : is_transient_error(safe_json_request(r)) =>
        r.way = "lost" \/ r.code \in {"429", "503"} \/ (r.code = "200" /\ r.body = "empty")

\* What the client library tells the user follows from what the gateway answered: a wait ends for one
\* of its reasons, a status survives both mappings, and only outages are retried.
ClientIsTrue == WaitsEndForAReason /\ StatusesMapBack /\ RetriesAreForOutages

\* A wait always ends when it has a timeout, and otherwise when the job ends and the gateway answers.
WaitsEnd ==
    /\ [](wait.left # Unset => <>(wait.at = "idle"))
    /\ <>[](jobStatus.status \in {"SUCCEEDED", "STOPPED"} /\ net = "up") => []<>(wait.at = "idle")
=============================================================================
