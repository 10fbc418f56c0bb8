------------------------- MODULE BlockingExecution -------------------------
(***************************************************************************)
(* Programmatic tool calling in blocking mode: the sandbox process stays   *)
(* alive while a tool call waits at the tool call server                   *)
(* (service/src/tool-call-server.ts).  The API request polls               *)
(* (service/blocking-poll.ts), hands pending calls to the client, and a    *)
(* continuation brings their results (handleBlocking in                    *)
(* service/programmatic-router.ts).  A callback stores the job's outcome   *)
(* in exec_state and exec_result.                                          *)
(***************************************************************************)
EXTENDS FiniteSets

CONSTANTS
    First,          \* the request that starts the execution
    Continuations,  \* requests with a continuation token
    Calls           \* tool calls of the program, in any order and in parallel

VARIABLES
    exec,       \* exec_state: "none", "open", "done" (jobCompleted) or "failed"
    blob,       \* exec_result: "none" or "result"
    session,    \* tool_call:session: "none", "running" or "waiting"
    pending,    \* tool_call:pending
    results,    \* calls with a tool_call:result key
    call,       \* where each call is in handleToolCall
    job,        \* the BullMQ job: "none", "running", "ok", "fail" or "removed"
    notify,     \* waitForJobFinished: "idle", a copy of exec_state, or "over"
    pc,         \* where each request is
    mine,       \* the exec_state a continuation has read
    answer,     \* what each request was told
    told        \* calls the client knows
vars == <<exec, blob, session, pending, results, call, job, notify, pc, mine,
          answer, told>>

Requests == {First} \cup Continuations
redis == <<exec, blob>>
server == <<session, pending, results>>
client == <<pc, mine, answer, told>>

Init ==
    /\ exec = "none" /\ blob = "none" /\ session = "none"
    /\ pending = {} /\ results = {}
    /\ call = [c \in Calls |-> "idle"]
    /\ job = "none" /\ notify = "idle"
    /\ pc = [k \in Requests |-> "idle"]
    /\ mine = [k \in Requests |-> "none"]
    /\ answer = [k \in Requests |-> "none"]
    /\ told = {}

Goto(k, l) == pc' = [pc EXCEPT ![k] = l]
Tell(k, a) == answer' = [answer EXCEPT ![k] = a]

----------------------------------------------------------------------------
\* The request that starts: exec_state, then the session, then the job.
Start ==
    /\ pc[First] = "idle" /\ Goto(First, "session")
    /\ exec' = "open"
    /\ UNCHANGED <<blob, server, call, job, notify, mine, answer, told>>

\* POST /sessions and the callback token; a failure cleans up.
HandleCreateSession ==
    /\ pc[First] = "session"
    /\ \/ session' = "running" /\ Goto(First, "queue") /\ UNCHANGED answer
       \/ UNCHANGED session /\ Goto(First, "cleanup") /\ Tell(First, "error")
    /\ UNCHANGED <<redis, pending, results, call, job, notify, mine, told>>

Enqueue ==
    /\ pc[First] = "queue" /\ Goto(First, "poll")
    /\ job' = "running"
    /\ UNCHANGED <<redis, server, call, notify, mine, answer, told>>

\* A closed connection removes the job, if it is not being worked on, and
\* cleans up.
Disconnect ==
    /\ pc[First] = "poll" /\ job = "running" /\ \A c \in Calls : call[c] = "idle"
    /\ job' = "removed" /\ notify' = "over"
    /\ Goto(First, "cleanup") /\ Tell(First, "error")
    /\ UNCHANGED <<redis, server, call, mine, told>>

----------------------------------------------------------------------------
\* The sandbox and the tool call server.

\* handleToolCall: the session must exist; the call becomes pending.
HandleToolCall(c) ==
    /\ job = "running" /\ call[c] = "idle"
    /\ IF session = "none"
       THEN call' = [call EXCEPT ![c] = "refused"] /\ UNCHANGED pending
       ELSE call' = [call EXCEPT ![c] = "pushed"] /\ pending' = pending \cup {c}
    /\ UNCHANGED <<redis, session, results, job, notify, client>>

\* Its second half writes the session it read before, waiting now.
MarkWaiting(c) ==
    /\ call[c] = "pushed" /\ call' = [call EXCEPT ![c] = "waiting"]
    /\ session' = "waiting"
    /\ UNCHANGED <<redis, pending, results, job, notify, client>>

\* waitForResult consumes the result, or gives up and leaves the call pending.
WaitForResult(c) ==
    /\ call[c] = "waiting"
    /\ \/ /\ c \in results /\ results' = results \ {c}
          /\ call' = [call EXCEPT ![c] = "answered"]
       \/ call' = [call EXCEPT ![c] = "expired"] /\ UNCHANGED results
    /\ UNCHANGED <<redis, session, pending, job, notify, client>>

\* The program ends when no call of it is waiting.
JobEnds ==
    /\ job = "running" /\ \A c \in Calls : call[c] \notin {"pushed", "waiting"}
    /\ job' \in {"ok", "fail"}
    /\ UNCHANGED <<redis, server, call, notify, client>>

\* waitForJobFinished: setExecutionResult and setExecutionError read the state
\* first ...
NotifyReads ==
    /\ notify = "idle" /\ job \in {"ok", "fail"}
    /\ notify' = IF exec = "none" THEN "over" ELSE "write"
    /\ UNCHANGED <<redis, server, call, job, client>>

\* ... and write it, with the result, only if it still exists (WriteAlways
\* does not look).
WriteAlways ==
    /\ exec' = IF job = "ok" THEN "done" ELSE "failed"
    /\ blob' = IF job = "ok" THEN "result" ELSE blob
WriteExisting ==
    IF exec = "none" THEN UNCHANGED redis
    ELSE /\ exec' = IF job = "ok" THEN "done" ELSE "failed"
         /\ blob' = IF job = "ok" THEN "result" ELSE blob
NotifyWrites ==
    /\ notify = "write" /\ notify' = "over"
    /\ WriteExisting
    /\ UNCHANGED <<server, call, job, client>>

----------------------------------------------------------------------------
\* A continuation, with results for what the client was told.

\* Its reads (Continue) and the write of lastActivity are two steps: the write
\* puts back what was read.
Continue(k) ==
    /\ pc[k] = "idle" /\ told # {}
    /\ IF exec = "none" THEN Goto(k, "over") /\ Tell(k, "gone") /\ UNCHANGED mine
       ELSE Goto(k, "touch") /\ mine' = [mine EXCEPT ![k] = exec] /\ UNCHANGED answer
    /\ UNCHANGED <<redis, server, call, job, notify, told>>

Touch(k) ==
    /\ pc[k] = "touch" /\ Goto(k, "submit")
    /\ exec' = mine[k]
    /\ UNCHANGED <<blob, server, call, job, notify, mine, answer, told>>

\* handleSubmitResults: no session, no results; every result is stored and its
\* call taken off the list (KeepPending does not).
KeepPending == pending
Unlisted == pending \ told
HandleSubmitResults(k) ==
    /\ pc[k] = "submit"
    /\ IF session = "none"
       THEN Goto(k, "cleanup") /\ Tell(k, "error") /\ UNCHANGED server
       ELSE /\ results' = results \cup told /\ pending' = Unlisted
            /\ Goto(k, IF pending' = {} THEN "mark" ELSE "poll")
            /\ UNCHANGED <<session, answer>>
    /\ UNCHANGED <<redis, call, job, notify, mine, told>>

\* With no call left it writes the session it read before, running now.
MarkRunning(k) ==
    /\ pc[k] = "mark" /\ Goto(k, "poll") /\ session' = "running"
    /\ UNCHANGED <<redis, pending, results, call, job, notify, mine, answer, told>>

\* pollBlockingExecution: only the worker's result is final (FinishedEarly
\* also trusts a program without open calls).
FinishedEarly == exec = "done" \/ (job # "none" /\ \A c \in Calls : call[c] = "answered")
Finished == exec = "done" /\ blob = "result"
Poll(k) ==
    /\ pc[k] = "poll"
    /\ \/ Finished /\ Goto(k, "cleanup") /\ Tell(k, "completed") /\ UNCHANGED told
       \/ exec = "failed" /\ Goto(k, "cleanup") /\ Tell(k, "error") /\ UNCHANGED told
       \/ /\ ~Finished /\ exec # "failed"
          /\ session = "waiting" /\ pending # {}
          /\ Goto(k, "over") /\ Tell(k, "calls") /\ told' = told \cup pending
    /\ UNCHANGED <<redis, server, call, job, notify, mine>>

PollTimeout(k) ==
    /\ pc[k] = "poll" /\ Goto(k, "cleanup") /\ Tell(k, "error")
    /\ UNCHANGED <<redis, server, call, job, notify, mine, told>>

\* cleanupExecution: exec_state first, then exec_result and the session's keys.
CleanupExecution(k) ==
    /\ pc[k] = "cleanup" /\ Goto(k, "cleanup2") /\ exec' = "none"
    /\ UNCHANGED <<blob, server, call, job, notify, mine, answer, told>>

HandleDeleteSession(k) ==
    /\ pc[k] = "cleanup2" /\ Goto(k, "over")
    /\ blob' = "none" /\ session' = "none" /\ pending' = {} /\ results' = {}
    /\ UNCHANGED <<exec, call, job, notify, mine, answer, told>>

Next ==
    \/ Start \/ HandleCreateSession \/ Enqueue \/ Disconnect
    \/ \E c \in Calls : HandleToolCall(c) \/ MarkWaiting(c) \/ WaitForResult(c)
    \/ JobEnds \/ NotifyReads \/ NotifyWrites
    \/ \E k \in Continuations : Continue(k) \/ Touch(k) \/ HandleSubmitResults(k)
                                \/ MarkRunning(k)
    \/ \E k \in Requests : Poll(k) \/ PollTimeout(k) \/ CleanupExecution(k)
                           \/ HandleDeleteSession(k)

Spec == Init /\ [][Next]_vars

----------------------------------------------------------------------------
\* Keys and phases stay within their values.
TypeOK ==
    /\ exec \in {"none", "open", "done", "failed"} /\ blob \in {"none", "result"}
    /\ session \in {"none", "running", "waiting"}
    /\ pending \subseteq Calls /\ results \subseteq Calls /\ told \subseteq Calls
    /\ call \in [Calls -> {"idle", "pushed", "waiting", "answered", "expired", "refused"}]
    /\ job \in {"none", "running", "ok", "fail", "removed"}
    /\ notify \in {"idle", "write", "over"}
    /\ pc \in [Requests -> {"idle", "session", "queue", "touch", "submit", "mark",
                            "poll", "cleanup", "cleanup2", "over"}]
    /\ mine \in [Requests -> {"none", "open", "done", "failed"}]
    /\ answer \in [Requests -> {"none", "calls", "completed", "error", "gone"}]

\* A client is told that the execution completed only when the worker's job
\* did, its uploads included ("Only a worker result is final").
CompletedIsFinal ==
    \A k \in Requests : answer[k] = "completed" => job = "ok"

\* The outcome of the job does not resurrect an execution that was torn down: a
\* late setExecutionResult or setExecutionError leaves no keys behind.  (Only
\* the lastActivity of a continuation that was reading can write exec_state
\* again.)
NotResurrected ==
    exec = "none" =>
     \/ exec' = "none" /\ (blob' = "none" \/ blob = "result")
     \/ pc[First] = "idle" \/ \E k \in Continuations : pc[k] = "touch"

\* A call the client was told about and has answered is not asked for again:
\* what a poll can still report was never submitted.
NotAskedTwice ==
    \A c \in Calls : call[c] = "answered" => c \notin pending

Inv == TypeOK /\ CompletedIsFinal /\ NotAskedTwice

\* What a blocking execution promises its client: results are final, calls are
\* asked for once, and nothing comes back after it was torn down.
BlockingSafe == []Inv /\ [][NotResurrected]_vars
=============================================================================
