---------------------------- MODULE JobExecution ----------------------------
(***************************************************************************)
(* One cancellable execution job, from the HTTP request that submits it to *)
(* the worker attempts that may run it.                                    *)
(*                                                                         *)
(*   API replica      service/router.ts, service/programmatic-router.ts    *)
(*   Stop endpoint    POST /exec/programmatic/cancel                       *)
(*   durable decision job-cancellation.ts (Lua scripts, one step each)     *)
(*   worker attempts  workers.ts processJobInner, one per BullMQ delivery  *)
(*                                                                         *)
(* BullMQ redelivers a job whose lock was lost, so two attempts may be     *)
(* alive together.  A Redis reply may be lost after its script ran; the    *)
(* client library then either reports an error or sends the script again.  *)
(* Time has three phases: 0 before the job's deadline, 1 after it, 2 after *)
(* the retention of the Redis keys (at least a minute past the deadline).  *)
(***************************************************************************)
EXTENDS Naturals

CONSTANTS
  Attempts,   \* the deliveries of the job BullMQ may make
  None        \* no attempt

ASSUME NoneAssumption == None \notin Attempts

VARIABLES
  now,          \* 0, 1 or 2 (see above)
  handoff,      \* workers.ts commitAtHandoff: commit inside the backend call
  decision,     \* the cancellation key: "none", "cancelled" or "completed"
  result,       \* its ":result" key: the attempt whose result is stored
  execution,    \* the ":execution" key
  request,      \* the request hash: which of "cancelled" and "attached"
  job,          \* the BullMQ job state
  holder,       \* the attempt BullMQ delivered the job to last
  value,        \* the BullMQ return value
  apc,          \* control state of each attempt
  abort,        \* abort reason of its controller: "no", "client", "deadline"
  line,         \* its subscriber connection: "none", "up", "down", or
                \* "notified" when a published cancellation is on its way
  ran,          \* attempts that started sandbox work
  returned,     \* what each attempt's processor resolves with
  api,          \* control state of the API request
  apiOut,       \* its outcome
  apiValue,     \* the result it answered with
  sent,         \* commands issued whose effect may come late: "add" is the
                \* queue.add, "fence" a fencing script that was given up on
  stop,         \* control state of the Stop endpoint
  committed     \* history: the attempt whose commit won

redis  == <<decision, result, execution, request>>
bull   == <<job, holder, value>>
work   == <<apc, ran, returned>>
front  == <<api, apiOut, apiValue, sent>>
signal == <<abort, line>>
vars   == <<now, handoff, redis, bull, work, signal, front, stop, committed>>

Live == {"subscribe", "check", "claim", "start", "run", "finalize", "revoke", "commit", "returning", "throwing"}

ApiStates == {"reserve", "attach", "add", "adding", "wait", "fence", "fenceOnly", "remove", "removeFirst", "done"}

TypeOK ==
  /\ now \in 0..2
  /\ handoff \in BOOLEAN
  /\ decision \in {"none", "cancelled", "completed"}
  /\ result \in Attempts \cup {None}
  /\ execution \in {"free", "claimed"}
  /\ request \subseteq {"cancelled", "attached"}
  /\ job \in {"unsent", "waiting", "active", "completed", "failed", "removed"}
  /\ holder \in Attempts \cup {None}
  /\ value \in Attempts \cup {None}
  /\ apc \in [Attempts -> Live \cup {"idle", "over"}]
  /\ abort \in [Attempts -> {"no", "client", "deadline"}]
  /\ line \in [Attempts -> {"none", "up", "notified", "down"}]
  /\ ran \in SUBSET Attempts
  /\ returned \in [Attempts -> Attempts \cup {None}]
  /\ api \in ApiStates
  /\ apiOut \in {"none", "result", "cancelled", "expired", "refused"}
  /\ apiValue \in Attempts \cup {None}
  /\ sent \subseteq {"add", "fence"}
  /\ stop \in {"absent", "idle", "decide", "remove", "accepted", "alreadyCompleted", "unavailable"}
  /\ committed \in Attempts \cup {None}

Init ==
  /\ now = 0
  /\ handoff \in BOOLEAN
  /\ decision = "none" /\ result = None /\ execution = "free"
  /\ request = {}
  /\ job = "unsent" /\ holder = None /\ value = None
  /\ apc = [a \in Attempts |-> "idle"]
  /\ abort = [a \in Attempts |-> "no"]
  /\ line = [a \in Attempts |-> "none"]
  /\ ran = {}
  /\ returned = [a \in Attempts |-> None]
  /\ \/ api = "add" /\ stop = "absent"        \* POST /exec has no Stop
     \/ api = "reserve" /\ stop = "idle"      \* POST /exec/programmatic
  /\ apiOut = "none" /\ apiValue = None
  /\ sent = {}
  /\ committed = None

-----------------------------------------------------------------------------
(* Redis scripts *)

(* cancelJobInRedis: completion wins, otherwise the marker is set and the  *)
(* event is published to the subscribers that are connected right now.     *)
CancelScript ==
  IF decision = "completed"
    THEN UNCHANGED <<decision, line>>
    ELSE /\ decision' = "cancelled"
         /\ line' = [a \in Attempts |-> IF line[a] = "up" THEN "notified" ELSE line[a]]

(* commitJobResult: the reply of the script, and its effect when it wins.  *)
(* (CommitWinsUndecided does not look at the marker.)                      *)
CommitWinsUndecided == now = 0
CommitWins == decision = "none" /\ now = 0

(* (CommitScriptBare does not store the result.)                           *)
CommitScriptBare(a) ==
  IF CommitWins
    THEN decision' = "completed" /\ committed' = a /\ UNCHANGED result
    ELSE UNCHANGED <<decision, result, committed>>
CommitScript(a) ==
  IF CommitWins
    THEN decision' = "completed" /\ result' = a /\ committed' = a
    ELSE UNCHANGED <<decision, result, committed>>

(* claimJobExecution: SET NX of the execution key, unless decided.         *)
(* (ClaimWinsAgain sets the key without NX.)                               *)
ClaimWinsAgain == decision = "none"
ClaimWins == decision = "none" /\ execution = "free"

Aborted(a, why) == [abort EXCEPT ![a] = IF @ = "no" THEN why ELSE @]

-----------------------------------------------------------------------------
(* Worker attempt: workers.ts processJobInner *)

Goto(a, pc) == apc' = [apc EXCEPT ![a] = pc]

(* The processor is gone: its controller is unregistered, its timer cleared. *)
Dispose(a) ==
  /\ Goto(a, "over")
  /\ abort' = [abort EXCEPT ![a] = "no"]
  /\ line' = [line EXCEPT ![a] = "none"]
  /\ returned' = [returned EXCEPT ![a] = None]

(* BullMQ hands the job to a worker, or hands it over again after the      *)
(* previous worker lost its lock.  A past deadline aborts at once.         *)
Deliver(a) ==
  /\ apc[a] = "idle"
  /\ job \in {"waiting", "active"}
  /\ job' = "active" /\ holder' = a
  /\ Goto(a, "subscribe")
  /\ abort' = IF now = 0 THEN abort ELSE Aborted(a, "deadline")
  /\ UNCHANGED <<now, handoff, redis, value, ran, returned, line, front, stop, committed>>

(* registry.register: the controller is in the map, the channel is being   *)
(* subscribed; a failed subscription fails the attempt.                    *)
Subscribe(a) ==
  /\ apc[a] = "subscribe"
  /\ \/ Goto(a, "check") /\ line' = [line EXCEPT ![a] = "up"]
     \/ Goto(a, "throwing") /\ line' = line
  /\ UNCHANGED <<now, handoff, redis, bull, ran, returned, abort, front, stop, committed>>

(* register's GET of the durable marker, after the subscription is active. *)
CheckMarker(a) ==
  /\ apc[a] = "check"
  /\ \/ /\ Goto(a, "claim")
        /\ abort' = IF decision = "cancelled" THEN Aborted(a, "client") ELSE abort
     \/ Goto(a, "throwing") /\ abort' = abort
  /\ UNCHANGED <<now, handoff, redis, bull, ran, returned, line, front, stop, committed>>

(* claimJobExecution.  The reply may be lost: then the attempt fails, or   *)
(* the script is sent again.                                               *)
Claim(a) ==
  /\ apc[a] = "claim"
  /\ execution' = (IF ClaimWins THEN "claimed" ELSE execution)
  /\ \/ /\ Goto(a, CASE ClaimWins -> "start"
                     [] decision = "completed" /\ result # None -> "returning"
                     [] OTHER -> "throwing")
        /\ returned' = [returned EXCEPT ![a] = IF decision = "completed" THEN result ELSE @]
     \/ Goto(a, "throwing") /\ UNCHANGED returned
     \/ UNCHANGED <<apc, returned>>
  /\ UNCHANGED <<now, handoff, decision, result, request, bull, ran, signal, front, stop, committed>>

(* The abort check after the claim, then sandbox work starts, unless a     *)
(* check or the egress grant fails first.                                  *)
Start(a) ==
  /\ apc[a] = "start"
  /\ \/ abort[a] = "no" /\ Goto(a, "run") /\ ran' = ran \cup {a}
     \/ Goto(a, "throwing") /\ UNCHANGED ran
  /\ UNCHANGED <<now, handoff, redis, bull, returned, signal, front, stop, committed>>

(* backend.execute returns, or throws (always possible; an abort makes it). *)
Execute(a) ==
  /\ apc[a] = "run"
  /\ \/ Goto(a, "finalize")
     \/ Goto(a, "throwing")
  /\ UNCHANGED <<now, handoff, redis, bull, ran, returned, signal, front, stop, committed>>

(* finalizeSandboxResult and throwIfJobAborted: the commit follows at once *)
(* when it is part of the handoff, and after the grant is revoked otherwise. *)
Finalize(a) ==
  /\ apc[a] = "finalize"
  /\ \/ abort[a] = "no" /\ Goto(a, IF handoff THEN "commit" ELSE "revoke")
     \/ Goto(a, "throwing")
  /\ UNCHANGED <<now, handoff, redis, bull, ran, returned, signal, front, stop, committed>>

(* The finally block: revokeGatewayEgressGrant is awaited, then            *)
(* jobResultCommitFailure looks at the signal once more.                   *)
Revoke(a) ==
  /\ apc[a] = "revoke"
  /\ Goto(a, IF abort[a] = "no" THEN "commit" ELSE "throwing")
  /\ UNCHANGED <<now, handoff, redis, bull, ran, returned, signal, front, stop, committed>>

(* commitJobResult: only a "committed" reply lets the attempt resolve.     *)
Commit(a) ==
  /\ apc[a] = "commit"
  /\ CommitScript(a)
  /\ \/ /\ Goto(a, IF CommitWins THEN "returning" ELSE "throwing")
        /\ returned' = [returned EXCEPT ![a] = IF CommitWins THEN a ELSE @]
     \/ Goto(a, "throwing") /\ UNCHANGED returned
     \/ UNCHANGED <<apc, returned>>
  /\ UNCHANGED <<now, handoff, execution, request, bull, ran, signal, front, stop>>

(* The processor settles; BullMQ records it if the attempt still owns the  *)
(* job.  The controller is unregistered either way.                        *)
Settle(a) ==
  /\ apc[a] \in {"returning", "throwing"}
  /\ Dispose(a)
  /\ IF holder = a /\ job = "active"
       THEN /\ job' = (IF apc[a] = "returning" THEN "completed" ELSE "failed")
            /\ value' = returned[a]
       ELSE UNCHANGED <<job, value>>
  /\ UNCHANGED <<now, handoff, redis, holder, ran, front, stop, committed>>

(* The worker process dies; BullMQ may redeliver, or fail the stalled job. *)
Crash(a) ==
  /\ apc[a] \in Live
  /\ Dispose(a)
  /\ UNCHANGED <<now, handoff, redis, bull, ran, front, stop, committed>>

FailStalled ==
  /\ job = "active" /\ holder # None
  /\ apc[holder] = "over"
  /\ job' = "failed"
  /\ UNCHANGED <<now, handoff, redis, holder, value, work, signal, front, stop, committed>>

(* setTimeout(() => controller.abort('deadline')). *)
DeadlineTimer(a) ==
  /\ apc[a] \in Live /\ now > 0
  /\ abort[a] = "no"
  /\ abort' = Aborted(a, "deadline")
  /\ UNCHANGED <<now, handoff, redis, bull, work, line, front, stop, committed>>

-----------------------------------------------------------------------------
(* JobCancellationRegistry: notification of a process *)

(* onSubscriberMessage *)
OnSubscriberMessage(a) ==
  /\ line[a] = "notified"
  /\ line' = [line EXCEPT ![a] = "up"]
  /\ abort' = Aborted(a, "client")
  /\ UNCHANGED <<now, handoff, redis, bull, work, front, stop, committed>>

(* The subscriber connection drops: a message on its way to it is lost.    *)
LoseLink(a) ==
  /\ line[a] \in {"up", "notified"}
  /\ line' = [line EXCEPT ![a] = "down"]
  /\ UNCHANGED <<now, handoff, redis, bull, work, abort, front, stop, committed>>

(* onSubscriberReady schedules reconcile, which re-reads the markers of    *)
(* every registered job (retried until it succeeds).                       *)
(* (ReconcileBlind only resubscribes.)                                     *)
ReconcileBlind(a) ==
  /\ line[a] = "down"
  /\ line' = [line EXCEPT ![a] = "up"]
  /\ UNCHANGED <<now, handoff, redis, bull, work, abort, front, stop, committed>>
Reconcile(a) ==
  /\ line[a] = "down"
  /\ line' = [line EXCEPT ![a] = "up"]
  /\ abort' = IF decision = "cancelled" THEN Aborted(a, "client") ELSE abort
  /\ UNCHANGED <<now, handoff, redis, bull, work, front, stop, committed>>

-----------------------------------------------------------------------------
(* API request *)

ApiGoto(pc) == api' = pc /\ UNCHANGED <<apiOut, apiValue>>
Answer(out, v) == api' = "done" /\ apiOut' = out /\ apiValue' = v
apiRest == <<now, handoff, work, stop, committed>>

(* reserveProgrammaticCancellation: a Stop that came first is refused here. *)
Reserve ==
  /\ api = "reserve"
  /\ IF "cancelled" \in request THEN Answer("refused", None) ELSE ApiGoto("attach")
  /\ UNCHANGED <<apiRest, redis, bull, signal, sent>>

(* attachProgrammaticCancellationTarget records the job id, then tells     *)
(* whether a Stop arrived before it (a disconnected client is refused too). *)
Attach ==
  /\ api = "attach"
  /\ request' = request \cup {"attached"}
  /\ \/ "cancelled" \notin request /\ ApiGoto("add")
     \/ Answer("refused", None)
  /\ UNCHANGED <<apiRest, decision, result, execution, bull, signal, sent>>

Add ==
  /\ api = "add"
  /\ sent' = sent \cup {"add"}
  /\ ApiGoto("adding")
  /\ UNCHANGED <<apiRest, redis, bull, signal>>

(* Redis executes queue.add, possibly long after the request gave up.      *)
Enqueue ==
  /\ "add" \in sent /\ job = "unsent"
  /\ job' = "waiting"
  /\ UNCHANGED <<now, handoff, redis, holder, value, work, signal, front, stop, committed>>

(* queue.add resolves and the wait begins, or it rejects (or, on /exec,    *)
(* the client disconnects first) and the job is fenced.                    *)
Adding ==
  /\ api = "adding"
  /\ \/ job # "unsent" /\ ApiGoto("wait")
     \/ ApiGoto("fenceOnly")
  /\ UNCHANGED <<apiRest, redis, bull, signal, sent>>

(* waitUntilFinished or the polling fallback sees the completed job.       *)
WaitCompleted ==
  /\ api = "wait" /\ job = "completed"
  /\ Answer("result", value)
  /\ UNCHANGED <<apiRest, redis, bull, signal, sent>>

(* A failed job or the wait timeout is fenced; a disconnect, or a failed   *)
(* registration of the request's own controller, is fenced and then        *)
(* removes a waiting job; a cancellation by somebody else, when the        *)
(* request's controller hears of it, removes the job before it is fenced.  *)
WaitFails ==
  /\ api = "wait"
  /\ \/ (job = "failed" \/ now > 0) /\ ApiGoto("fenceOnly")
     \/ ApiGoto("fence")
     \/ decision = "cancelled" /\ ApiGoto("removeFirst")
  /\ UNCHANGED <<apiRest, redis, bull, signal, sent>>

FenceEnds(out) ==
  /\ api' = (IF api = "fence" THEN "remove" ELSE "done")
  /\ apiOut' = out /\ UNCHANGED apiValue

(* One attempt of fenceJobCancellation whose reply arrives.                *)
FenceReply ==
  /\ api \in {"fence", "fenceOnly"}
  /\ CancelScript
  /\ IF decision = "completed" THEN Answer("result", result) ELSE FenceEnds("cancelled")
  /\ UNCHANGED <<apiRest, result, execution, request, bull, abort, sent>>

(* The script ran and its reply was lost before the deadline: retried.     *)
FenceRetry ==
  /\ api \in {"fence", "fenceOnly"} /\ now = 0
  /\ CancelScript
  /\ UNCHANGED <<apiRest, result, execution, request, bull, abort, api, apiOut, apiValue, sent>>

(* No reply by the deadline: the fence expires, its script may still run.  *)
FenceExpires ==
  /\ api \in {"fence", "fenceOnly"} /\ now > 0
  /\ sent' = sent \cup {"fence"}
  /\ FenceEnds("expired")
  /\ UNCHANGED <<apiRest, redis, bull, signal>>

LateFence ==
  /\ "fence" \in sent
  /\ sent' = sent \ {"fence"}
  /\ CancelScript
  /\ UNCHANGED <<now, handoff, result, execution, request, bull, work, abort, api, apiOut, apiValue, stop, committed>>

(* removeJobIfWaiting: never an active or settled job; may fail.           *)
RemoveIfWaiting == job' = job \/ (job = "waiting" /\ job' = "removed")

Remove ==
  /\ api \in {"remove", "removeFirst"}
  /\ RemoveIfWaiting
  /\ api' = (IF api = "remove" THEN "done" ELSE "fenceOnly")
  /\ UNCHANGED <<apiRest, redis, holder, value, signal, apiOut, apiValue, sent>>

-----------------------------------------------------------------------------
(* Stop endpoint *)

stopRest == <<now, handoff, work, abort, front, committed>>

(* cancelProgrammaticRequest *)
StopRequest ==
  /\ stop = "idle" /\ now < 2
  /\ request' = request \cup {"cancelled"}
  /\ stop' \in {IF "attached" \in request THEN "decide" ELSE "accepted", "unavailable"}
  /\ UNCHANGED <<stopRest, decision, result, execution, bull, line>>

(* requestJobCancellation: the reply may be lost (503), never assumed.     *)
StopDecide ==
  /\ stop = "decide"
  /\ CancelScript
  /\ stop' \in {IF decision = "completed" THEN "alreadyCompleted" ELSE "remove", "unavailable"}
  /\ UNCHANGED <<stopRest, result, execution, request, bull>>

StopRemove ==
  /\ stop = "remove"
  /\ RemoveIfWaiting
  /\ stop' = "accepted"
  /\ UNCHANGED <<stopRest, redis, holder, value, line>>

-----------------------------------------------------------------------------
(* Time *)

(* deadlineAtMs passes; it is fixed when the job is submitted.             *)
DeadlinePasses ==
  /\ now = 0 /\ api \notin {"reserve", "attach", "add"}
  /\ now' = 1
  /\ UNCHANGED <<handoff, redis, bull, work, signal, front, stop, committed>>

(* The retention of the Redis keys passes, a minute or more later: every   *)
(* timer armed for the deadline has fired and the request, whose waits are *)
(* bounded by less than the retention, has been answered.                  *)
RetentionPasses ==
  /\ now = 1
  /\ api = "done" /\ stop # "decide"
  /\ \A a \in Attempts : apc[a] \in Live => abort[a] # "no"
  /\ now' = 2
  /\ UNCHANGED <<handoff, redis, bull, work, signal, front, stop, committed>>

DecisionExpires ==
  /\ now = 2 /\ decision # "none"
  /\ decision' = "none" /\ result' = None
  /\ UNCHANGED <<now, handoff, execution, request, bull, work, signal, front, stop, committed>>

ExecutionKeyExpires ==
  /\ now = 2 /\ execution = "claimed"
  /\ execution' = "free"
  /\ UNCHANGED <<now, handoff, decision, result, request, bull, work, signal, front, stop, committed>>

-----------------------------------------------------------------------------
AttemptStep(a) ==
  \/ Subscribe(a) \/ CheckMarker(a) \/ Claim(a) \/ Start(a) \/ Execute(a)
  \/ Finalize(a) \/ Revoke(a) \/ Commit(a) \/ Settle(a)

ApiStep ==
  \/ Reserve \/ Attach \/ Add \/ Adding \/ WaitCompleted
  \/ WaitFails \/ FenceReply \/ FenceExpires \/ Remove

Next ==
  \/ \E a \in Attempts : AttemptStep(a) \/ Deliver(a) \/ Crash(a) \/ DeadlineTimer(a)
  \/ \E a \in Attempts : OnSubscriberMessage(a) \/ LoseLink(a) \/ Reconcile(a)
  \/ ApiStep \/ FenceRetry \/ Enqueue \/ FailStalled \/ LateFence
  \/ StopRequest \/ StopDecide \/ StopRemove
  \/ DeadlinePasses \/ RetentionPasses \/ DecisionExpires \/ ExecutionKeyExpires

Spec == Init /\ [][Next]_vars

-----------------------------------------------------------------------------
(* Properties *)

(* The sandbox work of a job starts at most once, over every delivery,     *)
(* crash, lost claim reply and expiry of the execution key                 *)
(* (claimJobExecution: "never permission to rerun").                       *)
AtMostOneExecution == \A a, b \in ran : a = b

(* Everybody who obtains a result obtains the one committed result: the    *)
(* BullMQ processors, a redelivery that finds the job completed, the       *)
(* waiting request and the request that lost its fencing race.             *)
ResultAgreement ==
  /\ \A a \in Attempts : returned[a] # None => returned[a] = committed
  /\ value # None => value = committed
  /\ apiOut = "result" => apiValue = committed /\ committed # None

(* Cancellation and completion have one winner: once Stop was accepted, or *)
(* the request was told its fence holds, no result is committed, then or   *)
(* at any later time, by an attempt that was already past its checks.      *)
CancellationIsFinal ==
  stop = "accepted" \/ apiOut = "cancelled" => committed = None

(* No cancellation is lost on a worker that has read the marker: its       *)
(* controller is aborted, or the message or the reconciliation that aborts *)
(* it is still to come, although the marker may be set before, between and *)
(* after the subscription and the read, and the connection may drop        *)
(* (JobCancellationRegistry).                                              *)
CancellationReaches ==
  \A a \in Attempts :
    /\ decision = "cancelled"
    /\ apc[a] \in {"claim", "start", "run", "finalize", "revoke", "commit"}
    => abort[a] # "no" \/ line[a] \in {"notified", "down"}

(* The job as its callers see it.                                          *)
Contract == INSTANCE JobContract WITH
  started <- ran, result <- committed,
  cancelled <- (stop = "accepted" \/ apiOut = "cancelled"),
  told <- IF apiOut = "result" THEN apiValue ELSE None

(* The attempts, the request, the Stop endpoint and the Redis keys between *)
(* them, with their faults, implement the contract of a job.               *)
Implements == Contract!Spec
=============================================================================
