-------------------------- MODULE BridgeAssignment --------------------------
(***************************************************************************)
(* One bridge worker id served in serial mode (one assignment at a time),  *)
(* and one workspace on it.                                                *)
(*                                                                         *)
(*   dispatchers   RedisBridgeStore.dispatch, one per request, on any API  *)
(*                 replica; they die without running their finally block   *)
(*   worker        packages/code worker.ts, one process per incarnation    *)
(*   Redis         the keys of store.ts; every Lua script is one step      *)
(*                                                                         *)
(* A reply may be lost after its script ran.  A registration may expire at *)
(* any time (heartbeats do not get through), and two incarnations may be   *)
(* alive together.  The deadline of an assignment may pass at any time; its *)
(* keys may expire any time after that (they outlive it by 30 s).          *)
(***************************************************************************)
EXTENDS Naturals

CONSTANTS
  Kinds,          \* kinds of workspace considered, see kind
  Incarnations,   \* worker processes
  Assignments,    \* dispatch calls
  None,
  Quarantined,    \* fence value of a workspace that needs a reset
  Returns         \* "prompt" or "late": see Abandon

ASSUME ConstantsAssumption ==
  /\ Kinds \subseteq {"plain", "session", "native"}
  /\ None \notin Incarnations \cup Assignments
  /\ Quarantined \notin Assignments \cup {None}
  /\ Returns \in {"prompt", "late"}

VARIABLES
  kind,         \* "plain" (stateless sandbox), "session" (runtimeSessionId)
                \* or "native" (workspaceFence, waits for admission)
  current,      \* the registered incarnation (worker and incarnation keys)
  fenced,       \* incarnations with a :fenced key
  quarantined,  \* incarnations with a :quarantined key
  lock,         \* lock key of the worker
  lockInc,      \* lock:incarnation key
  stored,       \* assignments whose key exists
  open,         \* stored assignments whose :deadline key exists
  queue,        \* assignment list of each incarnation (order left open)
  claim,        \* lease-claim key of each incarnation
  ack,          \* lease-ack key of each incarnation
  fence,        \* in-flight marker of the workspace
  settlement,   \* settlement key of each assignment
  late,         \* assignments whose deadline has passed
  dpc,          \* control state of each dispatcher
  dispInc,      \* the incarnation it dispatches to
  outcome,      \* what it told its caller ("none": nothing, or an error)
  wpc,          \* control state of each worker process
  task,         \* the assignment it works on
  verdict,      \* the status it settles with
  returning,    \* of each incarnation, the leases its abandoned requests
                \* have yet to return
  dirty         \* history: assignments executed, with effects neither
                \* committed nor definitely absent

worker == <<wpc, task, verdict>>
disp   == <<dpc, dispInc, outcome>>
reg    == <<current, fenced, quarantined>>
locks  == <<lock, lockInc>>
lists  == <<queue, claim, ack, returning>>
work   == <<stored, open, settlement>>
vars   == <<kind, reg, locks, work, lists, fence, late, disp, worker, dirty>>

Stateful == kind # "plain"

DispatchStates == {"new", "acquire", "enqueue", "wait", "finalize", "rejected", "quarantine", "cleanup", "release", "done"}
WorkerStates   == {"off", "idle", "claimed", "leased", "run", "settle", "stopped"}

TypeOK ==
  /\ kind \in Kinds
  /\ current \in Incarnations \cup {None}
  /\ fenced \subseteq Incarnations /\ quarantined \subseteq Incarnations
  /\ lock \in Assignments \cup {None}
  /\ lockInc \in Incarnations \cup {None}
  /\ stored \subseteq Assignments /\ open \subseteq Assignments
  /\ queue \in [Incarnations -> SUBSET Assignments]
  /\ claim \in [Incarnations -> Assignments \cup {None}]
  /\ ack \in [Incarnations -> Assignments \cup {None}]
  /\ fence \in Assignments \cup {None, Quarantined}
  /\ settlement \in [Assignments -> {"none", "fulfilled", "rejected"}]
  /\ dpc \in [Assignments -> DispatchStates]
  /\ dispInc \in [Assignments -> Incarnations \cup {None}]
  /\ outcome \in [Assignments -> {"none", "fulfilled", "expired"}]
  /\ wpc \in [Incarnations -> WorkerStates]
  /\ task \in [Incarnations -> Assignments \cup {None}]
  /\ verdict \in [Incarnations -> {"none", "fulfilled", "rejected"}]
  /\ returning \in [Incarnations -> SUBSET Assignments]
  /\ late \subseteq Assignments /\ dirty \subseteq Assignments

Init ==
  /\ kind \in Kinds
  /\ current = None /\ fenced = {} /\ quarantined = {}
  /\ lock = None /\ lockInc = None
  /\ stored = {} /\ open = {}
  /\ queue = [i \in Incarnations |-> {}]
  /\ claim = [i \in Incarnations |-> None]
  /\ ack = [i \in Incarnations |-> None]
  /\ fence = None
  /\ settlement = [d \in Assignments |-> "none"]
  /\ late = {}
  /\ dpc = [d \in Assignments |-> "new"]
  /\ dispInc = [d \in Assignments |-> None]
  /\ outcome = [d \in Assignments |-> "none"]
  /\ wpc = [i \in Incarnations |-> "off"]
  /\ task = [i \in Incarnations |-> None]
  /\ verdict = [i \in Incarnations |-> "none"]
  /\ returning = [i \in Incarnations |-> {}]
  /\ dirty = {}

-----------------------------------------------------------------------------
(* Registration *)

(* register: the reply is a generation when RegisterAccepts, otherwise     *)
(* -2 (quarantined), -1 (fenced) or -3 (busy).  Replacing a live           *)
(* registration fences its incarnation for good.                           *)
RegisterAccepts(i) ==
  /\ i \notin quarantined \cup fenced
  /\ \/ current = i
     \/ current = None /\ (lock = None \/ lockInc = i)
     \/ current # None /\ lock = None

(* A worker process registers before each lease and as its heartbeat while *)
(* it executes; quarantined or fenced, run() throws and the process ends.  *)
Register(i) ==
  /\ wpc[i] \in {"off", "idle", "run", "settle"}
  /\ \/ /\ RegisterAccepts(i)
        /\ current' = i
        /\ fenced' = fenced \cup ({current} \ {i, None})
        /\ wpc' = [wpc EXCEPT ![i] = IF @ = "off" THEN "idle" ELSE @]
     \/ /\ i \in quarantined \cup fenced /\ wpc[i] = "idle"
        /\ wpc' = [wpc EXCEPT ![i] = "stopped"]
        /\ UNCHANGED <<current, fenced>>
  /\ UNCHANGED <<kind, quarantined, locks, work, lists, fence, late, disp, task, verdict, dirty>>

(* The 60 s registration TTL runs out. *)
RegistrationExpires ==
  /\ current # None
  /\ current' = None
  /\ UNCHANGED <<kind, fenced, quarantined, locks, work, lists, fence, late, disp, worker, dirty>>

-----------------------------------------------------------------------------
(* Dispatcher *)

DispGoto(d, pc) == dpc' = [dpc EXCEPT ![d] = pc]

(* dispatchableRegistration; a quarantined session is refused early.       *)
Begin(d) ==
  /\ dpc[d] = "new" /\ current # None /\ d \notin late
  /\ dispInc' = [dispInc EXCEPT ![d] = current]
  /\ IF kind = "session" /\ fence # None
       THEN DispGoto(d, "done")
       ELSE DispGoto(d, "acquire")
  /\ UNCHANGED <<kind, reg, locks, work, lists, fence, late, outcome, worker, dirty>>

(* The two keys the lock script sets together, if nobody holds the lock.   *)
TakeLock(d) == lock = None /\ lock' = d /\ lockInc' = dispInc[d]

(* acquireLock.  A native request keeps waiting while the lock is taken,   *)
(* any other one fails as busy; the last disjunct is a lost reply, an      *)
(* abort or the queue deadline.                                            *)
Acquire(d) ==
  /\ dpc[d] = "acquire"
  /\ \/ /\ TakeLock(d)
        /\ \/ d \notin late /\ DispGoto(d, "enqueue")
           \/ DispGoto(d, "release")
     \/ /\ lock # None /\ kind # "native"
        /\ DispGoto(d, "release") /\ UNCHANGED <<lock, lockInc>>
     \/ /\ kind = "native"
        /\ DispGoto(d, "release") /\ UNCHANGED <<lock, lockInc>>
  /\ UNCHANGED <<kind, reg, work, lists, fence, late, dispInc, outcome, worker, dirty>>

(* enqueueForActiveIncarnation replied 0: work that waited for admission   *)
(* is not transferred, other work follows the new registration.            *)
EnqueueElsewhere(d) ==
  /\ dpc[d] = "enqueue" /\ current # dispInc[d]
  /\ IF kind = "native" \/ current = None
       THEN DispGoto(d, "cleanup") /\ UNCHANGED dispInc
       ELSE /\ dispInc' = [dispInc EXCEPT ![d] = current]
            /\ UNCHANGED dpc
  /\ UNCHANGED <<kind, reg, locks, work, lists, fence, late, outcome, worker, dirty>>

(* The script's check of the in-flight marker.                             *)
(* (WorkspaceUnchecked leaves it to the earlier reads.)                    *)
WorkspaceUnchecked == TRUE
WorkspaceFree == Stateful => fence = None

(* enqueueForActiveIncarnation replied 1, or its reply was lost.           *)
Enqueue(d) ==
  /\ dpc[d] = "enqueue" /\ d \notin late
  /\ current = dispInc[d]
  /\ WorkspaceFree
  /\ stored' = stored \cup {d}
  /\ open' = open \cup {d}
  /\ queue' = [queue EXCEPT ![dispInc[d]] = @ \cup {d}]
  /\ lockInc' = dispInc[d]
  /\ fence' = (IF Stateful THEN d ELSE fence)
  /\ DispGoto(d, "wait") \/ DispGoto(d, "cleanup")
  /\ UNCHANGED <<kind, reg, lock, claim, ack, returning, settlement, late, dispInc, outcome, worker, dirty>>

(* It replied -1 (the workspace has unfinished work), the deadline passed, *)
(* the caller left, or the script never ran.                               *)
EnqueueFails(d) ==
  /\ dpc[d] = "enqueue"
  /\ DispGoto(d, "cleanup")
  /\ UNCHANGED <<kind, reg, locks, work, lists, fence, late, dispInc, outcome, worker, dirty>>

(* waitForSettlement: a poll finds the settlement.                         *)
Settled(d) == DispGoto(d, IF settlement[d] = "fulfilled" THEN "finalize" ELSE "rejected")

Poll(d) ==
  /\ dpc[d] = "wait" /\ settlement[d] # "none"
  /\ Settled(d)
  /\ UNCHANGED <<kind, reg, locks, work, lists, fence, late, dispInc, outcome, worker, dirty>>

(* The close script, after the deadline, an abort or a failed poll: the    *)
(* settlement that won, or no fulfilment any more.                         *)
Close(d) ==
  /\ dpc[d] = "wait"
  /\ IF settlement[d] # "none"
       THEN /\ Settled(d)
            /\ UNCHANGED <<open, stored, outcome>>
       ELSE /\ open' = open \ {d}
            /\ stored' = (IF Stateful /\ fence = d THEN stored ELSE stored \ {d})
            /\ DispGoto(d, "cleanup")
            /\ outcome' = [outcome EXCEPT ![d] = "expired"]
  /\ UNCHANGED <<kind, reg, locks, lists, fence, settlement, late, dispInc, worker, dirty>>

(* The finalize callback and commitPendingWorkspace: the marker goes when  *)
(* the result is finalized; the reply of the commit may be lost.           *)
Commit(d) ==
  /\ dpc[d] = "finalize"
  /\ Stateful => fence = d
  /\ fence' = (IF Stateful THEN None ELSE fence)
  /\ dirty' = dirty \ {d}
  /\ \/ /\ DispGoto(d, "cleanup")
        /\ outcome' = [outcome EXCEPT ![d] = "fulfilled"]
     \/ DispGoto(d, "quarantine") /\ UNCHANGED outcome
  /\ UNCHANGED <<kind, reg, locks, work, lists, late, dispInc, worker>>

(* A rejection has nothing to commit.                                      *)
PassRejection(d) ==
  /\ dpc[d] = "rejected"
  /\ DispGoto(d, "cleanup")
  /\ UNCHANGED <<kind, reg, locks, work, lists, fence, late, dispInc, outcome, worker, dirty>>

(* The callback threw, or the marker is not this assignment's any more.    *)
FinalizeFails(d) ==
  /\ dpc[d] \in {"finalize", "rejected"}
  /\ DispGoto(d, "quarantine")
  /\ UNCHANGED <<kind, reg, locks, work, lists, fence, late, dispInc, outcome, worker, dirty>>

(* Of a session: the worker incarnation is put out of service with its     *)
(* workspace.  Of a native root: only the marker this assignment owns.     *)
Quarantine(d) ==
  /\ dpc[d] = "quarantine"
  /\ DispGoto(d, "cleanup")
  /\ fence' = (IF kind = "session" \/ (kind = "native" /\ fence = d) THEN Quarantined ELSE fence)
  /\ IF kind = "session"
       THEN /\ quarantined' = quarantined \cup {dispInc[d]}
            /\ current' = (IF current = dispInc[d] THEN None ELSE current)
       ELSE UNCHANGED <<quarantined, current>>
  /\ UNCHANGED <<kind, fenced, locks, work, lists, late, dispInc, outcome, worker, dirty>>

(* The worker has not confirmed that it received the assignment.           *)
(* (UndeliveredByClaim goes by the lease claim alone.)                *)
UndeliveredByClaim(d) == d \in queue[dispInc[d]] \/ claim[dispInc[d]] = d
Undelivered(d) == d \in queue[dispInc[d]] \/ (claim[dispInc[d]] = d /\ ack[dispInc[d]] # d)

(* cleanup of the assignment: undelivered work is withdrawn with its       *)
(* marker; acknowledged work that still owns its marker keeps everything,  *)
(* the lock included.                                                      *)
Cleanup(d) ==
  LET i       == dispInc[d]
      claimed == claim[i] = d
      acked   == ack[i] = d
      owned   == Stateful /\ fence = d
      kept    == owned /\ acked /\ d \notin queue[i]
      Dropped(key) == IF (claimed \/ acked) /\ ~kept THEN [key EXCEPT ![i] = None] ELSE key
  IN
  /\ dpc[d] = "cleanup"
  /\ queue' = [queue EXCEPT ![i] = @ \ {d}]
  /\ fence' = (IF owned /\ Undelivered(d) THEN None ELSE fence)
  /\ claim' = (IF claimed THEN Dropped(claim) ELSE claim)
  /\ ack' = Dropped(ack)
  /\ stored' = (IF kept THEN stored ELSE stored \ {d})
  /\ open' = open \cap stored'
  /\ DispGoto(d, IF kept THEN "done" ELSE "release")
  /\ UNCHANGED <<kind, reg, locks, settlement, returning, late, dispInc, outcome, worker, dirty>>

(* releaseLock, only while the lock is still this assignment's.            *)
Release(d) ==
  /\ dpc[d] = "release"
  /\ DispGoto(d, "done")
  /\ IF lock = d THEN lock' = None /\ lockInc' = None ELSE UNCHANGED locks
  /\ UNCHANGED <<kind, reg, work, lists, fence, late, dispInc, outcome, worker, dirty>>

(* The API replica dies, or gives up its cleanup after Redis failed.       *)
DispatcherCrash(d) ==
  /\ dpc[d] \notin {"new", "done"}
  /\ DispGoto(d, "done")
  /\ UNCHANGED <<kind, reg, locks, work, lists, fence, late, dispInc, outcome, worker, dirty>>

-----------------------------------------------------------------------------
(* Lease *)

WorkerGoto(i, pc, d) == wpc' = [wpc EXCEPT ![i] = pc] /\ task' = [task EXCEPT ![i] = d]
workRest == <<kind, reg, locks, open, settlement, late, disp, verdict>>

(* claimOrPopLease: the claim that exists, or the next assignment.         *)
Lease(i) ==
  /\ wpc[i] = "idle"
  /\ Returns = "prompt" => returning[i] = {}
  /\ \/ /\ claim[i] # None
        /\ WorkerGoto(i, "claimed", claim[i])
        /\ UNCHANGED <<claim, queue>>
     \/ /\ claim[i] = None
        /\ \E d \in queue[i] :
             /\ claim' = [claim EXCEPT ![i] = d]
             /\ queue' = [queue EXCEPT ![i] = @ \ {d}]
             /\ WorkerGoto(i, "claimed", d)
  /\ UNCHANGED <<workRest, stored, ack, returning, fence, dirty>>

(* discardLeaseClaim and returnLeaseById, both on the claim they name.     *)
(* (DiscardNothing forgets to delete the keys.)                            *)
DiscardNothing(i, d) == UNCHANGED <<claim, ack>>
DiscardClaim(i, d) ==
  /\ claim' = (IF claim[i] = d THEN [claim EXCEPT ![i] = None] ELSE claim)
  /\ ack' = (IF claim[i] = d THEN [ack EXCEPT ![i] = None] ELSE ack)

ReturnLease(i, d) ==
  IF d \in stored /\ claim[i] = d
    THEN /\ claim' = [claim EXCEPT ![i] = None]
         /\ ack' = [ack EXCEPT ![i] = None]
         /\ queue' = [queue EXCEPT ![i] = @ \cup {d}]
    ELSE UNCHANGED <<claim, ack, queue>>

(* lease reads the assignment it claimed and answers the worker.           *)
Deliver(i) ==
  /\ wpc[i] = "claimed"
  /\ task[i] \in stored /\ dispInc[task[i]] = i /\ current = i
  /\ task[i] \notin late
  /\ WorkerGoto(i, "leased", task[i])
  /\ UNCHANGED <<workRest, stored, lists, fence, dirty>>

(* The assignment is gone: the claim is discarded.                         *)
LeaseGone(i) ==
  /\ wpc[i] = "claimed"
  /\ task[i] \notin stored \/ dispInc[task[i]] # i
  /\ DiscardClaim(i, task[i])
  /\ WorkerGoto(i, "idle", None)
  /\ UNCHANGED <<workRest, stored, queue, returning, fence, dirty>>

(* It is past its deadline: clearUndeliveredWorkspaceFence unless          *)
(* acknowledged, then the claim is discarded.                              *)
LeaseExpired(i) ==
  LET d == task[i] IN
  /\ wpc[i] = "claimed"
  /\ d \in stored /\ dispInc[d] = i /\ current = i
  /\ d \in late
  /\ fence' = (IF Stateful /\ ack[i] # d /\ fence = d THEN None ELSE fence)
  /\ DiscardClaim(i, d)
  /\ WorkerGoto(i, "idle", None)
  /\ UNCHANGED <<workRest, stored, queue, returning, dirty>>

(* The registration is not this process's any more: the lease is returned  *)
(* and WORKER_FENCED ends the process.                                     *)
LeaseFenced(i) ==
  /\ wpc[i] = "claimed"
  /\ task[i] \in stored /\ current # i
  /\ ReturnLease(i, task[i])
  /\ WorkerGoto(i, "stopped", None)
  /\ UNCHANGED <<workRest, stored, returning, fence, dirty>>

(* The worker's HTTP request ends before the answer.  Code API may miss    *)
(* that, and the claim stays, or its handler goes on to return the lease:  *)
(* before the worker polls again with "prompt" returns (see Lease), at any *)
(* time with "late" ones.                                                  *)
Abandon(i) ==
  /\ wpc[i] = "claimed"
  /\ WorkerGoto(i, "idle", None)
  /\ UNCHANGED returning \/ returning' = [returning EXCEPT ![i] = @ \cup {task[i]}]
  /\ UNCHANGED <<workRest, stored, queue, claim, ack, fence, dirty>>

ReturnAbandoned(i, d) ==
  /\ d \in returning[i]
  /\ returning' = [returning EXCEPT ![i] = @ \ {d}]
  /\ ReturnLease(i, d)
  /\ UNCHANGED <<workRest, stored, fence, wpc, task, dirty>>

-----------------------------------------------------------------------------
(* Worker *)

(* acknowledgeLease: its reads of the assignment and the registration come *)
(* before its script, which decides on the claim alone.  Only a            *)
(* confirmed acknowledgement lets the worker execute.                      *)
Acknowledge(i) ==
  LET d == task[i] IN
  /\ wpc[i] = "leased" /\ claim[i] = d
  /\ ack' = [ack EXCEPT ![i] = d]
  /\ \/ /\ WorkerGoto(i, "run", d)
        /\ dirty' = dirty \cup {d}
        /\ UNCHANGED verdict
     \/ /\ WorkerGoto(i, "settle", d)
        /\ verdict' = [verdict EXCEPT ![i] = "rejected"]
        /\ UNCHANGED dirty
  /\ UNCHANGED <<kind, reg, locks, work, queue, claim, returning, fence, late, disp>>

(* It was refused (409), or its outcome is unknown and the worker rejects  *)
(* what it did not execute.                                                *)
AcknowledgeFails(i) ==
  /\ wpc[i] = "leased"
  /\ \/ /\ claim[i] # task[i] \/ task[i] \notin stored \/ current # i
        /\ WorkerGoto(i, "idle", None) /\ UNCHANGED verdict
     \/ /\ WorkerGoto(i, "settle", task[i])
        /\ verdict' = [verdict EXCEPT ![i] = "rejected"]
  /\ UNCHANGED <<kind, reg, locks, work, lists, fence, late, disp, dirty>>

(* executeOwned: a result, a definite rejection (the workspace is as it    *)
(* was), or an execution that broke off (deadline, cancellation, lost      *)
(* heartbeat, transport): then a stateful worker quarantines its copy and  *)
(* ends without settling.                                                  *)
Execute(i) ==
  /\ wpc[i] = "run"
  /\ \/ \E v \in {"fulfilled", "rejected"} :
          /\ WorkerGoto(i, "settle", task[i])
          /\ verdict' = [verdict EXCEPT ![i] = v]
          /\ dirty' = (IF v = "rejected" THEN dirty \ {task[i]} ELSE dirty)
     \/ Stateful /\ WorkerGoto(i, "stopped", None) /\ UNCHANGED <<verdict, dirty>>
  /\ UNCHANGED <<kind, reg, locks, work, lists, fence, late, disp>>

(* settle: what its script accepts.                                        *)
(* (SettleAcceptsLate does not look at the :deadline key.)                 *)
SettleAcceptsLate(i) ==
  LET d == task[i] IN
  /\ settlement[d] = "none"
  /\ d \in stored
  /\ Stateful => fence = d
  /\ dispInc[d] = i /\ current = i
SettleAccepts(i) ==
  LET d == task[i] IN
  /\ settlement[d] = "none"
  /\ d \in stored
  /\ Stateful => fence = d
  /\ verdict[i] = "fulfilled" => d \in open
  /\ dispInc[d] = i /\ current = i

WorkerDone(i) == WorkerGoto(i, "idle", None) /\ verdict' = [verdict EXCEPT ![i] = "none"]

(* The settlement commits; its reply arrives, or is lost and the worker    *)
(* sends it again.  A definite rejection clears the marker.                *)
Settle(i) ==
  LET d == task[i] IN
  /\ wpc[i] = "settle" /\ SettleAccepts(i)
  /\ settlement' = [settlement EXCEPT ![d] = verdict[i]]
  /\ DiscardClaim(i, d)
  /\ fence' = (IF Stateful /\ verdict[i] = "rejected" THEN None ELSE fence)
  /\ WorkerDone(i) \/ UNCHANGED worker
  /\ UNCHANGED <<kind, reg, locks, stored, open, queue, returning, late, disp, dirty>>

(* The same settlement was accepted before.                                *)
SettleAgain(i) ==
  /\ wpc[i] = "settle" /\ settlement[task[i]] = verdict[i]
  /\ WorkerDone(i)
  /\ UNCHANGED <<kind, reg, locks, work, lists, fence, late, disp, dirty>>

(* Refused, or no answer by the deadline (an extra grace for a rejection): *)
(* a stateful result that may be lost quarantines the worker's copy and    *)
(* ends the process, anything else is dropped.                             *)
SettleFails(i) ==
  LET d == task[i] IN
  /\ wpc[i] = "settle"
  /\ \/ settlement[d] # verdict[i] /\ ~SettleAccepts(i)
     \/ d \in late
  /\ IF Stateful /\ verdict[i] = "fulfilled"
       THEN /\ WorkerGoto(i, "stopped", None)
            /\ verdict' = [verdict EXCEPT ![i] = "none"]
       ELSE WorkerDone(i)
  /\ UNCHANGED <<kind, reg, locks, work, lists, fence, late, disp, dirty>>

WorkerCrash(i) ==
  /\ wpc[i] \notin {"off", "stopped"}
  /\ WorkerGoto(i, "stopped", None)
  /\ verdict' = [verdict EXCEPT ![i] = "none"]
  /\ UNCHANGED <<kind, reg, locks, work, lists, fence, late, disp, dirty>>

-----------------------------------------------------------------------------
(* resetWorkspace: with every worker process stopped, the operator         *)
(* discards the workspace and runs the reset command, which registers an   *)
(* incarnation of its own for the purpose.                                 *)
ResetWorkspace ==
  /\ kind # "plain" /\ fence # None /\ lock = None
  /\ \A i \in Incarnations : wpc[i] \in {"off", "stopped"}
  /\ fence' = None /\ dirty' = {}
  /\ fenced' = fenced \cup ({current} \ {None}) /\ current' = None
  /\ UNCHANGED <<kind, quarantined, locks, work, lists, late, disp, worker>>

-----------------------------------------------------------------------------
(* Time *)

Deadline(d) ==
  /\ d \notin late /\ dpc[d] # "new"
  /\ late' = late \cup {d}
  /\ open' = open \ {d}
  /\ UNCHANGED <<kind, reg, locks, stored, settlement, lists, fence, disp, worker, dirty>>

LockExpires(d) ==
  /\ d \in late
  /\ lock = d
  /\ lock' = None /\ lockInc' = None
  /\ UNCHANGED <<kind, reg, work, lists, fence, late, disp, worker, dirty>>

(* The keys of the assignment expire, 30 s after its deadline; their TTLs  *)
(* differ by about a second, which is left out.                            *)
AssignmentExpires(d) ==
  LET Without(key) == [i \in Incarnations |-> IF key[i] = d THEN None ELSE key[i]] IN
  /\ d \in late
  /\ stored' = stored \ {d}
  /\ settlement' = [settlement EXCEPT ![d] = "none"]
  /\ queue' = [i \in Incarnations |-> queue[i] \ {d}]
  /\ claim' = Without(claim) /\ ack' = Without(ack)
  /\ UNCHANGED <<kind, reg, locks, open, returning, fence, late, disp, worker, dirty>>

-----------------------------------------------------------------------------
DispatchStep(d) ==
  \/ Begin(d) \/ Acquire(d) \/ EnqueueElsewhere(d) \/ Enqueue(d) \/ EnqueueFails(d)
  \/ Poll(d) \/ Close(d) \/ Commit(d) \/ PassRejection(d) \/ FinalizeFails(d) \/ Quarantine(d)
  \/ Cleanup(d) \/ Release(d) \/ DispatcherCrash(d)

WorkerStep(i) ==
  \/ Register(i) \/ Lease(i) \/ Deliver(i) \/ LeaseGone(i) \/ LeaseExpired(i)
  \/ LeaseFenced(i) \/ Abandon(i) \/ Acknowledge(i) \/ AcknowledgeFails(i)
  \/ Execute(i) \/ Settle(i) \/ SettleAgain(i) \/ SettleFails(i) \/ WorkerCrash(i)

Next ==
  \/ \E d \in Assignments : DispatchStep(d)
  \/ \E i \in Incarnations : WorkerStep(i)
  \/ \E i \in Incarnations, d \in Assignments : ReturnAbandoned(i, d)
  \/ RegistrationExpires \/ ResetWorkspace
  \/ \E d \in Assignments : Deadline(d) \/ LockExpires(d) \/ AssignmentExpires(d)

Spec == Init /\ [][Next]_vars

-----------------------------------------------------------------------------
(* Properties *)

(* While an execution may have left effects in the workspace that no       *)
(* result accounts for, the in-flight marker stays, through crashes of     *)
(* dispatcher and worker, expiry of every other key and late cleanups.     *)
FenceHolds == Stateful /\ dirty # {} => fence # None

(* No execution starts in a workspace that holds unaccounted effects of    *)
(* another execution, or of an earlier run of the same assignment.         *)
StartsClean ==
  \A i \in Incarnations :
    Stateful /\ wpc[i] # "run" /\ wpc'[i] = "run" => dirty = {}
CleanStart == [][StartsClean]_vars

(* An assignment the dispatcher closed without a settlement is never       *)
(* reported fulfilled afterwards, although the worker may still settle it. *)
ExpiredStaysUnfulfilled ==
  \A d \in Assignments : outcome[d] = "expired" => settlement[d] # "fulfilled"

(* A result reaches the caller of a stateful request only when nothing     *)
(* about its execution is left unaccounted for.                            *)
ResultIsCommitted ==
  \A d \in Assignments : outcome[d] = "fulfilled" => d \notin dirty

(* What the dispatcher tells its caller stays true: a result is backed by  *)
(* a commit of the workspace, and an expiry is final (store.ts dispatch).  *)
ResultsHonest == ResultIsCommitted /\ ExpiredStaysUnfulfilled

(* At most one live worker process executes in the workspace.              *)
ExclusiveExecution ==
  Stateful => \A i, j \in Incarnations : wpc[i] = "run" /\ wpc[j] = "run" => i = j
=============================================================================
