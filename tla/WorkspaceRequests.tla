-------------------------- MODULE WorkspaceRequests --------------------------
(***************************************************************************)
(* One durable workspace request (workspace-tools/requests.ts) and the API *)
(* replicas that advance it (store.ts advanceDurableWorkspaceTool and      *)
(* finishDurableWorkspaceTool), on a worker that runs one assignment at a  *)
(* time.                                                                   *)
(*                                                                         *)
(* The request lives in a Redis hash.  A replica claims it for 10 s under  *)
(* a fresh token, reads it, and carries out one transition.  Its deadline  *)
(* of 8 s ends the wait for a transition but not the transition: what is   *)
(* still running keeps sending its scripts, after the claim has passed to  *)
(* another attempt.  Each process below is one such attempt; it is used    *)
(* again, with a new token, when all of it has ended.                      *)
(*                                                                         *)
(* Replicas decide with their own clocks whether a deadline has passed.    *)
(* They may find so at any time; that they do not when Redis time is past  *)
(* the deadline counts as a fault.                                         *)
(***************************************************************************)
EXTENDS Naturals, FiniteSets

CONSTANTS
  Attempts,    \* concurrent attempts to advance the request
  None,
  Mutations,   \* subset of BOOLEAN: may the operation change the workspace?
  MaxFaults    \* bound on lost replies, crashes, late clocks and
               \* overlong transitions

ASSUME ConstantsAssumption ==
  /\ IsFiniteSet(Attempts) /\ None \notin Attempts
  /\ None \notin {"req", "other", "fulfilled", "rejected"}
  /\ Mutations \subseteq BOOLEAN /\ MaxFaults \in Nat

VARIABLES
  state,       \* state field of the request
  reason,      \* why it ended: "unstarted", or the worker's answer
  cancel,      \* cancelRequested
  active,      \* member of the set of requests to reconcile
  waiting,     \* member of the worker's admission queue
  claim,       \* holder of the claim token
  queueOpen,   \* Redis time is before queueDeadlineAtMs
  mutation,    \* isWorkspaceMutation of the request
  lock,        \* worker lock: None, "req" or "other"
  marker,      \* in-flight marker of the workspace: same values
  pushed,      \* number of commands ever queued for the request
  command,     \* its delivery: "none", "queued", "running", "ended", "removed"
  stored,      \* the assignment record exists
  gate,        \* its deadline key: fulfilment is possible
  settlement,  \* None, "fulfilled" or "rejected"
  kept,        \* settlement recorded with the outcome
  committed,   \* the :committed: key
  pc, seen, out,  \* per attempt: control state, what it read, its outcome
  zombie,      \* attempts whose deadline has passed
  faults

request == <<state, reason, cancel, kept>>
sets    == <<active, waiting>>
clock   == <<queueOpen, mutation>>
bridge  == <<lock, marker, pushed, command, stored, gate, settlement, committed>>
proc    == <<pc, seen, out, zombie>>
vars    == <<request, sets, claim, clock, bridge, proc, faults>>

Ended == {"completed", "failed", "cancelled"}
States == {"absent", "queued", "admitted"} \cup Ended
Outcomes == [state : Ended, reason : {"unstarted", "settled", "expired"}, kept : {None, "fulfilled", "rejected"}]

Steps == {"idle", "read", "admit", "enqueue", "observe", "write", "failwrite", "reread", "commit",
          "cleanup", "unlock", "leave", "retire", "unclaim"}

RequestOK ==
  /\ state \in States /\ reason \in {"none", "unstarted", "settled", "expired"}
  /\ kept \in {None, "fulfilled", "rejected"}

BridgeOK ==
  /\ lock \in {None, "req", "other"} /\ marker \in {None, "req", "other"}
  /\ pushed \in 0..2 /\ command \in {"none", "queued", "running", "ended", "removed"}
  /\ settlement \in {None, "fulfilled", "rejected"}

AttemptsOK ==
  /\ claim \in Attempts \cup {None} /\ zombie \subseteq Attempts /\ faults \in 0..MaxFaults
  /\ pc \in [Attempts -> Steps]
  /\ out \in [Attempts -> Outcomes \cup {None}]

FlagsOK ==
  /\ cancel \in BOOLEAN /\ active \in BOOLEAN /\ waiting \in BOOLEAN
  /\ queueOpen \in BOOLEAN /\ mutation \in BOOLEAN
  /\ stored \in BOOLEAN /\ gate \in BOOLEAN /\ committed \in BOOLEAN

SeenOK == seen \in [Attempts -> [state : States, cancel : BOOLEAN]]

TypeOK == RequestOK /\ BridgeOK /\ AttemptsOK /\ FlagsOK /\ SeenOK

Init ==
  /\ state = "absent" /\ reason = "none" /\ cancel = FALSE /\ kept = None
  /\ active = FALSE /\ waiting = FALSE /\ claim = None
  /\ queueOpen = TRUE /\ mutation \in Mutations
  /\ lock = None /\ marker = None /\ pushed = 0 /\ command = "none"
  /\ stored = FALSE /\ gate = FALSE /\ settlement = None /\ committed = FALSE
  /\ pc = [p \in Attempts |-> "idle"] /\ out = [p \in Attempts |-> None]
  /\ seen = [p \in Attempts |-> [state |-> "absent", cancel |-> FALSE]]
  /\ zombie = {} /\ faults = 0

-----------------------------------------------------------------------------
(* The client *)

(* submit: a new record joins the active set and the admission queue.  A   *)
(* repeated submission finds it and changes nothing.                       *)
Submit ==
  /\ state = "absent"
  /\ state' = "queued" /\ active' = TRUE /\ waiting' = TRUE
  /\ UNCHANGED <<reason, cancel, kept, claim, clock, bridge, proc, faults>>

Cancel ==
  /\ state \in {"queued", "admitted"} /\ ~cancel
  /\ cancel' = TRUE /\ active' = TRUE
  /\ UNCHANGED <<state, reason, kept, waiting, claim, clock, bridge, proc, faults>>

-----------------------------------------------------------------------------
(* An attempt moves on; one whose deadline has passed has nobody waiting   *)
(* for the outcome of its transition and ends there.                       *)
Goto(p, next) ==
  /\ pc' = [pc EXCEPT ![p] = IF p \in zombie /\ next \in {"write", "failwrite", "reread", "retire", "unclaim"}
                             THEN "idle" ELSE next]
  /\ zombie' = IF pc'[p] = "idle" THEN zombie \ {p} ELSE zombie

(* The reply to a script that took effect does not arrive: the transition  *)
(* fails and the claim is given back.                                      *)
LostReply(p) ==
  /\ faults < MaxFaults /\ faults' = faults + 1
  /\ Goto(p, "unclaim")

Replied(p, next) == Goto(p, next) /\ UNCHANGED faults
Sent(p, next) == Replied(p, next) \/ LostReply(p)

(* A replica goes on as if a deadline were still to come.                  *)
InTime(p, open, next) ==
  IF open THEN Replied(p, next)
          ELSE faults < MaxFaults /\ faults' = faults + 1 /\ Goto(p, next)

Claim(p) ==
  /\ pc[p] = "idle" /\ active /\ claim = None
  /\ claim' = p
  /\ pc' = [pc EXCEPT ![p] = "read"] /\ out' = [out EXCEPT ![p] = None]
  /\ UNCHANGED <<request, sets, clock, bridge, seen, zombie, faults>>

AfterRead(s) ==
  CASE s = "queued" -> "admit" [] s = "admitted" -> "observe" [] OTHER -> "commit"

Read(p) ==
  /\ pc[p] = "read"
  /\ seen' = [seen EXCEPT ![p] = [state |-> state, cancel |-> cancel]]
  /\ Replied(p, AfterRead(state))
  /\ UNCHANGED <<request, sets, claim, clock, bridge, out>>

Decide(p, s, r, k) ==
  /\ out' = [out EXCEPT ![p] = [state |-> s, reason |-> r, kept |-> k]]
  /\ Replied(p, "write")

(* durableAdmissionFence: evaluated by Redis inside the scripts.           *)
(* (NoFence trusts what the attempt has read.)                             *)
NoFence(p) == TRUE
AdmissionFence(p) == claim = p /\ state = "queued" /\ ~cancel /\ queueOpen

-----------------------------------------------------------------------------
(* Admission of a queued request *)

(* Cancelled, or out of time by the replica's clock: never started.        *)
DecideUnstarted(p) ==
  /\ \/ pc[p] = "admit" /\ IF seen[p].cancel THEN Decide(p, "cancelled", "unstarted", None)
                                             ELSE Decide(p, "failed", "unstarted", None)
     \/ pc[p] = "enqueue" /\ Decide(p, "failed", "unstarted", None)
  /\ UNCHANGED <<request, sets, claim, clock, bridge, seen>>

(* The worker is offline (try again later), or was replaced or no longer   *)
(* supports the operation (fail).                                          *)
WorkerUnavailable(p) ==
  /\ pc[p] \in {"admit", "enqueue"} /\ ~seen[p].cancel
  /\ \E next \in {"unclaim", "failwrite"} : InTime(p, queueOpen, next)
  /\ UNCHANGED <<request, sets, claim, clock, bridge, seen, out>>

(* acquireLock with reuseOwned; not the head of the queue, or the lock is  *)
(* another's: nothing happens.                                             *)
Acquire(p) ==
  /\ pc[p] = "admit" /\ ~seen[p].cancel
  /\ \/ InTime(p, queueOpen, "reread") /\ UNCHANGED lock
     \/ /\ waiting /\ AdmissionFence(p) /\ lock \in {None, "req"}
        /\ lock' = "req"
        /\ Sent(p, "enqueue")
  /\ UNCHANGED <<request, sets, claim, clock, marker, pushed, command, stored, gate,
                 settlement, committed, seen, out>>

(* enqueueForActiveIncarnation: the command is queued and the request      *)
(* becomes admitted in one script.  A fence that fails changes nothing.    *)
Enqueue(p) ==
  /\ pc[p] = "enqueue"
  /\ IF ~AdmissionFence(p) \/ lock # "req"
       THEN Replied(p, "reread") /\ UNCHANGED <<request, bridge>>
       ELSE IF marker # None
       THEN Replied(p, "failwrite") /\ UNCHANGED <<request, bridge>>   \* WORKSPACE_QUARANTINED
       ELSE /\ state' = "admitted"
            /\ pushed' = pushed + 1 /\ command' = "queued"
            /\ stored' = TRUE /\ gate' = TRUE /\ marker' = "req"
            /\ Sent(p, "reread")
            /\ UNCHANGED <<reason, cancel, kept, lock, settlement, committed>>
  /\ UNCHANGED <<sets, claim, clock, seen, out>>

-----------------------------------------------------------------------------
(* Observation of an admitted request *)

(* The outcome of a settlement.                                            *)
FromSettlement(p) ==
  IF settlement = "fulfilled"
    THEN \/ Decide(p, "completed", "settled", "fulfilled")
         \/ Decide(p, "failed", "settled", None)               \* RESULT_INVALID
    ELSE Decide(p, IF seen[p].cancel THEN "cancelled" ELSE "failed", "settled", "rejected")

(* No settlement, no deadline: look again later.                           *)
StillRunning(p) ==
  /\ pc[p] = "observe" /\ settlement = None /\ ~seen[p].cancel
  /\ InTime(p, gate \/ cancel, "reread")
  /\ UNCHANGED <<request, sets, claim, clock, bridge, seen, out>>

(* A settlement is there, or the wait for one is over (cancelled, or past  *)
(* the deadline by the replica's clock) and the close script arbitrates.   *)
Observe(p) ==
  /\ pc[p] = "observe"
  /\ IF settlement # None
       THEN FromSettlement(p) /\ UNCHANGED <<gate, stored>>
       ELSE /\ gate' = FALSE
            /\ stored' = (stored /\ marker = "req")
            /\ \/ Decide(p, IF seen[p].cancel /\ ~mutation THEN "cancelled" ELSE "failed", "expired", None)
               \/ LostReply(p) /\ UNCHANGED out
  /\ UNCHANGED <<request, sets, claim, clock, lock, marker, pushed, command, settlement,
                 committed, seen>>

-----------------------------------------------------------------------------
(* Outcome *)

(* The outcome of the transition is recorded while the claim is held.      *)
MayRecord(p) == claim = p /\ state \in {"queued", "admitted"}

Write(p) ==
  /\ pc[p] = "write"
  /\ IF MayRecord(p)
       THEN state' = out[p].state /\ reason' = out[p].reason /\ kept' = out[p].kept
       ELSE UNCHANGED <<state, reason, kept>>
  /\ Sent(p, "reread")
  /\ UNCHANGED <<cancel, sets, claim, clock, bridge, seen, out>>

(* A definite error ends a request that is still queued; an admitted one   *)
(* is left for the next attempt.                                           *)
FailWrite(p) ==
  /\ pc[p] = "failwrite"
  /\ \/ state = "admitted" /\ Replied(p, "unclaim") /\ UNCHANGED <<state, reason>>
     \/ /\ IF claim = p /\ state = "queued"
             THEN state' = "failed" /\ reason' = "unstarted"
             ELSE UNCHANGED <<state, reason>>
        /\ Sent(p, "reread")
  /\ UNCHANGED <<cancel, kept, sets, claim, clock, bridge, seen, out>>

Reread(p) ==
  /\ pc[p] = "reread"
  /\ Replied(p, IF state \in Ended THEN "commit" ELSE "unclaim")
  /\ seen' = [seen EXCEPT ![p] = [state |-> state, cancel |-> cancel]]
  /\ UNCHANGED <<request, sets, claim, clock, bridge, out>>

-----------------------------------------------------------------------------
(* finishDurableWorkspaceTool: none of its steps looks at the claim        *)

(* commitPendingWorkspace; a marker that is not the request's any more is  *)
(* an error, unless an earlier attempt removed it.                         *)
(* (AlreadyCommittedNever has no memory of an earlier attempt.)            *)
AlreadyCommittedNever == FALSE
AlreadyCommitted == committed

Commit(p) ==
  /\ pc[p] = "commit"
  /\ IF kept # "fulfilled"
       THEN Replied(p, "cleanup") /\ UNCHANGED <<marker, committed>>
       ELSE IF AlreadyCommitted
       THEN Replied(p, "cleanup") /\ UNCHANGED <<marker, committed>>
       ELSE IF marker = "req"
       THEN marker' = None /\ committed' = TRUE /\ Sent(p, "cleanup")
       ELSE Replied(p, "unclaim") /\ UNCHANGED <<marker, committed>>
  /\ UNCHANGED <<request, sets, claim, clock, lock, pushed, command, stored, gate,
                 settlement, seen, out>>

(* cleanup (nothing to clean when there was no assignment): an undelivered *)
(* command is withdrawn with its marker; when one was delivered and its    *)
(* marker is still there, the lock is kept.                                *)
Cleanup(p) ==
  LET undelivered == command = "queued"
      delivered   == command = "running"
      mark        == IF undelivered /\ marker = "req" THEN None ELSE marker
  IN
  /\ pc[p] = "cleanup"
  /\ IF pushed = 0
       THEN Replied(p, "unlock") /\ UNCHANGED <<command, marker, stored>>
       ELSE /\ command' = (IF undelivered THEN "removed" ELSE command)
            /\ marker' = mark
            /\ IF delivered /\ mark = "req"
                 THEN Sent(p, "leave") /\ UNCHANGED stored
                 ELSE Sent(p, "unlock") /\ stored' = FALSE
  /\ UNCHANGED <<request, sets, claim, clock, lock, pushed, gate, settlement, committed, seen, out>>

Unlock(p) ==
  /\ pc[p] = "unlock"
  /\ lock' = (IF lock = "req" THEN None ELSE lock)
  /\ Sent(p, "leave")
  /\ UNCHANGED <<request, sets, claim, clock, marker, pushed, command, stored, gate, settlement,
                 committed, seen, out>>

Leave(p) ==
  /\ pc[p] = "leave"
  /\ waiting' = FALSE
  /\ Sent(p, "retire")
  /\ UNCHANGED <<request, active, claim, clock, bridge, seen, out>>

Retire(p) ==
  /\ pc[p] = "retire"
  /\ active' = FALSE
  /\ Sent(p, "unclaim")
  /\ UNCHANGED <<request, waiting, claim, clock, bridge, seen, out>>

Unclaim(p) ==
  /\ pc[p] = "unclaim"
  /\ claim' = (IF claim = p THEN None ELSE claim)
  /\ Replied(p, "idle")
  /\ UNCHANGED <<request, sets, clock, bridge, seen, out>>

-----------------------------------------------------------------------------
(* Time, faults *)

(* The 8 s deadline of a transition: the claim is given back, the inner    *)
(* steps go on.                                                            *)
Inner == {"admit", "enqueue", "observe", "commit", "cleanup", "unlock", "leave"}
TransitionTimeout(p) ==
  /\ pc[p] \in Inner /\ p \notin zombie
  /\ faults < MaxFaults /\ faults' = faults + 1
  /\ zombie' = zombie \cup {p}
  /\ claim' = (IF claim = p THEN None ELSE claim)
  /\ UNCHANGED <<request, sets, clock, bridge, pc, seen, out>>

(* The claim runs out although its holder is alive.                        *)
ClaimExpires ==
  /\ claim # None /\ faults < MaxFaults
  /\ claim' = None /\ faults' = faults + 1
  /\ UNCHANGED <<request, sets, clock, bridge, proc>>

(* The replica dies; its claim runs out later.                             *)
Crash(p) ==
  /\ pc[p] # "idle" /\ faults < MaxFaults
  /\ faults' = faults + 1
  /\ pc' = [pc EXCEPT ![p] = "idle"] /\ zombie' = zombie \ {p}
  /\ UNCHANGED <<request, sets, claim, clock, bridge, seen, out>>

OrphanedClaimExpires ==
  /\ claim # None /\ pc[claim] = "idle"
  /\ claim' = None
  /\ UNCHANGED <<request, sets, clock, bridge, proc, faults>>

QueueDeadline ==
  /\ state # "absent" /\ queueOpen /\ queueOpen' = FALSE
  /\ UNCHANGED <<request, sets, claim, mutation, bridge, proc, faults>>

AssignmentDeadline ==
  /\ gate /\ gate' = FALSE
  /\ UNCHANGED <<request, sets, claim, clock, lock, marker, pushed, command, stored,
                 settlement, committed, proc, faults>>

(* The assignment, its queue entry and its acknowledgement expire.         *)
RecordsExpire ==
  /\ stored /\ ~gate
  /\ stored' = FALSE /\ command' = "ended"
  /\ UNCHANGED <<request, sets, claim, clock, lock, marker, pushed, gate, settlement,
                 committed, proc, faults>>

(* The TTL of the lock outlasts the deadline of an assignment.             *)
LockExpires ==
  /\ lock = "req" /\ ~gate
  /\ lock' = None
  /\ UNCHANGED <<request, sets, claim, clock, marker, pushed, command, stored, gate,
                 settlement, committed, proc, faults>>

-----------------------------------------------------------------------------
(* The worker (lease and acknowledgeLease, settle), and another assignment *)
(* for the same workspace that gets the worker when the lock is free.      *)
Start ==
  /\ command = "queued" /\ stored /\ gate
  /\ command' = "running"
  /\ UNCHANGED <<request, sets, claim, clock, lock, marker, pushed, stored, gate, settlement,
                 committed, proc, faults>>

Settle(s) ==
  /\ command = "running" /\ settlement = None
  /\ stored /\ marker = "req" /\ (s = "fulfilled" => gate)
  /\ settlement' = s /\ command' = "ended"
  /\ marker' = (IF s = "rejected" THEN None ELSE marker)
  /\ UNCHANGED <<request, sets, claim, clock, lock, pushed, stored, gate, committed, proc, faults>>

OtherStarts ==
  /\ lock = None
  /\ lock' = "other" /\ marker' = (IF marker = None THEN "other" ELSE marker)
  /\ UNCHANGED <<request, sets, claim, clock, pushed, command, stored, gate, settlement,
                 committed, proc, faults>>

OtherEnds ==
  /\ lock = "other"
  /\ lock' = None /\ marker' = (IF marker = "other" THEN None ELSE marker)
  /\ UNCHANGED <<request, sets, claim, clock, pushed, command, stored, gate, settlement,
                 committed, proc, faults>>

-----------------------------------------------------------------------------
Advance(p) ==
  \/ Claim(p) \/ Read(p) \/ DecideUnstarted(p) \/ WorkerUnavailable(p) \/ Acquire(p) \/ Enqueue(p)
  \/ StillRunning(p) \/ Observe(p) \/ Write(p) \/ FailWrite(p) \/ Reread(p)
  \/ Commit(p) \/ Cleanup(p) \/ Unlock(p) \/ Leave(p) \/ Retire(p) \/ Unclaim(p)

Next ==
  \/ Submit \/ Cancel
  \/ \E p \in Attempts : Advance(p) \/ TransitionTimeout(p) \/ Crash(p)
  \/ ClaimExpires \/ OrphanedClaimExpires \/ QueueDeadline \/ AssignmentDeadline
  \/ RecordsExpire \/ LockExpires
  \/ Start \/ (\E s \in {"fulfilled", "rejected"} : Settle(s)) \/ OtherStarts \/ OtherEnds

Spec == Init /\ [][Next]_vars

(* Replicas reconcile as long as a request is active, and deadlines pass.  *)
Fairness ==
  /\ WF_vars(QueueDeadline) /\ WF_vars(AssignmentDeadline) /\ WF_vars(OrphanedClaimExpires)
  /\ \A p \in Attempts : WF_vars(Advance(p))

FairSpec == Spec /\ Fairness

-----------------------------------------------------------------------------
(* Properties *)

(* At most one command is ever queued for a request, however its attempts  *)
(* overlap: uncertainty "is reconciled, never retried as a new command".   *)
OneCommand == pushed <= 1

(* A request reported as cancelled or failed before it started ("The       *)
(* operation was not started") was not and will not be sent to the worker. *)
UnstartedIsTrue == reason = "unstarted" => pushed = 0

(* The outcome of a request never changes again, although attempts that    *)
(* lost the claim still finish their work.                                 *)
OutcomeIsFinal == state \in Ended => request' = request

(* When a request has left the active set, nobody will look at it again.   *)
(* If it was completed or never started, it holds neither the worker nor   *)
(* the workspace nor a place in the queue any more.                        *)
NothingLeftBehind ==
  (~active /\ (state = "completed" \/ reason = "unstarted"))
    => lock # "req" /\ marker # "req" /\ ~waiting

(* Whatever attempts of several replicas do to a durable request at once:  *)
(* one command at most, an outcome that is true and final, and nothing     *)
(* left behind (workspace-tools/requests.ts).                              *)
RequestsSafe ==
  /\ [](TypeOK /\ OneCommand /\ UnstartedIsTrue /\ NothingLeftBehind)
  /\ [][OutcomeIsFinal]_vars

(* Every submitted request ends and leaves the active set, whatever the    *)
(* worker does and however often an attempt was interrupted.               *)
EventuallyRetired == state = "queued" ~> (state \in Ended /\ ~active)
=============================================================================
