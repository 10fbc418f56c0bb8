----------------------------- MODULE SandboxJob -----------------------------
(* Stateless executions in one sandbox runner: the pool of user ids          *)
(* (api/src/workspace-isolation.ts), the phases of a job (api/src/job.ts),   *)
(* the gate around the mount phase of NsJail (nsjail-setup-gate.ts,          *)
(* nsjail.ts) and the route that owns the cleanup (api/v2.ts).  Workspaces   *)
(* have random names: the workspace of a job is named by the job.            *)
EXTENDS Integers, FiniteSets, Sequences, FiniteSetsExt

CONSTANTS
    Jobs,       \* requests to /execute
    Slots,      \* 0 .. slotCount - 1
    Files,      \* how many files a job primes
    Retries,    \* overlapping calls of retryRetainedWorkspaceCleanups
    MaxFaults,  \* bound on failing file system calls
    None

VARIABLES
    pc,         \* where each request is
    aborted,    \* its caller has disconnected
    uid,        \* jobIdentity.slot; kept after release
    active,     \* activeSlots
    queue,      \* jobQueue
    dir,        \* the workspace on disk
    ids,        \* activeWorkspaceIds
    left,       \* file operations not yet started
    busy,       \* file operations under way
    failed,     \* firstFailure is set
    calls,      \* safeCalls still to make (compile, run)
    gate,       \* the chain of the setup gate, its holder first
    child,      \* the NsJail process
    timedOut,   \* jobs whose holder was let go before its mounts were done
    retained,   \* retainedWorkspaceCleanups
    timer,      \* retainedWorkspaceRetryTimer
    todo,       \* the snapshot each retry still goes through
    jobFaults

vars == <<pc, aborted, uid, active, queue, dir, ids, left, busy, failed, calls,
          gate, child, timedOut, retained, timer, todo, jobFaults>>
poolVars == <<uid, active, queue>>
dirVars == <<dir, ids>>
primeVars == <<left, busy, failed>>
runVars == <<calls, gate, child, timedOut>>
retryVars == <<retained, timer, todo>>

Init ==
    /\ pc = [j \in Jobs |-> "new"] /\ aborted = {}
    /\ uid = [j \in Jobs |-> None] /\ active = {} /\ queue = <<>>
    /\ dir = [j \in Jobs |-> "none"] /\ ids = {}
    /\ left = [j \in Jobs |-> Files] /\ busy = [j \in Jobs |-> 0] /\ failed = {}
    /\ calls = [j \in Jobs |-> 0] /\ gate = <<>> /\ child = [j \in Jobs |-> "none"]
    /\ timedOut = {}
    /\ retained = {} /\ timer = FALSE /\ todo = [r \in Retries |-> {}]
    /\ jobFaults = 0

Fault == jobFaults < MaxFaults /\ jobFaults' = jobFaults + 1
Go(j, where) == pc' = [pc EXCEPT ![j] = where]

(* One turn of the loop of acquireJobIdentity: the lowest free slot, or a    *)
(* place at the end of the queue.                                            *)
AcquireJobIdentity(j) ==
    IF active # Slots
    THEN LET s == Min(Slots \ active) IN
         /\ active' = active \cup {s} /\ uid' = [uid EXCEPT ![j] = s]
         /\ Go(j, "create") /\ UNCHANGED queue
    ELSE queue' = Append(queue, j) /\ Go(j, "waiting") /\ UNCHANGED <<uid, active>>

(* A request passes the checks of the route and primes its job, or is        *)
(* refused.  Jobs are named in the order of their arrival.                   *)
Arrive(j) ==
    /\ pc[j] = "new" /\ \A k \in Jobs : k < j => pc[k] # "new"
    /\ \/ AcquireJobIdentity(j)
       \/ Go(j, "done") /\ UNCHANGED poolVars
    /\ UNCHANGED <<aborted, dirVars, primeVars, runVars, retryVars, jobFaults>>

(* The promise of a waiting job was resolved.  Nothing but other microtasks  *)
(* comes between that and this step: another job may take the slot first,    *)
(* but no disconnect is seen.                                                *)
Resume(j) ==
    /\ pc[j] = "woken" /\ AcquireJobIdentity(j)
    /\ UNCHANGED <<aborted, dirVars, primeVars, runVars, retryVars, jobFaults>>

(* releaseJobIdentity: return the slot and wake the first waiter.            *)
Release(s, pcs) ==
    /\ active' = active \ {s} /\ UNCHANGED uid
    /\ IF queue = <<>>
       THEN UNCHANGED queue /\ pc' = pcs
       ELSE queue' = Tail(queue) /\ pc' = [pcs EXCEPT ![Head(queue)] = "woken"]

(* The caller disconnects.  Who waits for a slot leaves the queue; a running *)
(* child is sent SIGTERM, and the gate no longer waits for it.               *)
Disconnect(j) ==
    /\ pc[j] \notin {"new", "woken", "done"} /\ j \notin aborted
    /\ aborted' = aborted \cup {j}
    /\ IF pc[j] = "waiting"
       THEN queue' = SelectSeq(queue, LAMBDA k : k # j) /\ Go(j, "cleanup")
       ELSE UNCHANGED <<queue, pc>>
    /\ UNCHANGED <<uid, active, dirVars, primeVars, runVars, retryVars, jobFaults>>

(* createSandboxWorkspace makes the directory ...                            *)
MakeWorkspace(j) ==
    /\ pc[j] = "create" /\ dir[j] = "none"
    /\ dir' = [dir EXCEPT ![j] = "fresh"]
    /\ UNCHANGED <<pc, aborted, poolVars, ids, primeVars, runVars, retryVars, jobFaults>>

(* ... and gives it to the job's user, who then primes.  When that fails the *)
(* directory is removed, if possible, and the job has no lease to clean up.  *)
OwnWorkspace(j) ==
    /\ pc[j] = "create" /\ dir[j] = "fresh"
    /\ \/ /\ dir' = [dir EXCEPT ![j] = "live"] /\ ids' = ids \cup {j}
          /\ Go(j, IF j \in aborted THEN "cleanup" ELSE "prime")
          /\ UNCHANGED jobFaults
       \/ /\ \E d \in {"none", "left"} : dir' = [dir EXCEPT ![j] = d]
          /\ Go(j, "cleanup") /\ Fault /\ UNCHANGED ids
    /\ UNCHANGED <<aborted, poolVars, primeVars, runVars, retryVars>>

(* A worker of the batch takes the next file, unless the batch was aborted.  *)
StartFile(j) ==
    /\ pc[j] = "prime" /\ left[j] > 0 /\ j \notin failed \cup aborted
    /\ left' = [left EXCEPT ![j] = @ - 1] /\ busy' = [busy EXCEPT ![j] = @ + 1]
    /\ UNCHANGED <<pc, aborted, poolVars, dirVars, failed, runVars, retryVars, jobFaults>>

(* A download or an inline write ends.  The first failure aborts the others; *)
(* they may still be writing.                                                *)
EndFile(j) ==
    /\ busy[j] > 0 /\ busy' = [busy EXCEPT ![j] = @ - 1]
    /\ failed' \in {failed, failed \cup {j}}
    /\ UNCHANGED <<pc, aborted, poolVars, dirVars, left, runVars, retryVars, jobFaults>>

BatchOver(j) == left[j] = 0 \/ j \in failed \/ j \in aborted

(* (Promise.all instead of Promise.allSettled.)                              *)
FirstSettled(j) == BatchOver(j) /\ (j \in failed \/ busy[j] = 0)

(* The batch is over once every operation has settled.                       *)
AllSettled(j) == BatchOver(j) /\ busy[j] = 0

(* The end of prime, and execute up to the setup gate: an interpreted        *)
(* program needs one call, a compiled one two.                               *)
Primed(j) ==
    /\ pc[j] = "prime" /\ AllSettled(j)
    /\ IF j \in failed \cup aborted
       THEN Go(j, "cleanup") /\ UNCHANGED <<calls, gate>>
       ELSE /\ \E n \in {1, 2} : calls' = [calls EXCEPT ![j] = n]
            /\ gate' = Append(gate, j) /\ Go(j, "gate")
    /\ UNCHANGED <<aborted, poolVars, dirVars, primeVars, child, timedOut, retryVars, jobFaults>>

(* runSetup: the holder of the gate spawns NsJail.                           *)
Spawn(j) ==
    /\ pc[j] = "gate" /\ Head(gate) = j
    /\ \/ /\ j \notin aborted /\ child' = [child EXCEPT ![j] = "setup"]
          /\ Go(j, "setup") /\ UNCHANGED <<gate, jobFaults>>
       \/ /\ j \in aborted /\ gate' = Tail(gate) /\ Go(j, "cleanup")
          /\ UNCHANGED <<child, jobFaults>>
       \/ /\ j \notin aborted /\ gate' = Tail(gate) /\ Go(j, "cleanup") /\ Fault
          /\ UNCHANGED child
    /\ UNCHANGED <<aborted, poolVars, dirVars, primeVars, calls, timedOut, retryVars>>

(* NsJail finishes its mounts and logs the marker, or ends: because the      *)
(* program is done, at a limit, or because it was sent a signal.             *)
ChildSteps(j) ==
    /\ \/ child[j] = "setup" /\ child' = [child EXCEPT ![j] = "running"]
       \/ child[j] \in {"setup", "running"} /\ child' = [child EXCEPT ![j] = "dead"]
    /\ UNCHANGED <<pc, aborted, poolVars, dirVars, primeVars, calls, gate, timedOut, retryVars, jobFaults>>

(* pollForMarker: the gate is let go when the marker is seen, the child has  *)
(* died or is being cancelled, or the watchdog fires.                        *)
LetGo(j) ==
    /\ pc[j] = "setup" /\ gate' = Tail(gate) /\ Go(j, "run")
    /\ timedOut' = IF child[j] = "setup" THEN timedOut \cup {j} ELSE timedOut
    /\ UNCHANGED <<aborted, poolVars, dirVars, primeVars, calls, child, retryVars, jobFaults>>

(* The streams are drained and the exit code is known.                       *)
ExitSeen(j) == child[j] = "dead"

(* execute returns: after a successful compilation the program runs; then    *)
(* the outputs are collected and uploaded.  An abort, a failed spawn or a    *)
(* failed stream ends the job; a failed compilation skips the run.           *)
Exited(j) ==
    /\ pc[j] = "run" /\ ExitSeen(j)
    /\ child' = [child EXCEPT ![j] = IF @ = "dead" THEN "none" ELSE @]
    /\ \/ /\ j \notin aborted /\ calls[j] = 2
          /\ calls' = [calls EXCEPT ![j] = 1]
          /\ gate' = Append(gate, j) /\ Go(j, "gate")
       \/ j \notin aborted /\ Go(j, "upload") /\ UNCHANGED <<calls, gate>>
       \/ Go(j, "cleanup") /\ UNCHANGED <<calls, gate>>
    /\ UNCHANGED <<aborted, poolVars, dirVars, primeVars, timedOut, retryVars, jobFaults>>

(* Collecting and uploading the outputs has ended, well or not.              *)
Uploaded(j) ==
    /\ pc[j] = "upload" /\ Go(j, "cleanup")
    /\ UNCHANGED <<aborted, poolVars, dirVars, primeVars, runVars, retryVars, jobFaults>>

(* Job.cleanup, called once by the route.  A workspace that cannot be        *)
(* removed is put in quarantine, and keeps the slot until it is gone.        *)
Cleanup(j) ==
    /\ pc[j] = "cleanup"
    /\ \/ /\ j \notin ids /\ uid[j] = None /\ Go(j, "done")
          /\ UNCHANGED <<poolVars, dirVars, retained, timer, jobFaults>>
       \/ /\ j \notin ids /\ uid[j] # None /\ Release(uid[j], [pc EXCEPT ![j] = "done"])
          /\ UNCHANGED <<dirVars, retained, timer, jobFaults>>
       \/ /\ j \in ids /\ dir' = [dir EXCEPT ![j] = "none"] /\ ids' = ids \ {j}
          /\ Release(uid[j], [pc EXCEPT ![j] = "done"])
          /\ UNCHANGED <<retained, timer, jobFaults>>
       \/ /\ j \in ids /\ Fault
          /\ dir' = [dir EXCEPT ![j] = "quarantined"] /\ ids' = ids \ {j}
          /\ retained' = retained \cup {j} /\ timer' = TRUE
          /\ Go(j, "done") /\ UNCHANGED poolVars
    /\ UNCHANGED <<aborted, primeVars, runVars, todo>>

(* A retry begins, on its timer or on the interval of the reaper, with the   *)
(* cleanups retained at that moment.                                         *)
RetryBegins(r) ==
    /\ todo[r] = {} /\ retained # {}
    /\ todo' = [todo EXCEPT ![r] = retained] /\ timer' = FALSE
    /\ UNCHANGED <<pc, aborted, poolVars, dirVars, primeVars, runVars, retained, jobFaults>>

(* The slot is released by whoever takes the entry out of the map.           *)
ReleaseRetained(j) ==
    IF j \in retained THEN Release(uid[j], pc) ELSE UNCHANGED <<pc, poolVars>>

(* The retry goes on to the next entry of its snapshot.  Removing what is    *)
(* already gone succeeds.  The last one arms the timer again.                *)
RetryOne(r, j) ==
    /\ j \in todo[r] /\ todo' = [todo EXCEPT ![r] = @ \ {j}]
    /\ \/ /\ dir' = [dir EXCEPT ![j] = "none"]
          /\ ReleaseRetained(j) /\ retained' = retained \ {j}
          /\ UNCHANGED jobFaults
       \/ Fault /\ UNCHANGED <<dir, retained, pc, poolVars>>
    /\ timer' = IF todo[r] = {j} THEN timer \/ retained' # {} ELSE timer
    /\ UNCHANGED <<aborted, ids, primeVars, runVars>>

(* reapStaleWorkspaces removes what is old, not in use and not retained.     *)
Reapable(j) ==
    dir[j] \in {"live", "left", "quarantined"} /\ j \notin ids /\ j \notin retained

Reap(j) ==
    /\ Reapable(j) /\ dir' = [dir EXCEPT ![j] = "none"]
    /\ UNCHANGED <<pc, aborted, poolVars, ids, primeVars, runVars, retryVars, jobFaults>>

Next ==
    \/ \E j \in Jobs :
        \/ Arrive(j) \/ Resume(j) \/ Disconnect(j) \/ MakeWorkspace(j) \/ OwnWorkspace(j)
        \/ StartFile(j) \/ EndFile(j) \/ Primed(j) \/ Spawn(j) \/ ChildSteps(j)
        \/ LetGo(j) \/ Exited(j) \/ Uploaded(j) \/ Cleanup(j) \/ Reap(j)
    \/ \E r \in Retries : RetryBegins(r) \/ \E j \in Jobs : RetryOne(r, j)

Spec == Init /\ [][Next]_vars
-----------------------------------------------------------------------------
Inside == {"prime", "gate", "setup", "run", "upload"}
Holding(j) == pc[j] \in Inside \cup {"create"} \/ (pc[j] = "cleanup" /\ uid[j] # None)

TypeOK ==
    /\ pc \in [Jobs -> Inside \cup {"new", "waiting", "woken", "create", "cleanup", "done"}]
    /\ uid \in [Jobs -> Slots \cup {None}] /\ active \subseteq Slots
    /\ dir \in [Jobs -> {"none", "fresh", "live", "left", "quarantined"}]
    /\ \A j \in Jobs : left[j] \in 0 .. Files /\ busy[j] \in 0 .. Files
    /\ child \in [Jobs -> {"none", "setup", "running", "dead"}]
    /\ ids \subseteq Jobs /\ retained \subseteq Jobs /\ timer \in BOOLEAN

(* What is there under a user id belongs to one job: its process, its file   *)
(* operations, and its workspace until it is gone.                           *)
Occupies(j) ==
    child[j] # "none" \/ busy[j] > 0 \/ dir[j] \in {"live", "quarantined"}
UidExclusive ==
    \A j, k \in Jobs : j # k /\ Occupies(j) /\ (Occupies(k) \/ Holding(k)) => uid[j] # uid[k]

(* A slot is taken exactly while a job or a retained workspace has it.       *)
SlotsAccounted == active = {uid[j] : j \in {k \in Jobs : Holding(k) \/ k \in retained}}

(* Nothing of a job goes on after its cleanup, and its workspace is there as *)
(* long as it needs it.                                                      *)
CleanupIsLast ==
    \A j \in Jobs :
        /\ pc[j] \in {"cleanup", "done"} => child[j] = "none" /\ busy[j] = 0
        /\ pc[j] \in Inside => dir[j] = "live" /\ j \in ids

(* Two mount phases overlap only when the gate gave up on one of them.       *)
SetupSerial ==
    \A j, k \in Jobs : j # k /\ child[j] = "setup" /\ child[k] = "setup" => {j, k} \cap timedOut # {}

(* A free slot and a waiting job meet: someone has been woken for it.        *)
NoLostWakeup == queue # <<>> /\ active # Slots => \E j \in Jobs : pc[j] = "woken"

(* A retained workspace is tried again.                                      *)
RetainedRetried == retained # {} => timer \/ \E r \in Retries : todo[r] # {}

(* Executions of one runner do not meet: a user id is one job's until its    *)
(* process, its writes and its workspace are gone, whatever fails and        *)
(* whoever disconnects; no slot is lost, and no waiting job forgotten        *)
(* (acquireJobIdentity, cleanup and retryRetainedWorkspaceCleanups).         *)
SandboxSafe ==
    TypeOK /\ UidExclusive /\ SlotsAccounted /\ CleanupIsLast /\ SetupSerial
    /\ NoLostWakeup /\ RetainedRetried
=============================================================================
