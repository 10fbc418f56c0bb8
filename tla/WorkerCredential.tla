-------------------------- MODULE WorkerCredential --------------------------
(* The credential of a paired worker (packages/code/src/worker.ts): callers  *)
(* share a refresh in flight, the rotated credential is saved before it is   *)
(* used, and a worker that has not registered yet may recover one with its   *)
(* key (credential-recovery.ts).  Credentials are numbered as the server     *)
(* issues them; a later one expires later.  Whether the server still takes   *)
(* the one in use is left open.                                              *)
EXTENDS Integers, Sequences

CONSTANTS
    Callers,        \* the main loop, the heartbeat and assignments
    MaxRefreshes,   \* bound on the refreshes of a process
    MaxIssued,      \* bound on the credentials issued
    MaxFaults,      \* bound on lost messages and failures of the disk
    None

VARIABLES
    issued,     \* the last credential the server has issued
    file,       \* the credential in the identity file
    mem,        \* the one the worker uses; 0 if it is not running
    registered, \* lastRegisteredAtMs is set
    refreshes,  \* the refreshes of this process
    current,    \* credentialInFlight
    call,       \* [Callers -> what a caller does]
    saved,      \* credentials that have been in the identity file
    stale,      \* refreshes abandoned when nothing stopped them any more
    faults

vars == <<issued, file, mem, registered, refreshes, current, call, saved, stale, faults>>
disk == <<file, saved>>

Idle == [pc |-> "idle", need |-> 0, on |-> None]

Init ==
    /\ issued = 1 /\ file = 1 /\ saved = {1} /\ mem = 0 /\ registered = FALSE
    /\ refreshes = <<>> /\ current = None /\ call = [c \in Callers |-> Idle]
    /\ stale = {} /\ faults = 0

Fault == faults < MaxFaults /\ faults' = faults + 1
Step(e, state) == refreshes' = [refreshes EXCEPT ![e].state = state]
At(e, states) == e \in DOMAIN refreshes /\ refreshes[e].state \in states
Move(c, pc, need, on) == call' = [call EXCEPT ![c] = [pc |-> pc, need |-> need, on |-> on]]
-----------------------------------------------------------------------------
(* run loads the identity; a crash loses everything but the file.            *)
Start ==
    /\ mem = 0 /\ mem' = file
    /\ UNCHANGED <<issued, disk, registered, refreshes, current, call, stale, faults>>

Crash ==
    /\ mem # 0 /\ mem' = 0 /\ registered' = FALSE /\ refreshes' = <<>> /\ current' = None
    /\ call' = [c \in Callers |-> Idle] /\ stale' = {}
    /\ UNCHANGED <<issued, disk, faults>>

register ==
    /\ mem # 0 /\ ~registered /\ registered' = TRUE
    /\ UNCHANGED <<issued, disk, mem, refreshes, current, call, stale, faults>>

(* refreshCredential: a caller waits for the refresh in flight and then      *)
(* looks again; with none in flight it needs none, or starts its own.        *)
(* "need" is the first credential that is good for as long as it asks: the   *)
(* one in use, a later one, or one the server would not issue yet.           *)
refreshCredential(c) ==
    /\ mem # 0 /\ call[c].pc \in {"idle", "again", "ok"}
    /\ \E need \in (IF call[c].pc = "again" THEN {call[c].need} ELSE {mem, mem + 1, issued + 2}) :
        \/ /\ current # None /\ Move(c, "joined", need, current)
           /\ refreshes' = [refreshes EXCEPT ![current].waiters = @ \cup {c}] /\ UNCHANGED current
        \/ /\ current = None /\ mem >= need /\ Move(c, "ok", need, None)
           /\ UNCHANGED <<refreshes, current>>
        \/ /\ current = None /\ mem < need /\ Len(refreshes) < MaxRefreshes
           /\ refreshes' = Append(refreshes, [state |-> "sent", got |-> 0, need |-> need,
                                              waiters |-> {c}, aborted |-> FALSE])
           /\ current' = Len(refreshes) + 1 /\ Move(c, "owner", need, Len(refreshes) + 1)
    /\ UNCHANGED <<issued, disk, mem, registered, stale, faults>>

(* The server issues a credential; its answer may be lost.                   *)
Issue(e) ==
    /\ issued < MaxIssued /\ issued' = issued + 1
    /\ \/ refreshes' = [refreshes EXCEPT ![e].state = "answered", ![e].got = issued + 1] /\ UNCHANGED faults
       \/ Fault /\ Step(e, "failed")

(* The request for a new credential, signed with the one in use.  Only a     *)
(* worker that has never registered goes on to recover an expired one.       *)
Rotate(e) ==
    /\ At(e, {"sent"})
    /\ \/ Issue(e)
       \/ /\ Step(e, IF registered THEN "failed" ELSE "recovering")
          /\ UNCHANGED <<issued, faults>>
       \/ Fault /\ Step(e, "failed") /\ UNCHANGED issued
    /\ UNCHANGED <<disk, mem, registered, current, call, stale>>

(* recoverWorkerCredential: a challenge, and a credential for its signature. *)
recoverWorkerCredential(e) ==
    /\ At(e, {"recovering"})
    /\ IF refreshes[e].aborted THEN Step(e, "failed") /\ UNCHANGED <<issued, faults>>
       ELSE \/ Issue(e)
            \/ Fault /\ Step(e, "failed") /\ UNCHANGED issued
    /\ UNCHANGED <<disk, mem, registered, current, call, stale>>

(* An aborted transport fails.                                               *)
AbortTransport(e) ==
    /\ At(e, {"sent"}) /\ refreshes[e].aborted /\ Step(e, "failed")
    /\ UNCHANGED <<issued, disk, mem, registered, current, call, stale, faults>>

(* The answer is looked at once the caller is known to be there still.       *)
Take(e) ==
    /\ At(e, {"answered"})
    /\ Step(e, IF refreshes[e].aborted \/ refreshes[e].got < refreshes[e].need THEN "failed" ELSE "saving")
    /\ UNCHANGED <<issued, disk, mem, registered, current, call, stale, faults>>

(* onIdentityChange: savePrivateJson writes beside the file and renames ...  *)
Save(e) ==
    /\ At(e, {"saving"})
    /\ \/ /\ file' = refreshes[e].got /\ saved' = saved \cup {refreshes[e].got} /\ Step(e, "renamed")
          /\ UNCHANGED faults
       \/ Fault /\ Step(e, "failed") /\ UNCHANGED disk
    /\ UNCHANGED <<issued, mem, registered, current, call, stale>>

(* ... and the credential is used when that is through.  The abort is not    *)
(* looked at again.                                                          *)
Usable(e) == At(e, {"renamed"})
Finish(e) ==
    /\ Usable(e)
    /\ \/ mem' = refreshes[e].got /\ Step(e, "done") /\ UNCHANGED faults
       \/ Fault /\ Step(e, "failed") /\ UNCHANGED mem
    /\ UNCHANGED <<issued, disk, registered, current, call, stale>>

After(f, state) ==
    IF state = "failed" THEN Idle
    ELSE [f EXCEPT !.pc = IF @ = "joined" THEN "again" ELSE "ok", !.on = None]
Settled == [state |-> "settled", got |-> 0, need |-> 0, waiters |-> {}, aborted |-> FALSE]

(* The refresh has settled; callers that joined it look again.               *)
Settle(e) ==
    /\ At(e, {"done", "failed"})
    /\ call' = [c \in Callers |-> IF c \in refreshes[e].waiters THEN After(call[c], refreshes[e].state) ELSE call[c]]
    /\ refreshes' = [refreshes EXCEPT ![e] = Settled]
    /\ current' = IF current = e THEN None ELSE current
    /\ UNCHANGED <<issued, disk, mem, registered, stale, faults>>

(* (One caller who leaves takes the refresh away from the others.)           *)
AbandonedByOne(e, c) == TRUE

(* waitForCredentialRefresh: the last to leave aborts the refresh.           *)
Abandoned(e, c) == refreshes[e].waiters = {c}
GiveUp(c) ==
    LET e == call[c].on IN
    /\ call[c].pc \in {"joined", "owner"} /\ call' = [call EXCEPT ![c] = Idle]
    /\ refreshes' = [refreshes EXCEPT ![e].waiters = @ \ {c}, ![e].aborted = @ \/ Abandoned(e, c)]
    /\ current' = IF Abandoned(e, c) /\ current = e THEN None ELSE current
    /\ stale' = IF Abandoned(e, c) /\ At(e, {"saving", "renamed"}) THEN stale \cup {e} ELSE stale
    /\ UNCHANGED <<issued, disk, mem, registered, faults>>

Next ==
    \/ Start \/ Crash \/ register
    \/ \E c \in Callers : refreshCredential(c) \/ GiveUp(c)
    \/ \E e \in 1..MaxRefreshes :
        Rotate(e) \/ recoverWorkerCredential(e) \/ AbortTransport(e) \/ Take(e) \/ Save(e) \/ Finish(e) \/ Settle(e)

Spec == Init /\ [][Next]_vars
-----------------------------------------------------------------------------
TypeOK ==
    /\ issued \in 1..MaxIssued /\ file \in 1..issued /\ mem \in 0..issued
    /\ \A c \in Callers : call[c].pc \in {"idle", "joined", "owner", "again", "ok"}

(* What the worker uses would be there after a crash, and if no refresh was  *)
(* abandoned while it was being saved, nothing older takes its place.        *)
Durable == mem \in saved \cup {0} /\ file \in saved /\ (stale = {} => mem <= file)

(* Who waits, waits for the one refresh in flight, which nobody has aborted. *)
Shared ==
    \A c \in Callers : call[c].pc \in {"joined", "owner"} =>
        /\ call[c].on = current /\ c \in refreshes[current].waiters /\ ~refreshes[current].aborted

OneInFlight ==
    \A e \in DOMAIN refreshes :
        refreshes[e].state # "settled" /\ ~refreshes[e].aborted => e = current

(* A caller goes on only with a credential that is good for as long as it    *)
(* asked.                                                                    *)
Sufficient == \A c \in Callers : call[c].pc = "ok" /\ stale = {} => mem >= call[c].need

(* Callers share one refresh without being able to cancel it for each other, *)
(* go on only with a credential that lasts, and a worker that crashes finds  *)
(* the one it used or a later one, except after a refresh that was abandoned *)
(* while it was saved, which still takes effect (refreshCredential,          *)
(* waitForCredentialRefresh, refreshCredentialOwned, savePrivateJson).       *)
CredentialSafe == TypeOK /\ Durable /\ Shared /\ OneInFlight /\ Sufficient
=============================================================================
