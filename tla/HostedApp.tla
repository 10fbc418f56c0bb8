----------------------------- MODULE HostedApp -----------------------------
(* The control plane of one hosted application (service/src/hosted-app): the *)
(* lease under which a job starts, stops or refreshes the application, the   *)
(* durable record, the immutable revisions, and the machines that a client   *)
(* token <<generation, retry>> names with the provider.  A request of the    *)
(* provider may be carried out although its answer is lost, a lease may run   *)
(* out under its holder, and a process may die between any two steps.        *)
EXTENDS Integers, FiniteSets

CONSTANTS
    Calls,      \* jobs that may hold the lease
    Revs,       \* revisions that are asked for (a revision names its settings)
    MaxGen,     \* bound on the generations allocated
    MaxSource,  \* bound on the versions of the source workspace
    MaxFaults,  \* bound on the number of faults
    Late,       \* TRUE: a replayed launch may create its machine hours later
    None

VARIABLES
    appLock,    \* the holder of the lease
    record,     \* the durable record
    age,        \* of its launch: 0 usable, 1 close to the deadline, 2 past everything
    retained,   \* revision -> the checkpoint it was frozen to
    gen,        \* generations allocated
    vm,         \* token -> "none", "up" or "down"
    app,        \* token -> the revision and checkpoint that run there
    rerun,      \* machines that a replay created, and no record knows yet
    stray,      \* machines created by a call that had lost its lease
    op, want, pc, seen, fix, tok,   \* of each call
    faults

shared == <<appLock, record, age, retained, gen, vm, app, rerun, stray>>
vars == <<appLock, record, age, retained, gen, vm, app, rerun, stray,
          op, want, pc, seen, fix, tok, faults>>

Tokens == (1 .. MaxGen) \X {0, 1}
Record(s, r, k, g, v) == [state |-> s, rev |-> r, ckpt |-> k, gen |-> g, vm |-> v]
Absent == Record("ABSENT", None, 0, 0, None)

Init ==
    /\ appLock = None /\ record = Absent /\ age = 0
    /\ retained = [r \in Revs |-> 0] /\ gen = 0
    /\ vm = [t \in Tokens |-> "none"] /\ app = [t \in Tokens |-> <<None, 0>>]
    /\ rerun = {} /\ stray = {}
    /\ op = [c \in Calls |-> None] /\ want = [c \in Calls |-> None]
    /\ pc = [c \in Calls |-> "idle"] /\ seen = [c \in Calls |-> Absent]
    /\ fix = [c \in Calls |-> 0] /\ tok = [c \in Calls |-> None] /\ faults = 0

Go(c, to) == pc' = [pc EXCEPT ![c] = to]
Fault == faults < MaxFaults /\ faults' = faults + 1
NoFault == faults' = faults
locals == <<op, want, seen, fix, tok>>
provider == <<vm, app, rerun, stray>>

-----------------------------------------------------------------------------
(* withLease.  The lease is released in a finally block; a call is over when *)
(* its pc is "idle" again.                                                   *)
Operations == {"start", "stop", "refresh", "status"}
Asked(c) ==
    \E o \in Operations, r \in Revs :
        op' = [op EXCEPT ![c] = o] /\ want' = [want EXCEPT ![c] = r]
Lease(c) ==
    /\ pc[c] = "idle" /\ appLock = None
    /\ appLock' = c /\ Asked(c)
    /\ Go(c, "read")
    /\ UNCHANGED <<record, age, retained, gen, vm, app, rerun, stray,
                   seen, fix, tok, faults>>

Release(c) ==
    /\ pc[c] = "release"
    /\ appLock' = IF appLock = c THEN None ELSE appLock
    /\ op' = [op EXCEPT ![c] = None] /\ want' = [want EXCEPT ![c] = None]
    /\ seen' = [seen EXCEPT ![c] = Absent] /\ fix' = [fix EXCEPT ![c] = 0]
    /\ tok' = [tok EXCEPT ![c] = None]
    /\ Go(c, "idle")
    /\ UNCHANGED <<record, age, retained, gen, vm, app, rerun, stray, faults>>

(* writeOrFence: the script writes only for the holder of the lease.  The    *)
(* answer may be lost whether or not it wrote; the caller then takes it for  *)
(* fenced.                                                                   *)
Write(c, r, ok) ==
    \/ ok /\ appLock = c /\ record' = r /\ NoFault
    \/ ~ok /\ appLock # c /\ UNCHANGED record /\ NoFault
    \/ ~ok /\ appLock = c /\ record' \in {record, r} /\ Fault

(* terminate: TRUE also when the provider does not know the machine.         *)
Terminate(t, ok) ==
    /\ \/ ok /\ vm' = [vm EXCEPT ![t] = "down"] /\ NoFault
       \/ ~ok /\ vm' \in {vm, [vm EXCEPT ![t] = "down"]} /\ Fault
    /\ app' = IF vm'[t] = "up" THEN app ELSE [app EXCEPT ![t] = <<None, 0>>]

-----------------------------------------------------------------------------
(* start.                                                                    *)
PendingLaunch(r) == r.state = "PENDING" /\ r.vm = None

(* The revision and the record are read, and the cases told apart: the same  *)
(* revision runs; the same launch is pending and is replayed; another launch *)
(* is pending and may still have a machine; otherwise a new launch follows.  *)
(* same: the launch configuration is still the recorded one.                 *)
ReadAndDecide(c, same) ==
    LET exact == record.rev = want[c]
        replay == exact /\ PendingLaunch(record) /\ same /\ age = 0
    IN  /\ seen' = [seen EXCEPT ![c] = record]
        /\ fix' = [fix EXCEPT ![c] = retained[want[c]]]
        /\ tok' = [tok EXCEPT ![c] = IF replay THEN <<record.gen, 0>> ELSE None]
        /\ Go(c, IF exact /\ record.state = "RUNNING" /\ same /\ age = 0 THEN "reassert"
                 ELSE IF PendingLaunch(record) /\ age < 2 /\ ~replay THEN "release"
                 ELSE IF retained[want[c]] = 0 THEN "capture"
                 ELSE IF record.vm # None THEN "replace" ELSE "intend")

StartReads(c) ==
    /\ pc[c] = "read" /\ op[c] = "start"
    /\ \E same \in BOOLEAN : ReadAndDecide(c, same)
    /\ UNCHANGED <<shared, op, want, faults>>

(* The runner and the resident process are asserted again; a machine that    *)
(* does not answer is written off as TERMINATING and then replaced.  Other   *)
(* errors end the call.                                                      *)
Reassert(c) ==
    /\ pc[c] = "reassert"
    /\ \/ /\ vm[seen[c].vm] = "up" /\ Go(c, "credential")
          /\ UNCHANGED faults
       \/ /\ vm[seen[c].vm] # "up" \/ faults < MaxFaults
          /\ faults' = IF vm[seen[c].vm] = "up" THEN faults + 1 ELSE faults
          /\ \E to \in {"replace", "release"} : Go(c, to)
    /\ UNCHANGED <<shared, locals>>

(* The workspace is frozen as it is now (captureHostedAppSourceCheckpoint,   *)
(* under the lock of the source session): at any version, for it is edited   *)
(* all the time.                                                             *)
Capture(c) ==
    /\ pc[c] = "capture"
    /\ \/ /\ \E k \in 1 .. MaxSource : fix' = [fix EXCEPT ![c] = k]
          /\ Go(c, "retain") /\ UNCHANGED faults
       \/ UNCHANGED fix /\ Go(c, "release") /\ Fault
    /\ UNCHANGED <<shared, op, want, seen, tok>>

(* (Unconditional.)                                                          *)
RetainLatest(r, k) == k

(* retainHostedAppRevision: a conditional write; whoever comes second reads  *)
(* what the first one wrote.                                                 *)
RetainRevision(r, k) == IF retained[r] = 0 THEN k ELSE retained[r]

Retain(c) ==
    /\ pc[c] = "retain"
    /\ LET k == RetainRevision(want[c], fix[c]) IN
        /\ retained' = [retained EXCEPT ![want[c]] = k]
        /\ fix' = [fix EXCEPT ![c] = k]
    /\ Go(c, IF seen[c].vm # None THEN "replace" ELSE "intend")
    /\ UNCHANGED <<appLock, record, age, gen, vm, app, rerun, stray,
                   op, want, seen, tok, faults>>

(* The previous machine goes first: the intention is written, then the       *)
(* machine is terminated.                                                    *)
Replace(c) ==
    /\ pc[c] = "replace"
    /\ \E ok \in BOOLEAN :
        /\ Write(c, [seen[c] EXCEPT !.state = "TERMINATING"], ok)
        /\ Go(c, IF ok THEN "evict" ELSE "release")
    /\ UNCHANGED <<appLock, age, retained, gen, vm, app, rerun, stray, locals>>

Evict(c) ==
    /\ pc[c] = "evict"
    /\ \E ok \in BOOLEAN :
        /\ Terminate(seen[c].vm, ok)
        /\ Go(c, IF ok THEN "intend" ELSE "release")
    /\ UNCHANGED <<appLock, record, age, retained, gen, rerun, stray, locals>>

(* A generation is allocated, or the one of the replayed launch kept, and    *)
(* the intent is written before the provider is asked.                       *)
Generation(c) == IF tok[c] # None THEN tok[c][1] ELSE gen + 1
Intend(c) ==
    LET g == Generation(c)
        intent == Record("PENDING", want[c], fix[c], g, None)
    IN  /\ pc[c] = "intend" /\ g <= MaxGen
        /\ gen' = IF tok[c] # None THEN gen ELSE gen + 1
        /\ \E ok \in BOOLEAN :
            /\ Write(c, intent, ok)
            /\ Go(c, IF ok THEN "launch" ELSE "release")
        /\ age' = IF record' = intent /\ tok[c] = None THEN 0 ELSE age
        /\ tok' = [tok EXCEPT ![c] = <<g, 0>>]
        /\ seen' = [seen EXCEPT ![c] = intent]
        /\ UNCHANGED <<appLock, retained, vm, app, rerun, stray, op, want, fix>>

(* launch and launchOnce: RunMicrovm with the token gives the machine that   *)
(* the token already named, or a new one.  A machine that died while booting *)
(* lets the call try the second token; when that one died too, the boot has  *)
(* failed for good.  Any other error leaves the outcome open.                *)
Launched(c, t, up) ==
    /\ vm' = [vm EXCEPT ![t] = IF @ = "none" THEN up ELSE @]
    /\ rerun' = IF vm[t] = "none" /\ Late /\ op[c] = "stop" THEN rerun \cup {t} ELSE rerun
    /\ stray' = IF vm[t] = "none" /\ appLock # c THEN stray \cup {t} ELSE stray

Boot(c) ==
    /\ pc[c] = "launch"
    /\ \/ /\ Launched(c, tok[c], "up") /\ UNCHANGED faults
          /\ IF vm'[tok[c]] = "up" THEN Go(c, "record") /\ UNCHANGED tok
             ELSE IF tok[c][2] = 0
                  THEN tok' = [tok EXCEPT ![c] = <<@[1], 1>>] /\ UNCHANGED pc
                  ELSE Go(c, "dead") /\ UNCHANGED tok
       \/ /\ Launched(c, tok[c], "down") /\ Fault
          /\ UNCHANGED <<tok, pc>>
       \/ /\ UNCHANGED <<vm, rerun, stray>> \/ Launched(c, tok[c], "up")
          /\ Fault /\ Go(c, "release") /\ UNCHANGED tok
    /\ UNCHANGED <<appLock, record, age, retained, gen, app, op, want, seen, fix>>

(* The machine's id is written into the record, with the deadline that the   *)
(* provider reports.  A fenced call terminates the machine.                  *)
RecordId(c) ==
    LET known == [seen[c] EXCEPT !.vm = tok[c]]
    IN  /\ pc[c] = "record"
        /\ \E ok \in BOOLEAN :
            /\ Write(c, known, ok)
            /\ Go(c, IF ~ok THEN "undo" ELSE IF op[c] = "stop" THEN "stopping" ELSE "restore")
        /\ seen' = [seen EXCEPT ![c] = known]
        /\ age' = IF record' = known /\ tok[c] \in rerun THEN 0 ELSE age
        /\ rerun' = IF record' = known THEN rerun \ {tok[c]} ELSE rerun
        /\ UNCHANGED <<appLock, retained, gen, vm, app, stray, op, want, fix, tok>>

(* waitForControlReady, restoreCheckpoint, startResidentApp.                 *)
Restore(c) ==
    /\ pc[c] = "restore"
    /\ \/ /\ vm[tok[c]] = "up" /\ UNCHANGED faults
          /\ app' = [app EXCEPT ![tok[c]] = <<None, fix[c]>>] /\ Go(c, "startapp")
       \/ /\ vm[tok[c]] # "up" /\ UNCHANGED <<app, faults>> /\ Go(c, "undo")
       \/ Fault /\ UNCHANGED app /\ Go(c, "undo")
    /\ UNCHANGED <<appLock, record, age, retained, gen, vm, rerun, stray, locals>>

StartApp(c) ==
    /\ pc[c] = "startapp"
    /\ \/ /\ vm[tok[c]] = "up" /\ UNCHANGED faults
          /\ app' = [app EXCEPT ![tok[c]] = <<want[c], @[2]>>] /\ Go(c, "credential")
       \/ /\ vm[tok[c]] # "up" /\ UNCHANGED <<app, faults>> /\ Go(c, "undo")
       \/ Fault /\ UNCHANGED app /\ Go(c, "undo")
    /\ UNCHANGED <<appLock, record, age, retained, gen, vm, rerun, stray, locals>>

(* persistPreviewCredential: RUNNING is written together with a credential.  *)
(* Only the call that launched the machine terminates it when that fails.    *)
Credential(c) ==
    /\ pc[c] = "credential"
    /\ \/ \E ok \in BOOLEAN :
            /\ Write(c, [seen[c] EXCEPT !.state = "RUNNING"], ok)
            /\ Go(c, IF ~ok /\ tok[c] # None THEN "undo" ELSE "release")
       \/ /\ Fault /\ UNCHANGED record
          /\ Go(c, IF tok[c] # None THEN "undo" ELSE "release")
    /\ UNCHANGED <<appLock, age, retained, gen, vm, app, rerun, stray, locals>>

(* The catch block of start, and of stop when its recovery was fenced: the   *)
(* machine is terminated, and what became of it is written if the lease is   *)
(* still there.                                                              *)
Undo(c) ==
    /\ pc[c] = "undo"
    /\ \E ok \in BOOLEAN :
        /\ Terminate(tok[c], ok)
        /\ seen' = [seen EXCEPT ![c].state = IF ok THEN "TERMINATED" ELSE "TERMINATING",
                                ![c].vm = IF ok THEN None ELSE tok[c]]
    /\ Go(c, IF op[c] = "stop" THEN "release" ELSE "undone")
    /\ UNCHANGED <<appLock, record, age, retained, gen, rerun, stray,
                   op, want, fix, tok>>

Undone(c) ==
    /\ pc[c] = "undone"
    /\ \E ok \in BOOLEAN : Write(c, seen[c], ok)
    /\ Go(c, "release")
    /\ UNCHANGED <<appLock, age, retained, gen, vm, app, rerun, stray, locals>>

(* Both tokens are dead: the intent is retired.                              *)
BothDead(c) ==
    /\ pc[c] = "dead"
    /\ IF op[c] = "stop" THEN UNCHANGED <<record, faults>> /\ Go(c, "stopped")
       ELSE /\ \E ok \in BOOLEAN : Write(c, [seen[c] EXCEPT !.state = "TERMINATED"], ok)
            /\ Go(c, "release")
    /\ UNCHANGED <<appLock, age, retained, gen, vm, app, rerun, stray, locals>>

(* (Takes a launch without id for one without machine.)                      *)

-----------------------------------------------------------------------------
(* stop.  A pending launch without id may have a machine: it is replayed to  *)
(* learn the machine's id, as long as the provider may still run it.         *)
StopReads(c) ==
    /\ pc[c] = "read" /\ op[c] = "stop"
    /\ seen' = [seen EXCEPT ![c] = record]
    /\ \E same \in BOOLEAN :
        IF record = Absent THEN Go(c, "release") /\ UNCHANGED tok
        ELSE IF PendingLaunch(record) /\ age < 2
        THEN /\ tok' = [tok EXCEPT ![c] = <<record.gen, 0>>]
             /\ Go(c, IF same THEN "launch" ELSE "release")
        ELSE /\ Go(c, IF record.vm # None THEN "stopping" ELSE "stopped")
             /\ UNCHANGED tok
    /\ UNCHANGED <<shared, op, want, fix, faults>>

Stopping(c) ==
    /\ pc[c] = "stopping"
    /\ \E ok \in BOOLEAN :
        /\ Write(c, [seen[c] EXCEPT !.state = "TERMINATING"], ok)
        /\ Go(c, IF ok THEN "kill" ELSE "release")
    /\ UNCHANGED <<appLock, age, retained, gen, vm, app, rerun, stray, locals>>

Kill(c) ==
    /\ pc[c] = "kill"
    /\ \E ok \in BOOLEAN :
        /\ Terminate(seen[c].vm, ok)
        /\ Go(c, IF ok THEN "stopped" ELSE "notstopped")
    /\ UNCHANGED <<appLock, record, age, retained, gen, rerun, stray, locals>>

NotStopped(c) ==
    /\ pc[c] = "notstopped"
    /\ \E ok \in BOOLEAN :
        Write(c, [seen[c] EXCEPT !.state = IF @ = "RUNNING" THEN @ ELSE "TERMINATING"], ok)
    /\ Go(c, "release")
    /\ UNCHANGED <<appLock, age, retained, gen, vm, app, rerun, stray, locals>>

Stopped(c) ==
    /\ pc[c] = "stopped"
    /\ \E ok \in BOOLEAN :
        Write(c, [seen[c] EXCEPT !.state = "TERMINATED", !.vm = None], ok)
    /\ Go(c, "release")
    /\ UNCHANGED <<appLock, age, retained, gen, vm, app, rerun, stray, locals>>

(* refreshPreview.                                                           *)
RefreshReads(c) ==
    /\ pc[c] = "read" /\ op[c] = "refresh"
    /\ seen' = [seen EXCEPT ![c] = record]
    /\ Go(c, IF record.state = "RUNNING" /\ age = 0 THEN "credential" ELSE "release")
    /\ UNCHANGED <<shared, op, want, fix, tok, faults>>

(* status asks the runner; it only reads.                                    *)
StatusReads(c) ==
    /\ pc[c] = "read" /\ op[c] = "status"
    /\ Go(c, "release")
    /\ UNCHANGED <<shared, locals, faults>>

-----------------------------------------------------------------------------
(* The surroundings.                                                         *)
LoseLease ==
    /\ appLock # None /\ Fault
    /\ appLock' = None
    /\ UNCHANGED <<record, age, retained, gen, vm, app, rerun, stray, pc, locals>>

Crash(c) ==
    /\ pc[c] \notin {"idle", "release"} /\ Fault
    /\ Go(c, "release")
    /\ UNCHANGED <<shared, locals>>

(* Time passes for the launch that the record describes.  When the hard      *)
(* deadline, its headroom and the launch timeout are over, the provider has  *)
(* ended every machine that was created when the intent was written.         *)
Age ==
    /\ record.state # "ABSENT" /\ age < 2
    /\ age = 1 => \A c \in Calls : pc[c] \notin {"intend", "launch"}
    /\ age' = age + 1
    /\ vm' = IF age' < 2 THEN vm
             ELSE [t \in Tokens |-> IF t[1] = record.gen /\ t \notin rerun /\ vm[t] = "up"
                                    THEN "down" ELSE vm[t]]
    /\ app' = [t \in Tokens |-> IF vm'[t] = "up" THEN app[t] ELSE <<None, 0>>]
    /\ UNCHANGED <<appLock, record, retained, gen, rerun, stray,
                   pc, locals, faults>>

Next ==
    \/ \E c \in Calls :
        \/ Lease(c) \/ Release(c) \/ StartReads(c) \/ Reassert(c) \/ Capture(c)
        \/ Retain(c) \/ Replace(c) \/ Evict(c) \/ Intend(c) \/ Boot(c) \/ RecordId(c)
        \/ Restore(c) \/ StartApp(c) \/ Credential(c) \/ Undo(c) \/ Undone(c)
        \/ BothDead(c) \/ StopReads(c) \/ Stopping(c) \/ Kill(c) \/ NotStopped(c)
        \/ Stopped(c) \/ RefreshReads(c) \/ StatusReads(c) \/ Crash(c)
    \/ LoseLease \/ Age

Spec == Init /\ [][Next]_vars

-----------------------------------------------------------------------------
(* The types of the control plane's state.                                   *)
TypeOK ==
    /\ appLock \in Calls \cup {None} /\ age \in 0 .. 2 /\ gen \in 0 .. MaxGen
    /\ record.state \in {"ABSENT", "PENDING", "RUNNING", "TERMINATING", "TERMINATED"}
    /\ record.vm \in Tokens \cup {None} /\ record.gen \in 0 .. gen
    /\ retained \in [Revs -> 0 .. MaxSource]
    /\ vm \in [Tokens -> {"none", "up", "down"}]
    /\ rerun \subseteq Tokens /\ stray \subseteq Tokens /\ faults \in 0 .. MaxFaults

(* No machine is lost: one that is up is named by the record, or by the      *)
(* launch that the record says is pending, or by a call that still has to    *)
(* deal with it.  So a record that says TERMINATED is true.  Excepted are    *)
(* machines created by a call that had lost its lease without noticing.      *)
(* (control-plane.ts: "never overwrite that intent with a different revision *)
(* and orphan a VM")                                                         *)
NoOrphanApp ==
    \A t \in Tokens \ stray : vm[t] = "up" =>
        \/ record.vm = t
        \/ PendingLaunch(record) /\ record.gen = t[1]
        \/ \E c \in Calls : pc[c] \in {"record", "undo"} /\ tok[c] = t

(* When a record says RUNNING and its machine is up, the checkpoint that     *)
(* the revision was frozen to has been restored there and the revision       *)
(* started, whichever calls raced to freeze it and however the workspace was *)
(* edited since.                                                             *)
ExactRevision ==
    record.state = "RUNNING" /\ vm[record.vm] = "up" =>
        app[record.vm] = <<record.rev, retained[record.rev]>>

(* What a publisher may rely on: no machine is lost, and the one that runs   *)
(* shows the exact revision.                                                 *)
AppSafe ==
    TypeOK /\ NoOrphanApp /\ ExactRevision
=============================================================================
