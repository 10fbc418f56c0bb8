---------------------------- MODULE WorkerProcess ----------------------------
(* One worker host (packages/code worker.ts): the lanes of a worker process,  *)
(* what they share in memory, and the durable guard of every workspace root   *)
(* and linked worktree (workspace-guards.ts, storage.ts), over crashes and    *)
(* restarts.  Code API may hand out its assignments in any order and at any   *)
(* time: nothing here rests on its own fences.                                *)
EXTENDS Naturals, FiniteSets

CONSTANTS
    Assignments, Mutations,  \* all of them, and those of a mutating operation
    Keys,                    \* isolation keys: checkouts and their worktrees
    KeyOf,                   \* [Assignments -> Keys]
    Parent,                  \* [Keys -> Keys or None]: workspaceIsolationParent
    MaxStarts,               \* bound on the processes started
    None

ASSUME ConstantsAssumption ==
    /\ Mutations \subseteq Assignments /\ MaxStarts \in Nat
    /\ KeyOf \in [Assignments -> Keys] /\ Parent \in [Keys -> Keys \cup {None}]
    /\ None \notin Assignments \cup Keys \cup {"partial"} /\ "partial" \notin Assignments

VARIABLES
    proc,         \* "off", "up", or "stopping": the signal is aborted
    mode,         \* "serial" or "slots": negotiatedWorkspaceSlots > 1
    starts,
    marker,       \* [k -> guard file: None, "partial", or its owner]
    pc, verdict,  \* of each assignment
    active,       \* activeWorkspaceAssignments, [k -> assignment or None]
    fenced,       \* quarantinedWorkspaces
    armed,        \* armedWorkspaces
    clearing,     \* removals of a guard file that outlived their timeout
    beat,         \* heartbeat of a serial execution: "rest", "strict", "lenient", "failed"
    dirty         \* history: mutations with effects that nobody has accounted for

vars == <<proc, mode, starts, marker, pc, verdict, active, fenced, armed, clearing, beat,
          dirty>>
disk == <<marker, dirty>>
life == <<proc, mode, starts>>
memory == <<active, fenced, armed, clearing, beat>>

Roots == {k \in Keys : Parent[k] = None}
Children(k) == {j \in Keys : Parent[j] = k}

(* workspaceIsolationKeysConflict                                             *)
Conflict(j, k) == j = k \/ Parent[j] = k \/ Parent[k] = j

Init ==
    /\ proc = "off" /\ mode = "serial" /\ starts = 0
    /\ marker = [k \in Keys |-> None]
    /\ pc = [a \in Assignments |-> "new"] /\ verdict = [a \in Assignments |-> "none"]
    /\ active = [k \in Keys |-> None]
    /\ fenced = {} /\ armed = {} /\ clearing = {} /\ beat = "rest"
    /\ dirty = {}

Goto(a, where) == pc' = [pc EXCEPT ![a] = where]
Ends(a, v) == verdict' = [verdict EXCEPT ![a] = v] /\ Goto(a, "settle")
Write(k, v) == marker' = [marker EXCEPT ![k] = v]
Entered == {"guard", "family", "ready", "arming", "armed", "exec", "settle", "clear",
            "report", "leave", "quarantine", "failed"}
InFlight == {a \in Assignments : pc[a] \in Entered \cup {"wait"}}
-----------------------------------------------------------------------------
(* registerOwned: a serial worker refuses to start while a checkout is        *)
(* guarded.                                                                   *)
Admits(m) == m = "serial" => \A k \in Roots : marker[k] = None

Start(m) ==
    /\ proc = "off" /\ starts < MaxStarts /\ Admits(m)
    /\ proc' = "up" /\ mode' = m /\ starts' = starts + 1
    /\ UNCHANGED <<disk, memory, pc, verdict>>

Forgets ==
    /\ pc' = [a \in Assignments |-> IF a \in InFlight THEN "lost" ELSE IF pc[a] = "fenced" THEN "done" ELSE pc[a]]
    /\ active' = [k \in Keys |-> None]
    /\ fenced' = {} /\ armed' = {} /\ clearing' = {} /\ beat' = "rest"

(* The process dies, with whatever its assignments had done so far.           *)
Crash ==
    /\ proc # "off" /\ proc' = "off" /\ Forgets
    /\ UNCHANGED <<mode, starts, disk, verdict>>

(* The caller's signal, a failed heartbeat of runConcurrent, a fenced worker. *)
Stop == proc = "up" /\ proc' = "stopping" /\ UNCHANGED <<mode, starts, disk, memory, pc, verdict>>

(* Every lane has returned.                                                   *)
Exit ==
    /\ proc = "stopping" /\ InFlight = {} /\ proc' = "off" /\ Forgets
    /\ UNCHANGED <<mode, starts, disk, verdict>>

(* The operator has inspected and restored a root, and clears its guard       *)
(* before the remote fence is reset (resetNativeWorkspace).                   *)
OperatorClears(k) ==
    /\ proc = "off" /\ marker[k] # None /\ Write(k, None)
    /\ dirty' = {a \in dirty : KeyOf[a] # k}
    /\ UNCHANGED <<life, memory, pc, verdict>>
-----------------------------------------------------------------------------
(* run and the lanes of runConcurrent.  A serial worker has one assignment at *)
(* a time and registers again before each.                                    *)
Lease(a) ==
    /\ proc = "up" /\ pc[a] = "new"
    /\ mode = "serial" => InFlight = {} /\ Admits("serial")
    /\ Goto(a, "wait")
    /\ UNCHANGED <<life, disk, memory, verdict>>

(* conflictingActiveAssignment                                                *)
(* (FreeKey overlooks the checkout of a worktree, and its worktrees.)         *)
FreeKey(k) == active[k] = None
Free(k) == \A j \in Keys : Conflict(j, k) => active[j] = None

(* executeAndSettle: wait until no conflicting assignment is active ...       *)
Enter(a) ==
    /\ pc[a] = "wait" /\ Free(KeyOf[a])
    /\ active' = [active EXCEPT ![KeyOf[a]] = a] /\ Goto(a, "guard")
    /\ UNCHANGED <<life, disk, fenced, armed, clearing, beat, verdict>>

(* ... or give the assignment back (rejectUnexecutedAssignment).              *)
GiveBack(a) ==
    /\ pc[a] = "wait" /\ Goto(a, "done")
    /\ UNCHANGED <<life, disk, memory, verdict>>

(* The credential could not be refreshed in time; the assignment is returned. *)
RefreshFails(a) ==
    /\ pc[a] = "guard" /\ (Goto(a, "failed") \/ Goto(a, "quarantine"))
    /\ UNCHANGED <<life, disk, memory, verdict>>

(* No fence of this process and no guard file, readable or not                *)
Available(k) == k \notin fenced /\ marker[k] = None

(* The guard of its own key ...                                               *)
CheckGuard(a) ==
    /\ pc[a] = "guard"
    /\ Goto(a, IF Available(KeyOf[a]) THEN "family" ELSE "quarantine")
    /\ UNCHANGED <<life, disk, memory, verdict>>

(* ... and assertLaneFamilyAvailable.                                         *)
FamilyAvailable(k) == \A j \in Children(k) \cup ({Parent[k]} \ {None}) : Available(j)

CheckFamily(a) ==
    /\ pc[a] = "family"
    /\ Goto(a, IF FamilyAvailable(KeyOf[a]) THEN "ready" ELSE "quarantine")
    /\ UNCHANGED <<life, disk, memory, verdict>>

(* The operation, the root or the mode is not advertised.                     *)
Refuse(a) ==
    /\ pc[a] = "ready" /\ Ends(a, "rejected")
    /\ UNCHANGED <<life, disk, memory>>

(* saveWorkspaceMutationQuarantine creates the file exclusively ...           *)
Arm(a) ==
    LET k == KeyOf[a] IN
    /\ pc[a] = "ready" /\ a \in Mutations /\ armed' = armed \cup {k}
    /\ IF marker[k] = None THEN Write(k, "partial") /\ Goto(a, "arming")
       ELSE Goto(a, "quarantine") /\ UNCHANGED marker
    /\ UNCHANGED <<life, dirty, active, fenced, clearing, beat, verdict>>

(* ... and writes the owner durably, or takes the file away again.            *)
Armed(a) ==
    /\ pc[a] = "arming"
    /\ \/ Write(KeyOf[a], a) /\ Goto(a, "armed")
       \/ Write(KeyOf[a], None) /\ Goto(a, "quarantine")
    /\ UNCHANGED <<life, dirty, memory, verdict>>

(* workspaceTools.execute or executeProgrammatic                              *)
Begins(a) ==
    /\ pc[a] = (IF a \in Mutations THEN "armed" ELSE "ready") /\ Goto(a, "exec")
    /\ dirty' = IF a \in Mutations THEN dirty \cup {a} ELSE dirty
    /\ UNCHANGED <<life, marker, memory, verdict>>

(* The deadline, a cancellation (watchCancellation), the heartbeat or the     *)
(* process cut it short, and it may have been applied.                        *)
CutShort(a) == a \in Mutations /\ Goto(a, "quarantine") /\ UNCHANGED <<verdict, dirty>>

(* It returned in time, or it failed and is known to have changed nothing.    *)
Returns(a) ==
    /\ pc[a] = "exec" /\ beat' = "rest"
    /\ \/ proc = "up" /\ beat # "failed" /\ Ends(a, "fulfilled") /\ UNCHANGED dirty
       \/ Ends(a, "rejected") /\ dirty' = dirty \ {a}
       \/ CutShort(a)
    /\ UNCHANGED <<life, marker, active, fenced, armed, clearing>>

(* maintainRegistration beside a serial execution.  Whether a guard may be    *)
(* armed is decided before the guards are read.                               *)
Beat(a) ==
    /\ mode = "serial" /\ pc[a] \in {"guard", "family", "ready", "arming", "armed", "exec"}
    /\ \/ beat = "rest" /\ beat' = IF armed = {} THEN "strict" ELSE "lenient"
       \/ beat = "lenient" /\ beat' = "rest"
       \/ beat = "strict" /\ beat' = IF Admits("serial") THEN "rest" ELSE "failed"
    /\ UNCHANGED <<life, disk, active, fenced, armed, clearing, pc, verdict>>
-----------------------------------------------------------------------------
(* settleWithRetry: the settlement arrives, with its reply or without.        *)
Settle(a) ==
    /\ pc[a] = "settle" /\ dirty' = dirty \ {a}
    /\ \/ Goto(a, IF marker[KeyOf[a]] = a THEN "clear" ELSE IF mode = "slots" THEN "report" ELSE "leave")
       \/ UNCHANGED pc
    /\ UNCHANGED <<life, marker, memory, verdict>>

(* It is refused, its time is over, or the process stops.  A mutation that    *)
(* was applied keeps its guard and becomes quarantined; any other error ends  *)
(* the lanes of a concurrent worker.                                          *)
SettleFails(a) ==
    /\ pc[a] = "settle"
    /\ Goto(a, IF verdict[a] = "fulfilled" /\ a \in Mutations THEN "quarantine" ELSE "failed")
    /\ UNCHANGED <<life, disk, memory, verdict>>

(* clearWorkspaceMutationQuarantine by the owner                              *)
Clear(a) ==
    /\ pc[a] = "clear" /\ Write(KeyOf[a], None)
    /\ armed' = armed \ {KeyOf[a]} /\ Goto(a, IF mode = "slots" THEN "report" ELSE "leave")
    /\ UNCHANGED <<life, dirty, active, fenced, clearing, beat, verdict>>

(* It failed before or after the file went, or it is still at it.             *)
ClearFails(a) ==
    /\ pc[a] = "clear" /\ Goto(a, "quarantine")
    /\ \/ Write(KeyOf[a], None) /\ UNCHANGED clearing
       \/ UNCHANGED <<marker, clearing>>
       \/ mode = "slots" /\ clearing' = clearing \cup {a} /\ UNCHANGED marker
    /\ UNCHANGED <<life, dirty, active, fenced, armed, beat, verdict>>

(* The file goes late; its owner was checked before.                          *)
ClearsLate(a) ==
    /\ a \in clearing /\ clearing' = clearing \ {a} /\ Write(KeyOf[a], None)
    /\ UNCHANGED <<life, dirty, active, fenced, armed, beat, pc, verdict>>

(* reportWorkspaceOwnership: the receipt of a slot's cleanup                  *)
Report(a) ==
    /\ pc[a] = "report" /\ (Goto(a, "leave") \/ Goto(a, "quarantine"))
    /\ UNCHANGED <<life, disk, memory, verdict>>

Leaves(a, where) == active' = [active EXCEPT ![KeyOf[a]] = None] /\ Goto(a, where)

Leave(a) ==
    /\ pc[a] = "leave" /\ Leaves(a, "done")
    /\ UNCHANGED <<life, disk, fenced, armed, clearing, beat, verdict>>

(* An error that does not concern the root ends a concurrent worker.          *)
Fail(a) ==
    /\ pc[a] = "failed" /\ Leaves(a, "done")
    /\ proc' = IF mode = "slots" THEN "stopping" ELSE proc
    /\ UNCHANGED <<mode, starts, disk, fenced, armed, clearing, beat, verdict>>

Fence(a) == fenced' = fenced \cup {KeyOf[a]}

(* BridgeWorkspaceQuarantinedError: the root is fenced in memory before it is *)
(* handed on, since its guard file may be gone already.  A serial worker      *)
(* ends; a lane reports the quarantine, or fails to, and goes on.             *)
Quarantine(a) ==
    /\ pc[a] = "quarantine" /\ Fence(a) /\ Leaves(a, "fenced")
    /\ proc' \in IF mode = "serial" THEN {"stopping"} ELSE {proc, "stopping"}
    /\ UNCHANGED <<mode, starts, disk, armed, clearing, beat, verdict>>

Next ==
    \/ \E m \in {"serial", "slots"} : Start(m)
    \/ Crash \/ Stop \/ Exit
    \/ \E k \in Keys : OperatorClears(k)
    \/ \E a \in Assignments :
        \/ Lease(a) \/ Enter(a) \/ GiveBack(a) \/ RefreshFails(a) \/ CheckGuard(a)
        \/ CheckFamily(a) \/ Refuse(a) \/ Arm(a) \/ Armed(a) \/ Begins(a) \/ Returns(a) \/ Beat(a)
        \/ Settle(a) \/ SettleFails(a) \/ Clear(a) \/ ClearFails(a) \/ ClearsLate(a)
        \/ Report(a) \/ Leave(a) \/ Fail(a) \/ Quarantine(a)

Spec == Init /\ [][Next]_vars
-----------------------------------------------------------------------------
TypeOK ==
    /\ proc \in {"off", "up", "stopping"} /\ mode \in {"serial", "slots"} /\ starts \in 0 .. MaxStarts
    /\ marker \in [Keys -> Assignments \cup {None, "partial"}]
    /\ pc \in [Assignments -> Entered \cup {"new", "wait", "done", "fenced", "lost"}]
    /\ active \in [Keys -> Assignments \cup {None}]
    /\ fenced \subseteq Keys /\ armed \subseteq Keys /\ clearing \subseteq Assignments

(* Nobody else is in the family of a running operation, its cleanup included. *)
Exclusive ==
    \A a, b \in Assignments :
        a # b /\ pc[a] \in Entered /\ pc[b] \in Entered
        => ~Conflict(KeyOf[a], KeyOf[b])

(* Effects nobody has accounted for are guarded on disk by their owner.       *)
Guarded == \A a \in dirty : marker[KeyOf[a]] = a

(* Nothing runs in a family with such effects of another.                     *)
NoneOnDirty ==
    \A a \in Assignments, b \in dirty :
        a # b /\ pc[a] = "exec" => ~Conflict(KeyOf[a], KeyOf[b])

(* A root given up by this process takes no more of its work, nor does its    *)
(* family, even when the guard file is gone.                                  *)
FencedRests ==
    \A a, b \in Assignments :
        pc[a] = "exec" /\ pc[b] = "fenced" => ~Conflict(KeyOf[a], KeyOf[b])

(* Whatever Code API hands out, and wherever a worker crashes, stops, times   *)
(* out or loses a reply: operations of a checkout and its worktrees exclude   *)
(* each other until the guard is cleared, and a mutation whose effects were   *)
(* not accounted for keeps its own guard file, so that nothing runs on that   *)
(* family before an operator has looked; what a process has given up, it does *)
(* not touch again (executeAndSettle, executeOwned, quarantinedWorkspaces,    *)
(* workspaceMutationGuard).                                                   *)
WorkerSafe == TypeOK /\ Exclusive /\ Guarded /\ NoneOnDirty /\ FencedRests
=============================================================================
