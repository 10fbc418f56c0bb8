----------------------------- MODULE Snapshots -----------------------------
(* Preparing checkouts of a worker (packages/code/src/                       *)
(* environment-preparation.ts) with a shared store of installed              *)
(* dependencies (dependency-snapshots.ts, snapshot-lifecycle.ts).  Worker    *)
(* processes share the store; they die at any step, and the kernel frees     *)
(* their locks.  A directory is published by a rename, and removed file by   *)
(* file.                                                                     *)
EXTENDS Integers, FiniteSets

CONSTANTS
    Procs,
    Keys,           \* portable preparation keys
    MaxEntries,     \* policy.maxEntries
    MaxRuns,        \* bound on the preparations of a process
    MaxFaults,
    None

VARIABLES
    pc, key,
    keyLock, maint,         \* <key>.lock and .maintenance.lock
    entry,      \* the snapshot of a key: "none", "whole", "part" (being
                \* removed, with manifest) or "debris" (without)
    lastUsed,   \* entries touched since they were last listed
    expired,    \* entries older than the retention
    staging,    \* staging directories, [key, proc, run, state]
    listed,     \* candidates a pruner has still to look at
    retained,   \* how many entries it counts
    installed,  \* node_modules of the process's checkout
    receipt,    \* the preparation key it has been stamped with
    runs, faults

vars == <<pc, key, keyLock, maint, entry, lastUsed, expired, staging, listed, retained, installed,
          receipt, runs, faults>>
store == <<entry, lastUsed, expired>>
local == <<installed, receipt>>
counts == <<runs, faults>>

Init ==
    /\ pc = [p \in Procs |-> "idle"] /\ key = [p \in Procs |-> None]
    /\ keyLock = [k \in Keys |-> None] /\ maint = None
    /\ entry = [k \in Keys |-> "none"] /\ lastUsed = {} /\ expired = {}
    /\ staging = {} /\ listed = [p \in Procs |-> {}] /\ retained = 0
    /\ installed = [p \in Procs |-> "absent"] /\ receipt = [p \in Procs |-> None]
    /\ runs = [p \in Procs |-> 0] /\ faults = 0

Go(p, l) == pc' = [pc EXCEPT ![p] = l]
Own(p) == {s \in staging : s.proc = p /\ s.run = runs[p]}
HasManifest(k) == entry[k] \in {"whole", "part"}
Entries == {k \in Keys : HasManifest(k)}
-----------------------------------------------------------------------------
(* A preparation begins, for a fresh checkout or one prepared before.        *)
Begin(p, k) ==
    /\ pc[p] = "idle" /\ runs[p] < MaxRuns
    /\ runs' = [runs EXCEPT ![p] = @ + 1] /\ key' = [key EXCEPT ![p] = k] /\ Go(p, "lock")
    /\ \/ UNCHANGED local
       \/ installed' = [installed EXCEPT ![p] = "absent"] /\ receipt' = [receipt EXCEPT ![p] = None]
    /\ UNCHANGED <<keyLock, maint, store, staging, listed, retained, faults>>

(* withDependencySnapshot holds the key's lock throughout.                   *)
LockKey(p) ==
    /\ pc[p] = "lock" /\ keyLock[key[p]] = None
    /\ keyLock' = [keyLock EXCEPT ![key[p]] = p] /\ Go(p, "prune")
    /\ UNCHANGED <<key, maint, store, staging, listed, retained, local, counts>>

Unlock(p) == keyLock' = [keyLock EXCEPT ![key[p]] = None]

(* The key's lock is freed, at an error without touching the snapshot.       *)
Fails(p) ==
    /\ pc[p] \in {"sweep1", "check", "restore", "setup", "stamp", "stage", "mark", "clone", "sweep2"}
    /\ faults < MaxFaults /\ faults' = faults + 1 /\ Go(p, "idle") /\ Unlock(p)
    /\ staging' = staging \ Own(p) /\ listed' = [listed EXCEPT ![p] = {}]
    /\ maint' = IF maint = p THEN None ELSE maint
    /\ UNCHANGED <<key, store, retained, local, runs>>

Touch(p) ==
    /\ pc[p] = "touch" /\ Go(p, "idle") /\ Unlock(p)
    /\ lastUsed' = IF HasManifest(key[p]) THEN lastUsed \cup {key[p]} ELSE lastUsed
    /\ expired' = expired \ {key[p]}
    /\ UNCHANGED <<key, maint, entry, staging, listed, retained, local, counts>>

(* prepareInLock: a stamped checkout that passes its check is reused.        *)
Check(p) ==
    /\ pc[p] = "check"
    /\ Go(p, IF receipt[p] = key[p] /\ installed[p] # "absent" THEN "touch" ELSE "restore")
    /\ UNCHANGED <<key, keyLock, maint, store, staging, listed, retained, local, counts>>

(* restoreDependencySnapshot clones into a staging directory of the checkout *)
(* and renames, unless something is there; the readiness check decides       *)
(* whether the result is accepted.                                           *)
Restore(p) ==
    /\ pc[p] = "restore"
    /\ IF installed[p] # "absent" \/ entry[key[p]] = "none"
       THEN Go(p, "setup") /\ UNCHANGED local
       ELSE \E accepted \in BOOLEAN :
            /\ installed' = [installed EXCEPT ![p] = IF entry[key[p]] = "whole" THEN "whole" ELSE "part"]
            /\ receipt' = [receipt EXCEPT ![p] = IF accepted THEN key[p] ELSE @]
            /\ Go(p, IF accepted THEN "touch" ELSE "setup")
    /\ UNCHANGED <<key, keyLock, maint, store, staging, listed, retained, counts>>

Setup(p) ==
    /\ pc[p] = "setup" /\ installed' = [installed EXCEPT ![p] = "whole"] /\ Go(p, "stamp")
    /\ UNCHANGED <<key, keyLock, maint, store, staging, listed, retained, receipt, counts>>

Stamp(p) ==
    /\ pc[p] = "stamp" /\ receipt' = [receipt EXCEPT ![p] = key[p]]
    /\ Go(p, IF entry[key[p]] = "none" THEN "stage" ELSE "touch")
    /\ UNCHANGED <<key, keyLock, maint, store, staging, listed, retained, installed, counts>>

Staged(p, st) ==
    staging' = (staging \ Own(p)) \cup {[key |-> key[p], proc |-> p, run |-> runs[p], state |-> st]}

(* publishDependencySnapshot: the staging directory is marked as ours before *)
(* it is filled, and complete before it is renamed.                          *)
Stage(p) ==
    /\ \/ pc[p] = "stage" /\ Staged(p, "bare") /\ Go(p, "mark")
       \/ pc[p] = "mark" /\ Staged(p, "marked") /\ Go(p, "clone")
    /\ UNCHANGED <<key, keyLock, maint, store, listed, retained, local, counts>>

Clone(p) ==
    /\ pc[p] = "clone" /\ Staged(p, "whole") /\ Go(p, "publish")
    /\ UNCHANGED <<key, keyLock, maint, store, listed, retained, local, counts>>
-----------------------------------------------------------------------------
(* pruneDependencySnapshots, before the preparation ("prune") and before     *)
(* the rename ("publish").                                                   *)
Pruning(p) == pc[p] \in {"sweep1", "sweep2"}
Incoming(p) == IF pc[p] = "sweep2" THEN 1 ELSE 0

Maintain(p) ==
    /\ pc[p] \in {"prune", "publish"} /\ maint = None /\ maint' = p
    /\ Go(p, IF pc[p] = "prune" THEN "sweep1" ELSE "sweep2")
    /\ listed' = [listed EXCEPT ![p] = Entries \ {key[p]}] /\ retained' = Cardinality(Entries)
    /\ lastUsed' = lastUsed \ Entries
    /\ UNCHANGED <<key, keyLock, entry, expired, staging, local, counts>>

(* An abandoned staging directory goes if its mark is there and its key is   *)
(* free.                                                                     *)
SweepStaging(p, s) ==
    /\ Pruning(p) /\ s \in staging /\ s.state # "bare"
    /\ s.key # key[p] /\ keyLock[s.key] = None
    /\ staging' = staging \ {s}
    /\ UNCHANGED <<pc, key, keyLock, maint, store, listed, retained, local, counts>>

(* (Ignores the lock of the key.)                                            *)
FreeOrNot(k) == TRUE

(* tryWithProcessLock never waits.                                           *)
Free(k) == keyLock[k] = None

WithinBudget(n) == n <= MaxEntries

(* A candidate is kept while it is in its retention and the budget allows,   *)
(* and when it is in use or was used since.                                  *)
Consider(p, k) ==
    /\ Pruning(p) /\ k \in listed[p]
    /\ listed' = [listed EXCEPT ![p] = @ \ {k}]
    /\ IF (k \notin expired /\ WithinBudget(retained + Incoming(p))) \/ ~Free(k) \/ k \in lastUsed
       THEN UNCHANGED <<entry, retained, keyLock, pc>>
       ELSE /\ entry' = [entry EXCEPT ![k] = "part"] /\ UNCHANGED retained
            /\ keyLock' = [keyLock EXCEPT ![k] = p]
            /\ Go(p, IF pc[p] = "sweep1" THEN "remove1" ELSE "remove2")
    /\ UNCHANGED <<key, maint, lastUsed, expired, staging, local, counts>>

(* The removal, which has begun, ends.                                       *)
Removed(p) ==
    /\ pc[p] \in {"remove1", "remove2"}
    /\ LET k == CHOOSE k \in Keys : k # key[p] /\ keyLock[k] = p IN
       /\ entry' = [entry EXCEPT ![k] = "none"] /\ keyLock' = [keyLock EXCEPT ![k] = None]
       /\ expired' = expired \ {k} /\ lastUsed' = lastUsed \ {k}
    /\ retained' = retained - 1 /\ Go(p, IF pc[p] = "remove1" THEN "sweep1" ELSE "sweep2")
    /\ UNCHANGED <<key, maint, staging, listed, local, counts>>

(* The rename, under the maintenance lock; without room the checkout is      *)
(* prepared all the same.                                                    *)
Publish(p) ==
    /\ entry' = IF pc[p] = "sweep2" /\ WithinBudget(retained + 1)
                THEN [entry EXCEPT ![key[p]] = "whole"] ELSE entry
    /\ staging' = staging \ Own(p)

PruneEnds(p) ==
    /\ Pruning(p) /\ listed[p] = {} /\ maint' = None /\ Publish(p)
    /\ Go(p, IF pc[p] = "sweep1" THEN "check" ELSE "touch")
    /\ UNCHANGED <<key, keyLock, lastUsed, expired, listed, retained, local, counts>>

(* The process dies.  A removal it had begun may or may not have reached     *)
(* the manifest.                                                             *)
Crash(p) ==
    /\ pc[p] # "idle" /\ faults < MaxFaults /\ faults' = faults + 1
    /\ Go(p, "idle") /\ keyLock' = [k \in Keys |-> IF keyLock[k] = p THEN None ELSE keyLock[k]]
    /\ maint' = IF maint = p THEN None ELSE maint
    /\ listed' = [listed EXCEPT ![p] = {}]
    /\ \E debris \in SUBSET {k \in Keys : pc[p] \in {"remove1", "remove2"} /\ keyLock[k] = p /\ k # key[p]} :
        entry' = [k \in Keys |-> IF k \in debris THEN "debris" ELSE entry[k]]
    /\ installed' = IF pc[p] = "setup" THEN [installed EXCEPT ![p] = "part"] ELSE installed
    /\ UNCHANGED <<key, lastUsed, expired, staging, retained, receipt, runs>>

(* The retention of an entry passes.                                         *)
Expire(k) ==
    /\ HasManifest(k) /\ k \notin expired /\ expired' = expired \cup {k}
    /\ UNCHANGED <<pc, key, keyLock, maint, entry, lastUsed, staging, listed, retained, local, counts>>

Next ==
    \/ \E p \in Procs :
        \/ \E k \in Keys : Begin(p, k) \/ Consider(p, k)
        \/ LockKey(p) \/ Fails(p) \/ Touch(p) \/ Check(p) \/ Restore(p) \/ Setup(p) \/ Stamp(p)
        \/ Stage(p) \/ Clone(p) \/ Maintain(p) \/ Removed(p) \/ PruneEnds(p) \/ Crash(p)
        \/ \E s \in staging : SweepStaging(p, s)
    \/ \E k \in Keys : Expire(k)

Spec == Init /\ [][Next]_vars
-----------------------------------------------------------------------------
TypeOK ==
    /\ key \in [Procs -> Keys \cup {None}] /\ keyLock \in [Keys -> Procs \cup {None}]
    /\ entry \in [Keys -> {"none", "whole", "part", "debris"}]
    /\ installed \in [Procs -> {"absent", "part", "whole"}]

(* The store keeps to its budget of entries.                                 *)
Budget == Cardinality(Entries) <= MaxEntries

(* What a preparation works with is not removed under it: neither the        *)
(* snapshot of its key nor its staging directory.                            *)
NotRemovedInUse ==
    /\ \A p \in Procs : pc[p] \in {"mark", "clone", "publish", "sweep2"} => Own(p) # {}
    /\ \A k \in Keys : entry[k] = "part" => faults > 0 \/ \E p \in Procs : keyLock[k] = p /\ key[p] # k

(* Whoever holds the maintenance lock waits for no other lock.               *)
HolderRuns == \A p \in Procs : maint = p => pc[p] \in {"sweep1", "sweep2", "remove1", "remove2"}

(* No partial installation is stamped, unless a removal of its snapshot was  *)
(* cut short by a crash.                                                     *)
StampedWhole ==
    faults = 0 => \A p \in Procs : receipt[p] # None => installed[p] = "whole"

(* A snapshot in use does not change under its reader.                       *)
ReaderUndisturbed ==
    \A p \in Procs :
        pc[p] \in {"check", "restore", "setup", "stamp", "stage", "mark", "clone"} /\ pc'[p] # "idle"
            => entry'[key[p]] = entry[key[p]]

Inv == TypeOK /\ Budget /\ NotRemovedInUse /\ HolderRuns /\ StampedWhole

(* The store of snapshots stays within its budget without ever taking away   *)
(* what a preparation uses, and never publishes or stamps a part             *)
(* (pruneDependencySnapshots, publishDependencySnapshot).                    *)
SnapshotSafe == []Inv /\ [][ReaderUndisturbed]_vars
=============================================================================
