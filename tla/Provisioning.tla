---------------------------- MODULE Provisioning ----------------------------
(* Conversation worktrees of a worker machine (packages/code/src/            *)
(* worktrees.ts, git-snapshot.ts).  Worker processes share the storage root. *)
(* A process may die; the kernel frees its lock, but a Git child or a setup  *)
(* executor of it may go on writing.                                         *)
EXTENDS Integers, FiniteSets

CONSTANTS
    Procs,
    Instances,      \* conversation identities
    MaxCount,       \* options.maxCount
    MaxCommits,     \* bound on commits in the source
    MaxFaults,
    None

VARIABLES
    pc, inst,
    lock,       \* the provisioning lock
    dir,        \* the checkout: "none", "part" or "ready"
    marker,     \* its .complete record: "none", "reserved" or "complete"
    orphan,     \* checkouts a child of a dead process still writes to
    cached,     \* instances each process has admitted
    objects, ref,       \* of the source repository
    copy,       \* [ref, objects] of the private copy
    replaced,   \* the source's Git directory has been replaced
    faults

vars == <<pc, inst, lock, dir, marker, orphan, cached, objects, ref, copy, replaced, faults>>
disk == <<dir, marker>>
source == <<objects, ref, replaced>>

NoCopy == [ref |-> 0, objects |-> 0]

Init ==
    /\ pc = [p \in Procs |-> "idle"] /\ inst = [p \in Procs |-> None] /\ lock = None
    /\ dir = [i \in Instances |-> "none"] /\ marker = [i \in Instances |-> "none"]
    /\ orphan = {} /\ cached = [p \in Procs |-> {}]
    /\ objects = 1 /\ ref = 1 /\ copy = NoCopy /\ replaced = FALSE /\ faults = 0

Go(p, l) == pc' = [pc EXCEPT ![p] = l]
Leave(p) == Go(p, "idle") /\ lock' = None
-----------------------------------------------------------------------------
(* resolve: an admitted instance is validated and used.                      *)
ResolveCached(p, i) ==
    /\ pc[p] = "idle" /\ i \in cached[p] /\ dir[i] = "ready" /\ ~replaced
    /\ inst' = [inst EXCEPT ![p] = i] /\ Go(p, "use")
    /\ UNCHANGED <<lock, disk, orphan, cached, source, copy, faults>>

Resolve(p, i) ==
    /\ pc[p] = "idle" /\ i \notin cached[p] /\ lock = None
    /\ inst' = [inst EXCEPT ![p] = i] /\ lock' = p /\ Go(p, "validate")
    /\ UNCHANGED <<disk, orphan, cached, source, copy, faults>>

UseEnds(p) ==
    /\ pc[p] = "use" /\ Go(p, "idle")
    /\ UNCHANGED <<inst, lock, disk, orphan, cached, source, copy, faults>>

(* validateExisting.  A reservation means that cleanup is unconfirmed; a     *)
(* checkout without record is incomplete and goes.                           *)
Validate(p) ==
    LET i == inst[p] IN
    /\ pc[p] = "validate"
    /\ \/ /\ replaced \/ marker[i] = "reserved" \/ (marker[i] = "complete" /\ dir[i] = "part")
          /\ Leave(p) /\ UNCHANGED <<dir, cached>>
       \/ /\ ~replaced /\ marker[i] = "complete" /\ dir[i] = "ready"
          /\ Go(p, "use") /\ lock' = None /\ cached' = [cached EXCEPT ![p] = @ \cup {i}] /\ UNCHANGED dir
       \/ /\ ~replaced /\ (marker[i] = "none" \/ (marker[i] = "complete" /\ dir[i] = "none"))
          /\ dir' = [dir EXCEPT ![i] = "none"] /\ Go(p, "count") /\ UNCHANGED <<lock, cached>>
    /\ UNCHANGED <<inst, marker, orphan, source, copy, faults>>

(* (Only finished checkouts count and are kept.)                             *)
ReservedIfComplete(i) == marker[i] = "complete"

(* Every valid record reserves.                                              *)
Reserved(i) == marker[i] # "none"

(* countInstances sweeps what has no record.                                 *)
Count(p) ==
    /\ pc[p] = "count"
    /\ dir' = [i \in Instances |-> IF Reserved(i) THEN dir[i] ELSE "none"]
    /\ IF Cardinality({i \in Instances : Reserved(i)}) >= MaxCount
       THEN Leave(p) ELSE Go(p, "reserve") /\ UNCHANGED lock
    /\ UNCHANGED <<inst, marker, orphan, cached, source, copy, faults>>

(* The record is written before any writer is started.                       *)
Reserve(p) ==
    /\ pc[p] = "reserve" /\ marker' = [marker EXCEPT ![inst[p]] = "reserved"] /\ Go(p, "refs")
    /\ UNCHANGED <<inst, lock, dir, orphan, cached, source, copy, faults>>

(* GitSourceSnapshot.copyTo: HEAD and refs before the objects.               *)
CopyFirst(p) ==
    /\ pc[p] = "refs" /\ copy' = [NoCopy EXCEPT !.ref = ref] /\ Go(p, "objects")
    /\ UNCHANGED <<inst, lock, disk, orphan, cached, source, faults>>
CopySecond(p) ==
    /\ pc[p] = "objects" /\ copy' = [copy EXCEPT !.objects = objects]
    /\ Go(p, IF replaced THEN "fail" ELSE "clone")
    /\ UNCHANGED <<inst, lock, disk, orphan, cached, source, faults>>

(* git clone, checkout, validateRepository.                                  *)
Clone(p) ==
    /\ pc[p] = "clone" /\ dir' = [dir EXCEPT ![inst[p]] = "part"]
    /\ \/ Go(p, "prepare")
       \/ Go(p, "fail")
    /\ UNCHANGED <<inst, lock, marker, orphan, cached, source, copy, faults>>

(* prepareInstance.                                                          *)
Prepare(p) ==
    /\ pc[p] = "prepare"
    /\ \/ ~replaced /\ Go(p, "complete")
       \/ Go(p, "discard")
    /\ UNCHANGED <<inst, lock, disk, orphan, cached, source, copy, faults>>

Complete(p) ==
    /\ pc[p] = "complete"
    /\ dir' = [dir EXCEPT ![inst[p]] = "ready"] /\ marker' = [marker EXCEPT ![inst[p]] = "complete"]
    /\ cached' = [cached EXCEPT ![p] = @ \cup {inst[p]}] /\ Go(p, "use") /\ lock' = None
    /\ UNCHANGED <<inst, orphan, source, copy, faults>>

(* discardInstance: when the executor's end cannot be confirmed the          *)
(* reservation stays.                                                        *)
Discard(p) ==
    /\ pc[p] = "discard"
    /\ \/ Go(p, "fail") /\ UNCHANGED <<lock, orphan>>
       \/ Leave(p) /\ orphan' = orphan \cup {inst[p]}
    /\ UNCHANGED <<inst, disk, cached, source, copy, faults>>

(* The checkout, then its record, are removed.                               *)
CleanUp(p) ==
    /\ pc[p] = "fail"
    /\ dir' = [dir EXCEPT ![inst[p]] = "none"] /\ marker' = [marker EXCEPT ![inst[p]] = "none"]
    /\ Leave(p)
    /\ UNCHANGED <<inst, orphan, cached, source, copy, faults>>

(* A process dies and starts again.                                          *)
Crash(p) ==
    /\ pc[p] # "idle" /\ faults < MaxFaults /\ faults' = faults + 1
    /\ Go(p, "idle") /\ cached' = [cached EXCEPT ![p] = {}]
    /\ lock' = IF lock = p THEN None ELSE lock
    /\ orphan' \in {orphan} \cup
            (IF pc[p] \in {"clone", "prepare", "discard"} THEN {orphan \cup {inst[p]}} ELSE {})
    /\ UNCHANGED <<inst, disk, source, copy>>

(* What it left running goes on, and ends.                                   *)
OrphanWrites(i) ==
    /\ i \in orphan
    /\ \/ dir' = [dir EXCEPT ![i] = "part"] /\ UNCHANGED orphan
       \/ orphan' = orphan \ {i} /\ UNCHANGED dir
    /\ UNCHANGED <<pc, inst, lock, marker, cached, source, copy, faults>>

(* The source goes on: a commit writes its objects, then the ref.            *)
Commit ==
    /\ \/ ref = objects /\ objects < MaxCommits /\ objects' = objects + 1 /\ UNCHANGED <<ref, replaced>>
       \/ ref < objects /\ ref' = objects /\ UNCHANGED <<objects, replaced>>
       \/ ~replaced /\ faults < MaxFaults /\ replaced' = TRUE /\ UNCHANGED <<objects, ref>>
    /\ faults' = IF replaced' # replaced THEN faults + 1 ELSE faults
    /\ UNCHANGED <<pc, inst, lock, disk, orphan, cached, copy>>

Next ==
    \/ \E p \in Procs :
        \/ \E i \in Instances : ResolveCached(p, i) \/ Resolve(p, i)
        \/ UseEnds(p) \/ Validate(p) \/ Count(p) \/ Reserve(p) \/ CopyFirst(p) \/ CopySecond(p)
        \/ Clone(p) \/ Prepare(p) \/ Complete(p) \/ Discard(p) \/ CleanUp(p) \/ Crash(p)
    \/ \E i \in Instances : OrphanWrites(i)
    \/ Commit

Spec == Init /\ [][Next]_vars
-----------------------------------------------------------------------------
TypeOK ==
    /\ dir \in [Instances -> {"none", "part", "ready"}]
    /\ marker \in [Instances -> {"none", "reserved", "complete"}]
    /\ lock \in Procs \cup {None} /\ orphan \subseteq Instances

(* A checkout in use is whole.                                               *)
UsedIsWhole == \A p \in Procs : pc[p] = "use" => dir[inst[p]] = "ready" /\ marker[inst[p]] = "complete"

(* Nothing that may still be written to is provisioned again or used.        *)
NoTwoWriters ==
    \A p \in Procs :
        pc[p] \in {"refs", "objects", "clone", "prepare", "complete", "discard", "use"} => inst[p] \notin orphan

(* Reservations never exceed the quota, with or without a directory.         *)
Quota == Cardinality({i \in Instances : marker[i] # "none"}) <= MaxCount

(* What may still be written to stays reserved.                              *)
OrphanReserved == \A i \in orphan : marker[i] = "reserved"

(* A clone has the objects its refs name.                                    *)
CopyClosed == \A p \in Procs : pc[p] = "clone" => copy.ref <= copy.objects

(* A finished checkout is never removed or overwritten.                      *)
FinishedKept ==
    \A i \in Instances : marker[i] = "complete" /\ dir[i] = "ready" => dir'[i] = "ready" /\ marker'[i] = "complete"

Inv ==
    TypeOK /\ UsedIsWhole /\ NoTwoWriters /\ Quota /\ OrphanReserved /\ CopyClosed

(* Provisioning never reuses or sweeps a checkout that somebody may still    *)
(* write to, whatever dies when, and keeps finished ones and the quota       *)
(* (createLocked, countInstances).                                           *)
ProvisioningSafe == []Inv /\ [][FinishedKept]_vars
=============================================================================
