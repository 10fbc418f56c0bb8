--------------------------- MODULE RuntimeSession ---------------------------
(***************************************************************************)
(* One stateful runtime session on Lambda MicroVMs: its Redis registry     *)
(* (runtime-session/registry.ts), the executions that take turns on it     *)
(* under the session lock (sandbox-backend/lambda-microvm.ts               *)
(* executeSession) and its workspace checkpoints (checkpoint.ts,           *)
(* checkpoint-store.ts).                                                   *)
(*                                                                         *)
(* The lock is a Redis key with a time to live that its holder renews.     *)
(* Every write of the session record is a script that first compares the   *)
(* lock with the writer's token, so a holder that lost the lock writes     *)
(* nothing, whenever it finds out.  An attempt is one call of              *)
(* executeSession; its name stands for its token and is used again when    *)
(* the call has ended.                                                     *)
(*                                                                         *)
(* A MicroVM is named by the client token it was launched with, <<g, r>>:  *)
(* generation g of the session, r = 1 for the retry of a launch that died. *)
(***************************************************************************)
EXTENDS Naturals, FiniteSets

CONSTANTS
  Attempts, None,
  Kinds,       \* the kinds of fault considered
  MaxFaults,   \* bound on their number
  MaxGen,      \* bound on the generations of one session
  MaxSeq       \* bound on the checkpoints of one session

Tokens   == (1..MaxGen) \X {0, 1}
AllKinds == {"crash", "lock", "redis", "aws", "boot", "abort", "guest", "store", "age"}

ASSUME ConstantsAssumption ==
  /\ IsFiniteSet(Attempts) /\ None \notin Attempts /\ "gone" \notin Attempts /\ None \notin Tokens
  /\ Kinds \subseteq AllKinds
  /\ MaxFaults \in Nat /\ MaxGen \in Nat /\ MaxSeq \in Nat

VARIABLES
  lock,       \* holder of the session lock; "gone": a holder that has ended
  rec,        \* the session record
  gen, seq,   \* counters of generations and of checkpoint sequences
  vm,         \* what the provider knows of each MicroVM
  dirty,      \* MicroVMs whose runner has marked the workspace dirty
  failed,     \* history: MicroVMs changed by an execution whose result was
              \* not kept, unless the attempt that recycles them was itself
              \* cut short (crash, lost lock)
  strays,     \* history: MicroVMs launched as a retry by an attempt that had
              \* lost the lock
  objects,    \* checkpoint store: writer of each archive
  markers,    \* its .committed markers
  prunes,     \* collections of older archives under way
  pc, mine, tok, num,  \* per attempt: control state, its copy of the record,
                       \* its MicroVM, its checkpoint sequence
  faults

registry == <<lock, rec, gen, seq>>
machines == <<vm, dirty, failed, strays>>
store    == <<objects, markers, prunes>>
local    == <<pc, mine, tok, num>>
vars     == <<registry, machines, store, local, faults>>

Seqs   == 1..MaxSeq
Record == [state : {"ABSENT", "PENDING", "RUNNING", "TERMINATING", "TERMINATED"},
           vm : Tokens \cup {None}, gen : 0..MaxGen, ckpt : 0..MaxSeq]
Absent == [state |-> "ABSENT", vm |-> None, gen |-> 0, ckpt |-> 0]

Steps == {"idle", "read", "replace", "generation", "intent", "launch", "boot", "retire",
          "track", "restore", "advertise", "abandon", "remove", "execute", "finalize",
          "quarantine", "stop", "terminal", "kill", "settle", "pull", "allocate", "put",
          "point", "mark", "final", "served", "release"}

RegistryOK ==
  lock \in Attempts \cup {None, "gone"} /\ rec \in Record /\ gen \in 0..MaxGen /\ seq \in 0..MaxSeq
MachinesOK ==
  /\ vm \in [Tokens -> {"unborn", "live", "dead"}]
  /\ dirty \subseteq Tokens /\ failed \subseteq Tokens /\ strays \subseteq Tokens
StoreOK ==
  objects \in [Seqs -> Attempts \cup {None}] /\ markers \subseteq Seqs /\ prunes \subseteq Seqs
LocalOK ==
  /\ pc \in [Attempts -> Steps] /\ mine \in [Attempts -> Record]
  /\ tok \in [Attempts -> Tokens \cup {None}] /\ num \in [Attempts -> 0..MaxSeq]
  /\ faults \in 0..MaxFaults

(* States, and that a record offered for reuse names a MicroVM that was    *)
(* launched: findOrLaunchSession publishes RUNNING last.                   *)
TypeOK ==
  /\ RegistryOK /\ MachinesOK /\ StoreOK /\ LocalOK
  /\ rec.state = "RUNNING" => rec.vm \in Tokens /\ vm[rec.vm] # "unborn"

Init ==
  /\ lock = None /\ rec = Absent /\ gen = 0 /\ seq = 0
  /\ vm = [t \in Tokens |-> "unborn"] /\ dirty = {} /\ failed = {} /\ strays = {}
  /\ objects = [s \in Seqs |-> None] /\ markers = {} /\ prunes = {}
  /\ pc = [a \in Attempts |-> "idle"] /\ mine = [a \in Attempts |-> Absent]
  /\ tok = [a \in Attempts |-> None] /\ num = [a \in Attempts |-> 0]
  /\ faults = 0

-----------------------------------------------------------------------------
(* Steps shared by the operations *)

At(a, l)  == pc[a] = l
Goto(a, l) == pc' = [pc EXCEPT ![a] = l]
NoFault   == UNCHANGED faults
Fault(k)  == k \in Kinds /\ faults < MaxFaults /\ faults' = faults + 1

(* writeRuntimeSessionRecord: the record changes while the lock is held.   *)
(* A write whose reply is lost may have been applied; the caller takes it  *)
(* for a lost lock.                                                        *)
Fenced(a) == lock # a
Publish(a, new, done, lost) ==
  \/ ~Fenced(a) /\ rec' = new /\ Goto(a, done) /\ NoFault
  \/ Fenced(a) /\ rec' = rec /\ Goto(a, lost) /\ NoFault
  \/ Fault("redis") /\ Goto(a, lost) /\ rec' \in IF Fenced(a) THEN {rec} ELSE {rec, new}

(* terminate: a MicroVM that is gone already counts as terminated.  A call *)
(* that fails may have been carried out.                                   *)
Gone(t) == [vm EXCEPT ![t] = "dead"]
Terminate(a, done, lost) ==
  \/ vm' = Gone(tok[a]) /\ Goto(a, done) /\ NoFault
  \/ vm' \in {vm, Gone(tok[a])} /\ Goto(a, lost) /\ Fault("aws")

-----------------------------------------------------------------------------
(* executeSession *)

Acquire(a) ==
  /\ At(a, "idle") /\ lock = None
  /\ lock' = a /\ Goto(a, "read")
  /\ UNCHANGED <<rec, gen, seq, machines, store, mine, tok, num, faults>>

(* The record decides: its MicroVM is used again, its launch is repeated   *)
(* under the same token, or a new one takes its place.                     *)
(* (ReusableAny looks at the MicroVM only, CanReplayNever starts anew.)    *)
ReusableAny(r) == r.vm # None
CanReplayNever(r) == FALSE
Reusable(r)  == r.state = "RUNNING" /\ r.vm # None
CanReplay(r) == r.state = "PENDING" /\ r.vm = None
Supersede(r) == IF r.vm # None THEN "replace" ELSE "generation"

Read(a) ==
  /\ At(a, "read")
  /\ mine' = [mine EXCEPT ![a] = rec]
  /\ tok' = [tok EXCEPT ![a] = IF CanReplay(rec) THEN <<rec.gen, 0>> ELSE rec.vm]
  /\ \/ /\ Goto(a, CASE Reusable(rec) -> "execute"
                     [] CanReplay(rec) -> "intent"
                     [] OTHER -> Supersede(rec))
        /\ NoFault
     \* idle for too long, near its deadline, or of another configuration
     \/ Reusable(rec) /\ Fault("age") /\ Goto(a, Supersede(rec))
     \/ Fault("redis") /\ Goto(a, "release")
  /\ UNCHANGED <<registry, machines, store, num>>

Replace(a) ==
  /\ At(a, "replace")
  /\ Terminate(a, "generation", "release")
  /\ UNCHANGED <<registry, dirty, failed, strays, store, mine, tok, num>>

Generation(a) ==
  /\ At(a, "generation") /\ gen < MaxGen
  /\ gen' = gen + 1
  /\ tok' = [tok EXCEPT ![a] = <<gen + 1, 0>>]
  /\ Goto(a, "intent") /\ NoFault
  /\ UNCHANGED <<lock, rec, seq, machines, store, mine, num>>

(* The record that names generation g: without a MicroVM it is the intent  *)
(* to launch, written before the launch.                                   *)
Launching(a, t) ==
  [state |-> "PENDING", vm |-> t, gen |-> tok[a][1], ckpt |-> mine[a].ckpt]

LaunchIntent(a) == Launching(a, None)

Intent(a) ==
  /\ At(a, "intent")
  /\ Publish(a, LaunchIntent(a), "launch", "release")
  /\ UNCHANGED <<lock, gen, seq, machines, store, mine, tok, num>>

(* RunMicrovm is idempotent: a token that was used names the same MicroVM, *)
(* alive or not.  An aborted call is sent once more to learn its outcome,  *)
(* so the caller misses it only when the second call fails too.            *)
Started(t, s) == IF vm[t] = "unborn" THEN [vm EXCEPT ![t] = s] ELSE vm

Launch(a) ==
  /\ At(a, "launch")
  /\ \/ vm' = Started(tok[a], "live") /\ Goto(a, "boot") /\ NoFault
     \/ vm' = Started(tok[a], "dead") /\ Goto(a, "boot") /\ Fault("boot")
     \/ vm' \in {vm, Started(tok[a], "live")} /\ Goto(a, "release") /\ Fault("aws")
  /\ strays' = IF Fenced(a) /\ tok[a][2] = 1 /\ vm' # vm THEN strays \cup {tok[a]} ELSE strays
  /\ UNCHANGED <<registry, dirty, failed, store, mine, tok, num>>

(* waitUntilRunning and launch: a MicroVM that dies while it boots is      *)
(* replaced once.  The failure of the retry, and the failure of the first  *)
(* when the caller aborts meanwhile, reach retireExhaustedLaunchIntent.    *)
Boot(a) ==
  /\ At(a, "boot")
  /\ \/ vm[tok[a]] = "live" /\ Goto(a, "track") /\ NoFault /\ UNCHANGED <<vm, tok>>
     \/ vm' \in {vm, Gone(tok[a])} /\ Goto(a, "release") /\ Fault("aws") /\ UNCHANGED tok
     \/ /\ vm[tok[a]] = "dead" /\ tok[a][2] = 0
        /\ tok' = [tok EXCEPT ![a] = <<tok[a][1], 1>>] /\ Goto(a, "launch") /\ NoFault /\ UNCHANGED vm
     \/ /\ vm[tok[a]] = "dead" /\ tok[a][2] = 1
        /\ Goto(a, "retire") /\ NoFault /\ UNCHANGED <<vm, tok>>
     \/ /\ vm[tok[a]] = "dead" /\ tok[a][2] = 0
        /\ Goto(a, "retire") /\ Fault("abort") /\ UNCHANGED <<vm, tok>>
  /\ UNCHANGED <<registry, dirty, failed, strays, store, mine, num>>

(* (RetiredNever leaves the intent as it is.)                              *)
RetiredNever(a) == rec
Retired(a) == [Launching(a, None) EXCEPT !.state = "TERMINATED"]

Retire(a) ==
  /\ At(a, "retire")
  /\ Publish(a, Retired(a), "release", "release")
  /\ UNCHANGED <<lock, gen, seq, machines, store, mine, tok, num>>

Track(a) ==
  /\ At(a, "track")
  /\ Publish(a, Launching(a, tok[a]), "restore", "abandon")
  /\ UNCHANGED <<lock, gen, seq, machines, store, mine, tok, num>>

(* waitForRunnerReady and restoreSession: the archive the record points    *)
(* at, which must exist, else the newest one with a marker, if any.        *)
Restore(a) ==
  /\ At(a, "restore")
  /\ LET found == mine[a].ckpt # 0 => objects[mine[a].ckpt] # None
     IN \/ Goto(a, IF vm[tok[a]] = "live" /\ found THEN "advertise" ELSE "abandon") /\ NoFault
        \/ Goto(a, "abandon") /\ (Fault("guest") \/ Fault("store"))
  /\ UNCHANGED <<registry, machines, store, mine, tok, num>>

Advertise(a) ==
  /\ At(a, "advertise")
  /\ Publish(a, [Launching(a, tok[a]) EXCEPT !.state = "RUNNING"], "execute", "abandon")
  /\ UNCHANGED <<lock, gen, seq, machines, store, mine, tok, num>>

(* A MicroVM that must not be used again: the record goes only when it has *)
(* been terminated.                                                        *)
Abandon(a) ==
  /\ At(a, "abandon")
  /\ Terminate(a, "remove", "release")
  /\ UNCHANGED <<registry, dirty, failed, strays, store, mine, tok, num>>

Remove(a) ==
  /\ At(a, "remove")
  /\ \/ rec' = (IF Fenced(a) THEN rec ELSE Absent) /\ NoFault
     \/ rec' = rec /\ Fault("redis")
  /\ Goto(a, "release")
  /\ UNCHANGED <<lock, gen, seq, machines, store, mine, tok, num>>

(* The runner marks its workspace when the caller goes away, or the job    *)
(* fails, after it has begun to change files.                              *)
Disturbed(a) == IF vm[tok[a]] = "live" THEN dirty \cup {tok[a]} ELSE dirty

(* executeOnSessionVm, with deliverInputs before it: the runner refuses a  *)
(* dirty workspace; a MicroVM that does not answer, and one whose          *)
(* execution is cut short, are abandoned; an error answered by a live      *)
(* runner before it touched a file leaves the MicroVM as it is.            *)
Execute(a) ==
  /\ At(a, "execute")
  /\ \/ /\ Goto(a, CASE vm[tok[a]] = "dead" -> "abandon"
                     [] tok[a] \in dirty    -> "quarantine"
                     [] OTHER               -> "finalize")
        /\ NoFault /\ UNCHANGED dirty
     \/ Fenced(a) /\ Goto(a, "abandon") /\ dirty' \in {dirty, Disturbed(a)} /\ NoFault
     \/ Fault("guest") /\ Goto(a, "abandon") /\ dirty' \in {dirty, Disturbed(a)}
     \/ Fault("guest") /\ vm[tok[a]] = "live" /\ Goto(a, "quarantine") /\ dirty' = Disturbed(a)
     \/ Fault("guest") /\ vm[tok[a]] = "live" /\ Goto(a, "release") /\ UNCHANGED dirty
  /\ UNCHANGED <<registry, vm, failed, strays, store, mine, tok, num>>

(* sessionResultFinalizer: when it fails the workspace has changed and     *)
(* nobody will see the result.                                             *)
Finalize(a) ==
  /\ At(a, "finalize")
  /\ \/ Goto(a, "settle") /\ NoFault /\ UNCHANGED failed
     \/ /\ Goto(a, "quarantine") /\ Fault("guest")
        /\ failed' = IF Fenced(a) THEN failed ELSE failed \cup {tok[a]}
  /\ UNCHANGED <<registry, vm, dirty, strays, store, mine, tok, num>>

(* recycleUncommittedSessionVm *)
Quarantine(a) ==
  /\ At(a, "quarantine")
  /\ mine' = [mine EXCEPT ![a] = rec]
  /\ \/ rec.vm = tok[a] /\ Publish(a, [rec EXCEPT !.state = "TERMINATING"], "stop", "kill")
     \/ rec.vm # tok[a] /\ Goto(a, "kill") /\ NoFault /\ UNCHANGED rec
     \/ Goto(a, "kill") /\ Fault("redis") /\ UNCHANGED rec
  /\ UNCHANGED <<lock, gen, seq, machines, store, tok, num>>

Stop(a) ==
  /\ At(a, "stop")
  /\ Terminate(a, "terminal", "release")
  /\ UNCHANGED <<registry, dirty, failed, strays, store, mine, tok, num>>

Terminal(a) ==
  /\ At(a, "terminal")
  /\ Publish(a, [mine[a] EXCEPT !.state = "TERMINATED", !.vm = None], "release", "release")
  /\ UNCHANGED <<lock, gen, seq, machines, store, mine, tok, num>>

Kill(a) ==
  /\ At(a, "kill")
  /\ Terminate(a, "release", "release")
  /\ UNCHANGED <<registry, dirty, failed, strays, store, mine, tok, num>>

(* The record is read again.  A checkpoint follows if the time left allows *)
(* one.                                                                    *)
Settle(a) ==
  /\ At(a, "settle")
  /\ mine' = [mine EXCEPT ![a] = rec]
  /\ \/ /\ rec # Absent
        /\ \E l \in {"pull", "final"} : Goto(a, l)
        /\ NoFault
     \/ (rec = Absent \/ Fenced(a)) /\ Goto(a, "kill") /\ NoFault
     \/ Fault("redis") /\ Goto(a, "release")
  /\ UNCHANGED <<registry, machines, store, tok, num>>

-----------------------------------------------------------------------------
(* checkpointSession, under the lock of the execution *)

Retained  == {s \in Seqs : objects[s] # None}
Newest(n) == n \in Retained \cup {0} /\ \A s \in Retained : s <= n

Pull(a) ==
  /\ At(a, "pull")
  /\ \E n \in 0..MaxSeq : Newest(n) /\ num' = [num EXCEPT ![a] = n]
  /\ \/ /\ Goto(a, IF /\ rec.state = "RUNNING" /\ rec.vm # None
                      /\ vm[rec.vm] = "live" /\ rec.vm \notin dirty
                   THEN "allocate" ELSE "final")
        /\ NoFault
     \/ Goto(a, "final") /\ (Fault("guest") \/ Fault("store"))
  /\ UNCHANGED <<registry, machines, store, mine, tok>>

(* allocateCheckpointSequenceScript: above the counter and above what is   *)
(* stored.                                                                 *)
NextSequence(retained) == (IF seq < retained THEN retained ELSE seq) + 1

AllocateSequence(a) ==
  /\ At(a, "allocate")
  /\ LET next == NextSequence(num[a])
     IN IF next \in Seqs
        THEN seq' = next /\ num' = [num EXCEPT ![a] = next] /\ Goto(a, "put")
        ELSE UNCHANGED <<seq, num>> /\ Goto(a, "final")
  /\ NoFault
  /\ UNCHANGED <<lock, rec, gen, machines, store, mine, tok>>

Put(a) ==
  /\ At(a, "put")
  /\ LET stored == [objects EXCEPT ![num[a]] = a]
     IN \/ objects' = stored /\ Goto(a, "point") /\ NoFault
        \/ objects' \in {objects, stored} /\ Goto(a, "final") /\ Fault("store")
  /\ UNCHANGED <<registry, machines, markers, prunes, mine, tok, num>>

(* The marker follows the pointer, and only a pointer that was written.    *)
PointerLost == "final"

Point(a) ==
  /\ At(a, "point")
  /\ Publish(a, [mine[a] EXCEPT !.ckpt = num[a]], "mark", PointerLost)
  /\ UNCHANGED <<lock, gen, seq, machines, store, mine, tok, num>>

(* commit, and checkpointUnderLock reads the record again.  Only a marker  *)
(* known to be written lets the older archives be collected.               *)
Mark(a) ==
  /\ At(a, "mark")
  /\ mine' = [mine EXCEPT ![a] = IF rec = Absent THEN @ ELSE rec]
  /\ Goto(a, "final")
  /\ \/ markers' = markers \cup {num[a]} /\ prunes' = prunes \cup {num[a]} /\ NoFault
     \/ markers' \in {markers, markers \cup {num[a]}} /\ UNCHANGED prunes /\ Fault("store")
  /\ UNCHANGED <<registry, machines, objects, tok, num>>

(* The last write advertises the result of the execution.                  *)
Final(a) ==
  /\ At(a, "final")
  /\ Publish(a, [mine[a] EXCEPT !.state = "RUNNING"], "served", "kill")
  /\ UNCHANGED <<lock, gen, seq, machines, store, mine, tok, num>>

(* The call ends; a release that never arrives leaves the lock to expire.  *)
Release(a) ==
  /\ pc[a] \in {"served", "release"}
  /\ \/ lock' = (IF Fenced(a) THEN lock ELSE None) /\ NoFault
     \/ ~Fenced(a) /\ lock' = "gone" /\ Fault("redis")
  /\ Goto(a, "idle") /\ mine' = [mine EXCEPT ![a] = Absent]
  /\ tok' = [tok EXCEPT ![a] = None] /\ num' = [num EXCEPT ![a] = 0]
  /\ UNCHANGED <<rec, gen, seq, machines, store>>

-----------------------------------------------------------------------------
(* pruneOlderThan, in the background *)
(* (OlderOrSame takes the archive itself with them.)                       *)
OlderOrSame(s) == {q \in Seqs : q <= s}
Older(s) == {q \in Seqs : q < s}

Prune(s) ==
  /\ s \in prunes
  /\ objects' = [q \in Seqs |-> IF q \in Older(s) THEN None ELSE objects[q]]
  /\ markers' = markers \ Older(s)
  /\ prunes' = prunes \ {s}
  /\ UNCHANGED <<registry, machines, local, faults>>

(* The heartbeat (lock-heartbeat.ts) finds that the lock is lost, or that  *)
(* no renewal was confirmed in time, and aborts what the attempt is doing. *)
(* An execution under way is abandoned by Execute.                         *)
FenceAborts(a) ==
  /\ Fenced(a)
  /\ \/ /\ pc[a] \in {"read", "replace", "generation", "intent", "launch"}
        /\ Goto(a, "release") /\ UNCHANGED vm
     \/ /\ At(a, "boot") /\ Goto(a, "release") /\ vm' = Gone(tok[a])
     \/ /\ pc[a] \in {"restore", "advertise"} /\ Goto(a, "abandon") /\ UNCHANGED vm
  /\ UNCHANGED <<registry, dirty, failed, strays, store, mine, tok, num, faults>>

CutShort(a) ==
  IF pc[a] \in {"quarantine", "stop", "terminal", "kill"} THEN failed \ {tok[a]} ELSE failed

(* The lock expires under its holder: renewals failed for its whole time   *)
(* to live, the process was stalled, or Redis lost the key.                *)
LockLost(a) ==
  /\ lock = a /\ Fault("lock")
  /\ lock' = None /\ failed' = CutShort(a)
  /\ UNCHANGED <<rec, gen, seq, vm, dirty, strays, store, local>>

LockExpires ==
  /\ lock = "gone" /\ lock' = None
  /\ UNCHANGED <<rec, gen, seq, machines, store, local, faults>>

(* A worker process ends.  The runner sees its caller disconnect.          *)
Crash(a) ==
  /\ ~At(a, "idle") /\ Fault("crash")
  /\ lock' = IF Fenced(a) THEN lock ELSE "gone"
  /\ Goto(a, "idle") /\ mine' = [mine EXCEPT ![a] = Absent]
  /\ tok' = [tok EXCEPT ![a] = None] /\ num' = [num EXCEPT ![a] = 0]
  /\ dirty' \in IF At(a, "execute") THEN {dirty, Disturbed(a)} ELSE {dirty}
  /\ failed' = CutShort(a)
  /\ UNCHANGED <<rec, gen, seq, vm, strays, store>>

(* The provider ends a MicroVM: idle for too long, or evicted.             *)
MachineDies(t) ==
  /\ vm[t] = "live" /\ vm' = Gone(t) /\ Fault("age")
  /\ UNCHANGED <<registry, dirty, failed, strays, store, local>>

(* Longer without use than the longest life of a MicroVM, after which the  *)
(* record and the counters expire too.                                     *)
Expire ==
  /\ lock = None /\ rec # Absent /\ \A a \in Attempts : At(a, "idle")
  /\ Fault("age")
  /\ rec' = Absent /\ gen' = 0 /\ seq' = 0
  /\ vm' = [t \in Tokens |-> IF vm[t] = "live" THEN "dead" ELSE vm[t]]
  /\ UNCHANGED <<lock, dirty, failed, strays, store, local>>

-----------------------------------------------------------------------------
Step(a) ==
  \/ Acquire(a) \/ Read(a) \/ Replace(a) \/ Generation(a) \/ Intent(a)
  \/ Launch(a) \/ Boot(a) \/ Retire(a) \/ Track(a) \/ Restore(a) \/ Advertise(a)
  \/ Abandon(a) \/ Remove(a) \/ Execute(a) \/ Finalize(a)
  \/ Quarantine(a) \/ Stop(a) \/ Terminal(a) \/ Kill(a)
  \/ Settle(a) \/ Pull(a) \/ AllocateSequence(a) \/ Put(a) \/ Point(a) \/ Mark(a)
  \/ Final(a) \/ Release(a)

Next ==
  \/ \E a \in Attempts : Step(a) \/ FenceAborts(a) \/ LockLost(a) \/ Crash(a)
  \/ \E s \in Seqs : Prune(s)
  \/ \E t \in Tokens : MachineDies(t)
  \/ LockExpires \/ Expire

Spec == Init /\ [][Next]_vars

(* Node runs a call that can go on, and Redis expires keys.                *)
FairSpec == Spec /\ WF_vars(LockExpires) /\ \A a \in Attempts : WF_vars(Step(a))

-----------------------------------------------------------------------------
(* The checkpoint that the record points at is in the store, although      *)
(* uploads, pointers, markers and collections of several holders           *)
(* interleave: restoreSession does not meet a missing archive.             *)
PointerHasObject == rec.ckpt # 0 => objects[rec.ckpt] # None

(* No marker is ahead of the pointer: the archive of a holder that lost    *)
(* the lock before its pointer was written never becomes the one that a    *)
(* restore after the loss of the record would take.                        *)
PointerCoversMarkers == rec.ckpt # 0 => \A m \in markers : m <= rec.ckpt

CanBeRecovered(t) == rec.state = "PENDING" /\ rec.vm = None /\ rec.gen = t[1]

(* A MicroVM in service is named by the record, or by the launch intent in *)
(* it, whatever crashes, lost replies and lost locks there were: none is   *)
(* left running unknown (findOrLaunchSession writes the intent first and   *)
(* repeats it under the same token).  The exception is a retry that an     *)
(* attempt launches after it lost the lock, before its heartbeat tells it. *)
NoOrphanVm ==
  \A t \in Tokens \ strays : vm[t] = "live" => rec.vm = t \/ CanBeRecovered(t)

(* What an execution did to a workspace when its result could not be       *)
(* finalized is not built upon, although one more call fails meanwhile: no *)
(* later execution that holds the lock completes on that MicroVM           *)
(* (recycleUncommittedSessionVm).                                          *)
MutationNotReused ==
  \A a \in Attempts :
     /\ lock = a
     /\ pc[a] \in {"settle", "pull", "allocate", "put", "point", "mark", "final", "served"}
     => tok[a] \notin failed

(* An archive is never replaced by another one: the sequence of a holder   *)
(* that was stalled is never given out again.                              *)
CheckpointKept ==
  \A s \in Seqs : objects[s] # None => objects'[s] \in {objects[s], None}

(* Checkpoints are consistent: the one to restore is in the store, no      *)
(* other overtakes it, and none is replaced (runtime-session/checkpoint.ts *)
(* and checkpoint-store.ts, run by several holders of a lock that is       *)
(* lost).                                                                  *)
CheckpointsSafe ==
  /\ [](TypeOK /\ PointerHasObject /\ PointerCoversMarkers)
  /\ [][CheckpointKept]_vars

(* retireExhaustedLaunchIntent: a record is retired when its MicroVMs have *)
(* ended.                                                                  *)
RetiredIsDead ==
  rec.state = "TERMINATED" => \A r \in {0, 1} : vm[<<rec.gen, r>>] # "live"

(* No fault wedges the session: once they stop, executions are served.     *)
EventuallyServed == []<>(\E a \in Attempts : At(a, "served"))
=============================================================================
