---------------------- MODULE RuntimeSessionInvariant -----------------------
(***************************************************************************)
(* The inductive invariant of RuntimeSession, lemmas about its operators,  *)
(* and that the steps by which an attempt finds or launches a MicroVM keep *)
(* the invariant.                                                          *)
(***************************************************************************)
EXTENDS RuntimeSession, TLAPS

(* The record names a MicroVM of its generation that was launched.         *)
RecInv ==
  /\ rec.vm # None => rec.gen = rec.vm[1] /\ vm[rec.vm] # "unborn"
  /\ rec.state = "PENDING" => rec.gen # 0
  /\ rec.state = "RUNNING" => rec.vm # None

(* A retry follows a launch that died.                                     *)
RetryInv == \A g \in 1..MaxGen : vm[<<g, 1>>] # "unborn" => vm[<<g, 0>>] = "dead"

(* What an attempt knows of its MicroVM, with or without the lock.  While  *)
(* a launch under the first token is still to be made, the record has its  *)
(* intent, whoever holds the lock meanwhile.                               *)
TokInv ==
  \A x \in Attempts :
    /\ pc[x] \notin {"idle", "read", "generation", "release"} => tok[x] \in Tokens
    /\ pc[x] \notin {"idle", "read", "generation", "release", "intent", "launch"}
         => vm[tok[x]] # "unborn"
    /\ pc[x] = "intent" => tok[x][2] = 0
    /\ pc[x] \in {"launch", "boot"} /\ tok[x][2] = 1 => vm[<<tok[x][1], 0>>] = "dead"
    /\ pc[x] \in {"retire", "remove", "terminal"} => vm[tok[x]] = "dead"

LaunchInv ==
  \A x \in Attempts :
    pc[x] = "launch" /\ tok[x][2] = 0 /\ vm[tok[x]] = "unborn" => CanBeRecovered(tok[x])

(* A record that a new generation may take the place of.                   *)
Outdated == ~CanReplay(rec) /\ (rec.vm # None => vm[rec.vm] = "dead")

Serving == {"execute", "finalize", "quarantine", "settle", "pull", "allocate", "put", "point",
            "mark", "final", "served"}

(* What the holder of the lock knows of the record: nobody else writes it. *)
HolderInv ==
  \A x \in Attempts : lock = x =>
    /\ pc[x] # "idle"
    /\ pc[x] \in {"replace", "restore", "advertise"} => rec.vm = tok[x]
    /\ pc[x] \in {"restore", "advertise"} => rec.state = "PENDING"
    /\ pc[x] = "generation" => Outdated
    /\ pc[x] = "intent" => Outdated \/ CanBeRecovered(tok[x])
    /\ pc[x] \in {"launch", "boot", "retire", "track"} => CanBeRecovered(tok[x])
    /\ pc[x] \in {"abandon", "remove"} => rec.vm = tok[x] \/ CanBeRecovered(tok[x])
    /\ pc[x] \in Serving => rec.state = "RUNNING" /\ rec.vm = tok[x]
    /\ pc[x] \in {"stop", "terminal"} => rec.state = "TERMINATING" /\ rec.vm = tok[x]

(* Its copy of the record, where it will write it back.                    *)
MineInv ==
  \A x \in Attempts : lock = x /\ pc[x] \in {"pull", "allocate", "put", "point", "final"} =>
    mine[x].state = "RUNNING" /\ mine[x].vm = rec.vm /\ mine[x].gen = rec.gen

(* The rest on MicroVMs holds without callers that abort a boot.  A holder *)
(* that has seen a MicroVM boot, or both of them dead, leaves none behind  *)
(* when it changes the record: a retry of the same generation is a stray.  *)
NoAborts == "abort" \notin Kinds

OrphanInv == NoAborts => NoOrphanVm

SiblingInv ==
  NoAborts =>
    \A x \in Attempts :
      /\ pc[x] = "retire" => tok[x][2] = 1
      /\ /\ lock = x /\ pc[x] \in {"track", "abandon", "remove"} /\ tok[x][2] = 0
         /\ vm[<<tok[x][1], 1>>] = "live"
         => <<tok[x][1], 1>> \in strays

(* No marker, no collection under way and no attempt about to mark is      *)
(* ahead of checkpoint c, and below it for a new one.                      *)
Covers(c) ==
  /\ \A m \in markers : m <= c
  /\ \A m \in prunes : m <= c
  /\ \A y \in Attempts : pc[y] = "mark" => num[y] <= c
Above(c) ==
  /\ \A m \in markers : m < c
  /\ \A m \in prunes : m < c
  /\ \A y \in Attempts : pc[y] = "mark" => num[y] < c

(* A checkpoint that a record may point at.                                *)
Restorable(c) == c # 0 => objects[c] # None /\ Covers(c)

(* Some archive at least as new as s is retained.                          *)
Outlived(s) == \E r \in Retained : s <= r

KeptInv ==
  /\ \A m \in markers : Outlived(m)
  /\ \A m \in prunes : Outlived(m)
  /\ \A y \in Attempts : pc[y] = "mark" => Outlived(num[y])

Copying == {"replace", "generation", "intent", "launch", "boot", "retire", "track", "restore",
            "advertise", "pull", "allocate", "put", "point", "final", "stop", "terminal"}

(* The holder writes checkpoints back that are still good, and a new one   *)
(* only above everything marked.                                           *)
CkptInv ==
  /\ Restorable(rec.ckpt)
  /\ \A x \in Attempts : lock = x =>
       /\ pc[x] \in Copying => Restorable(mine[x].ckpt)
       /\ pc[x] \in {"put", "point"} => Above(num[x])
       /\ pc[x] = "point" => objects[num[x]] # None
       /\ pc[x] = "mark" => rec.ckpt = num[x]

(* A sequence that was allocated belongs to one attempt, and one yet to be *)
(* allocated will be new.                                                  *)
SeqInv ==
  \A x \in Attempts :
    /\ pc[x] \in {"put", "point", "mark"} => num[x] \in Seqs /\ num[x] <= seq
    /\ pc[x] = "put" => /\ objects[num[x]] = None
                        /\ \A y \in Attempts \ {x} : pc[y] = "put" => num[x] # num[y]
    /\ pc[x] = "allocate" => \A s \in Retained : s <= seq \/ s <= num[x]

(* With two faults at most, a MicroVM whose last result was not kept is    *)
(* dead, or recorded as terminating, or about to be one of these.          *)
FailedInv ==
  MaxFaults <= 2 =>
    /\ \A t \in failed : vm[t] # "unborn"
    /\ \A t \in failed :
         \/ vm[t] = "dead"
         \/ rec.vm = t /\ rec.state = "TERMINATING"
         \/ \E x \in Attempts : /\ lock = x /\ tok[x] = t
                                /\ \/ pc[x] = "quarantine" /\ faults >= 1
                                   \/ pc[x] = "kill" /\ faults >= 2
    /\ \A x \in Attempts : lock = x /\ pc[x] \in Serving \ {"execute", "quarantine"}
         => tok[x] \notin failed

Types == RegistryOK /\ MachinesOK /\ StoreOK /\ LocalOK

IInv ==
  /\ Types /\ RecInv /\ RetryInv /\ TokInv /\ LaunchInv /\ HolderInv /\ MineInv
  /\ OrphanInv /\ SiblingInv /\ KeptInv /\ CkptInv /\ SeqInv /\ FailedInv

(* The same under a name that the proofs of the steps do not expand.       *)
SessionInv == IInv

-----------------------------------------------------------------------------
(* Lemmas about the operators *)

(* A token is a generation and whether it is the retry of its launch.      *)
LEMMA TokenFacts ==
  /\ \A t \in Tokens : t[1] \in 1..MaxGen /\ t[2] \in {0, 1} /\ t = <<t[1], t[2]>>
  /\ \A g \in 1..MaxGen : /\ <<g, 0>> \in Tokens /\ <<g, 1>> \in Tokens /\ <<g, 0>> # <<g, 1>>
                          /\ <<g, 0>>[1] = g /\ <<g, 0>>[2] = 0
                          /\ <<g, 1>>[1] = g /\ <<g, 1>>[2] = 1
BY DEF Tokens

(* MicroVMs only die: none is born, none comes back.                       *)
Dying ==
  /\ vm' \in [Tokens -> {"unborn", "live", "dead"}]
  /\ \A t \in Tokens : /\ vm'[t] = "unborn" <=> vm[t] = "unborn"
                       /\ vm'[t] = "live" => vm[t] = "live"
                       /\ vm[t] = "dead" => vm'[t] = "dead"

(* terminateMicrovm, whether it takes effect or not, revives no MicroVM.   *)
LEMMA GoneIsDying ==
  ASSUME MachinesOK, NEW t \in Tokens, vm[t] # "unborn", vm' \in {vm, Gone(t)}
  PROVE  Dying
BY Zenon DEF MachinesOK, Gone, Dying

(* terminate succeeds, or one more fault is spent.                         *)
LEMMA TerminateKills ==
  ASSUME Types, NEW a \in Attempts, tok[a] \in Tokens, vm[tok[a]] # "unborn",
         NEW done, NEW lost, Terminate(a, done, lost)
  PROVE  /\ Dying /\ faults' \in 0..MaxFaults /\ faults' >= faults
         /\ vm'[tok[a]] = "dead" \/ faults < MaxFaults
         /\ \/ pc' = [pc EXCEPT ![a] = done] /\ vm'[tok[a]] = "dead"
            \/ pc' = [pc EXCEPT ![a] = lost]
<1>1. Dying
  BY Zenon, GoneIsDying DEF Types, Terminate
<1>2. faults' \in 0..MaxFaults /\ faults' >= faults
  BY ConstantsAssumption DEF Types, LocalOK, Terminate, NoFault, Fault
<1>3. Gone(tok[a])[tok[a]] = "dead"
  BY Zenon DEF Types, MachinesOK, Gone
<1> QED
  BY Zenon, <1>1, <1>2, <1>3 DEF Terminate, Goto, Fault

(* writeRuntimeSessionRecord: the record changes only for the holder, and  *)
(* a writer that goes on has written it.                                   *)
Published(a, new, done, lost) ==
  /\ rec' \in Record /\ faults' \in 0..MaxFaults /\ faults' >= faults
  /\ \/ lock = a /\ rec' = new /\ pc' = [pc EXCEPT ![a] = done]
     \/ rec' = rec /\ pc' = [pc EXCEPT ![a] = lost] /\ (lock = a => faults' > faults)
     \/ lock = a /\ rec' = new /\ pc' = [pc EXCEPT ![a] = lost] /\ faults' > faults

(* writeRuntimeSessionRecord is such a write, also when its reply is lost or *)
(* the writer has lost the lock.                                           *)
LEMMA PublishWrites ==
  ASSUME Types, NEW a \in Attempts, NEW new \in Record, NEW done, NEW lost,
         Publish(a, new, done, lost)
  PROVE  Published(a, new, done, lost)
<1>1. CASE lock = a /\ rec' = new /\ Goto(a, done) /\ NoFault
  BY <1>1 DEF Published, Types, LocalOK, Goto, NoFault
<1>2. CASE lock # a /\ rec' = rec /\ Goto(a, lost) /\ NoFault
  BY <1>2 DEF Published, Types, RegistryOK, LocalOK, Goto, NoFault
<1>3. CASE Fault("redis") /\ Goto(a, lost) /\ rec' \in IF Fenced(a) THEN {rec} ELSE {rec, new}
  BY <1>3, ConstantsAssumption DEF Published, Types, RegistryOK, LocalOK, Goto, Fault, Fenced
<1> QED
  BY Zenon, <1>1, <1>2, <1>3 DEF Publish, Fenced

(* The records that an attempt writes about a launch.                      *)
LEMMA LaunchingRecord ==
  ASSUME Types, NEW a \in Attempts, tok[a] \in Tokens, NEW t \in Tokens \cup {None}
  PROVE  /\ Launching(a, t) \in Record
         /\ Launching(a, t).state = "PENDING" /\ Launching(a, t).vm = t
         /\ Launching(a, t).gen = tok[a][1] /\ Launching(a, t).ckpt = mine[a].ckpt
<1>1. mine[a].ckpt \in 0..MaxSeq
  BY Zenon DEF Types, LocalOK, Record
<1>2. tok[a][1] \in 0..MaxGen
  BY TokenFacts
<1> QED
  BY Zenon, <1>1, <1>2 DEF Launching, Record

(* A new sequence exceeds the counter and what is retained.                *)
LEMMA NextIsAbove ==
  ASSUME seq \in Nat, NEW n \in Nat
  PROVE  NextSequence(n) \in Nat /\ NextSequence(n) > seq /\ NextSequence(n) > n
BY DEF NextSequence

(* What is outlived stays so while archives are only added.                *)
LEMMA StillOutlived ==
  ASSUME Retained \subseteq Retained', NEW m, Outlived(m)
  PROVE  Outlived(m)'
BY Zenon DEF Outlived

(* Of the two MicroVMs of a generation the first is launched first.        *)
LEMMA FirstIsBorn ==
  ASSUME RetryInv, NEW s \in Tokens, NEW t \in Tokens, s[1] = t[1], vm[s] # "unborn", t[2] = 0
  PROVE  vm[t] # "unborn"
<1>1. s = t \/ (s = <<t[1], 1>> /\ t = <<t[1], 0>>)
  BY TokenFacts
<1> QED
  BY <1>1, TokenFacts DEF RetryInv

(* While one of them is live the other, if it was launched at all, is the  *)
(* first of the two.                                                       *)
LEMMA OtherIsRetry ==
  ASSUME RetryInv, NEW s \in Tokens, NEW t \in Tokens, s[1] = t[1], t # s,
         vm[s] # "unborn", vm[t] = "live"
  PROVE  s[2] = 0 /\ t = <<s[1], 1>>
<1>1. (s[2] = 0 /\ t = <<s[1], 1>>) \/ (s = <<s[1], 1>> /\ t = <<s[1], 0>>)
  BY TokenFacts
<1> QED
  BY <1>1, TokenFacts DEF RetryInv

(* Taking the lock keeps the invariant.                                    *)
LEMMA AcquireStep ==
  ASSUME SessionInv, NEW a \in Attempts, Acquire(a)
  PROVE  SessionInv'
<1>inv. IInv
  BY Zenon DEF SessionInv
<1> USE <1>inv DEF IInv
<1>1. (MachinesOK /\ StoreOK /\ RecInv /\ RetryInv /\ OrphanInv)'
  BY Zenon DEF Acquire, Types, registry, machines, store, local, MachinesOK, StoreOK, RecInv,
     RetryInv, OrphanInv, NoOrphanVm, CanBeRecovered
<1>2. (RegistryOK /\ LocalOK /\ TokInv /\ LaunchInv)'
  BY ConstantsAssumption DEF Acquire, At, Goto, NoFault, Fault, Fenced, registry,
     machines, store, local, Types, RegistryOK, Record, LocalOK, Steps, TokInv, LaunchInv,
     CanBeRecovered
<1>3. (HolderInv /\ MineInv /\ SiblingInv /\ KeptInv)'
  BY ZenonT(60), ConstantsAssumption DEF Acquire, At, Goto, NoFault, Fault, Fenced, registry,
     machines, store, local, Types, LocalOK, HolderInv, Outdated, CanBeRecovered, Serving,
     MineInv, SiblingInv, KeptInv, Outlived, Retained
<1>4. (CkptInv /\ SeqInv /\ FailedInv)'
  BY ConstantsAssumption DEF Acquire, At, Goto, NoFault, Fault, Fenced, registry,
     machines, store, local, Types, LocalOK, CkptInv, Restorable, Covers, Above, Copying, SeqInv,
     Retained, FailedInv, Serving
<1>all. IInv'
  BY Zenon, <1>1, <1>2, <1>3, <1>4 DEF Types
<1> HIDE DEF IInv
<1> QED
  BY Zenon, <1>all DEF SessionInv

(* Reading the record keeps the invariant.                                 *)
LEMMA ReadStep ==
  ASSUME SessionInv, NEW a \in Attempts, Read(a)
  PROVE  SessionInv'
<1>inv. IInv
  BY Zenon DEF SessionInv
<1> USE <1>inv DEF IInv
<1>tok. /\ CanReplay(rec) => <<rec.gen, 0>> \in Tokens /\ <<rec.gen, 0>>[2] = 0
        /\ rec.vm \in Tokens \cup {None}
  <2>1. CanReplay(rec) => rec.gen \in 1..MaxGen
    BY ConstantsAssumption DEF CanReplay, RecInv, Types, RegistryOK, Record
  <2> QED
    BY Zenon, <2>1, TokenFacts DEF Types, RegistryOK, Record
<1>1. (RegistryOK /\ MachinesOK /\ StoreOK /\ RecInv /\ RetryInv /\ OrphanInv)'
  BY Zenon DEF Read, Types, registry, machines, store, local, RegistryOK, MachinesOK, StoreOK,
     RecInv, RetryInv, OrphanInv, NoOrphanVm, CanBeRecovered
<1>2. LocalOK'
  <2>1. tok' \in [Attempts -> Tokens \cup {None}]
    BY Zenon, <1>tok DEF Read, Types, LocalOK
  <2>2. pc' \in [Attempts -> Steps]
    BY ZenonT(60) DEF Read, Goto, Types, LocalOK, Steps, Supersede
  <2>3. faults' \in 0..MaxFaults
    BY ConstantsAssumption DEF Read, NoFault, Fault, Types, LocalOK
  <2>4. mine' \in [Attempts -> Record]
    BY Zenon DEF Read, Types, LocalOK, RegistryOK
  <2> QED
    BY Zenon, <2>1, <2>2, <2>3, <2>4 DEF Read, Types, LocalOK
<1>3. TokInv'
  <2> SUFFICES ASSUME NEW x \in Attempts
               PROVE  /\ pc'[x] \notin {"idle", "read", "generation", "release"} => tok'[x] \in Tokens
                      /\ pc'[x] \notin {"idle", "read", "generation", "release", "intent", "launch"}
                           => vm'[tok'[x]] # "unborn"
                      /\ pc'[x] = "intent" => tok'[x][2] = 0
                      /\ pc'[x] \in {"launch", "boot"} /\ tok'[x][2] = 1
                           => vm'[<<tok'[x][1], 0>>] = "dead"
                      /\ pc'[x] \in {"retire", "remove", "terminal"} => vm'[tok'[x]] = "dead"
    BY Zenon DEF TokInv
  <2>1. CASE x # a
    BY Zenon, <2>1 DEF TokInv, Read, Goto, machines, Types, LocalOK
  <2>2. CASE x = a
    <3>1. /\ tok'[a] = (IF CanReplay(rec) THEN <<rec.gen, 0>> ELSE rec.vm) /\ vm' = vm
          /\ \/ pc'[a] = "execute" /\ Reusable(rec)
             \/ pc'[a] = "intent" /\ CanReplay(rec)
             \/ pc'[a] = "replace" /\ rec.vm # None
             \/ pc'[a] \in {"generation", "release"}
      BY Zenon DEF Read, Goto, machines, Types, LocalOK, Supersede
    <3>2. rec.vm # None => vm[rec.vm] # "unborn" /\ ~CanReplay(rec)
      BY Zenon DEF RecInv, CanReplay
    <3> QED
      BY Zenon, <1>tok, <2>2, <3>1, <3>2 DEF Reusable
  <2> QED
    BY Zenon, <2>1, <2>2
<1>4. (LaunchInv /\ HolderInv /\ MineInv /\ SiblingInv)'
  BY <1>tok, ConstantsAssumption DEF Read, Reusable, CanReplay, Supersede, At,
     Goto, NoFault, Fault, Fenced, registry, machines, store, local, Types, LocalOK, LaunchInv,
     CanBeRecovered, HolderInv, Outdated, Serving, MineInv, SiblingInv
<1>5. (KeptInv /\ CkptInv /\ SeqInv /\ FailedInv)'
  BY <1>tok, ConstantsAssumption DEF Read, Reusable, CanReplay, Supersede, At,
     Goto, NoFault, Fault, Fenced, registry, machines, store, local, Types, LocalOK, KeptInv,
     Outlived, Retained, CkptInv, Restorable, Covers, Above, Copying, SeqInv, FailedInv, Serving
<1>all. IInv'
  BY Zenon, <1>1, <1>2, <1>3, <1>4, <1>5 DEF Types
<1> HIDE DEF IInv
<1> QED
  BY Zenon, <1>all DEF SessionInv

(* Terminating the MicroVM that is replaced keeps the invariant.           *)
LEMMA ReplaceStep ==
  ASSUME SessionInv, NEW a \in Attempts, Replace(a)
  PROVE  SessionInv'
<1>inv. IInv
  BY Zenon DEF SessionInv
<1> USE <1>inv DEF IInv
<1>tok. tok[a] \in Tokens /\ vm[tok[a]] # "unborn"
  BY Zenon DEF TokInv, Replace, At
<1>end. /\ Dying /\ faults' \in 0..MaxFaults /\ faults' >= faults
        /\ vm'[tok[a]] = "dead" \/ faults < MaxFaults
        /\ \/ pc' = [pc EXCEPT ![a] = "generation"] /\ vm'[tok[a]] = "dead"
           \/ pc' = [pc EXCEPT ![a] = "release"]
  BY Zenon, <1>tok, TerminateKills DEF Replace
<1>1. (RegistryOK /\ StoreOK)'
  BY Zenon DEF Replace, Types, registry, machines, store, local, RegistryOK, StoreOK
<1>2. (MachinesOK /\ LocalOK /\ MineInv /\ OrphanInv)'
  BY <1>tok, <1>end, ConstantsAssumption DEF Replace, Dying, At, Goto, NoFault,
     Fault, Fenced, registry, machines, store, local, Types, MachinesOK, LocalOK, Steps, MineInv,
     OrphanInv, NoOrphanVm, CanBeRecovered
<1>3. (RecInv /\ HolderInv)'
  BY <1>tok, <1>end, TokenFacts, ConstantsAssumption DEF Replace, Dying, At, Goto,
     NoFault, Fault, Fenced, registry, machines, store, local, Types, RegistryOK, MachinesOK,
     LocalOK, RecInv, TokInv, HolderInv, MineInv, Record, Outdated, CanBeRecovered, Serving,
     CanReplay
<1>4. (RetryInv /\ TokInv /\ FailedInv)'
  BY SMTT(30), <1>tok, <1>end, TokenFacts, ConstantsAssumption DEF Replace, Dying, At, Goto,
     NoFault, Fault, Fenced, registry, machines, store, local, Types, MachinesOK, RetryInv,
     TokInv, LocalOK, FailedInv, Serving
<1>5. LaunchInv'
  <2> SUFFICES ASSUME NEW x \in Attempts,
                      pc'[x] = "launch", tok'[x][2] = 0, vm'[tok'[x]] = "unborn"
               PROVE  rec'.state = "PENDING" /\ rec'.vm = None /\ rec'.gen = tok'[x][1]
    BY Zenon DEF LaunchInv, CanBeRecovered
  <2>1. pc[x] = "launch" /\ tok'[x] = tok[x]
    BY Zenon, <1>end, TokenFacts DEF Replace, At, Goto, Types, LocalOK, local
  <2>2. tok[x] \in Tokens
    BY Zenon, <2>1 DEF TokInv
  <2>3. CanBeRecovered(tok[x])
    BY Zenon, <1>end, <2>1, <2>2 DEF Dying, LaunchInv
  <2> QED
    BY Zenon, <2>1, <2>3 DEF Replace, registry, CanBeRecovered
<1>6. SiblingInv'
  <2>1. ASSUME NoAborts, NEW x \in Attempts, pc'[x] = "retire"
        PROVE  tok'[x][2] = 1
    BY Zenon, <2>1, <1>end, TokenFacts DEF Replace, At, Goto, Types, LocalOK, local, SiblingInv
  <2>2. ASSUME NoAborts, NEW x \in Attempts, lock' = x, pc'[x] \in {"track", "abandon", "remove"},
               tok'[x][2] = 0, vm'[<<tok'[x][1], 1>>] = "live"
        PROVE  <<tok'[x][1], 1>> \in strays'
    <3>1. /\ lock = x /\ tok'[x] = tok[x] /\ strays' = strays
          /\ pc[x] \in {"track", "abandon", "remove"}
      BY Zenon, <2>2, <1>end, TokenFacts DEF Replace, At, Goto, Types, LocalOK, local, registry, Fenced
    <3>2. tok[x] \in Tokens
      BY Zenon, <3>1 DEF TokInv
    <3>3. vm[<<tok[x][1], 1>>] = "live"
      BY ZenonT(60), <2>2, <3>1, <3>2, <1>end, TokenFacts DEF Dying
    <3> QED
      BY Zenon, <2>2, <3>1, <3>2, <3>3, TokenFacts DEF SiblingInv
  <2> QED
    BY Zenon, <2>1, <2>2 DEF SiblingInv, NoAborts
<1>7. (KeptInv /\ CkptInv /\ SeqInv)'
  BY <1>tok, <1>end, ConstantsAssumption DEF Replace, Dying, At, Goto, NoFault,
     Fault, Fenced, registry, machines, store, local, Types, LocalOK, KeptInv, Outlived, Retained,
     CkptInv, Restorable, Covers, Above, Copying, SeqInv
<1>all. IInv'
  BY Zenon, <1>1, <1>2, <1>3, <1>4, <1>5, <1>6, <1>7 DEF Types
<1> HIDE DEF IInv
<1> QED
  BY Zenon, <1>all DEF SessionInv

(* Allocating a generation keeps the invariant.                            *)
LEMMA GenerationStep ==
  ASSUME SessionInv, NEW a \in Attempts, Generation(a)
  PROVE  SessionInv'
<1>inv. IInv
  BY Zenon DEF SessionInv
<1> USE <1>inv DEF IInv
<1>tok. gen + 1 \in 1..MaxGen /\ <<gen + 1, 0>> \in Tokens /\ <<gen + 1, 0>>[2] = 0
  <2>1. gen + 1 \in 1..MaxGen
    BY ConstantsAssumption DEF Generation, Types, RegistryOK
  <2> QED
    BY Zenon, <2>1, TokenFacts
<1>1. (MachinesOK /\ StoreOK /\ RecInv /\ RetryInv /\ OrphanInv)'
  BY Zenon DEF Generation, Types, registry, machines, store, local, MachinesOK, StoreOK, RecInv,
     RetryInv, OrphanInv, NoOrphanVm, CanBeRecovered
<1>2. (RegistryOK /\ LaunchInv /\ HolderInv)'
  BY <1>tok, ConstantsAssumption DEF Generation, At, Goto, NoFault, Fault, Fenced,
     registry, machines, store, local, Types, RegistryOK, Record, LocalOK, LaunchInv,
     CanBeRecovered, HolderInv, Outdated, Serving
<1>3. LocalOK'
  <2>1. tok' \in [Attempts -> Tokens \cup {None}]
    BY Zenon, <1>tok DEF Generation, Types, LocalOK
  <2>2. pc' \in [Attempts -> Steps]
    BY Zenon DEF Generation, Goto, Types, LocalOK, Steps
  <2> QED
    BY Zenon, <2>1, <2>2 DEF Generation, NoFault, Types, LocalOK
<1>4. TokInv'
  <2> SUFFICES ASSUME NEW x \in Attempts
               PROVE  /\ pc'[x] \notin {"idle", "read", "generation", "release"} => tok'[x] \in Tokens
                      /\ pc'[x] \notin {"idle", "read", "generation", "release", "intent", "launch"}
                           => vm'[tok'[x]] # "unborn"
                      /\ pc'[x] = "intent" => tok'[x][2] = 0
                      /\ pc'[x] \in {"launch", "boot"} /\ tok'[x][2] = 1
                           => vm'[<<tok'[x][1], 0>>] = "dead"
                      /\ pc'[x] \in {"retire", "remove", "terminal"} => vm'[tok'[x]] = "dead"
    BY Zenon DEF TokInv
  <2>1. CASE x # a
    BY Zenon, <2>1 DEF TokInv, Generation, Goto, machines, Types, LocalOK
  <2>2. CASE x = a
    <3>1. tok'[a] = <<gen + 1, 0>> /\ pc'[a] = "intent"
      BY Zenon DEF Generation, Goto, Types, LocalOK
    <3> QED
      BY Zenon, <1>tok, <2>2, <3>1
  <2> QED
    BY Zenon, <2>1, <2>2
<1>5. (MineInv /\ SiblingInv /\ KeptInv)'
  BY Zenon, <1>tok, ConstantsAssumption DEF Generation, At, Goto, NoFault, Fault, Fenced,
     registry, machines, store, local, Types, LocalOK, MineInv, SiblingInv, KeptInv, Outlived,
     Retained
<1>6. (CkptInv /\ SeqInv /\ FailedInv)'
  BY <1>tok, ConstantsAssumption DEF Generation, At, Goto, NoFault, Fault, Fenced,
     registry, machines, store, local, Types, LocalOK, CkptInv, Restorable, Covers, Above,
     Copying, SeqInv, Retained, FailedInv, Serving
<1>all. IInv'
  BY Zenon, <1>1, <1>2, <1>3, <1>4, <1>5, <1>6 DEF Types
<1> HIDE DEF IInv
<1> QED
  BY Zenon, <1>all DEF SessionInv

(* Writing the launch intent keeps the invariant.                          *)
LEMMA IntentStep ==
  ASSUME SessionInv, NEW a \in Attempts, Intent(a)
  PROVE  SessionInv'
<1>inv. IInv
  BY Zenon DEF SessionInv
<1> USE <1>inv DEF IInv
<1>tok. tok[a] \in Tokens
  BY Zenon DEF TokInv, Intent, At
<1> DEFINE new == Launching(a, None)
<1>new. /\ new \in Record
        /\ new.state = "PENDING" /\ new.vm = None
        /\ new.gen = tok[a][1] /\ new.ckpt = mine[a].ckpt
  BY Zenon, <1>tok, LaunchingRecord
<1>write. Published(a, new, "launch", "release")
  BY Zenon, <1>new, PublishWrites DEF Intent, LaunchIntent, Retired, PointerLost
<1> HIDE DEF new
<1>1. (MachinesOK /\ StoreOK /\ RetryInv)'
  BY Zenon DEF Intent, Types, registry, machines, store, local, MachinesOK, StoreOK, RetryInv
<1>2. (RegistryOK /\ LocalOK /\ TokInv /\ HolderInv)'
  BY <1>tok, <1>new, <1>write, ConstantsAssumption DEF Intent, Published, At,
     Goto, NoFault, Fault, Fenced, registry, machines, store, local, Types, RegistryOK, Record,
     LocalOK, Steps, TokInv, HolderInv, Outdated, CanBeRecovered, Serving
<1>3. RecInv'
  BY SMTT(30), <1>tok, <1>new, <1>write, TokenFacts, ConstantsAssumption DEF Intent, Published, At,
     Goto, NoFault, Fault, Fenced, registry, machines, store, local, Types, RecInv, MachinesOK,
     TokInv
<1>4. (LaunchInv /\ OrphanInv /\ FailedInv)'
  BY SMTT(30), <1>tok, <1>new, <1>write, TokenFacts, ConstantsAssumption DEF Intent,
     Published, At, Goto, NoFault, Fault, Fenced, registry, machines, store, local, Types,
     RegistryOK, MachinesOK, LocalOK, RecInv, RetryInv, TokInv, LaunchInv, HolderInv,
     CanBeRecovered, Outdated, Serving, Record, CanReplay, SiblingInv, MineInv, OrphanInv,
     NoOrphanVm, FailedInv
<1>5. (MineInv /\ SiblingInv /\ KeptInv)'
  BY SMTT(30), <1>tok, <1>new, <1>write, ConstantsAssumption DEF Intent, Published, At,
     Goto, NoFault, Fault, Fenced, registry, machines, store, local, Types, LocalOK, MineInv,
     SiblingInv, KeptInv, Outlived, Retained
<1>6. (CkptInv /\ SeqInv)'
  BY <1>tok, <1>new, <1>write, ConstantsAssumption DEF Intent, Published, At,
     Goto, NoFault, Fault, Fenced, registry, machines, store, local, Types, LocalOK, CkptInv,
     Restorable, Covers, Above, Copying, SeqInv, Retained
<1>all. IInv'
  BY Zenon, <1>1, <1>2, <1>3, <1>4, <1>5, <1>6 DEF Types
<1> HIDE DEF IInv
<1> QED
  BY Zenon, <1>all DEF SessionInv

(* RunMicrovm keeps the invariant.                                         *)
LEMMA LaunchStep ==
  ASSUME SessionInv, NEW a \in Attempts, Launch(a)
  PROVE  SessionInv'
<1>inv. IInv
  BY Zenon DEF SessionInv
<1> USE <1>inv DEF IInv
<1>1. (RegistryOK /\ StoreOK)'
  BY Zenon DEF Launch, Types, registry, machines, store, local, RegistryOK, StoreOK
<1>2. (MachinesOK /\ LocalOK /\ MineInv)'
  BY SMTT(30), ConstantsAssumption DEF Launch, Started, At, Goto, NoFault, Fault, Fenced,
     registry, machines, store, local, Types, MachinesOK, LocalOK, Steps, MineInv
<1>3. (RecInv /\ HolderInv /\ OrphanInv)'
  BY SMTT(30), TokenFacts, ConstantsAssumption DEF Launch, Started, At, Goto, NoFault,
     Fault, Fenced, registry, machines, store, local, Types, RegistryOK, MachinesOK, LocalOK,
     RecInv, TokInv, HolderInv, MineInv, Record, Outdated, CanBeRecovered, Serving, CanReplay,
     RetryInv, LaunchInv, SiblingInv, OrphanInv, NoOrphanVm
<1>4. (RetryInv /\ TokInv /\ FailedInv)'
  BY SMTT(30), TokenFacts, ConstantsAssumption DEF Launch, Started, At, Goto, NoFault,
     Fault, Fenced, registry, machines, store, local, Types, MachinesOK, RetryInv, TokInv,
     LocalOK, FailedInv, Serving
<1>5. LaunchInv'
  <2> SUFFICES ASSUME NEW x \in Attempts,
                      pc'[x] = "launch", tok'[x][2] = 0, vm'[tok'[x]] = "unborn"
               PROVE  rec'.state = "PENDING" /\ rec'.vm = None /\ rec'.gen = tok'[x][1]
    BY Zenon DEF LaunchInv, CanBeRecovered
  <2>1. pc[x] = "launch" /\ tok'[x] = tok[x]
    BY Zenon, TokenFacts DEF Launch, At, Goto, Types, LocalOK, local
  <2>2. tok[x] \in Tokens
    BY Zenon, <2>1 DEF TokInv
  <2>3. CanBeRecovered(tok[x])
    <3>1. tok[a] \in Tokens
      BY Zenon DEF Launch, At, TokInv
    <3>2. vm[tok[x]] = "unborn"
      BY Zenon, <2>1, <2>2, <3>1 DEF Launch, Started, Types, MachinesOK
    <3> QED
      BY Zenon, <2>1, <3>2 DEF LaunchInv
  <2> QED
    BY Zenon, <2>1, <2>3 DEF Launch, registry, CanBeRecovered
<1>6. SiblingInv'
  <2>1. ASSUME NoAborts, NEW x \in Attempts, pc'[x] = "retire"
        PROVE  tok'[x][2] = 1
    BY Zenon, <2>1 DEF Launch, At, Goto, Types, LocalOK, local, SiblingInv
  <2>2. ASSUME NoAborts, NEW x \in Attempts, lock' = x, pc'[x] \in {"track", "abandon", "remove"},
               tok'[x][2] = 0, vm'[<<tok'[x][1], 1>>] = "live"
        PROVE  <<tok'[x][1], 1>> \in strays'
    <3>1. /\ lock = x /\ tok'[x] = tok[x] /\ x # a
          /\ pc[x] \in {"track", "abandon", "remove"}
      BY Zenon, <2>2 DEF Launch, At, Goto, Types, LocalOK, local, registry
    <3>2. tok[x] \in Tokens /\ tok[a] \in Tokens
      BY Zenon, <3>1 DEF TokInv, Launch, At
    <3>3. CASE vm[<<tok[x][1], 1>>] = "live"
      BY Zenon, <2>2, <3>1, <3>3 DEF SiblingInv, Launch
    <3>4. CASE vm[<<tok[x][1], 1>>] # "live"
      <4>1. tok[a] = <<tok[x][1], 1>> /\ vm' # vm
        BY <2>2, <3>1, <3>2, <3>4, TokenFacts DEF Launch, Started, Types, MachinesOK
      <4>2. tok[a][2] = 1
        BY ZenonT(60), <3>2, <4>1, TokenFacts
      <4> QED
        BY Zenon, <3>1, <4>1, <4>2 DEF Launch, Fenced
    <3> QED
      BY Zenon, <3>3, <3>4
  <2> QED
    BY Zenon, <2>1, <2>2 DEF SiblingInv, NoAborts
<1>7. (KeptInv /\ CkptInv /\ SeqInv)'
  BY ConstantsAssumption DEF Launch, Started, At, Goto, NoFault, Fault, Fenced,
     registry, machines, store, local, Types, LocalOK, KeptInv, Outlived, Retained, CkptInv,
     Restorable, Covers, Above, Copying, SeqInv
<1>all. IInv'
  BY Zenon, <1>1, <1>2, <1>3, <1>4, <1>5, <1>6, <1>7 DEF Types
<1> HIDE DEF IInv
<1> QED
  BY Zenon, <1>all DEF SessionInv

(* Waiting for a MicroVM to boot keeps the invariant.                      *)
LEMMA BootStep ==
  ASSUME SessionInv, NEW a \in Attempts, Boot(a)
  PROVE  SessionInv'
<1>inv. IInv
  BY Zenon DEF SessionInv
<1> USE <1>inv DEF IInv
<1>tok. tok[a] \in Tokens /\ vm[tok[a]] # "unborn"
  BY Zenon DEF TokInv, Boot, At
<1>end. Dying
  BY Zenon, <1>tok, GoneIsDying DEF Boot, Types
<1>1. (RegistryOK /\ StoreOK)'
  BY Zenon DEF Boot, Types, registry, machines, store, local, RegistryOK, StoreOK
<1>2. (MachinesOK /\ MineInv /\ OrphanInv)'
  BY <1>tok, <1>end, ConstantsAssumption DEF Boot, Dying, At, Goto, NoFault,
     Fault, Fenced, registry, machines, store, local, Types, MachinesOK, LocalOK, MineInv,
     OrphanInv, NoOrphanVm, CanBeRecovered
<1>3. LocalOK'
  <2>1. tok' \in [Attempts -> Tokens \cup {None}]
    <3>1. <<tok[a][1], 1>> \in Tokens
      BY Zenon, <1>tok, TokenFacts
    <3> QED
      BY Zenon, <3>1 DEF Boot, Types, LocalOK
  <2>2. pc' \in [Attempts -> Steps]
    BY ZenonT(60) DEF Boot, Goto, Types, LocalOK, Steps
  <2>3. faults' \in 0..MaxFaults
    BY ConstantsAssumption DEF Boot, NoFault, Fault, Types, LocalOK
  <2> QED
    BY Zenon, <2>1, <2>2, <2>3 DEF Boot, Types, LocalOK
<1>4. RecInv'
  BY Zenon, <1>tok, <1>end, TokenFacts, ConstantsAssumption DEF Boot, Dying, At, Goto, NoFault,
     Fault, Fenced, registry, machines, store, local, Types, RegistryOK, MachinesOK, LocalOK,
     RecInv, TokInv, HolderInv, MineInv, Record, Outdated, CanBeRecovered, Serving
<1>5. (RetryInv /\ FailedInv)'
  BY <1>tok, <1>end, TokenFacts, ConstantsAssumption DEF Boot, Dying, At, Goto,
     NoFault, Fault, Fenced, registry, machines, store, local, Types, MachinesOK, RetryInv,
     TokInv, LocalOK, FailedInv, Serving
<1>6. TokInv'
  <2> SUFFICES ASSUME NEW x \in Attempts
               PROVE  /\ pc'[x] \notin {"idle", "read", "generation", "release"} => tok'[x] \in Tokens
                      /\ pc'[x] \notin {"idle", "read", "generation", "release", "intent", "launch"}
                           => vm'[tok'[x]] # "unborn"
                      /\ pc'[x] = "intent" => tok'[x][2] = 0
                      /\ pc'[x] \in {"launch", "boot"} /\ tok'[x][2] = 1
                           => vm'[<<tok'[x][1], 0>>] = "dead"
                      /\ pc'[x] \in {"retire", "remove", "terminal"} => vm'[tok'[x]] = "dead"
    BY Zenon DEF TokInv
  <2>1. CASE x # a
    <3>1. pc'[x] = pc[x] /\ tok'[x] = tok[x]
      BY Zenon, <2>1 DEF Boot, Goto, Types, LocalOK
    <3> QED
      BY <1>end, <3>1, TokenFacts DEF TokInv, Dying
  <2>2. CASE x = a
    <3>1. CASE pc'[a] = "launch" /\ tok'[a] = <<tok[a][1], 1>> /\ vm[tok[a]] = "dead" /\ tok[a][2] = 0
      <4>1. tok'[a] \in Tokens /\ tok'[a][1] = tok[a][1] /\ tok[a] = <<tok[a][1], 0>>
        BY Zenon, <1>tok, <3>1, TokenFacts
      <4> QED
        BY Zenon, <1>tok, <1>end, <2>2, <3>1, <4>1 DEF Dying
    <3>2. CASE /\ tok'[a] = tok[a]
               /\ pc'[a] \in {"track", "release"} \/ (pc'[a] = "retire" /\ vm[tok[a]] = "dead")
      BY Zenon, <1>tok, <1>end, <2>2, <3>2 DEF Dying
    <3> QED
      BY Zenon, <3>1, <3>2 DEF Boot, Goto, Types, LocalOK
  <2> QED
    BY Zenon, <2>1, <2>2
<1>7. LaunchInv'
  <2> SUFFICES ASSUME NEW x \in Attempts,
                      pc'[x] = "launch", tok'[x][2] = 0, vm'[tok'[x]] = "unborn"
               PROVE  rec'.state = "PENDING" /\ rec'.vm = None /\ rec'.gen = tok'[x][1]
    BY Zenon DEF LaunchInv, CanBeRecovered
  <2>1. pc[x] = "launch" /\ tok'[x] = tok[x]
    BY <1>tok, TokenFacts DEF Boot, At, Goto, Types, LocalOK, local
  <2>2. tok[x] \in Tokens
    BY Zenon, <2>1 DEF TokInv
  <2>3. CanBeRecovered(tok[x])
    BY ZenonT(60), <1>end, <2>1, <2>2 DEF Dying, LaunchInv
  <2> QED
    BY Zenon, <2>1, <2>3 DEF Boot, registry, CanBeRecovered
<1>8. HolderInv'
  BY <1>tok, <1>end, ConstantsAssumption DEF Boot, Dying, At, Goto, NoFault, Fault, Fenced,
     registry, machines, store, local, Types, RegistryOK, MachinesOK, LocalOK, RecInv, TokInv,
     HolderInv, MineInv, CanBeRecovered, Outdated, Serving, CanReplay, Record
<1>9. SiblingInv'
  <2>1. ASSUME NoAborts, NEW x \in Attempts, pc'[x] = "retire"
        PROVE  tok'[x][2] = 1
    <3>1. CASE x # a
      BY Zenon, <2>1, <3>1 DEF Boot, Goto, Types, LocalOK, SiblingInv
    <3>2. CASE x = a
      BY Zenon, <2>1, <3>2 DEF Boot, Goto, Types, LocalOK, NoAborts, Fault
    <3> QED
      BY Zenon, <3>1, <3>2
  <2>2. ASSUME NoAborts, NEW x \in Attempts, lock' = x, pc'[x] \in {"track", "abandon", "remove"},
               tok'[x][2] = 0, vm'[<<tok'[x][1], 1>>] = "live"
        PROVE  <<tok'[x][1], 1>> \in strays'
    <3>1. /\ lock = x /\ tok'[x] = tok[x] /\ strays' = strays
          /\ pc[x] \in {"track", "abandon", "remove"} \/ (x = a /\ vm[tok[a]] = "live")
      BY <2>2, <1>tok, TokenFacts DEF Boot, At, Goto, Types, LocalOK, local, NoAborts, Fault, registry, Fenced
    <3>2. tok[x] \in Tokens
      BY Zenon, <3>1, <1>tok DEF TokInv
    <3>3. vm[<<tok[x][1], 1>>] = "live"
      BY <2>2, <3>1, <3>2, <1>end, TokenFacts DEF Dying
    <3>4. ~(x = a /\ vm[tok[a]] = "live")
      BY SMTT(30), <2>2, <3>1, <3>2, <3>3, TokenFacts DEF RetryInv
    <3> QED
      BY ZenonT(60), <2>2, <3>1, <3>2, <3>3, <3>4, TokenFacts DEF SiblingInv
  <2> QED
    BY Zenon, <2>1, <2>2 DEF SiblingInv, NoAborts
<1>10. (KeptInv /\ CkptInv /\ SeqInv)'
  BY <1>tok, <1>end, ConstantsAssumption DEF Boot, Dying, At, Goto, NoFault,
     Fault, Fenced, registry, machines, store, local, Types, LocalOK, KeptInv, Outlived, Retained,
     CkptInv, Restorable, Covers, Above, Copying, SeqInv
<1>all. IInv'
  BY Zenon, <1>1, <1>2, <1>3, <1>4, <1>5, <1>6, <1>7, <1>8, <1>9, <1>10 DEF Types
<1> HIDE DEF IInv
<1> QED
  BY Zenon, <1>all DEF SessionInv

(* Retiring a launch intent keeps the invariant.                           *)
LEMMA RetireStep ==
  ASSUME SessionInv, NEW a \in Attempts, Retire(a)
  PROVE  SessionInv'
<1>inv. IInv
  BY Zenon DEF SessionInv
<1> USE <1>inv DEF IInv
<1>tok. tok[a] \in Tokens
  BY Zenon DEF TokInv, Retire, At
<1> DEFINE new == [Launching(a, None) EXCEPT !.state = "TERMINATED"]
<1>new. /\ new \in Record
        /\ new.state = "TERMINATED" /\ new.vm = None
        /\ new.gen = tok[a][1] /\ new.ckpt = mine[a].ckpt
  BY <1>tok, LaunchingRecord DEF Record, Retired
<1>write. Published(a, new, "release", "release")
  BY Zenon, <1>new, PublishWrites DEF Retire, LaunchIntent, Retired, PointerLost
<1> HIDE DEF new
<1>1. (MachinesOK /\ StoreOK /\ RetryInv)'
  BY Zenon DEF Retire, Types, registry, machines, store, local, MachinesOK, StoreOK, RetryInv
<1>2. (RegistryOK /\ LocalOK)'
  BY ZenonT(60), <1>tok, <1>new, <1>write, ConstantsAssumption DEF Retire, Published, At,
     Goto, NoFault, Fault, Fenced, registry, machines, store, local, Types, RegistryOK, Record,
     LocalOK, Steps
<1>3. (RecInv /\ TokInv)'
  BY <1>tok, <1>new, <1>write, ConstantsAssumption DEF Retire, Published, At,
     Goto, NoFault, Fault, Fenced, registry, machines, store, local, Types, RecInv, LocalOK,
     TokInv
<1>4. LaunchInv'
  <2> SUFFICES ASSUME NEW x \in Attempts,
                      pc'[x] = "launch", tok'[x][2] = 0, vm'[tok'[x]] = "unborn"
               PROVE  rec'.state = "PENDING" /\ rec'.vm = None /\ rec'.gen = tok'[x][1]
    BY Zenon DEF LaunchInv, CanBeRecovered
  <2>1. pc[x] = "launch" /\ tok'[x] = tok[x]
    BY Zenon, <1>write, TokenFacts DEF Retire, At, Goto, Types, LocalOK, local, Published
  <2>2. tok[x] \in Tokens
    BY Zenon, <2>1 DEF TokInv
  <2>3. CanBeRecovered(tok[x])
    BY Zenon, <2>1 DEF Retire, machines, LaunchInv
  <2>4. ~(lock = a /\ CanBeRecovered(tok[a]))
    <3>1. vm[tok[a]] # "unborn" /\ vm[tok[x]] = "unborn"
      BY ZenonT(60), <2>1 DEF TokInv, Retire, At, machines
    <3> QED
      BY Zenon, <1>tok, <2>1, <2>2, <2>3, <3>1, FirstIsBorn DEF CanBeRecovered
  <2> QED
    BY Zenon, <1>write, <2>1, <2>3, <2>4 DEF Retire, At, Published, HolderInv, CanBeRecovered
<1>5. HolderInv'
  BY SMTT(30), <1>tok, <1>new, <1>write, ConstantsAssumption DEF Retire, Published, At, Goto, NoFault,
     Fault, Fenced, registry, machines, store, local, Types, LocalOK, HolderInv, Outdated,
     CanBeRecovered, Serving
<1>6. (MineInv /\ SiblingInv /\ KeptInv)'
  BY <1>tok, <1>new, <1>write, ConstantsAssumption DEF Retire, Published, At,
     Goto, NoFault, Fault, Fenced, registry, machines, store, local, Types, LocalOK, MineInv,
     SiblingInv, KeptInv, Outlived, Retained
<1>7. OrphanInv'
  <2> SUFFICES ASSUME NoAborts, NEW t \in Tokens, t \notin strays, vm[t] = "live"
               PROVE  rec'.vm = t \/ (rec'.state = "PENDING" /\ rec'.vm = None /\ rec'.gen = t[1])
    BY Zenon DEF Retire, machines, OrphanInv, NoOrphanVm, CanBeRecovered, NoAborts
  <2>1. rec.vm = t \/ CanBeRecovered(t)
    BY Zenon DEF OrphanInv, NoOrphanVm
  <2>2. CASE rec' = rec
    BY Zenon, <2>1, <2>2 DEF CanBeRecovered
  <2>3. CASE lock = a /\ rec' = new
    <3>1. CanBeRecovered(tok[a]) /\ vm[tok[a]] = "dead" /\ tok[a][2] = 1
      BY Zenon, <2>3 DEF HolderInv, TokInv, SiblingInv, Retire, At
    <3>2. t[1] = tok[a][1]
      BY ZenonT(60), <2>1, <3>1, ConstantsAssumption DEF CanBeRecovered
    <3> QED
      BY <1>tok, <3>1, <3>2, OtherIsRetry
  <2> QED
    BY Zenon, <1>write, <2>2, <2>3 DEF Published
<1>8. (CkptInv /\ SeqInv)'
  BY SMTT(30), <1>tok, <1>new, <1>write, ConstantsAssumption DEF Retire, Published, At,
     Goto, NoFault, Fault, Fenced, registry, machines, store, local, Types, LocalOK, CkptInv,
     Restorable, Covers, Above, Copying, SeqInv, Retained
<1>9. FailedInv'
  BY <1>tok, <1>new, <1>write, ConstantsAssumption DEF Retire, Published, At, Goto, NoFault,
     Fault, Fenced, registry, machines, store, local, Types, LocalOK, FailedInv, Serving,
     RegistryOK, HolderInv, CanBeRecovered
<1>all. IInv'
  BY Zenon, <1>1, <1>2, <1>3, <1>4, <1>5, <1>6, <1>7, <1>8, <1>9 DEF Types
<1> HIDE DEF IInv
<1> QED
  BY Zenon, <1>all DEF SessionInv

(* Recording a MicroVM that booted keeps the invariant.                    *)
LEMMA TrackStep ==
  ASSUME SessionInv, NEW a \in Attempts, Track(a)
  PROVE  SessionInv'
<1>inv. IInv
  BY Zenon DEF SessionInv
<1> USE <1>inv DEF IInv
<1>tok. tok[a] \in Tokens
  BY Zenon DEF TokInv, Track, At
<1> DEFINE new == Launching(a, tok[a])
<1>new. /\ new \in Record
        /\ new.state = "PENDING" /\ new.vm = tok[a]
        /\ new.gen = tok[a][1] /\ new.ckpt = mine[a].ckpt
  BY Zenon, <1>tok, LaunchingRecord
<1>write. Published(a, new, "restore", "abandon")
  BY Zenon, <1>new, PublishWrites DEF Track, LaunchIntent, Retired, PointerLost
<1> HIDE DEF new
<1>1. (MachinesOK /\ StoreOK /\ RetryInv)'
  BY Zenon DEF Track, Types, registry, machines, store, local, MachinesOK, StoreOK, RetryInv
<1>2. (RegistryOK /\ LocalOK)'
  BY ZenonT(60), <1>tok, <1>new, <1>write, ConstantsAssumption DEF Track, Published, At,
     Goto, NoFault, Fault, Fenced, registry, machines, store, local, Types, RegistryOK, Record,
     LocalOK, Steps
<1>3. RecInv'
  <2>1. tok[a][1] \in 1..MaxGen /\ vm[tok[a]] # "unborn" /\ vm' = vm
    BY Zenon, <1>tok, TokenFacts DEF TokInv, Track, At, machines
  <2>2. CASE rec' = rec
    BY Zenon, <2>1, <2>2 DEF RecInv
  <2>3. CASE rec' = new
    BY SMTT(30), <1>new, <2>1, <2>3 DEF RecInv
  <2> QED
    BY Zenon, <1>write, <2>2, <2>3 DEF Published
<1>4. (TokInv /\ HolderInv)'
  BY <1>tok, <1>new, <1>write, ConstantsAssumption DEF Track, Published, At,
     Goto, NoFault, Fault, Fenced, registry, machines, store, local, Types, LocalOK, TokInv,
     HolderInv, Outdated, CanBeRecovered, Serving
<1>5. LaunchInv'
  <2> SUFFICES ASSUME NEW x \in Attempts,
                      pc'[x] = "launch", tok'[x][2] = 0, vm'[tok'[x]] = "unborn"
               PROVE  rec'.state = "PENDING" /\ rec'.vm = None /\ rec'.gen = tok'[x][1]
    BY Zenon DEF LaunchInv, CanBeRecovered
  <2>1. pc[x] = "launch" /\ tok'[x] = tok[x]
    BY Zenon, <1>write, TokenFacts DEF Track, At, Goto, Types, LocalOK, local, Published
  <2>2. tok[x] \in Tokens
    BY Zenon, <2>1 DEF TokInv
  <2>3. CanBeRecovered(tok[x])
    BY Zenon, <2>1 DEF Track, machines, LaunchInv
  <2>4. ~(lock = a /\ CanBeRecovered(tok[a]))
    <3>1. vm[tok[a]] # "unborn" /\ vm[tok[x]] = "unborn"
      BY ZenonT(60), <2>1 DEF TokInv, Track, At, machines
    <3> QED
      BY Zenon, <1>tok, <2>1, <2>2, <2>3, <3>1, FirstIsBorn DEF CanBeRecovered
  <2> QED
    BY Zenon, <1>write, <2>1, <2>3, <2>4 DEF Track, At, Published, HolderInv, CanBeRecovered
<1>6. (MineInv /\ SiblingInv /\ KeptInv)'
  BY <1>tok, <1>new, <1>write, ConstantsAssumption DEF Track, Published, At,
     Goto, NoFault, Fault, Fenced, registry, machines, store, local, Types, LocalOK, MineInv,
     SiblingInv, KeptInv, Outlived, Retained
<1>7. OrphanInv'
  <2> SUFFICES ASSUME NoAborts, NEW t \in Tokens, t \notin strays, vm[t] = "live"
               PROVE  rec'.vm = t \/ (rec'.state = "PENDING" /\ rec'.vm = None /\ rec'.gen = t[1])
    BY Zenon DEF Track, machines, OrphanInv, NoOrphanVm, CanBeRecovered, NoAborts
  <2>1. rec.vm = t \/ CanBeRecovered(t)
    BY Zenon DEF OrphanInv, NoOrphanVm
  <2>2. CASE rec' = rec
    BY Zenon, <2>1, <2>2 DEF CanBeRecovered
  <2>3. CASE lock = a /\ rec' = new
    <3>1. CanBeRecovered(tok[a]) /\ vm[tok[a]] # "unborn"
      BY Zenon, <2>3 DEF HolderInv, TokInv, Track, At
    <3>2. t[1] = tok[a][1]
      BY Zenon, <2>1, <3>1, ConstantsAssumption DEF CanBeRecovered
    <3>3. t # tok[a] => t \in strays
      <4> SUFFICES ASSUME t # tok[a] PROVE t \in strays
        BY Zenon
      <4>1. tok[a][2] = 0 /\ t = <<tok[a][1], 1>>
        BY ZenonT(60), <1>tok, <3>1, <3>2, OtherIsRetry
      <4> QED
        BY Zenon, <2>3, <4>1 DEF SiblingInv, Track, At
    <3> QED
      BY Zenon, <1>new, <2>3, <3>3
  <2> QED
    BY Zenon, <1>write, <2>2, <2>3 DEF Published
<1>8. (CkptInv /\ SeqInv)'
  BY SMTT(30), <1>tok, <1>new, <1>write, ConstantsAssumption DEF Track, Published, At,
     Goto, NoFault, Fault, Fenced, registry, machines, store, local, Types, LocalOK, CkptInv,
     Restorable, Covers, Above, Copying, SeqInv, Retained
<1>9. FailedInv'
  BY <1>tok, <1>new, <1>write, ConstantsAssumption DEF Track, Published, At, Goto, NoFault,
     Fault, Fenced, registry, machines, store, local, Types, LocalOK, FailedInv, Serving,
     RegistryOK, HolderInv, CanBeRecovered
<1>all. IInv'
  BY Zenon, <1>1, <1>2, <1>3, <1>4, <1>5, <1>6, <1>7, <1>8, <1>9 DEF Types
<1> HIDE DEF IInv
<1> QED
  BY Zenon, <1>all DEF SessionInv

=============================================================================
