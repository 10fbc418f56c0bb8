------------------------ MODULE RuntimeSessionSteps -------------------------
(***************************************************************************)
(* The steps by which an attempt restores, uses and recycles a MicroVM     *)
(* keep the invariant of RuntimeSessionInvariant.                          *)
(***************************************************************************)
EXTENDS RuntimeSessionInvariant, TLAPS

(* Restoring a workspace keeps the invariant.                              *)
LEMMA RestoreStep ==
  ASSUME SessionInv, NEW a \in Attempts, Restore(a)
  PROVE  SessionInv'
<1>inv. IInv
  BY Zenon DEF SessionInv
<1> USE <1>inv DEF IInv
<1>1. (RegistryOK /\ MachinesOK /\ StoreOK /\ RecInv /\ RetryInv /\ OrphanInv)'
  BY Zenon DEF Restore, Types, registry, machines, store, local, RegistryOK, MachinesOK, StoreOK,
     RecInv, RetryInv, OrphanInv, NoOrphanVm, CanBeRecovered
<1>2. (LocalOK /\ TokInv /\ LaunchInv)'
  BY ConstantsAssumption DEF Restore, At, Goto, NoFault, Fault, Fenced, registry,
     machines, store, local, Types, LocalOK, Steps, TokInv, LaunchInv, CanBeRecovered
<1>3. (HolderInv /\ MineInv /\ KeptInv)'
  BY ConstantsAssumption DEF Restore, At, Goto, NoFault, Fault, Fenced, registry,
     machines, store, local, Types, LocalOK, HolderInv, Outdated, CanBeRecovered, Serving,
     MineInv, KeptInv, Outlived, Retained
<1>4. SiblingInv'
  <2>1. ASSUME NoAborts, NEW x \in Attempts, pc'[x] = "retire"
        PROVE  tok'[x][2] = 1
    BY Zenon, <2>1, TokenFacts DEF Restore, At, Goto, Types, LocalOK, local, machines, SiblingInv
  <2>2. ASSUME NoAborts, NEW x \in Attempts, lock' = x, pc'[x] \in {"track", "abandon", "remove"},
               tok'[x][2] = 0, vm'[<<tok'[x][1], 1>>] = "live"
        PROVE  <<tok'[x][1], 1>> \in strays'
    <3>1. /\ lock = x /\ tok'[x] = tok[x] /\ strays' = strays
          /\ pc[x] \in {"track", "abandon", "remove"} \/ (x = a /\ pc[a] = "restore")
      BY Zenon, <2>2, TokenFacts DEF Restore, At, Goto, Types, LocalOK, local, machines, registry, Fenced
    <3>2. tok[x] \in Tokens
      BY Zenon, <3>1 DEF TokInv
    <3>3. vm[<<tok[x][1], 1>>] = "live"
      BY Zenon, <2>2, <3>1, <3>2, TokenFacts DEF Restore, machines
    <3>4. pc[x] = "restore" => rec.vm = tok[x]
      BY Zenon, <3>1 DEF HolderInv
    <3> QED
      BY <2>2, <3>1, <3>2, <3>3, <3>4, TokenFacts, ConstantsAssumption DEF SiblingInv, OrphanInv, NoOrphanVm, CanBeRecovered
  <2> QED
    BY Zenon, <2>1, <2>2 DEF SiblingInv, NoAborts
<1>5. (CkptInv /\ SeqInv /\ FailedInv)'
  BY ConstantsAssumption DEF Restore, At, Goto, NoFault, Fault, Fenced, registry,
     machines, store, local, Types, LocalOK, CkptInv, Restorable, Covers, Above, Copying, SeqInv,
     Retained, FailedInv, Serving
<1>all. IInv'
  BY Zenon, <1>1, <1>2, <1>3, <1>4, <1>5 DEF Types
<1> HIDE DEF IInv
<1> QED
  BY Zenon, <1>all DEF SessionInv

(* Publishing a MicroVM as running keeps the invariant.                    *)
LEMMA AdvertiseStep ==
  ASSUME SessionInv, NEW a \in Attempts, Advertise(a)
  PROVE  SessionInv'
<1>inv. IInv
  BY Zenon DEF SessionInv
<1> USE <1>inv DEF IInv
<1>tok. tok[a] \in Tokens
  BY Zenon DEF TokInv, Advertise, At
<1> DEFINE new == [Launching(a, tok[a]) EXCEPT !.state = "RUNNING"]
<1>new. /\ new \in Record
        /\ new.state = "RUNNING" /\ new.vm = tok[a]
        /\ new.gen = tok[a][1] /\ new.ckpt = mine[a].ckpt
  BY <1>tok, LaunchingRecord DEF Record, Retired
<1>write. Published(a, new, "execute", "abandon")
  BY Zenon, <1>new, PublishWrites DEF Advertise, LaunchIntent, Retired, PointerLost
<1> HIDE DEF new
<1>1. (MachinesOK /\ StoreOK /\ RetryInv)'
  BY Zenon DEF Advertise, Types, registry, machines, store, local, MachinesOK, StoreOK, RetryInv
<1>2. (RegistryOK /\ LocalOK)'
  BY ZenonT(60), <1>tok, <1>new, <1>write, ConstantsAssumption DEF Advertise, Published, At,
     Goto, NoFault, Fault, Fenced, registry, machines, store, local, Types, RegistryOK, Record,
     LocalOK, Steps
<1>3. (RecInv /\ LaunchInv /\ OrphanInv /\ FailedInv)'
  BY <1>tok, <1>new, <1>write, TokenFacts, ConstantsAssumption DEF Advertise,
     Published, At, Goto, NoFault, Fault, Fenced, registry, machines, store, local, Types, RecInv,
     RegistryOK, LocalOK, HolderInv, CanBeRecovered, Serving, LaunchInv, MachinesOK, OrphanInv,
     NoOrphanVm, FailedInv
<1>4. (TokInv /\ HolderInv)'
  BY <1>tok, <1>new, <1>write, ConstantsAssumption DEF Advertise, Published, At,
     Goto, NoFault, Fault, Fenced, registry, machines, store, local, Types, LocalOK, TokInv,
     HolderInv, Outdated, CanBeRecovered, Serving
<1>5. (MineInv /\ KeptInv /\ CkptInv /\ SeqInv)'
  BY <1>tok, <1>new, <1>write, ConstantsAssumption DEF Advertise, Published, At,
     Goto, NoFault, Fault, Fenced, registry, machines, store, local, Types, LocalOK, MineInv,
     KeptInv, Outlived, Retained, CkptInv, Restorable, Covers, Above, Copying, SeqInv
<1>6. SiblingInv'
  BY <1>tok, <1>new, <1>write, TokenFacts, ConstantsAssumption DEF Advertise, Published,
     At, Goto, NoFault, Fault, Fenced, registry, machines, store, local, Types, RegistryOK,
     MachinesOK, LocalOK, RecInv, RetryInv, TokInv, HolderInv, SiblingInv, OrphanInv, NoOrphanVm,
     CanBeRecovered, Serving, NoAborts
<1>all. IInv'
  BY Zenon, <1>1, <1>2, <1>3, <1>4, <1>5, <1>6 DEF Types
<1> HIDE DEF IInv
<1> QED
  BY Zenon, <1>all DEF SessionInv

(* Terminating an abandoned MicroVM keeps the invariant.                   *)
LEMMA AbandonStep ==
  ASSUME SessionInv, NEW a \in Attempts, Abandon(a)
  PROVE  SessionInv'
<1>inv. IInv
  BY Zenon DEF SessionInv
<1> USE <1>inv DEF IInv
<1>tok. tok[a] \in Tokens /\ vm[tok[a]] # "unborn"
  BY Zenon DEF TokInv, Abandon, At
<1>end. /\ Dying /\ faults' \in 0..MaxFaults /\ faults' >= faults
        /\ vm'[tok[a]] = "dead" \/ faults < MaxFaults
        /\ \/ pc' = [pc EXCEPT ![a] = "remove"] /\ vm'[tok[a]] = "dead"
           \/ pc' = [pc EXCEPT ![a] = "release"]
  BY Zenon, <1>tok, TerminateKills DEF Abandon
<1>1. (RegistryOK /\ StoreOK)'
  BY Zenon DEF Abandon, Types, registry, machines, store, local, RegistryOK, StoreOK
<1>2. (MachinesOK /\ LocalOK /\ MineInv /\ OrphanInv)'
  BY <1>tok, <1>end, ConstantsAssumption DEF Abandon, Dying, At, Goto, NoFault,
     Fault, Fenced, registry, machines, store, local, Types, MachinesOK, LocalOK, Steps, MineInv,
     OrphanInv, NoOrphanVm, CanBeRecovered
<1>3. (RecInv /\ HolderInv)'
  BY <1>tok, <1>end, TokenFacts, ConstantsAssumption DEF Abandon, Dying, At,
     Goto, NoFault, Fault, Fenced, registry, machines, store, local, Types, RegistryOK,
     MachinesOK, LocalOK, RecInv, TokInv, HolderInv, MineInv, Record, Outdated, CanBeRecovered,
     Serving, CanReplay
<1>4. (RetryInv /\ TokInv /\ FailedInv)'
  BY <1>tok, <1>end, TokenFacts, ConstantsAssumption DEF Abandon, Dying, At,
     Goto, NoFault, Fault, Fenced, registry, machines, store, local, Types, MachinesOK, RetryInv,
     TokInv, LocalOK, FailedInv, Serving
<1>5. LaunchInv'
  <2> SUFFICES ASSUME NEW x \in Attempts,
                      pc'[x] = "launch", tok'[x][2] = 0, vm'[tok'[x]] = "unborn"
               PROVE  rec'.state = "PENDING" /\ rec'.vm = None /\ rec'.gen = tok'[x][1]
    BY Zenon DEF LaunchInv, CanBeRecovered
  <2>1. pc[x] = "launch" /\ tok'[x] = tok[x]
    BY Zenon, <1>end, TokenFacts DEF Abandon, At, Goto, Types, LocalOK, local
  <2>2. tok[x] \in Tokens
    BY Zenon, <2>1 DEF TokInv
  <2>3. CanBeRecovered(tok[x])
    BY Zenon, <1>end, <2>1, <2>2 DEF Dying, LaunchInv
  <2> QED
    BY Zenon, <2>1, <2>3 DEF Abandon, registry, CanBeRecovered
<1>6. SiblingInv'
  <2>1. ASSUME NoAborts, NEW x \in Attempts, pc'[x] = "retire"
        PROVE  tok'[x][2] = 1
    BY Zenon, <2>1, <1>end, TokenFacts DEF Abandon, At, Goto, Types, LocalOK, local, SiblingInv
  <2>2. ASSUME NoAborts, NEW x \in Attempts, lock' = x, pc'[x] \in {"track", "abandon", "remove"},
               tok'[x][2] = 0, vm'[<<tok'[x][1], 1>>] = "live"
        PROVE  <<tok'[x][1], 1>> \in strays'
    <3>1. /\ lock = x /\ tok'[x] = tok[x] /\ strays' = strays
          /\ pc[x] \in {"track", "abandon", "remove"}
      BY Zenon, <2>2, <1>end, TokenFacts DEF Abandon, At, Goto, Types, LocalOK, local, registry, Fenced
    <3>2. tok[x] \in Tokens
      BY Zenon, <3>1 DEF TokInv
    <3>3. vm[<<tok[x][1], 1>>] = "live"
      BY ZenonT(60), <2>2, <3>1, <3>2, <1>end, TokenFacts DEF Dying
    <3> QED
      BY Zenon, <2>2, <3>1, <3>2, <3>3, TokenFacts DEF SiblingInv
  <2> QED
    BY Zenon, <2>1, <2>2 DEF SiblingInv, NoAborts
<1>7. (KeptInv /\ CkptInv /\ SeqInv)'
  BY <1>tok, <1>end, ConstantsAssumption DEF Abandon, Dying, At, Goto, NoFault,
     Fault, Fenced, registry, machines, store, local, Types, LocalOK, KeptInv, Outlived, Retained,
     CkptInv, Restorable, Covers, Above, Copying, SeqInv
<1>all. IInv'
  BY Zenon, <1>1, <1>2, <1>3, <1>4, <1>5, <1>6, <1>7 DEF Types
<1> HIDE DEF IInv
<1> QED
  BY Zenon, <1>all DEF SessionInv

(* Deleting the record keeps the invariant.                                *)
LEMMA RemoveStep ==
  ASSUME SessionInv, NEW a \in Attempts, Remove(a)
  PROVE  SessionInv'
<1>inv. IInv
  BY Zenon DEF SessionInv
<1> USE <1>inv DEF IInv
<1>tok. tok[a] \in Tokens /\ vm[tok[a]] = "dead"
  BY Zenon DEF TokInv, Remove, At
<1>write. /\ pc' = [pc EXCEPT ![a] = "release"] /\ pc[a] = "remove"
          /\ rec' = rec \/ (lock = a /\ rec' = Absent)
          /\ faults' \in 0..MaxFaults /\ faults' >= faults
  BY ConstantsAssumption DEF Remove, At, Goto, NoFault, Fault, Fenced, Types, LocalOK
<1>1. (MachinesOK /\ StoreOK /\ RetryInv)'
  BY Zenon DEF Remove, Types, registry, machines, store, local, MachinesOK, StoreOK, RetryInv
<1>2. (RegistryOK /\ LocalOK /\ RecInv /\ TokInv)'
  BY <1>tok, <1>write, ConstantsAssumption DEF Remove, Absent, At, Goto, NoFault,
     Fault, Fenced, registry, machines, store, local, Types, RegistryOK, Record, LocalOK, Steps,
     RecInv, TokInv
<1>3. LaunchInv'
  <2> SUFFICES ASSUME NEW x \in Attempts,
                      pc'[x] = "launch", tok'[x][2] = 0, vm'[tok'[x]] = "unborn"
               PROVE  rec'.state = "PENDING" /\ rec'.vm = None /\ rec'.gen = tok'[x][1]
    BY Zenon DEF LaunchInv, CanBeRecovered
  <2>1. pc[x] = "launch" /\ tok'[x] = tok[x]
    BY Zenon, <1>write, TokenFacts DEF Remove, At, Goto, Types, LocalOK, local
  <2>2. tok[x] \in Tokens
    BY Zenon, <2>1 DEF TokInv
  <2>3. CanBeRecovered(tok[x])
    BY Zenon, <2>1 DEF Remove, machines, LaunchInv
  <2>4. ~(lock = a /\ CanBeRecovered(tok[a]))
    <3>1. vm[tok[a]] # "unborn" /\ vm[tok[x]] = "unborn"
      BY Zenon, <2>1 DEF TokInv, Remove, At, machines
    <3> QED
      BY Zenon, <1>tok, <2>1, <2>2, <2>3, <3>1, FirstIsBorn DEF CanBeRecovered
  <2> QED
    BY Zenon, <1>tok, <1>write, <2>1, <2>3, <2>4, ConstantsAssumption DEF HolderInv, CanBeRecovered
<1>4. (HolderInv /\ MineInv /\ SiblingInv /\ KeptInv)'
  BY <1>tok, <1>write, ConstantsAssumption DEF Remove, Absent, At, Goto, NoFault,
     Fault, Fenced, registry, machines, store, local, Types, LocalOK, HolderInv, Outdated,
     CanBeRecovered, Serving, MineInv, SiblingInv, KeptInv, Outlived, Retained
<1>5. OrphanInv'
  <2> SUFFICES ASSUME NoAborts, NEW t \in Tokens, t \notin strays, vm[t] = "live"
               PROVE  rec'.vm = t \/ (rec'.state = "PENDING" /\ rec'.vm = None /\ rec'.gen = t[1])
    BY Zenon DEF Remove, machines, OrphanInv, NoOrphanVm, CanBeRecovered, NoAborts
  <2>1. rec.vm = t \/ CanBeRecovered(t)
    BY Zenon DEF OrphanInv, NoOrphanVm
  <2>2. CASE rec' = rec
    BY Zenon, <2>1, <2>2 DEF CanBeRecovered
  <2>3. CASE lock = a /\ rec' = Absent
    <3>1. rec.vm = tok[a] \/ CanBeRecovered(tok[a])
      BY Zenon, <1>write, <2>3 DEF HolderInv
    <3>2. rec.vm # t /\ t # tok[a]
      BY Zenon, <1>tok, <3>1, ConstantsAssumption DEF CanBeRecovered
    <3>3. t[1] = tok[a][1]
      BY Zenon, <1>tok, <2>1, <3>1, <3>2, ConstantsAssumption DEF CanBeRecovered
    <3>4. tok[a][2] = 0 /\ t = <<tok[a][1], 1>>
      BY Zenon, <1>tok, <3>2, <3>3, OtherIsRetry
    <3> QED
      BY Zenon, <1>write, <2>3, <3>4 DEF SiblingInv
  <2> QED
    BY Zenon, <1>write, <2>2, <2>3 DEF Published
<1>6. (CkptInv /\ SeqInv)'
  BY <1>tok, <1>write, ConstantsAssumption DEF Remove, Absent, At, Goto, NoFault,
     Fault, Fenced, registry, machines, store, local, Types, LocalOK, CkptInv, Restorable, Covers,
     Above, Copying, SeqInv, Retained
<1>7. FailedInv'
  <2> SUFFICES ASSUME MaxFaults <= 2
               PROVE  /\ \A t \in failed' : vm'[t] # "unborn"
                      /\ \A t \in failed' :
                           \/ vm'[t] = "dead"
                           \/ rec'.vm = t /\ rec'.state = "TERMINATING"
                           \/ \E x \in Attempts : /\ lock' = x /\ tok'[x] = t
                                                  /\ \/ pc'[x] = "quarantine" /\ faults' >= 1
                                                     \/ pc'[x] = "kill" /\ faults' >= 2
                      /\ \A x \in Attempts : lock' = x /\ pc'[x] \in Serving \ {"execute", "quarantine"}
                           => tok'[x] \notin failed'
    BY Zenon DEF FailedInv, Serving
  <2>1. /\ failed' = failed /\ vm' = vm /\ tok' = tok /\ lock' = lock
        /\ pc' = [pc EXCEPT ![a] = "release"] /\ pc[a] \notin {"quarantine", "kill"}
        /\ faults' \in 0..MaxFaults /\ faults' >= faults /\ faults \in 0..MaxFaults
        /\ vm[tok[a]] = "dead"
    BY Zenon, <1>tok, <1>write DEF Remove, At, machines, Published, TokInv, Types, LocalOK
  <2>2. \A x \in Attempts : x # a => pc'[x] = pc[x]
    BY Zenon, <2>1 DEF Types, LocalOK
  <2>3. pc'[a] = "release"
    BY Zenon, <2>1 DEF Types, LocalOK
  <2>4. ASSUME NEW t \in failed
        PROVE  \/ vm[t] = "dead"
               \/ rec'.vm = t /\ rec'.state = "TERMINATING"
               \/ \E x \in Attempts : /\ lock = x /\ tok[x] = t
                                      /\ \/ pc'[x] = "quarantine" /\ faults' >= 1
                                         \/ pc'[x] = "kill" /\ faults' >= 2
    <3>1. CASE rec.vm = t /\ rec.state = "TERMINATING"
      <4>1. rec' = rec \/ lock = a
        BY Zenon, <1>write DEF Published
      <4>2. lock = a => rec.vm = tok[a]
        BY Zenon, <3>1 DEF HolderInv, Remove, At, CanBeRecovered
      <4> QED
        BY Zenon, <2>1, <3>1, <4>1, <4>2
    <3>2. CASE \E x \in Attempts : /\ lock = x /\ tok[x] = t
                                   /\ \/ pc[x] = "quarantine" /\ faults >= 1
                                      \/ pc[x] = "kill" /\ faults >= 2
      <4>1. PICK x \in Attempts : /\ lock = x /\ tok[x] = t
                                  /\ \/ pc[x] = "quarantine" /\ faults >= 1
                                     \/ pc[x] = "kill" /\ faults >= 2
        BY Zenon, <3>2
      <4>2. x # a /\ pc'[x] = pc[x]
        BY Zenon, <2>1, <2>2, <4>1
      <4> QED
        BY <2>1, <4>1, <4>2, ConstantsAssumption
    <3> QED
      BY Zenon, <3>1, <3>2 DEF FailedInv
  <2>5. ASSUME NEW x \in Attempts, lock = x, pc'[x] \in Serving \ {"execute", "quarantine"}
        PROVE  tok[x] \notin failed
    BY Zenon, <2>2, <2>3, <2>5 DEF FailedInv, Serving
  <2> QED
    BY <2>1, <2>4, <2>5 DEF FailedInv
<1>all. IInv'
  BY Zenon, <1>1, <1>2, <1>3, <1>4, <1>5, <1>6, <1>7 DEF Types
<1> HIDE DEF IInv
<1> QED
  BY Zenon, <1>all DEF SessionInv

(* An execution keeps the invariant.                                       *)
LEMMA ExecuteStep ==
  ASSUME SessionInv, NEW a \in Attempts, Execute(a)
  PROVE  SessionInv'
<1>inv. IInv
  BY Zenon DEF SessionInv
<1> USE <1>inv DEF IInv
<1>1. (RegistryOK /\ StoreOK /\ RecInv /\ RetryInv /\ OrphanInv)'
  BY Zenon DEF Execute, Types, registry, machines, store, local, RegistryOK, StoreOK, RecInv,
     RetryInv, OrphanInv, NoOrphanVm, CanBeRecovered
<1>2. MachinesOK'
  <2>1. Disturbed(a) \subseteq Tokens
    BY Zenon DEF TokInv, Execute, At, Disturbed, Types, MachinesOK
  <2> QED
    BY Zenon, <2>1 DEF Execute, CutShort, Types, MachinesOK
<1>3. (LocalOK /\ TokInv /\ LaunchInv /\ HolderInv)'
  BY ConstantsAssumption DEF Execute, Disturbed, At, Goto, NoFault, Fault,
     Fenced, registry, machines, store, local, Types, LocalOK, Steps, TokInv, LaunchInv,
     CanBeRecovered, HolderInv, Outdated, Serving
<1>4. (MineInv /\ KeptInv /\ CkptInv /\ SeqInv)'
  BY ConstantsAssumption DEF Execute, Disturbed, At, Goto, NoFault, Fault,
     Fenced, registry, machines, store, local, Types, LocalOK, MineInv, KeptInv, Outlived,
     Retained, CkptInv, Restorable, Covers, Above, Copying, SeqInv
<1>5. SiblingInv'
  BY TokenFacts, ConstantsAssumption DEF Execute, Disturbed, At, Goto, NoFault, Fault,
     Fenced, registry, machines, store, local, Types, RegistryOK, MachinesOK, LocalOK, RecInv,
     RetryInv, TokInv, HolderInv, SiblingInv, OrphanInv, NoOrphanVm, CanBeRecovered, Serving,
     NoAborts
<1>6. FailedInv'
  BY ConstantsAssumption DEF Execute, Disturbed, At, Goto, NoFault, Fault, Fenced,
     registry, machines, store, local, Types, LocalOK, FailedInv, Serving, RegistryOK, HolderInv,
     CanBeRecovered
<1>all. IInv'
  BY Zenon, <1>1, <1>2, <1>3, <1>4, <1>5, <1>6 DEF Types
<1> HIDE DEF IInv
<1> QED
  BY Zenon, <1>all DEF SessionInv

(* Finalizing a result keeps the invariant.                                *)
LEMMA FinalizeStep ==
  ASSUME SessionInv, NEW a \in Attempts, Finalize(a)
  PROVE  SessionInv'
<1>inv. IInv
  BY Zenon DEF SessionInv
<1> USE <1>inv DEF IInv
<1>1. (RegistryOK /\ StoreOK /\ RecInv /\ RetryInv /\ OrphanInv)'
  BY Zenon DEF Finalize, Types, registry, machines, store, local, RegistryOK, StoreOK, RecInv,
     RetryInv, OrphanInv, NoOrphanVm, CanBeRecovered
<1>2. (MachinesOK /\ FailedInv)'
  BY ConstantsAssumption DEF Finalize, At, Goto, NoFault, Fault, Fenced,
     registry, machines, store, local, Types, MachinesOK, RegistryOK, LocalOK, TokInv, HolderInv,
     CanBeRecovered, Serving, RecInv, FailedInv
<1>3. (LocalOK /\ TokInv /\ LaunchInv)'
  BY SMTT(30), ConstantsAssumption DEF Finalize, At, Goto, NoFault, Fault, Fenced,
     registry, machines, store, local, Types, LocalOK, Steps, TokInv, LaunchInv, CanBeRecovered
<1>4. (HolderInv /\ MineInv /\ SiblingInv)'
  BY SMTT(30), ConstantsAssumption DEF Finalize, At, Goto, NoFault, Fault, Fenced,
     registry, machines, store, local, Types, LocalOK, HolderInv, Outdated, CanBeRecovered,
     Serving, MineInv, SiblingInv
<1>5. (KeptInv /\ CkptInv /\ SeqInv)'
  BY ConstantsAssumption DEF Finalize, At, Goto, NoFault, Fault, Fenced,
     registry, machines, store, local, Types, LocalOK, KeptInv, Outlived, Retained, CkptInv,
     Restorable, Covers, Above, Copying, SeqInv
<1>all. IInv'
  BY Zenon, <1>1, <1>2, <1>3, <1>4, <1>5 DEF Types
<1> HIDE DEF IInv
<1> QED
  BY Zenon, <1>all DEF SessionInv

(* Recording a MicroVM as terminating keeps the invariant.                 *)
LEMMA QuarantineStep ==
  ASSUME SessionInv, NEW a \in Attempts, Quarantine(a)
  PROVE  SessionInv'
<1>inv. IInv
  BY Zenon DEF SessionInv
<1> USE <1>inv DEF IInv
<1> DEFINE new == [rec EXCEPT !.state = "TERMINATING"]
<1>new. /\ new \in Record /\ new.state = "TERMINATING"
        /\ new.vm = rec.vm /\ new.gen = rec.gen /\ new.ckpt = rec.ckpt
  BY Zenon DEF Types, RegistryOK, Record
<1>write. \/ rec.vm = tok[a] /\ Published(a, new, "stop", "kill")
          \/ rec.vm # tok[a] /\ pc' = [pc EXCEPT ![a] = "kill"] /\ rec' = rec /\ faults' = faults
          \/ /\ pc' = [pc EXCEPT ![a] = "kill"] /\ rec' = rec
             /\ faults' \in 0..MaxFaults /\ faults' > faults
  BY <1>new, PublishWrites, ConstantsAssumption
     DEF Quarantine, Goto, NoFault, Fault, Types, LocalOK
<1> HIDE DEF new
<1>1. (MachinesOK /\ StoreOK /\ RetryInv)'
  BY Zenon DEF Quarantine, Types, registry, machines, store, local, MachinesOK, StoreOK, RetryInv
<1>2. (RegistryOK /\ RecInv)'
  BY ZenonT(60), <1>new, <1>write, ConstantsAssumption DEF Quarantine, Published, At, Goto,
     NoFault, Fault, Fenced, registry, machines, store, local, Types, RegistryOK, Record, RecInv
<1>3. (LocalOK /\ LaunchInv /\ OrphanInv /\ FailedInv)'
  BY <1>new, <1>write, TokenFacts, ConstantsAssumption DEF Quarantine, Published,
     At, Goto, NoFault, Fault, Fenced, registry, machines, store, local, Types, LocalOK, Steps,
     RegistryOK, HolderInv, CanBeRecovered, Serving, LaunchInv, MachinesOK, OrphanInv, NoOrphanVm,
     FailedInv
<1>4. (TokInv /\ HolderInv)'
  BY <1>new, <1>write, ConstantsAssumption DEF Quarantine, Published, At, Goto,
     NoFault, Fault, Fenced, registry, machines, store, local, Types, LocalOK, TokInv, HolderInv,
     Outdated, CanBeRecovered, Serving
<1>5. (MineInv /\ SiblingInv /\ KeptInv)'
  BY <1>new, <1>write, ConstantsAssumption DEF Quarantine, Published, At, Goto,
     NoFault, Fault, Fenced, registry, machines, store, local, Types, LocalOK, MineInv,
     SiblingInv, KeptInv, Outlived, Retained
<1>6. (CkptInv /\ SeqInv)'
  BY <1>new, <1>write, ConstantsAssumption DEF Quarantine, Published, At, Goto,
     NoFault, Fault, Fenced, registry, machines, store, local, Types, LocalOK, CkptInv,
     Restorable, Covers, Above, Copying, SeqInv, Retained
<1>all. IInv'
  BY Zenon, <1>1, <1>2, <1>3, <1>4, <1>5, <1>6 DEF Types
<1> HIDE DEF IInv
<1> QED
  BY Zenon, <1>all DEF SessionInv

(* Terminating a recycled MicroVM keeps the invariant.                     *)
LEMMA StopStep ==
  ASSUME SessionInv, NEW a \in Attempts, Stop(a)
  PROVE  SessionInv'
<1>inv. IInv
  BY Zenon DEF SessionInv
<1> USE <1>inv DEF IInv
<1>tok. tok[a] \in Tokens /\ vm[tok[a]] # "unborn"
  BY Zenon DEF TokInv, Stop, At
<1>end. /\ Dying /\ faults' \in 0..MaxFaults /\ faults' >= faults
        /\ vm'[tok[a]] = "dead" \/ faults < MaxFaults
        /\ \/ pc' = [pc EXCEPT ![a] = "terminal"] /\ vm'[tok[a]] = "dead"
           \/ pc' = [pc EXCEPT ![a] = "release"]
  BY Zenon, <1>tok, TerminateKills DEF Stop
<1>1. (RegistryOK /\ StoreOK)'
  BY Zenon DEF Stop, Types, registry, machines, store, local, RegistryOK, StoreOK
<1>2. (MachinesOK /\ LocalOK /\ MineInv /\ OrphanInv)'
  BY SMTT(30), <1>tok, <1>end, ConstantsAssumption DEF Stop, Dying, At, Goto, NoFault,
     Fault, Fenced, registry, machines, store, local, Types, MachinesOK, LocalOK, Steps, MineInv,
     OrphanInv, NoOrphanVm, CanBeRecovered
<1>3. (RecInv /\ HolderInv)'
  BY SMTT(30), <1>tok, <1>end, TokenFacts, ConstantsAssumption DEF Stop, Dying, At, Goto,
     NoFault, Fault, Fenced, registry, machines, store, local, Types, RegistryOK, MachinesOK,
     LocalOK, RecInv, TokInv, HolderInv, MineInv, Record, Outdated, CanBeRecovered, Serving,
     CanReplay
<1>4. (RetryInv /\ TokInv /\ FailedInv)'
  BY <1>tok, <1>end, TokenFacts, ConstantsAssumption DEF Stop, Dying, At, Goto,
     NoFault, Fault, Fenced, registry, machines, store, local, Types, MachinesOK, RetryInv,
     TokInv, LocalOK, FailedInv, Serving
<1>5. LaunchInv'
  <2> SUFFICES ASSUME NEW x \in Attempts,
                      pc'[x] = "launch", tok'[x][2] = 0, vm'[tok'[x]] = "unborn"
               PROVE  rec'.state = "PENDING" /\ rec'.vm = None /\ rec'.gen = tok'[x][1]
    BY Zenon DEF LaunchInv, CanBeRecovered
  <2>1. pc[x] = "launch" /\ tok'[x] = tok[x]
    BY Zenon, <1>end, TokenFacts DEF Stop, At, Goto, Types, LocalOK, local
  <2>2. tok[x] \in Tokens
    BY Zenon, <2>1 DEF TokInv
  <2>3. CanBeRecovered(tok[x])
    BY Zenon, <1>end, <2>1, <2>2 DEF Dying, LaunchInv
  <2> QED
    BY Zenon, <2>1, <2>3 DEF Stop, registry, CanBeRecovered
<1>6. SiblingInv'
  <2>1. ASSUME NoAborts, NEW x \in Attempts, pc'[x] = "retire"
        PROVE  tok'[x][2] = 1
    BY Zenon, <2>1, <1>end, TokenFacts DEF Stop, At, Goto, Types, LocalOK, local, SiblingInv
  <2>2. ASSUME NoAborts, NEW x \in Attempts, lock' = x, pc'[x] \in {"track", "abandon", "remove"},
               tok'[x][2] = 0, vm'[<<tok'[x][1], 1>>] = "live"
        PROVE  <<tok'[x][1], 1>> \in strays'
    <3>1. /\ lock = x /\ tok'[x] = tok[x] /\ strays' = strays
          /\ pc[x] \in {"track", "abandon", "remove"}
      BY Zenon, <2>2, <1>end, TokenFacts DEF Stop, At, Goto, Types, LocalOK, local, registry, Fenced
    <3>2. tok[x] \in Tokens
      BY Zenon, <3>1 DEF TokInv
    <3>3. vm[<<tok[x][1], 1>>] = "live"
      BY ZenonT(60), <2>2, <3>1, <3>2, <1>end, TokenFacts DEF Dying
    <3> QED
      BY Zenon, <2>2, <3>1, <3>2, <3>3, TokenFacts DEF SiblingInv
  <2> QED
    BY Zenon, <2>1, <2>2 DEF SiblingInv, NoAborts
<1>7. (KeptInv /\ CkptInv /\ SeqInv)'
  BY <1>tok, <1>end, ConstantsAssumption DEF Stop, Dying, At, Goto, NoFault,
     Fault, Fenced, registry, machines, store, local, Types, LocalOK, KeptInv, Outlived, Retained,
     CkptInv, Restorable, Covers, Above, Copying, SeqInv
<1>all. IInv'
  BY Zenon, <1>1, <1>2, <1>3, <1>4, <1>5, <1>6, <1>7 DEF Types
<1> HIDE DEF IInv
<1> QED
  BY Zenon, <1>all DEF SessionInv

(* Recording a MicroVM as terminated keeps the invariant.                  *)
LEMMA TerminalStep ==
  ASSUME SessionInv, NEW a \in Attempts, Terminal(a)
  PROVE  SessionInv'
<1>inv. IInv
  BY Zenon DEF SessionInv
<1> USE <1>inv DEF IInv
<1>tok. tok[a] \in Tokens
  BY Zenon DEF TokInv, Terminal, At
<1> DEFINE new == [mine[a] EXCEPT !.state = "TERMINATED", !.vm = None]
<1>new. /\ new \in Record
        /\ new.state = "TERMINATED" /\ new.vm = None
        /\ new.gen = mine[a].gen /\ new.ckpt = mine[a].ckpt
  BY Zenon, <1>tok DEF Types, LocalOK, RegistryOK, Record
<1>write. Published(a, new, "release", "release")
  BY Zenon, <1>new, PublishWrites DEF Terminal, LaunchIntent, Retired, PointerLost
<1> HIDE DEF new
<1>1. (MachinesOK /\ StoreOK /\ RetryInv)'
  BY Zenon DEF Terminal, Types, registry, machines, store, local, MachinesOK, StoreOK, RetryInv
<1>2. (RegistryOK /\ LocalOK /\ RecInv)'
  BY ZenonT(60), <1>tok, <1>new, <1>write, ConstantsAssumption DEF Terminal, Published, At,
     Goto, NoFault, Fault, Fenced, registry, machines, store, local, Types, RegistryOK, Record,
     LocalOK, Steps, RecInv
<1>3. (TokInv /\ HolderInv)'
  BY <1>tok, <1>new, <1>write, ConstantsAssumption DEF Terminal, Published, At,
     Goto, NoFault, Fault, Fenced, registry, machines, store, local, Types, LocalOK, TokInv,
     HolderInv, Outdated, CanBeRecovered, Serving
<1>4. LaunchInv'
  BY <1>tok, <1>new, <1>write, TokenFacts, ConstantsAssumption DEF Terminal, Published, At,
     Goto, NoFault, Fault, Fenced, registry, machines, store, local, Types, LocalOK, LaunchInv,
     CanBeRecovered, RegistryOK, HolderInv, Serving
<1>5. (MineInv /\ SiblingInv /\ KeptInv)'
  BY <1>tok, <1>new, <1>write, ConstantsAssumption DEF Terminal, Published, At,
     Goto, NoFault, Fault, Fenced, registry, machines, store, local, Types, LocalOK, MineInv,
     SiblingInv, KeptInv, Outlived, Retained
<1>6. OrphanInv'
  <2> SUFFICES ASSUME NoAborts, NEW t \in Tokens, t \notin strays, vm[t] = "live"
               PROVE  rec'.vm = t \/ (rec'.state = "PENDING" /\ rec'.vm = None /\ rec'.gen = t[1])
    BY Zenon DEF Terminal, machines, OrphanInv, NoOrphanVm, CanBeRecovered, NoAborts
  <2>1. rec.vm = t \/ CanBeRecovered(t)
    BY Zenon DEF OrphanInv, NoOrphanVm
  <2>2. CASE rec' = rec
    BY Zenon, <2>1, <2>2 DEF CanBeRecovered
  <2>3. CASE lock = a /\ rec' = new
    <3> QED
      BY Zenon, <2>1, <2>3 DEF HolderInv, TokInv, Terminal, At, CanBeRecovered
  <2> QED
    BY Zenon, <1>write, <2>2, <2>3 DEF Published
<1>7. (CkptInv /\ SeqInv)'
  BY <1>tok, <1>new, <1>write, ConstantsAssumption DEF Terminal, Published, At,
     Goto, NoFault, Fault, Fenced, registry, machines, store, local, Types, LocalOK, CkptInv,
     Restorable, Covers, Above, Copying, SeqInv, Retained
<1>8. FailedInv'
  <2> SUFFICES ASSUME MaxFaults <= 2
               PROVE  /\ \A t \in failed' : vm'[t] # "unborn"
                      /\ \A t \in failed' :
                           \/ vm'[t] = "dead"
                           \/ rec'.vm = t /\ rec'.state = "TERMINATING"
                           \/ \E x \in Attempts : /\ lock' = x /\ tok'[x] = t
                                                  /\ \/ pc'[x] = "quarantine" /\ faults' >= 1
                                                     \/ pc'[x] = "kill" /\ faults' >= 2
                      /\ \A x \in Attempts : lock' = x /\ pc'[x] \in Serving \ {"execute", "quarantine"}
                           => tok'[x] \notin failed'
    BY Zenon DEF FailedInv, Serving
  <2>1. /\ failed' = failed /\ vm' = vm /\ tok' = tok /\ lock' = lock
        /\ pc' = [pc EXCEPT ![a] = "release"] /\ pc[a] \notin {"quarantine", "kill"}
        /\ faults' \in 0..MaxFaults /\ faults' >= faults /\ faults \in 0..MaxFaults
        /\ vm[tok[a]] = "dead"
    BY Zenon, <1>tok, <1>write DEF Terminal, At, machines, Published, TokInv, Types, LocalOK
  <2>2. \A x \in Attempts : x # a => pc'[x] = pc[x]
    BY Zenon, <2>1 DEF Types, LocalOK
  <2>3. pc'[a] = "release"
    BY Zenon, <2>1 DEF Types, LocalOK
  <2>4. ASSUME NEW t \in failed
        PROVE  \/ vm[t] = "dead"
               \/ rec'.vm = t /\ rec'.state = "TERMINATING"
               \/ \E x \in Attempts : /\ lock = x /\ tok[x] = t
                                      /\ \/ pc'[x] = "quarantine" /\ faults' >= 1
                                         \/ pc'[x] = "kill" /\ faults' >= 2
    <3>1. CASE rec.vm = t /\ rec.state = "TERMINATING"
      <4>1. rec' = rec \/ lock = a
        BY Zenon, <1>write DEF Published
      <4>2. lock = a => rec.vm = tok[a]
        BY Zenon, <3>1 DEF HolderInv, Terminal, At, CanBeRecovered
      <4> QED
        BY Zenon, <2>1, <3>1, <4>1, <4>2
    <3>2. CASE \E x \in Attempts : /\ lock = x /\ tok[x] = t
                                   /\ \/ pc[x] = "quarantine" /\ faults >= 1
                                      \/ pc[x] = "kill" /\ faults >= 2
      <4>1. PICK x \in Attempts : /\ lock = x /\ tok[x] = t
                                  /\ \/ pc[x] = "quarantine" /\ faults >= 1
                                     \/ pc[x] = "kill" /\ faults >= 2
        BY Zenon, <3>2
      <4>2. x # a /\ pc'[x] = pc[x]
        BY Zenon, <2>1, <2>2, <4>1
      <4> QED
        BY <2>1, <4>1, <4>2, ConstantsAssumption
    <3> QED
      BY Zenon, <3>1, <3>2 DEF FailedInv
  <2>5. ASSUME NEW x \in Attempts, lock = x, pc'[x] \in Serving \ {"execute", "quarantine"}
        PROVE  tok[x] \notin failed
    BY Zenon, <2>2, <2>3, <2>5 DEF FailedInv, Serving
  <2> QED
    BY <2>1, <2>4, <2>5 DEF FailedInv
<1>all. IInv'
  BY Zenon, <1>1, <1>2, <1>3, <1>4, <1>5, <1>6, <1>7, <1>8 DEF Types
<1> HIDE DEF IInv
<1> QED
  BY Zenon, <1>all DEF SessionInv

(* Terminating an unrecorded MicroVM keeps the invariant.                  *)
LEMMA KillStep ==
  ASSUME SessionInv, NEW a \in Attempts, Kill(a)
  PROVE  SessionInv'
<1>inv. IInv
  BY Zenon DEF SessionInv
<1> USE <1>inv DEF IInv
<1>tok. tok[a] \in Tokens /\ vm[tok[a]] # "unborn"
  BY Zenon DEF TokInv, Kill, At
<1>end. /\ Dying /\ faults' \in 0..MaxFaults /\ faults' >= faults
        /\ vm'[tok[a]] = "dead" \/ faults < MaxFaults
        /\ \/ pc' = [pc EXCEPT ![a] = "release"] /\ vm'[tok[a]] = "dead"
           \/ pc' = [pc EXCEPT ![a] = "release"]
  BY Zenon, <1>tok, TerminateKills DEF Kill
<1>1. (RegistryOK /\ StoreOK)'
  BY Zenon DEF Kill, Types, registry, machines, store, local, RegistryOK, StoreOK
<1>2. (MachinesOK /\ LocalOK /\ MineInv /\ OrphanInv)'
  BY SMTT(30), <1>tok, <1>end, ConstantsAssumption DEF Kill, Dying, At, Goto, NoFault,
     Fault, Fenced, registry, machines, store, local, Types, MachinesOK, LocalOK, Steps, MineInv,
     OrphanInv, NoOrphanVm, CanBeRecovered
<1>3. (RecInv /\ HolderInv)'
  BY SMTT(30), <1>tok, <1>end, TokenFacts, ConstantsAssumption DEF Kill, Dying, At, Goto,
     NoFault, Fault, Fenced, registry, machines, store, local, Types, RegistryOK, MachinesOK,
     LocalOK, RecInv, TokInv, HolderInv, MineInv, Record, Outdated, CanBeRecovered, Serving,
     CanReplay
<1>4. (RetryInv /\ TokInv /\ FailedInv)'
  BY <1>tok, <1>end, TokenFacts, ConstantsAssumption DEF Kill, Dying, At, Goto,
     NoFault, Fault, Fenced, registry, machines, store, local, Types, MachinesOK, RetryInv,
     TokInv, LocalOK, FailedInv, Serving
<1>5. LaunchInv'
  <2> SUFFICES ASSUME NEW x \in Attempts,
                      pc'[x] = "launch", tok'[x][2] = 0, vm'[tok'[x]] = "unborn"
               PROVE  rec'.state = "PENDING" /\ rec'.vm = None /\ rec'.gen = tok'[x][1]
    BY Zenon DEF LaunchInv, CanBeRecovered
  <2>1. pc[x] = "launch" /\ tok'[x] = tok[x]
    BY Zenon, <1>end, TokenFacts DEF Kill, At, Goto, Types, LocalOK, local
  <2>2. tok[x] \in Tokens
    BY Zenon, <2>1 DEF TokInv
  <2>3. CanBeRecovered(tok[x])
    BY Zenon, <1>end, <2>1, <2>2 DEF Dying, LaunchInv
  <2> QED
    BY Zenon, <2>1, <2>3 DEF Kill, registry, CanBeRecovered
<1>6. SiblingInv'
  <2>1. ASSUME NoAborts, NEW x \in Attempts, pc'[x] = "retire"
        PROVE  tok'[x][2] = 1
    BY Zenon, <2>1, <1>end, TokenFacts DEF Kill, At, Goto, Types, LocalOK, local, SiblingInv
  <2>2. ASSUME NoAborts, NEW x \in Attempts, lock' = x, pc'[x] \in {"track", "abandon", "remove"},
               tok'[x][2] = 0, vm'[<<tok'[x][1], 1>>] = "live"
        PROVE  <<tok'[x][1], 1>> \in strays'
    <3>1. /\ lock = x /\ tok'[x] = tok[x] /\ strays' = strays
          /\ pc[x] \in {"track", "abandon", "remove"}
      BY Zenon, <2>2, <1>end, TokenFacts DEF Kill, At, Goto, Types, LocalOK, local, registry, Fenced
    <3>2. tok[x] \in Tokens
      BY Zenon, <3>1 DEF TokInv
    <3>3. vm[<<tok[x][1], 1>>] = "live"
      BY ZenonT(60), <2>2, <3>1, <3>2, <1>end, TokenFacts DEF Dying
    <3> QED
      BY Zenon, <2>2, <3>1, <3>2, <3>3, TokenFacts DEF SiblingInv
  <2> QED
    BY Zenon, <2>1, <2>2 DEF SiblingInv, NoAborts
<1>7. (KeptInv /\ CkptInv /\ SeqInv)'
  BY <1>tok, <1>end, ConstantsAssumption DEF Kill, Dying, At, Goto, NoFault,
     Fault, Fenced, registry, machines, store, local, Types, LocalOK, KeptInv, Outlived, Retained,
     CkptInv, Restorable, Covers, Above, Copying, SeqInv
<1>all. IInv'
  BY Zenon, <1>1, <1>2, <1>3, <1>4, <1>5, <1>6, <1>7 DEF Types
<1> HIDE DEF IInv
<1> QED
  BY Zenon, <1>all DEF SessionInv

(* Reading the record after an execution keeps the invariant.              *)
LEMMA SettleStep ==
  ASSUME SessionInv, NEW a \in Attempts, Settle(a)
  PROVE  SessionInv'
<1>inv. IInv
  BY Zenon DEF SessionInv
<1> USE <1>inv DEF IInv
<1>1. (RegistryOK /\ MachinesOK /\ StoreOK /\ RecInv /\ RetryInv /\ OrphanInv)'
  BY Zenon DEF Settle, Types, registry, machines, store, local, RegistryOK, MachinesOK, StoreOK,
     RecInv, RetryInv, OrphanInv, NoOrphanVm, CanBeRecovered
<1>2. (LocalOK /\ MineInv)'
  BY SMTT(30), ConstantsAssumption DEF Settle, Absent, At, Goto, NoFault, Fault, Fenced,
     registry, machines, store, local, Types, LocalOK, Steps, RegistryOK, HolderInv,
     CanBeRecovered, Serving, MineInv
<1>3. (TokInv /\ LaunchInv /\ HolderInv /\ SiblingInv)'
  BY SMTT(30), ConstantsAssumption DEF Settle, Absent, At, Goto, NoFault, Fault, Fenced,
     registry, machines, store, local, Types, LocalOK, TokInv, LaunchInv, CanBeRecovered,
     HolderInv, Outdated, Serving, SiblingInv
<1>4. (KeptInv /\ CkptInv /\ SeqInv /\ FailedInv)'
  BY ConstantsAssumption DEF Settle, Absent, At, Goto, NoFault, Fault, Fenced,
     registry, machines, store, local, Types, LocalOK, KeptInv, Outlived, Retained, CkptInv,
     Restorable, Covers, Above, Copying, SeqInv, FailedInv, Serving
<1>all. IInv'
  BY Zenon, <1>1, <1>2, <1>3, <1>4 DEF Types
<1> HIDE DEF IInv
<1> QED
  BY Zenon, <1>all DEF SessionInv

(* Pulling a checkpoint keeps the invariant.                               *)
LEMMA PullStep ==
  ASSUME SessionInv, NEW a \in Attempts, Pull(a)
  PROVE  SessionInv'
<1>inv. IInv
  BY Zenon DEF SessionInv
<1> USE <1>inv DEF IInv
<1>top. PICK top \in 0..MaxSeq : Newest(top) /\ num' = [num EXCEPT ![a] = top]
  BY Zenon DEF Pull
<1>write. /\ num' = [num EXCEPT ![a] = top] /\ UNCHANGED <<registry, machines, store, mine, tok>>
          /\ \E l \in {"allocate", "final"} : pc' = [pc EXCEPT ![a] = l]
          /\ faults' \in 0..MaxFaults /\ faults' >= faults /\ pc[a] = "pull"
  BY <1>top, ConstantsAssumption DEF Pull, At, Goto, NoFault, Fault, Types, LocalOK
<1>1. (RegistryOK /\ MachinesOK /\ StoreOK /\ RecInv /\ RetryInv /\ OrphanInv)'
  BY Zenon DEF Pull, Types, registry, machines, store, local, RegistryOK, MachinesOK, StoreOK,
     RecInv, RetryInv, OrphanInv, NoOrphanVm, CanBeRecovered
<1>2. LocalOK'
  <2>1. pc' \in [Attempts -> Steps]
    BY ZenonT(60), <1>write DEF Types, LocalOK, Steps
  <2> QED
    BY Zenon, <1>top, <1>write, <2>1 DEF Types, LocalOK
<1>3. (TokInv /\ LaunchInv)'
  BY SMTT(30), <1>top, <1>write, ConstantsAssumption DEF Pull, At, Goto, NoFault, Fault,
     Fenced, registry, machines, store, local, Types, LocalOK, TokInv, LaunchInv, CanBeRecovered
<1>4. (HolderInv /\ MineInv)'
  BY SMTT(30), <1>top, <1>write, ConstantsAssumption DEF Pull, At, Goto, NoFault, Fault,
     Fenced, registry, machines, store, local, Types, LocalOK, HolderInv, Outdated,
     CanBeRecovered, Serving, MineInv
<1>5. (SiblingInv /\ KeptInv)'
  BY SMTT(30), <1>top, <1>write, ConstantsAssumption DEF Pull, At, Goto, NoFault, Fault,
     Fenced, registry, machines, store, local, Types, LocalOK, SiblingInv, KeptInv, Outlived,
     Retained
<1>6. (CkptInv /\ FailedInv)'
  BY SMTT(30), <1>top, <1>write, ConstantsAssumption DEF Pull, At, Goto, NoFault, Fault,
     Fenced, registry, machines, store, local, Types, LocalOK, CkptInv, Restorable, Covers, Above,
     Copying, FailedInv, Serving
<1>7. SeqInv'
  <2>1. seq' = seq /\ Retained' = Retained /\ objects' = objects
    BY Zenon, <1>write DEF registry, store, Retained
  <2>2. pc'[a] \in {"allocate", "final"} /\ num'[a] = top
    BY Zenon, <1>write DEF Types, LocalOK
  <2>3. \A x \in Attempts \ {a} : pc'[x] = pc[x] /\ num'[x] = num[x]
    BY Zenon, <1>write DEF Types, LocalOK
  <2>4. \A s \in Retained : s <= top
    BY Zenon, <1>top DEF Newest
  <2> QED
    BY <2>1, <2>2, <2>3, <2>4 DEF SeqInv
<1>all. IInv'
  BY Zenon, <1>1, <1>2, <1>3, <1>4, <1>5, <1>6, <1>7 DEF Types
<1> HIDE DEF IInv
<1> QED
  BY Zenon, <1>all DEF SessionInv

(* Allocating a checkpoint sequence keeps the invariant.                   *)
LEMMA AllocateSequenceStep ==
  ASSUME SessionInv, NEW a \in Attempts, AllocateSequence(a)
  PROVE  SessionInv'
<1>inv. IInv
  BY Zenon DEF SessionInv
<1> USE <1>inv DEF IInv
<1> DEFINE next == NextSequence(num[a])
<1>next. next \in Nat /\ next > seq /\ next > num[a] /\ seq \in 0..MaxSeq /\ num[a] \in 0..MaxSeq
  <2>1. seq \in 0..MaxSeq /\ num[a] \in 0..MaxSeq
    BY Zenon DEF Types, RegistryOK, LocalOK
  <2> QED
    BY <2>1, NextIsAbove, ConstantsAssumption
<1>write. /\ UNCHANGED <<lock, rec, gen, machines, store, mine, tok, faults>> /\ pc[a] = "allocate"
          /\ \/ /\ next \in Seqs /\ seq' = next /\ num' = [num EXCEPT ![a] = next]
                /\ pc' = [pc EXCEPT ![a] = "put"]
             \/ seq' = seq /\ num' = num /\ pc' = [pc EXCEPT ![a] = "final"]
  BY Zenon DEF AllocateSequence, At, Goto, NoFault
<1>other. \A x \in Attempts \ {a} : pc'[x] = pc[x] /\ num'[x] = num[x]
  BY Zenon, <1>write DEF Types, LocalOK
<1>above. \A m : Outlived(m) => \E r \in Retained : m <= r /\ r < next
  BY <1>next, <1>write, ConstantsAssumption DEF SeqInv, Outlived, Retained, Seqs
<1> HIDE DEF next
<1>1. (MachinesOK /\ StoreOK /\ RecInv /\ RetryInv /\ OrphanInv)'
  BY Zenon DEF AllocateSequence, Types, registry, machines, store, local, MachinesOK, StoreOK,
     RecInv, RetryInv, OrphanInv, NoOrphanVm, CanBeRecovered
<1>2. RegistryOK'
  BY <1>next, <1>write, ConstantsAssumption DEF Types, RegistryOK, Seqs
<1>3. LocalOK'
  <2>1. pc' \in [Attempts -> Steps]
    BY ZenonT(60), <1>write DEF Types, LocalOK, Steps
  <2>2. num' \in [Attempts -> 0..MaxSeq]
    BY <1>write, ConstantsAssumption DEF Types, LocalOK, Seqs
  <2> QED
    BY Zenon, <1>write, <2>1, <2>2 DEF Types, LocalOK
<1>4. (TokInv /\ LaunchInv /\ HolderInv /\ MineInv)'
  BY SMTT(30), <1>next, <1>write, <1>other, ConstantsAssumption DEF AllocateSequence, At,
     Goto, NoFault, Fault, Fenced, registry, machines, store, local, Types, LocalOK, TokInv,
     LaunchInv, CanBeRecovered, HolderInv, Outdated, Serving, MineInv
<1>5. (SiblingInv /\ KeptInv /\ FailedInv)'
  BY <1>next, <1>write, <1>other, ConstantsAssumption DEF AllocateSequence, At,
     Goto, NoFault, Fault, Fenced, registry, machines, store, local, Types, LocalOK, SiblingInv,
     KeptInv, Outlived, Retained, FailedInv, Serving
<1>6. CkptInv'
  <2>1. /\ lock' = lock /\ rec' = rec /\ mine' = mine /\ objects' = objects
        /\ markers' = markers /\ prunes' = prunes
    BY Zenon, <1>write DEF store
  <2>2. pc'[a] \in {"put", "final"} /\ (pc'[a] = "put" => num'[a] = next)
    BY Zenon, <1>write DEF Types, LocalOK
  <2>3. \A y \in Attempts : pc'[y] = "mark" => y # a /\ pc[y] = "mark" /\ num'[y] = num[y]
    BY Zenon, <1>other, <2>2
  <2>4. \A c : Restorable(c) => Restorable(c)'
    BY Zenon, <2>1, <2>3 DEF Restorable, Covers
  <2>5. Above(next)
    <3>1. \A m : m \in Seqs /\ Outlived(m) => m < next
      BY <1>above, <1>next, ConstantsAssumption DEF Retained, Seqs
    <3> QED
      BY Zenon, <3>1 DEF Above, KeptInv, SeqInv, Types, StoreOK
  <2>6. \A c : Above(c) => (/\ \A m \in markers' : m < c
                            /\ \A m \in prunes' : m < c
                            /\ \A y \in Attempts : pc'[y] = "mark" => num'[y] < c)
    BY Zenon, <2>1, <2>3 DEF Above
  <2>7. ASSUME NEW x \in Attempts, lock = x
        PROVE  /\ pc'[x] \in Copying => Restorable(mine[x].ckpt)'
               /\ pc'[x] \in {"put", "point"} => Above(num[x])'
               /\ pc'[x] = "point" => objects[num'[x]] # None
               /\ pc'[x] = "mark" => rec.ckpt = num'[x]
    <3>1. CASE x = a
      <4>1. Restorable(mine[a].ckpt)
        BY Zenon, <1>write, <2>7, <3>1 DEF CkptInv, Copying
      <4>2. Restorable(mine[a].ckpt)'
        BY Zenon, <2>1, <2>4, <4>1
      <4>3. pc'[a] = "put" => Above(num[a])'
        BY Zenon, <2>2, <2>5, <2>6 DEF Above
      <4> QED
        BY Zenon, <2>2, <3>1, <4>2, <4>3
    <3>2. CASE x # a
      <4>1. pc'[x] = pc[x] /\ num'[x] = num[x]
        BY Zenon, <1>other, <3>2
      <4>2. pc[x] \in Copying => Restorable(mine[x].ckpt)'
        BY Zenon, <2>1, <2>4, <2>7 DEF CkptInv
      <4>3. pc[x] \in {"put", "point"} => Above(num[x])'
        BY Zenon, <2>6, <2>7, <4>1 DEF CkptInv, Above
      <4> QED
        BY Zenon, <2>7, <4>1, <4>2, <4>3 DEF CkptInv
    <3> QED
      BY Zenon, <3>1, <3>2
  <2>8. Restorable(rec.ckpt)'
    BY Zenon, <2>1, <2>4 DEF CkptInv
  <2> QED
    BY Zenon, <2>1, <2>7, <2>8 DEF CkptInv
<1>7. SeqInv'
  <2>1. Retained' = Retained /\ objects' = objects /\ Retained \subseteq Seqs
    BY Zenon, <1>write DEF store, Retained
  <2>2. CASE seq' = seq /\ num' = num /\ pc' = [pc EXCEPT ![a] = "final"]
    <3>1. pc'[a] = "final"
      BY Zenon, <2>2 DEF Types, LocalOK
    <3> QED
      BY Zenon, <1>other, <2>1, <2>2, <3>1 DEF SeqInv
  <2>3. CASE next \in Seqs /\ seq' = next /\ num' = [num EXCEPT ![a] = next] /\ pc' = [pc EXCEPT ![a] = "put"]
    <3>1. pc'[a] = "put" /\ num'[a] = next
      BY Zenon, <2>3 DEF Types, LocalOK
    <3>2. objects[next] = None
      BY <1>next, <1>write, <2>3, ConstantsAssumption DEF SeqInv, Retained, Seqs
    <3>3. \A y \in Attempts \ {a} : pc[y] \in {"put", "point", "mark"} => num[y] \in Seqs /\ num[y] < next
      BY <1>next, ConstantsAssumption DEF SeqInv, Seqs
    <3>4. \A s \in Retained : s <= seq => s <= next
      BY <1>next, <2>1, ConstantsAssumption DEF Seqs
    <3>5. ASSUME NEW x \in Attempts \ {a}
          PROVE  /\ pc'[x] \in {"put", "point", "mark"} => num'[x] \in Seqs /\ num'[x] <= seq'
                 /\ pc'[x] = "put" => /\ objects'[num'[x]] = None
                                      /\ \A y \in Attempts \ {x} : pc'[y] = "put" => num'[x] # num'[y]
                 /\ pc'[x] = "allocate" => \A s \in Retained' : s <= seq' \/ s <= num'[x]
      <4>1. pc'[x] = pc[x] /\ num'[x] = num[x]
        BY Zenon, <1>other
      <4>2. pc[x] \in {"put", "point", "mark"} => num[x] <= next /\ num[x] # next
        BY <1>next, <3>3, ConstantsAssumption DEF Seqs
      <4>3. pc[x] = "put" => \A y \in Attempts \ {x} : pc'[y] = "put" => num[x] # num'[y]
        BY ZenonT(60), <1>other, <3>1, <4>2 DEF SeqInv
      <4> QED
        BY Zenon, <2>1, <2>3, <3>4, <4>1, <4>2, <4>3 DEF SeqInv
    <3>6. \A y \in Attempts \ {a} : pc'[y] = "put" => next # num'[y]
      BY <1>other, <1>next, <3>3, ConstantsAssumption DEF Seqs
    <3>7. next <= next
      BY <1>next
    <3> QED
      BY Zenon, <2>1, <2>3, <3>1, <3>2, <3>5, <3>6, <3>7 DEF SeqInv
  <2> QED
    BY Zenon, <1>write, <2>2, <2>3
<1>all. IInv'
  BY Zenon, <1>1, <1>2, <1>3, <1>4, <1>5, <1>6, <1>7 DEF Types
<1> HIDE DEF IInv
<1> QED
  BY Zenon, <1>all DEF SessionInv

=============================================================================
