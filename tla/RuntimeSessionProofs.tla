------------------------ MODULE RuntimeSessionProofs ------------------------
(***************************************************************************)
(* Theorems about RuntimeSession, for every number of attempts, of faults, *)
(* of generations and of checkpoints: the checkpoints stay consistent, no  *)
(* MicroVM is left running unknown, and what a failed finalization left    *)
(* behind is not built upon. First the remaining steps keep the invariant  *)
(* of RuntimeSessionInvariant: the checkpoint, the loss of the lock,       *)
(* crashes, the provider and the passing of time.                          *)
(***************************************************************************)
EXTENDS RuntimeSessionSteps, TLAPS

(* Storing an archive keeps the invariant.                                 *)
LEMMA PutStep ==
  ASSUME SessionInv, NEW a \in Attempts, Put(a)
  PROVE  SessionInv'
<1>inv. IInv
  BY Zenon DEF SessionInv
<1> USE <1>inv DEF IInv
<1>1. (RegistryOK /\ MachinesOK /\ RecInv /\ RetryInv /\ OrphanInv)'
  BY Zenon DEF Put, Types, registry, machines, store, local, RegistryOK, MachinesOK, RecInv,
     RetryInv, OrphanInv, NoOrphanVm, CanBeRecovered
<1>2. (StoreOK /\ LocalOK /\ TokInv /\ LaunchInv)'
  BY ConstantsAssumption DEF Put, At, Goto, NoFault, Fault, Fenced, registry,
     machines, store, local, Types, StoreOK, LocalOK, Steps, TokInv, LaunchInv, CanBeRecovered
<1>3. (HolderInv /\ MineInv /\ SiblingInv /\ FailedInv)'
  BY ConstantsAssumption DEF Put, At, Goto, NoFault, Fault, Fenced, registry,
     machines, store, local, Types, LocalOK, HolderInv, Outdated, CanBeRecovered, Serving,
     MineInv, SiblingInv, FailedInv
<1>4. (KeptInv /\ SeqInv)'
  BY ConstantsAssumption DEF Put, At, Goto, NoFault, Fault, Fenced, registry,
     machines, store, local, Types, StoreOK, LocalOK, KeptInv, CkptInv, SeqInv, Outlived,
     Retained, RegistryOK
<1>5. CkptInv'
  <2>1. /\ lock' = lock /\ mine' = mine /\ num' = num /\ rec' = rec
        /\ markers' = markers /\ prunes' = prunes /\ pc[a] = "put"
    BY Zenon DEF Put, registry, At
  <2>2. /\ pc'[a] \in {"point", "final"} /\ \A y \in Attempts \ {a} : pc'[y] = pc[y]
        /\ \A q \in Seqs : objects[q] # None => objects'[q] # None
        /\ pc'[a] = "point" => objects'[num[a]] # None
    <3>1. num[a] \in Seqs
      BY Zenon, <2>1 DEF SeqInv
    <3> QED
      BY Zenon, <3>1, ConstantsAssumption DEF Put, Goto, Types, LocalOK, StoreOK
  <2>3. \A c \in 0..MaxSeq : Restorable(c) => Restorable(c)'
    BY <2>1, <2>2, ConstantsAssumption DEF Restorable, Covers, Seqs
  <2>4. \A c : Above(c) => Above(c)'
    BY Zenon, <2>1, <2>2 DEF Above
  <2>5. Restorable(rec.ckpt)'
    <3>1. rec.ckpt \in 0..MaxSeq
      BY Zenon DEF Types, RegistryOK, Record
    <3> QED
      BY Zenon, <2>1, <2>3, <3>1 DEF CkptInv
  <2>6. ASSUME NEW x \in Attempts, lock = x
        PROVE  /\ pc'[x] \in Copying => Restorable(mine[x].ckpt)'
               /\ pc'[x] \in {"put", "point"} => Above(num[x])'
               /\ pc'[x] = "point" => objects'[num[x]] # None
               /\ pc'[x] = "mark" => rec.ckpt = num[x]
    <3>1. mine[x].ckpt \in 0..MaxSeq
      BY Zenon DEF Types, LocalOK, Record
    <3>2. pc'[x] \in Copying => pc[x] \in Copying
      BY Zenon, <2>1, <2>2 DEF Copying
    <3>3. pc'[x] \in {"put", "point"} => pc[x] \in {"put", "point"}
      BY Zenon, <2>1, <2>2
    <3>4. pc'[x] \in Copying => Restorable(mine[x].ckpt)'
      BY Zenon, <2>1, <2>3, <2>6, <3>1, <3>2 DEF CkptInv
    <3>5. pc'[x] \in {"put", "point"} => Above(num[x])'
      BY Zenon, <2>1, <2>4, <2>6, <3>3 DEF CkptInv
    <3>6. pc'[x] = "point" => objects'[num[x]] # None
      BY Zenon, <2>2, <2>6 DEF CkptInv, SeqInv
    <3> QED
      BY Zenon, <2>2, <2>6, <3>4, <3>5, <3>6 DEF CkptInv
  <2> QED
    BY Zenon, <2>1, <2>5, <2>6 DEF CkptInv
<1>all. IInv'
  BY Zenon, <1>1, <1>2, <1>3, <1>4, <1>5 DEF Types
<1> HIDE DEF IInv
<1> QED
  BY Zenon, <1>all DEF SessionInv

(* Writing the checkpoint pointer keeps the invariant.                     *)
LEMMA PointStep ==
  ASSUME SessionInv, NEW a \in Attempts, Point(a)
  PROVE  SessionInv'
<1>inv. IInv
  BY Zenon DEF SessionInv
<1> USE <1>inv DEF IInv
<1>tok. tok[a] \in Tokens
  BY Zenon DEF TokInv, Point, At
<1> DEFINE new == [mine[a] EXCEPT !.ckpt = num[a]]
<1>new. /\ new \in Record
        /\ new.state = mine[a].state /\ new.vm = mine[a].vm
        /\ new.gen = mine[a].gen /\ new.ckpt = num[a]
  BY Zenon, <1>tok DEF Types, LocalOK, RegistryOK, Record
<1>write. Published(a, new, "mark", "final")
  BY Zenon, <1>new, PublishWrites DEF Point, LaunchIntent, Retired, PointerLost
<1> HIDE DEF new
<1>1. (MachinesOK /\ StoreOK /\ RetryInv)'
  BY Zenon DEF Point, Types, registry, machines, store, local, MachinesOK, StoreOK, RetryInv
<1>2. RegistryOK'
  BY Zenon, <1>tok, <1>new, <1>write, ConstantsAssumption DEF Point, Published, At, Goto, NoFault,
     Fault, Fenced, registry, machines, store, local, Types, RegistryOK, Record
<1>3. (LocalOK /\ TokInv)'
  BY <1>tok, <1>new, <1>write, ConstantsAssumption DEF Point, Published, At,
     Goto, NoFault, Fault, Fenced, registry, machines, store, local, Types, LocalOK, Steps, TokInv
<1>4. (RecInv /\ HolderInv)'
  BY <1>tok, <1>new, <1>write, TokenFacts, ConstantsAssumption DEF Point,
     Published, At, Goto, NoFault, Fault, Fenced, registry, machines, store, local, Types,
     RegistryOK, MachinesOK, LocalOK, RecInv, TokInv, HolderInv, MineInv, Record, Outdated,
     CanBeRecovered, Serving, CanReplay
<1>5. (LaunchInv /\ FailedInv)'
  BY <1>tok, <1>new, <1>write, TokenFacts, ConstantsAssumption DEF Point,
     Published, At, Goto, NoFault, Fault, Fenced, registry, machines, store, local, Types,
     LocalOK, LaunchInv, CanBeRecovered, RegistryOK, HolderInv, Serving, FailedInv
<1>6. (MineInv /\ SiblingInv /\ SeqInv)'
  BY <1>tok, <1>new, <1>write, ConstantsAssumption DEF Point, Published, At,
     Goto, NoFault, Fault, Fenced, registry, machines, store, local, Types, LocalOK, MineInv,
     SiblingInv, SeqInv, Retained
<1>7. (OrphanInv /\ KeptInv)'
  BY <1>tok, <1>new, <1>write, TokenFacts, ConstantsAssumption DEF Point,
     Published, At, Goto, NoFault, Fault, Fenced, registry, machines, store, local, Types,
     RegistryOK, MachinesOK, LocalOK, RecInv, RetryInv, TokInv, LaunchInv, HolderInv, SiblingInv,
     MineInv, OrphanInv, NoOrphanVm, CanBeRecovered, Outdated, CanReplay, Serving, Record,
     StoreOK, KeptInv, CkptInv, SeqInv, Outlived, Retained
<1>8. CkptInv'
  <2>1. /\ lock' = lock /\ mine' = mine /\ num' = num /\ objects' = objects
        /\ markers' = markers /\ prunes' = prunes /\ pc[a] = "point"
    BY Zenon DEF Point, store, At
  <2>2. /\ pc'[a] \in {"mark", "final"} /\ \A y \in Attempts \ {a} : pc'[y] = pc[y]
        /\ pc'[a] = "mark" => lock = a /\ rec' = new
    BY Zenon, <1>write DEF Published, Types, LocalOK
  <2>3. num[a] \in Seqs
    BY Zenon, <2>1 DEF SeqInv
  <2>4. lock = a => Above(num[a]) /\ objects[num[a]] # None /\ Restorable(mine[a].ckpt)
    BY Zenon, <2>1 DEF CkptInv, Copying
  <2>5. \A c : Restorable(c) /\ pc'[a] # "mark" => Restorable(c)'
    BY Zenon, <2>1, <2>2 DEF Restorable, Covers
  <2>6. lock = a => Restorable(num[a])'
    <3>1. Above(num[a]) => /\ \A m \in markers : m <= num[a]
                           /\ \A m \in prunes : m <= num[a]
                           /\ \A y \in Attempts : pc'[y] = "mark" => num[y] <= num[a]
      <4>1. \A y \in Attempts : pc[y] = "mark" => num[y] \in Seqs
        BY Zenon DEF SeqInv
      <4> QED
        BY <2>2, <2>3, <4>1, ConstantsAssumption DEF Above, Types, StoreOK, Seqs
    <3> QED
      BY Zenon, <2>1, <2>4, <3>1 DEF Restorable, Covers
  <2>7. Restorable(rec.ckpt)'
    <3>1. CASE rec' = rec
      <4>1. Restorable(rec.ckpt)
        BY Zenon DEF CkptInv
      <4>2. CASE pc'[a] # "mark"
        BY Zenon, <2>5, <3>1, <4>1, <4>2
      <4>3. CASE pc'[a] = "mark"
        <5>1. lock = a /\ rec' = new /\ rec'.ckpt = num[a] /\ num' = num
          BY Zenon, <1>new, <2>1, <2>2, <4>3
        <5> QED
          BY Zenon, <2>6, <5>1
      <4> QED
        BY Zenon, <4>2, <4>3
    <3>2. CASE lock = a /\ rec' = new
      <4>1. rec'.ckpt = num[a] /\ num' = num
        BY Zenon, <1>new, <2>1, <3>2
      <4> QED
        BY Zenon, <2>6, <3>2, <4>1
    <3> QED
      BY Zenon, <1>write, <3>1, <3>2 DEF Published
  <2>8. ASSUME NEW x \in Attempts, lock = x
        PROVE  /\ pc'[x] \in Copying => Restorable(mine[x].ckpt)'
               /\ pc'[x] \in {"put", "point"} => Above(num[x])'
               /\ pc'[x] = "point" => objects[num[x]] # None
               /\ pc'[x] = "mark" => rec'.ckpt = num[x]
    <3>1. CASE x = a
      <4>1. pc'[a] = "final" => Restorable(mine[a].ckpt)'
        BY Zenon, <2>1, <2>4, <2>5, <2>8, <3>1
      <4>2. pc'[a] = "mark" => rec'.ckpt = num[a]
        BY Zenon, <1>new, <2>2
      <4> QED
        BY Zenon, <2>2, <3>1, <4>1, <4>2 DEF Copying
    <3>2. CASE x # a
      <4>1. pc'[a] # "mark" /\ pc'[x] = pc[x] /\ rec' = rec
        BY Zenon, <1>write, <2>2, <2>8, <3>2 DEF Published
      <4>2. pc[x] \in Copying => Restorable(mine[x].ckpt)'
        BY Zenon, <2>1, <2>5, <2>8, <4>1 DEF CkptInv
      <4>3. pc[x] \in {"put", "point"} => Above(num[x])'
        BY Zenon, <2>1, <2>2, <2>8, <4>1 DEF CkptInv, Above
      <4> QED
        BY Zenon, <2>8, <4>1, <4>2, <4>3 DEF CkptInv
    <3> QED
      BY Zenon, <3>1, <3>2
  <2> QED
    BY Zenon, <2>1, <2>7, <2>8 DEF CkptInv
<1>all. IInv'
  BY Zenon, <1>1, <1>2, <1>3, <1>4, <1>5, <1>6, <1>7, <1>8 DEF Types
<1> HIDE DEF IInv
<1> QED
  BY Zenon, <1>all DEF SessionInv

(* Writing a marker keeps the invariant.                                   *)
LEMMA MarkStep ==
  ASSUME SessionInv, NEW a \in Attempts, Mark(a)
  PROVE  SessionInv'
<1>inv. IInv
  BY Zenon DEF SessionInv
<1> USE <1>inv DEF IInv
<1>1. (RegistryOK /\ MachinesOK /\ RecInv /\ RetryInv /\ OrphanInv)'
  BY Zenon DEF Mark, Types, registry, machines, store, local, RegistryOK, MachinesOK, RecInv,
     RetryInv, OrphanInv, NoOrphanVm, CanBeRecovered
<1>2. StoreOK'
  BY ZenonT(60), ConstantsAssumption DEF Mark, Absent, At, Goto, NoFault, Fault, Fenced, registry,
     machines, store, local, Types, StoreOK, LocalOK, SeqInv
<1>3. (LocalOK /\ MineInv /\ CkptInv)'
  BY ConstantsAssumption DEF Mark, Absent, At, Goto, NoFault, Fault, Fenced,
     registry, machines, store, local, Types, LocalOK, Steps, RegistryOK, HolderInv,
     CanBeRecovered, Serving, MineInv, CkptInv, Restorable, Covers, Above, Copying
<1>4. (TokInv /\ LaunchInv /\ HolderInv /\ SiblingInv)'
  BY ConstantsAssumption DEF Mark, Absent, At, Goto, NoFault, Fault, Fenced,
     registry, machines, store, local, Types, LocalOK, TokInv, LaunchInv, CanBeRecovered,
     HolderInv, Outdated, Serving, SiblingInv
<1>5. (KeptInv /\ SeqInv /\ FailedInv)'
  BY ConstantsAssumption DEF Mark, Absent, At, Goto, NoFault, Fault, Fenced,
     registry, machines, store, local, Types, LocalOK, KeptInv, Outlived, Retained, SeqInv,
     FailedInv, Serving
<1>all. IInv'
  BY Zenon, <1>1, <1>2, <1>3, <1>4, <1>5 DEF Types
<1> HIDE DEF IInv
<1> QED
  BY Zenon, <1>all DEF SessionInv

(* The last write of the record keeps the invariant.                       *)
LEMMA FinalStep ==
  ASSUME SessionInv, NEW a \in Attempts, Final(a)
  PROVE  SessionInv'
<1>inv. IInv
  BY Zenon DEF SessionInv
<1> USE <1>inv DEF IInv
<1>tok. tok[a] \in Tokens
  BY Zenon DEF TokInv, Final, At
<1> DEFINE new == [mine[a] EXCEPT !.state = "RUNNING"]
<1>new. /\ new \in Record
        /\ new.state = "RUNNING" /\ new.vm = mine[a].vm
        /\ new.gen = mine[a].gen /\ new.ckpt = mine[a].ckpt
  BY Zenon, <1>tok DEF Types, LocalOK, RegistryOK, Record
<1>write. Published(a, new, "served", "kill")
  BY Zenon, <1>new, PublishWrites DEF Final, LaunchIntent, Retired, PointerLost
<1> HIDE DEF new
<1>1. (MachinesOK /\ StoreOK /\ RetryInv)'
  BY Zenon DEF Final, Types, registry, machines, store, local, MachinesOK, StoreOK, RetryInv
<1>2. (RegistryOK /\ LocalOK /\ TokInv /\ MineInv)'
  BY SMTT(30), <1>tok, <1>new, <1>write, ConstantsAssumption DEF Final, Published, At,
     Goto, NoFault, Fault, Fenced, registry, machines, store, local, Types, RegistryOK, Record,
     LocalOK, Steps, TokInv, MineInv
<1>3. (RecInv /\ HolderInv /\ OrphanInv)'
  BY <1>tok, <1>new, <1>write, TokenFacts, ConstantsAssumption DEF Final,
     Published, At, Goto, NoFault, Fault, Fenced, registry, machines, store, local, Types,
     RegistryOK, MachinesOK, LocalOK, RecInv, TokInv, HolderInv, MineInv, Record, Outdated,
     CanBeRecovered, Serving, CanReplay, RetryInv, LaunchInv, SiblingInv, OrphanInv, NoOrphanVm
<1>4. (LaunchInv /\ FailedInv)'
  BY <1>tok, <1>new, <1>write, TokenFacts, ConstantsAssumption DEF Final,
     Published, At, Goto, NoFault, Fault, Fenced, registry, machines, store, local, Types,
     LocalOK, LaunchInv, CanBeRecovered, RegistryOK, HolderInv, Serving, FailedInv
<1>5. (SiblingInv /\ KeptInv /\ CkptInv /\ SeqInv)'
  BY <1>tok, <1>new, <1>write, ConstantsAssumption DEF Final, Published, At,
     Goto, NoFault, Fault, Fenced, registry, machines, store, local, Types, LocalOK, SiblingInv,
     KeptInv, Outlived, Retained, CkptInv, Restorable, Covers, Above, Copying, SeqInv
<1>all. IInv'
  BY Zenon, <1>1, <1>2, <1>3, <1>4, <1>5 DEF Types
<1> HIDE DEF IInv
<1> QED
  BY Zenon, <1>all DEF SessionInv

(* Releasing the lock keeps the invariant.                                 *)
LEMMA ReleaseStep ==
  ASSUME SessionInv, NEW a \in Attempts, Release(a)
  PROVE  SessionInv'
<1>inv. IInv
  BY Zenon DEF SessionInv
<1> USE <1>inv DEF IInv
<1>1. (MachinesOK /\ StoreOK /\ RecInv /\ RetryInv /\ OrphanInv)'
  BY Zenon DEF Release, Types, registry, machines, store, local, MachinesOK, StoreOK, RecInv,
     RetryInv, OrphanInv, NoOrphanVm, CanBeRecovered
<1>2. (RegistryOK /\ TokInv /\ LaunchInv /\ HolderInv)'
  BY ConstantsAssumption DEF Release, Absent, At, Goto, NoFault, Fault, Fenced,
     registry, machines, store, local, Types, RegistryOK, Record, LocalOK, TokInv, LaunchInv,
     CanBeRecovered, HolderInv, Outdated, Serving
<1>3. LocalOK'
  BY SMTT(30), ConstantsAssumption DEF Release, Absent, At, Goto, NoFault, Fault, Fenced, registry,
     machines, store, local, Types, RegistryOK, LocalOK, RecInv, TokInv, Record, Steps
<1>4. (MineInv /\ SiblingInv /\ KeptInv /\ CkptInv)'
  BY SMTT(30), ConstantsAssumption DEF Release, Absent, At, Goto, NoFault, Fault, Fenced,
     registry, machines, store, local, Types, LocalOK, MineInv, SiblingInv, KeptInv, Outlived,
     Retained, CkptInv, Restorable, Covers, Above, Copying
<1>5. (SeqInv /\ FailedInv)'
  BY ConstantsAssumption DEF Release, Absent, At, Goto, NoFault, Fault, Fenced,
     registry, machines, store, local, Types, LocalOK, SeqInv, Retained, FailedInv, Serving
<1>all. IInv'
  BY Zenon, <1>1, <1>2, <1>3, <1>4, <1>5 DEF Types
<1> HIDE DEF IInv
<1> QED
  BY Zenon, <1>all DEF SessionInv

(* The heartbeat of a lost lock keeps the invariant.                       *)
LEMMA FenceAbortsStep ==
  ASSUME SessionInv, NEW a \in Attempts, FenceAborts(a)
  PROVE  SessionInv'
<1>inv. IInv
  BY Zenon DEF SessionInv
<1> USE <1>inv DEF IInv
<1>end. Dying
  <2>1. CASE UNCHANGED vm
    BY Zenon, <2>1 DEF Dying, Types, MachinesOK
  <2>2. CASE At(a, "boot") /\ vm' = Gone(tok[a])
    <3>1. tok[a] \in Tokens /\ vm[tok[a]] # "unborn"
      BY Zenon, <2>2 DEF TokInv, At
    <3> QED
      BY Zenon, <2>2, <3>1, GoneIsDying DEF Types
  <2> QED
    BY Zenon, <2>1, <2>2 DEF FenceAborts
<1>1. (RegistryOK /\ StoreOK)'
  BY Zenon DEF FenceAborts, Types, registry, machines, store, local, RegistryOK, StoreOK
<1>2. (MachinesOK /\ LocalOK /\ MineInv /\ OrphanInv)'
  BY <1>end, ConstantsAssumption DEF FenceAborts, Dying, At, Goto, NoFault,
     Fault, Fenced, registry, machines, store, local, Types, MachinesOK, LocalOK, Steps, MineInv,
     OrphanInv, NoOrphanVm, CanBeRecovered
<1>3. (RecInv /\ HolderInv)'
  BY <1>end, TokenFacts, ConstantsAssumption DEF FenceAborts, Dying, At, Goto,
     NoFault, Fault, Fenced, registry, machines, store, local, Types, RegistryOK, MachinesOK,
     LocalOK, RecInv, TokInv, HolderInv, MineInv, Record, Outdated, CanBeRecovered, Serving,
     CanReplay
<1>4. RetryInv'
  BY Zenon, <1>end, TokenFacts, ConstantsAssumption DEF FenceAborts, Dying, At, Goto, NoFault,
     Fault, Fenced, registry, machines, store, local, Types, MachinesOK, RetryInv, TokInv
<1>5. (TokInv /\ FailedInv)'
  BY <1>end, TokenFacts, ConstantsAssumption DEF FenceAborts, Dying, At, Goto,
     NoFault, Fault, Fenced, registry, machines, store, local, Types, LocalOK, TokInv, MachinesOK,
     FailedInv, Serving
<1>6. LaunchInv'
  <2> SUFFICES ASSUME NEW x \in Attempts,
                      pc'[x] = "launch", tok'[x][2] = 0, vm'[tok'[x]] = "unborn"
               PROVE  rec'.state = "PENDING" /\ rec'.vm = None /\ rec'.gen = tok'[x][1]
    BY Zenon DEF LaunchInv, CanBeRecovered
  <2>1. pc[x] = "launch" /\ tok'[x] = tok[x]
    BY Zenon, TokenFacts DEF FenceAborts, At, Goto, Types, LocalOK, local
  <2>2. tok[x] \in Tokens
    BY Zenon, <2>1 DEF TokInv
  <2>3. CanBeRecovered(tok[x])
    BY Zenon, <1>end, <2>1, <2>2 DEF Dying, LaunchInv
  <2> QED
    BY Zenon, <2>1, <2>3 DEF FenceAborts, registry, CanBeRecovered
<1>7. SiblingInv'
  <2>1. ASSUME NoAborts, NEW x \in Attempts, pc'[x] = "retire"
        PROVE  tok'[x][2] = 1
    BY Zenon, <2>1, TokenFacts DEF FenceAborts, At, Goto, Types, LocalOK, local, SiblingInv
  <2>2. ASSUME NoAborts, NEW x \in Attempts, lock' = x, pc'[x] \in {"track", "abandon", "remove"},
               tok'[x][2] = 0, vm'[<<tok'[x][1], 1>>] = "live"
        PROVE  <<tok'[x][1], 1>> \in strays'
    <3>1. /\ lock = x /\ tok'[x] = tok[x] /\ strays' = strays
          /\ pc[x] \in {"track", "abandon", "remove"}
      BY Zenon, <2>2, TokenFacts DEF FenceAborts, At, Goto, Types, LocalOK, local, registry, Fenced
    <3>2. tok[x] \in Tokens
      BY Zenon, <3>1 DEF TokInv
    <3>3. vm[<<tok[x][1], 1>>] = "live"
      BY SMTT(30), <2>2, <3>1, <3>2, <1>end, TokenFacts DEF Dying
    <3> QED
      BY Zenon, <2>2, <3>1, <3>2, <3>3, TokenFacts DEF SiblingInv
  <2> QED
    BY Zenon, <2>1, <2>2 DEF SiblingInv, NoAborts
<1>8. (KeptInv /\ CkptInv /\ SeqInv)'
  BY <1>end, ConstantsAssumption DEF FenceAborts, Dying, At, Goto, NoFault,
     Fault, Fenced, registry, machines, store, local, Types, LocalOK, KeptInv, Outlived, Retained,
     CkptInv, Restorable, Covers, Above, Copying, SeqInv
<1>all. IInv'
  BY Zenon, <1>1, <1>2, <1>3, <1>4, <1>5, <1>6, <1>7, <1>8 DEF Types
<1> HIDE DEF IInv
<1> QED
  BY Zenon, <1>all DEF SessionInv

(* The loss of the lock keeps the invariant.                               *)
LEMMA LockLostStep ==
  ASSUME SessionInv, NEW a \in Attempts, LockLost(a)
  PROVE  SessionInv'
<1>inv. IInv
  BY Zenon DEF SessionInv
<1> USE <1>inv DEF IInv
<1>1. (StoreOK /\ RecInv /\ RetryInv /\ TokInv /\ LaunchInv /\ OrphanInv /\ KeptInv /\ SeqInv)'
  BY ZenonT(60) DEF LockLost, Types, registry, machines, store, local, StoreOK, RecInv, RetryInv,
     TokInv, LaunchInv, CanBeRecovered, OrphanInv, NoOrphanVm, KeptInv, Outlived, Retained, SeqInv
<1>2. (RegistryOK /\ MachinesOK /\ LocalOK /\ HolderInv)'
  BY ConstantsAssumption DEF LockLost, CutShort, At, Goto, NoFault, Fault,
     Fenced, registry, machines, store, local, Types, RegistryOK, Record, MachinesOK, LocalOK,
     Steps, HolderInv, Outdated, CanBeRecovered, Serving
<1>3. (MineInv /\ SiblingInv /\ CkptInv /\ FailedInv)'
  BY ConstantsAssumption DEF LockLost, CutShort, At, Goto, NoFault, Fault,
     Fenced, registry, machines, store, local, Types, LocalOK, MineInv, SiblingInv, CkptInv,
     Restorable, Covers, Above, Copying, FailedInv, Serving
<1>all. IInv'
  BY Zenon, <1>1, <1>2, <1>3 DEF Types
<1> HIDE DEF IInv
<1> QED
  BY Zenon, <1>all DEF SessionInv

(* The crash of a worker keeps the invariant.                              *)
LEMMA CrashStep ==
  ASSUME SessionInv, NEW a \in Attempts, Crash(a)
  PROVE  SessionInv'
<1>inv. IInv
  BY Zenon DEF SessionInv
<1> USE <1>inv DEF IInv
<1>1. (StoreOK /\ RecInv /\ RetryInv /\ OrphanInv)'
  BY ZenonT(60) DEF Crash, Types, registry, machines, store, local, StoreOK, RecInv, RetryInv,
     OrphanInv, NoOrphanVm, CanBeRecovered
<1>2. (RegistryOK /\ TokInv /\ LaunchInv /\ HolderInv)'
  BY ConstantsAssumption DEF Crash, Disturbed, CutShort, Absent, At, Goto,
     NoFault, Fault, Fenced, registry, machines, store, local, Types, RegistryOK, Record, LocalOK,
     TokInv, LaunchInv, CanBeRecovered, HolderInv, Outdated, Serving
<1>3. MachinesOK'
  <2>1. At(a, "execute") => Disturbed(a) \subseteq Tokens
    BY ZenonT(60) DEF TokInv, Crash, At, Disturbed, Types, MachinesOK
  <2> QED
    BY Zenon, <2>1 DEF Crash, CutShort, Types, MachinesOK
<1>4. LocalOK'
  BY SMTT(30), ConstantsAssumption DEF Crash, Disturbed, CutShort, Absent, At, Goto, NoFault, Fault,
     Fenced, registry, machines, store, local, Types, RegistryOK, LocalOK, RecInv, TokInv, Record,
     Steps
<1>5. (MineInv /\ SiblingInv /\ KeptInv /\ CkptInv)'
  BY SMTT(30), ConstantsAssumption DEF Crash, Disturbed, CutShort, Absent, At, Goto,
     NoFault, Fault, Fenced, registry, machines, store, local, Types, LocalOK, MineInv,
     SiblingInv, KeptInv, Outlived, Retained, CkptInv, Restorable, Covers, Above, Copying
<1>6. (SeqInv /\ FailedInv)'
  BY ConstantsAssumption DEF Crash, Disturbed, CutShort, Absent, At, Goto,
     NoFault, Fault, Fenced, registry, machines, store, local, Types, LocalOK, SeqInv, Retained,
     FailedInv, Serving
<1>all. IInv'
  BY Zenon, <1>1, <1>2, <1>3, <1>4, <1>5, <1>6 DEF Types
<1> HIDE DEF IInv
<1> QED
  BY Zenon, <1>all DEF SessionInv

(* Collecting older archives keeps the invariant.                          *)
LEMMA PruneStep ==
  ASSUME SessionInv, NEW s \in Seqs, Prune(s)
  PROVE  SessionInv'
<1>inv. IInv
  BY Zenon DEF SessionInv
<1> USE <1>inv DEF IInv
<1>kept. /\ \A q \in Seqs : q >= s => objects'[q] = objects[q]
         /\ markers' \subseteq markers /\ prunes' \subseteq prunes /\ s \in prunes
         /\ UNCHANGED <<lock, rec, seq, pc, mine, tok, num>>
  BY SMTT(30), ConstantsAssumption DEF Prune, Older, Seqs, registry, local
<1>1. (RegistryOK /\ MachinesOK /\ LocalOK /\ RecInv /\ RetryInv /\ TokInv /\ LaunchInv /\ HolderInv /\ MineInv /\ OrphanInv /\ SiblingInv /\ FailedInv)'
  BY DEF Prune, Types, registry, machines, store, local, RegistryOK, MachinesOK, LocalOK,
     RecInv, RetryInv, TokInv, LaunchInv, CanBeRecovered, HolderInv, Outdated, MineInv, OrphanInv,
     NoOrphanVm, SiblingInv, FailedInv
<1>2. (StoreOK /\ SeqInv)'
  BY ZenonT(60), <1>kept, ConstantsAssumption DEF Prune, Older, At, Goto, NoFault, Fault,
     Fenced, registry, machines, store, local, Types, StoreOK, LocalOK, SeqInv, Retained
<1>3. KeptInv'
  <2>1. PICK r \in Retained : s <= r
    BY Zenon, <1>kept DEF KeptInv, Outlived
  <2>2. r \in Retained'
    BY Zenon, <1>kept, <2>1, ConstantsAssumption DEF Retained, Seqs
  <2>3. ASSUME NEW m \in Seqs, Outlived(m)
        PROVE  Outlived(m)'
    <3>1. PICK q \in Retained : m <= q
      BY Zenon, <2>3 DEF Outlived
    <3>2. CASE q >= s
      BY Zenon, <1>kept, <3>1, <3>2 DEF Outlived, Retained
    <3>3. CASE q < s
      <4>1. m <= r
        BY <2>1, <3>1, <3>3, ConstantsAssumption DEF Retained, Seqs
      <4> QED
        BY Zenon, <2>2, <4>1 DEF Outlived
    <3> QED
      BY <3>1, <3>2, <3>3, ConstantsAssumption DEF Retained, Seqs
  <2>4. \A y \in Attempts : pc[y] = "mark" => num[y] \in Seqs
    BY Zenon DEF SeqInv
  <2> QED
    BY Zenon, <1>kept, <2>3, <2>4 DEF KeptInv, Types, StoreOK
<1>4. CkptInv'
  <2>1. \A c \in 0..MaxSeq : Restorable(c) => Restorable(c)'
    BY <1>kept, ConstantsAssumption DEF Restorable, Covers, Seqs
  <2>2. \A c : Above(c) => Above(c)'
    BY Zenon, <1>kept DEF Above
  <2>3. Restorable(rec.ckpt)'
    <3>1. rec.ckpt \in 0..MaxSeq
      BY Zenon DEF Types, RegistryOK, Record
    <3> QED
      BY Zenon, <1>kept, <2>1, <3>1 DEF CkptInv
  <2>4. ASSUME NEW x \in Attempts, lock = x
        PROVE  /\ pc[x] \in Copying => Restorable(mine[x].ckpt)'
               /\ pc[x] \in {"put", "point"} => Above(num[x])'
               /\ pc[x] = "point" => objects'[num[x]] # None
               /\ pc[x] = "mark" => rec.ckpt = num[x]
    <3>1. mine[x].ckpt \in 0..MaxSeq
      BY Zenon DEF Types, LocalOK, Record
    <3>2. pc[x] \in Copying => Restorable(mine[x].ckpt)'
      BY Zenon, <1>kept, <2>1, <2>4, <3>1 DEF CkptInv
    <3>3. pc[x] \in {"put", "point"} => Above(num[x])'
      BY Zenon, <1>kept, <2>2, <2>4 DEF CkptInv
    <3>4. pc[x] = "point" => objects'[num[x]] # None
      <4> SUFFICES ASSUME pc[x] = "point" PROVE objects'[num[x]] # None
        BY Zenon
      <4>1. num[x] \in Seqs /\ s < num[x] /\ objects[num[x]] # None
        BY Zenon, <1>kept, <2>4 DEF CkptInv, Above, SeqInv
      <4> QED
        BY <1>kept, <4>1, ConstantsAssumption DEF Seqs
    <3> QED
      BY Zenon, <2>4, <3>2, <3>3, <3>4 DEF CkptInv
  <2> QED
    BY Zenon, <1>kept, <2>3, <2>4 DEF CkptInv
<1>all. IInv'
  BY Zenon, <1>1, <1>2, <1>3, <1>4 DEF Types
<1> HIDE DEF IInv
<1> QED
  BY Zenon, <1>all DEF SessionInv

(* The death of a MicroVM keeps the invariant.                             *)
LEMMA MachineDiesStep ==
  ASSUME SessionInv, NEW t \in Tokens, MachineDies(t)
  PROVE  SessionInv'
<1>inv. IInv
  BY Zenon DEF SessionInv
<1> USE <1>inv DEF IInv
<1>end. Dying
  BY Zenon, GoneIsDying DEF MachineDies, Types
<1>1. (RegistryOK /\ StoreOK /\ MineInv /\ KeptInv /\ CkptInv /\ SeqInv)'
  BY ZenonT(60) DEF MachineDies, Types, registry, machines, store, local, RegistryOK, StoreOK, MineInv,
     KeptInv, Outlived, Retained, CkptInv, Restorable, Covers, Above, SeqInv
<1>2. (MachinesOK /\ LocalOK)'
  BY <1>end, ConstantsAssumption DEF MachineDies, Dying, At, Goto, NoFault,
     Fault, Fenced, registry, machines, store, local, Types, MachinesOK, LocalOK, Steps
<1>3. RecInv'
  BY ZenonT(60), <1>end, TokenFacts, ConstantsAssumption DEF MachineDies, Dying, At, Goto, NoFault,
     Fault, Fenced, registry, machines, store, local, Types, RegistryOK, MachinesOK, LocalOK,
     RecInv, TokInv, HolderInv, MineInv, Record, Outdated, CanBeRecovered, Serving
<1>4. (RetryInv /\ TokInv /\ FailedInv)'
  BY <1>end, TokenFacts, ConstantsAssumption DEF MachineDies, Dying, At, Goto,
     NoFault, Fault, Fenced, registry, machines, store, local, Types, MachinesOK, RetryInv,
     TokInv, LocalOK, FailedInv, Serving
<1>5. LaunchInv'
  <2> SUFFICES ASSUME NEW x \in Attempts,
                      pc'[x] = "launch", tok'[x][2] = 0, vm'[tok'[x]] = "unborn"
               PROVE  rec'.state = "PENDING" /\ rec'.vm = None /\ rec'.gen = tok'[x][1]
    BY Zenon DEF LaunchInv, CanBeRecovered
  <2>1. pc[x] = "launch" /\ tok'[x] = tok[x]
    BY Zenon, TokenFacts DEF MachineDies, At, Goto, Types, LocalOK, local
  <2>2. tok[x] \in Tokens
    BY Zenon, <2>1 DEF TokInv
  <2>3. CanBeRecovered(tok[x])
    BY ZenonT(60), <1>end, <2>1, <2>2 DEF Dying, LaunchInv
  <2> QED
    BY Zenon, <2>1, <2>3 DEF MachineDies, registry, CanBeRecovered
<1>6. HolderInv'
  BY <1>end, ConstantsAssumption DEF MachineDies, Dying, At, Goto, NoFault, Fault, Fenced,
     registry, machines, store, local, Types, RegistryOK, MachinesOK, LocalOK, RecInv, TokInv,
     HolderInv, MineInv, CanBeRecovered, Outdated, Serving, CanReplay, Record
<1>7. OrphanInv'
  BY Zenon, <1>end, ConstantsAssumption DEF MachineDies, Dying, At, Goto, NoFault, Fault, Fenced,
     registry, machines, store, local, Types, MachinesOK, OrphanInv, NoOrphanVm, CanBeRecovered
<1>8. SiblingInv'
  <2>1. ASSUME NoAborts, NEW x \in Attempts, pc'[x] = "retire"
        PROVE  tok'[x][2] = 1
    BY Zenon, <2>1, TokenFacts DEF MachineDies, At, Goto, Types, LocalOK, local, SiblingInv
  <2>2. ASSUME NoAborts, NEW x \in Attempts, lock' = x, pc'[x] \in {"track", "abandon", "remove"},
               tok'[x][2] = 0, vm'[<<tok'[x][1], 1>>] = "live"
        PROVE  <<tok'[x][1], 1>> \in strays'
    <3>1. /\ lock = x /\ tok'[x] = tok[x] /\ strays' = strays
          /\ pc[x] \in {"track", "abandon", "remove"}
      BY Zenon, <2>2, TokenFacts DEF MachineDies, At, Goto, Types, LocalOK, local, registry, Fenced
    <3>2. tok[x] \in Tokens
      BY Zenon, <3>1 DEF TokInv
    <3>3. vm[<<tok[x][1], 1>>] = "live"
      BY ZenonT(60), <2>2, <3>1, <3>2, <1>end, TokenFacts DEF Dying
    <3> QED
      BY Zenon, <2>2, <3>1, <3>2, <3>3, TokenFacts DEF SiblingInv
  <2> QED
    BY Zenon, <2>1, <2>2 DEF SiblingInv, NoAborts
<1>all. IInv'
  BY Zenon, <1>1, <1>2, <1>3, <1>4, <1>5, <1>6, <1>7, <1>8 DEF Types
<1> HIDE DEF IInv
<1> QED
  BY Zenon, <1>all DEF SessionInv

(* The expiry of a lock keeps the invariant.                               *)
LEMMA LockExpiresStep ==
  ASSUME SessionInv, LockExpires
  PROVE  SessionInv'
<1>inv. IInv
  BY Zenon DEF SessionInv
<1> USE <1>inv DEF IInv
<1>1. (MachinesOK /\ StoreOK /\ LocalOK /\ RecInv /\ RetryInv /\ TokInv /\ LaunchInv /\ OrphanInv /\ KeptInv /\ SeqInv)'
  BY ZenonT(60) DEF LockExpires, Types, registry, machines, store, local, MachinesOK, StoreOK, LocalOK,
     RecInv, RetryInv, TokInv, LaunchInv, CanBeRecovered, OrphanInv, NoOrphanVm, KeptInv,
     Outlived, Retained, SeqInv
<1>2. (RegistryOK /\ HolderInv /\ MineInv)'
  BY ZenonT(60), ConstantsAssumption DEF LockExpires, At, Goto, NoFault, Fault, Fenced,
     registry, machines, store, local, Types, RegistryOK, Record, LocalOK, HolderInv, Outdated,
     CanBeRecovered, Serving, MineInv
<1>3. (SiblingInv /\ CkptInv /\ FailedInv)'
  BY ConstantsAssumption DEF LockExpires, At, Goto, NoFault, Fault, Fenced,
     registry, machines, store, local, Types, LocalOK, SiblingInv, CkptInv, Restorable, Covers,
     Above, Copying, FailedInv, Serving
<1>all. IInv'
  BY Zenon, <1>1, <1>2, <1>3 DEF Types
<1> HIDE DEF IInv
<1> QED
  BY Zenon, <1>all DEF SessionInv

(* The expiry of an idle session keeps the invariant.                      *)
LEMMA ExpireStep ==
  ASSUME SessionInv, Expire
  PROVE  SessionInv'
<1>inv. IInv
  BY Zenon DEF SessionInv
<1> USE <1>inv DEF IInv
<1>end. Dying
  BY Zenon DEF Expire, Dying, Types, MachinesOK
<1>1. (StoreOK /\ KeptInv)'
  BY Zenon DEF Expire, Types, registry, machines, store, local, StoreOK, KeptInv, Outlived,
     Retained
<1>2. (RegistryOK /\ MachinesOK /\ LocalOK /\ RecInv)'
  BY SMTT(30), <1>end, ConstantsAssumption DEF Expire, Dying, Absent, At, Goto, NoFault,
     Fault, Fenced, registry, machines, store, local, Types, RegistryOK, Record, MachinesOK,
     LocalOK, Steps, RecInv
<1>3. (RetryInv /\ FailedInv)'
  BY <1>end, TokenFacts, ConstantsAssumption DEF Expire, Dying, Absent, At, Goto,
     NoFault, Fault, Fenced, registry, machines, store, local, Types, MachinesOK, RetryInv,
     TokInv, LocalOK, FailedInv, Serving
<1>4. (TokInv /\ LaunchInv /\ HolderInv /\ MineInv)'
  BY ZenonT(60), <1>end, ConstantsAssumption DEF Expire, Dying, Absent, At, Goto, NoFault,
     Fault, Fenced, registry, machines, store, local, Types, LocalOK, TokInv, LaunchInv,
     CanBeRecovered, HolderInv, Outdated, Serving, MineInv
<1>5. (OrphanInv /\ SiblingInv /\ CkptInv /\ SeqInv)'
  BY ZenonT(60), <1>end, ConstantsAssumption DEF Expire, Dying, Absent, At, Goto, NoFault,
     Fault, Fenced, registry, machines, store, local, Types, MachinesOK, OrphanInv, NoOrphanVm,
     CanBeRecovered, LocalOK, SiblingInv, CkptInv, Restorable, Covers, Above, Copying, SeqInv,
     Retained
<1>all. IInv'
  BY Zenon, <1>1, <1>2, <1>3, <1>4, <1>5 DEF Types
<1> HIDE DEF IInv
<1> QED
  BY Zenon, <1>all DEF SessionInv

(* A step that changes nothing keeps the invariant.                        *)
LEMMA StutteringStep ==
  ASSUME SessionInv, UNCHANGED vars
  PROVE  SessionInv'
<1>inv. IInv
  BY Zenon DEF SessionInv
<1> USE <1>inv DEF IInv
<1>1. RegistryOK'
  BY Zenon DEF vars, registry, machines, store, local, Types, RegistryOK, LocalOK, RecInv, TokInv, Record
<1>2. MachinesOK'
  BY Zenon DEF vars, registry, machines, store, local, Types, MachinesOK, LocalOK, TokInv
<1>3. StoreOK'
  BY Zenon DEF vars, registry, machines, store, local, Types, StoreOK, LocalOK, SeqInv
<1>4. LocalOK'
  BY Zenon DEF vars, registry, machines, store, local, Types, RegistryOK, LocalOK, RecInv, TokInv,
     Record, Steps
<1>5. RecInv'
  BY Zenon DEF vars, registry, machines, store, local, Types, RegistryOK, MachinesOK, LocalOK, RecInv,
     TokInv, HolderInv, MineInv, Record, Outdated, CanBeRecovered, Serving
<1>6. RetryInv'
  BY Zenon DEF vars, registry, machines, store, local, Types, MachinesOK, LocalOK, TokInv, RetryInv
<1>7. TokInv'
  BY ZenonT(60) DEF vars, registry, machines, store, local, Types, RegistryOK, MachinesOK, LocalOK, RecInv,
     TokInv, HolderInv, Steps, Record, CanBeRecovered, Serving
<1>8. LaunchInv'
  BY ZenonT(60) DEF vars, registry, machines, store, local, Types, RegistryOK, MachinesOK, LocalOK, RecInv,
     RetryInv, TokInv, LaunchInv, HolderInv, CanBeRecovered, Outdated, Serving, Record, CanReplay
<1>9. HolderInv'
  BY DEF vars, registry, machines, store, local, Types, RegistryOK, MachinesOK, LocalOK, RecInv,
     TokInv, HolderInv, MineInv, CanBeRecovered, Outdated, Serving, CanReplay, Record
<1>10. MineInv'
  BY Zenon DEF vars, registry, machines, store, local, Types, RegistryOK, LocalOK, HolderInv, MineInv,
     Serving, Record
<1>11. OrphanInv'
  BY Zenon DEF vars, registry, machines, store, local, Types, RegistryOK, MachinesOK, LocalOK, RecInv,
     RetryInv, TokInv, LaunchInv, HolderInv, SiblingInv, MineInv, OrphanInv, NoOrphanVm,
     CanBeRecovered, Outdated, CanReplay, Serving, Record
<1>12. SiblingInv'
  BY Zenon DEF vars, registry, machines, store, local, Types, RegistryOK, MachinesOK, LocalOK, RecInv,
     RetryInv, TokInv, HolderInv, SiblingInv, OrphanInv, NoOrphanVm, CanBeRecovered, Serving,
     NoAborts
<1>13. KeptInv'
  BY Zenon DEF vars, registry, machines, store, local, Types, StoreOK, LocalOK, KeptInv, CkptInv, SeqInv,
     Outlived, Retained
<1>14. CkptInv'
  BY ZenonT(60) DEF vars, registry, machines, store, local, Types, RegistryOK, StoreOK, LocalOK, CkptInv,
     SeqInv, Restorable, Covers, Above, Copying, Record
<1>15. SeqInv'
  BY Zenon DEF vars, registry, machines, store, local, Types, RegistryOK, StoreOK, LocalOK, SeqInv,
     Retained
<1>16. FailedInv'
  BY DEF vars, registry, machines, store, local, Types, RegistryOK, MachinesOK, LocalOK, RecInv,
     TokInv, HolderInv, MineInv, FailedInv, Serving, CanBeRecovered, Outdated, Record
<1>all. IInv'
  BY Zenon, <1>1, <1>2, <1>3, <1>4, <1>5, <1>6, <1>7, <1>8, <1>9, <1>10, <1>11, <1>12, <1>13, <1>14, <1>15, <1>16 DEF Types
<1> HIDE DEF IInv
<1> QED
  BY Zenon, <1>all DEF SessionInv

-----------------------------------------------------------------------------
(* Every step of the attempts, the provider and Redis keeps the inductive  *)
(* invariant (lambda-microvm.ts executeSession, registry.ts,               *)
(* checkpoint.ts).                                                         *)
THEOREM SessionInvariant == Spec => []SessionInv
<1>1. Init => SessionInv
  <2> SUFFICES ASSUME Init PROVE SessionInv
    BY Zenon
  <2>1. Types
    BY ConstantsAssumption DEF Init, Types, RegistryOK, MachinesOK, StoreOK, LocalOK, Record, Absent, Steps
  <2>2. RecInv /\ RetryInv /\ TokInv /\ LaunchInv
    BY Zenon, ConstantsAssumption DEF Init, RecInv, RetryInv, TokInv, LaunchInv, Absent, Tokens
  <2>3. HolderInv /\ MineInv /\ OrphanInv /\ SiblingInv /\ FailedInv
    BY Zenon, ConstantsAssumption DEF Init, HolderInv, MineInv, OrphanInv, SiblingInv, NoOrphanVm, FailedInv
  <2>4. KeptInv /\ CkptInv /\ SeqInv
    BY Zenon, ConstantsAssumption DEF Init, KeptInv, CkptInv, SeqInv, Restorable, Absent
  <2> QED
    BY Zenon, <2>1, <2>2, <2>3, <2>4 DEF SessionInv, IInv
<1>2. ASSUME SessionInv, NEW a \in Attempts, Step(a)
      PROVE  SessionInv'
  BY ZenonT(60), <1>2, AcquireStep, ReadStep, ReplaceStep, GenerationStep, IntentStep, LaunchStep, BootStep,
     RetireStep, TrackStep, RestoreStep, AdvertiseStep, AbandonStep, RemoveStep, ExecuteStep,
     FinalizeStep, QuarantineStep, StopStep, TerminalStep, KillStep, SettleStep, PullStep,
     AllocateSequenceStep, PutStep, PointStep, MarkStep, FinalStep, ReleaseStep DEF Step
<1>3. ASSUME SessionInv, Next
      PROVE  SessionInv'
  BY Zenon, <1>2, <1>3, FenceAbortsStep, LockLostStep, CrashStep, PruneStep, MachineDiesStep,
     LockExpiresStep, ExpireStep DEF Next
<1>4. SessionInv /\ [Next]_vars => SessionInv'
  BY Zenon, <1>3, StutteringStep
<1> QED
  BY <1>1, <1>4, PTL DEF Spec

-----------------------------------------------------------------------------
(* A step of an attempt stores an archive only under a sequence that has   *)
(* none, and a collection only removes archives.                           *)
LEMMA ArchivesKept == ASSUME SessionInv, [Next]_vars PROVE CheckpointKept
<1>1. ASSUME UNCHANGED store PROVE CheckpointKept
  BY Zenon, <1>1 DEF store, CheckpointKept
<1>2. ASSUME NEW a \in Attempts, Put(a) PROVE CheckpointKept
  <2>1. num[a] \in Seqs /\ objects[num[a]] = None /\ objects \in [Seqs -> Attempts \cup {None}]
    BY Zenon, <1>2 DEF SessionInv, IInv, SeqInv, Put, At, Types, StoreOK
  <2> QED
    BY Zenon, <1>2, <2>1 DEF Put, CheckpointKept
<1>3. ASSUME NEW a \in Attempts, Mark(a) PROVE CheckpointKept
  BY Zenon, <1>3 DEF Mark, CheckpointKept
<1>4. ASSUME NEW s \in Seqs, Prune(s) PROVE CheckpointKept
  BY Zenon, <1>4 DEF Prune, CheckpointKept
<1>5. ASSUME NEW a \in Attempts, Step(a) PROVE UNCHANGED store \/ Put(a) \/ Mark(a)
  BY Zenon, <1>5 DEF Step, Acquire, Read, Replace, Generation, Intent, Launch, Boot, Retire, Track,
     Restore, Advertise, Abandon, Remove, Execute, Finalize, Quarantine, Stop, Terminal, Kill,
     Settle, Pull, AllocateSequence, Point, Final, Release
<1>6. ASSUME Next PROVE UNCHANGED store \/ (\E a \in Attempts : Put(a) \/ Mark(a)) \/ (\E s \in Seqs : Prune(s))
  BY Zenon, <1>5, <1>6 DEF Next, FenceAborts, LockLost, Crash, MachineDies, LockExpires, Expire
<1>7. ASSUME UNCHANGED vars PROVE CheckpointKept
  BY Zenon, <1>1, <1>7 DEF vars
<1> QED
  BY Zenon, <1>1, <1>2, <1>3, <1>4, <1>6, <1>7

(* Checkpoints are consistent: the one to restore is in the store, no      *)
(* other overtakes it, and none is replaced (checkpoint.ts,                *)
(* checkpoint-store.ts).                                                   *)
THEOREM CheckpointsKept == Spec => CheckpointsSafe
<1>1. SessionInv => TypeOK /\ PointerHasObject /\ PointerCoversMarkers
  <2> SUFFICES ASSUME SessionInv PROVE TypeOK /\ PointerHasObject /\ PointerCoversMarkers
    BY Zenon
  <2>1. rec.state = "RUNNING" => rec.vm \in Tokens /\ vm[rec.vm] # "unborn"
    BY Zenon DEF SessionInv, IInv, RecInv, Types, RegistryOK, Record
  <2>2. PointerHasObject /\ PointerCoversMarkers
    BY Zenon DEF SessionInv, IInv, CkptInv, Restorable, Covers, PointerHasObject, PointerCoversMarkers
  <2> QED
    BY Zenon, <2>1, <2>2 DEF SessionInv, IInv, TypeOK, Types
<1> QED
  BY <1>1, SessionInvariant, ArchivesKept, PTL DEF Spec, CheckpointsSafe

(* Whatever crashes, lost replies and lost locks there were, a MicroVM in  *)
(* service is named by the record or by its launch intent, when no caller  *)
(* aborts a boot (lambda-microvm.ts findOrLaunchSession).                  *)
THEOREM NoOrphans == ASSUME "abort" \notin Kinds PROVE Spec => []NoOrphanVm
<1>1. SessionInv => NoOrphanVm
  BY Zenon DEF SessionInv, IInv, OrphanInv, NoAborts
<1> QED
  BY <1>1, SessionInvariant, PTL

(* A MicroVM changed by an execution whose result was not finalized serves *)
(* no later holder, although one more call fails meanwhile                 *)
(* (lambda-microvm.ts recycleUncommittedSessionVm).                        *)
THEOREM ChangesNotReused == ASSUME MaxFaults <= 2 PROVE Spec => []MutationNotReused
<1>1. SessionInv => MutationNotReused
  BY Zenon DEF SessionInv, IInv, FailedInv, Serving, MutationNotReused
<1> QED
  BY <1>1, SessionInvariant, PTL

=============================================================================
