------------------------- MODULE WorkerProcessProofs -------------------------
(* Proofs about WorkerProcess, for every set of assignments and of keys,      *)
(* every nesting of worktrees and any number of restarts: operations of a     *)
(* family exclude each other, and effects that nobody has accounted for stay  *)
(* behind their guard file.                                                   *)
EXTENDS WorkerProcess, TLAPS

(* Nothing of a process is left when it has ended.                            *)
OffInv == proc = "off" => \A a \in Assignments : pc[a] \in {"new", "done", "lost"}

(* Who has entered is the active assignment of its key.                       *)
ActiveInv == \A a \in Assignments : pc[a] \in Entered => active[KeyOf[a]] = a

(* The guard file of its own key, as an assignment has found or written it.   *)
OwnInv ==
    \A a \in Assignments :
        /\ pc[a] \in {"family", "ready"} => marker[KeyOf[a]] = None
        /\ pc[a] = "arming" => marker[KeyOf[a]] = "partial"
        /\ pc[a] = "armed" => marker[KeyOf[a]] = a
        /\ pc[a] = "exec" => marker[KeyOf[a]] = IF a \in Mutations THEN a ELSE None
        /\ pc[a] = "clear" => marker[KeyOf[a]] = a

(* A family that was found available stays so for who has entered it.         *)
Past == {"family", "ready", "arming", "armed", "exec"}
FamilyInv ==
    \A a \in Assignments :
        /\ pc[a] \in Past => KeyOf[a] \notin fenced
        /\ pc[a] \in Past \ {"family"} =>
             \A j \in Keys : Conflict(j, KeyOf[a]) /\ j # KeyOf[a] => Available(j)
        /\ pc[a] = "fenced" => KeyOf[a] \in fenced

(* A removal that outlived its timeout can only meet the file of its owner.   *)
LateInv ==
    \A a \in clearing :
        /\ a \in Assignments /\ pc[a] \in {"quarantine", "fenced"}
        /\ marker[KeyOf[a]] \in {a, None}

(* Where unaccounted effects may be; a removal is never made of their guard.  *)
DirtyInv ==
    \A a \in dirty :
        /\ a \in Mutations /\ a \notin clearing
        /\ pc[a] \in {"exec", "settle", "quarantine", "fenced", "lost", "done"}
        /\ pc[a] = "settle" => verdict[a] = "fulfilled"

VerdictOK == verdict \in [Assignments -> {"none", "fulfilled", "rejected"}]

IInv == /\ TypeOK /\ VerdictOK /\ OffInv /\ ActiveInv /\ Exclusive /\ OwnInv /\ FamilyInv /\ LateInv
        /\ DirtyInv /\ Guarded

-----------------------------------------------------------------------------
(* Every step of the worker, its assignments and the operator keeps the      *)
(* inductive invariant.                                                       *)
THEOREM WorkerInvariant == Spec => []IInv
<1>1. Init => IInv
  BY ConstantsAssumption DEF Init, IInv, TypeOK, VerdictOK, OffInv, ActiveInv, Exclusive,
     OwnInv, FamilyInv,
     LateInv, DirtyInv, Guarded, Entered, Past
<1>2. IInv /\ [Next]_vars => IInv'
  <2> SUFFICES ASSUME IInv, [Next]_vars PROVE IInv'
    OBVIOUS
  <2> USE DEF IInv
  <2>1. ASSUME NEW m \in {"serial", "slots"}, Start(m) PROVE IInv'
    <3>1. TypeOK' /\ VerdictOK'
      BY <2>1, ConstantsAssumption DEF Start, TypeOK, VerdictOK, Entered, disk, memory
    <3>2. OffInv'
      BY Zenon, <2>1, ConstantsAssumption DEF Start, OffInv, TypeOK, Entered, disk, memory
    <3>3. ActiveInv' /\ Exclusive'
      BY Zenon, <2>1, ConstantsAssumption DEF Start, ActiveInv, Exclusive, Conflict,
         TypeOK, Entered, disk, memory
    <3>4. OwnInv'
      BY Zenon, <2>1, ConstantsAssumption DEF Start, OwnInv, Exclusive, Conflict,
         LateInv, TypeOK, Entered, disk, memory
    <3>5. FamilyInv'
      BY Zenon, <2>1, ConstantsAssumption DEF Start, FamilyInv, Past, Available,
         Exclusive, Conflict, OffInv, TypeOK, Entered, disk, memory
    <3>6. LateInv'
      BY Zenon, <2>1, ConstantsAssumption DEF Start, LateInv, OwnInv, FamilyInv, Past,
         Exclusive, Conflict, OffInv, TypeOK, Entered, disk, memory
    <3>7. DirtyInv' /\ Guarded'
      BY Zenon, <2>1, ConstantsAssumption DEF Start, DirtyInv, Guarded, OwnInv, LateInv,
         VerdictOK, TypeOK, disk, memory
    <3> QED
      BY Zenon, <3>1, <3>2, <3>3, <3>4, <3>5, <3>6, <3>7 DEF IInv
  <2>2. ASSUME Crash PROVE IInv'
    <3>1. TypeOK' /\ VerdictOK'
      BY Zenon, <2>2, ConstantsAssumption DEF Crash, Forgets, InFlight, TypeOK,
         VerdictOK, Entered, disk
    <3>2. OffInv'
      BY Zenon, <2>2, ConstantsAssumption DEF Crash, Forgets, InFlight, OffInv, TypeOK,
         Entered, disk
    <3>3. ActiveInv' /\ Exclusive'
      BY Zenon, <2>2, ConstantsAssumption DEF Crash, Forgets, InFlight, ActiveInv,
         Exclusive, Conflict, TypeOK, Entered, disk
    <3>4. OwnInv'
      BY Zenon, <2>2, ConstantsAssumption DEF Crash, Forgets, InFlight, OwnInv,
         Exclusive, Conflict, LateInv, TypeOK, Entered, disk
    <3>5. FamilyInv'
      BY Zenon, <2>2, ConstantsAssumption DEF Crash, Forgets, InFlight, FamilyInv, Past,
         Available, Exclusive, Conflict, OffInv, TypeOK, Entered, disk
    <3>6. LateInv'
      BY Zenon, <2>2, ConstantsAssumption DEF Crash, Forgets, InFlight, LateInv, OwnInv,
         FamilyInv, Past, Exclusive, Conflict, OffInv, TypeOK, Entered, disk
    <3>7. DirtyInv' /\ Guarded'
      BY Zenon, <2>2, ConstantsAssumption DEF Crash, Forgets, InFlight, DirtyInv,
         Guarded, OwnInv, LateInv, VerdictOK, TypeOK, disk
    <3> QED
      BY Zenon, <3>1, <3>2, <3>3, <3>4, <3>5, <3>6, <3>7 DEF IInv
  <2>3. ASSUME Stop PROVE IInv'
    <3>1. TypeOK' /\ VerdictOK'
      BY Zenon, <2>3, ConstantsAssumption DEF Stop, TypeOK, VerdictOK, Entered, disk, memory
    <3>2. OffInv'
      BY Zenon, <2>3, ConstantsAssumption DEF Stop, OffInv, TypeOK, Entered, disk, memory
    <3>3. ActiveInv' /\ Exclusive'
      BY Zenon, <2>3, ConstantsAssumption DEF Stop, ActiveInv, Exclusive, Conflict,
         TypeOK, Entered, disk, memory
    <3>4. OwnInv'
      BY Zenon, <2>3, ConstantsAssumption DEF Stop, OwnInv, Exclusive, Conflict, LateInv,
         TypeOK, Entered, disk, memory
    <3>5. FamilyInv'
      BY Zenon, <2>3, ConstantsAssumption DEF Stop, FamilyInv, Past, Available,
         Exclusive, Conflict, OffInv, TypeOK, Entered, disk, memory
    <3>6. LateInv'
      BY Zenon, <2>3, ConstantsAssumption DEF Stop, LateInv, OwnInv, FamilyInv, Past,
         Exclusive, Conflict, OffInv, TypeOK, Entered, disk, memory
    <3>7. DirtyInv' /\ Guarded'
      BY Zenon, <2>3, ConstantsAssumption DEF Stop, DirtyInv, Guarded, OwnInv, LateInv,
         VerdictOK, TypeOK, disk, memory
    <3> QED
      BY Zenon, <3>1, <3>2, <3>3, <3>4, <3>5, <3>6, <3>7 DEF IInv
  <2>4. ASSUME Exit PROVE IInv'
    <3>1. TypeOK' /\ VerdictOK'
      BY Zenon, <2>4, ConstantsAssumption DEF Exit, Forgets, InFlight, TypeOK, VerdictOK,
         Entered, disk
    <3>2. OffInv'
      BY Zenon, <2>4, ConstantsAssumption DEF Exit, Forgets, InFlight, OffInv, TypeOK,
         Entered, disk
    <3>3. ActiveInv' /\ Exclusive'
      BY Zenon, <2>4, ConstantsAssumption DEF Exit, Forgets, InFlight, ActiveInv,
         Exclusive, Conflict, TypeOK, Entered, disk
    <3>4. OwnInv'
      BY Zenon, <2>4, ConstantsAssumption DEF Exit, Forgets, InFlight, OwnInv, Exclusive,
         Conflict, LateInv, TypeOK, Entered, disk
    <3>5. FamilyInv'
      BY Zenon, <2>4, ConstantsAssumption DEF Exit, Forgets, InFlight, FamilyInv, Past,
         Available, Exclusive, Conflict, OffInv, TypeOK, Entered, disk
    <3>6. LateInv'
      BY Zenon, <2>4, ConstantsAssumption DEF Exit, Forgets, InFlight, LateInv, OwnInv,
         FamilyInv, Past, Exclusive, Conflict, OffInv, TypeOK, Entered, disk
    <3>7. DirtyInv' /\ Guarded'
      BY Zenon, <2>4, ConstantsAssumption DEF Exit, Forgets, InFlight, DirtyInv, Guarded,
         OwnInv, LateInv, VerdictOK, TypeOK, disk
    <3> QED
      BY Zenon, <3>1, <3>2, <3>3, <3>4, <3>5, <3>6, <3>7 DEF IInv
  <2>5. ASSUME NEW k \in Keys, OperatorClears(k) PROVE IInv'
    <3>1. TypeOK' /\ VerdictOK'
      BY Zenon, <2>5, ConstantsAssumption DEF OperatorClears, Write, TypeOK, VerdictOK,
         Entered, life, memory
    <3>2. OffInv'
      BY Zenon, <2>5, ConstantsAssumption DEF OperatorClears, Write, OffInv, TypeOK,
         Entered, life, memory
    <3>3. ActiveInv' /\ Exclusive'
      BY Zenon, <2>5, ConstantsAssumption DEF OperatorClears, Write, ActiveInv,
         Exclusive, Conflict, TypeOK, Entered, life, memory
    <3>4. OwnInv'
      BY <2>5, ConstantsAssumption DEF OperatorClears, Write, OffInv, OwnInv, TypeOK,
         life, memory
    <3>5. FamilyInv'
      BY Zenon, <2>5, ConstantsAssumption DEF OperatorClears, Write, FamilyInv, Past,
         Available, Exclusive, Conflict, OffInv, TypeOK, Entered, life, memory
    <3>6. LateInv'
      BY Zenon, <2>5, ConstantsAssumption DEF OperatorClears, Write, LateInv, OwnInv,
         FamilyInv, Past, Exclusive, Conflict, OffInv, TypeOK, Entered, life, memory
    <3>7. DirtyInv' /\ Guarded'
      BY <2>5, ConstantsAssumption DEF OperatorClears, Write, DirtyInv, Guarded, OwnInv,
         LateInv, VerdictOK, TypeOK, life, memory
    <3> QED
      BY Zenon, <3>1, <3>2, <3>3, <3>4, <3>5, <3>6, <3>7 DEF IInv
  <2>6. ASSUME NEW a \in Assignments, Lease(a) PROVE IInv'
    <3>1. TypeOK' /\ VerdictOK'
      BY Zenon, <2>6, ConstantsAssumption DEF Lease, Goto, TypeOK, VerdictOK, Entered,
         disk, life, memory
    <3>2. OffInv'
      BY Zenon, <2>6, ConstantsAssumption DEF Lease, Goto, OffInv, TypeOK, Entered, disk,
         life, memory
    <3>3. ActiveInv' /\ Exclusive'
      BY <2>6, ConstantsAssumption DEF Lease, Goto, ActiveInv, Exclusive, Conflict,
         TypeOK, Entered, disk, life, memory
    <3>4. OwnInv'
      BY Zenon, <2>6, ConstantsAssumption DEF Lease, Goto, OwnInv, Exclusive, Conflict,
         LateInv, TypeOK, Entered, disk, life, memory
    <3>5. FamilyInv'
      BY <2>6, ConstantsAssumption DEF Lease, Goto, FamilyInv, Past, Available,
         Exclusive, Conflict, OffInv, TypeOK, Entered, disk, life, memory
    <3>6. LateInv'
      BY Zenon, <2>6, ConstantsAssumption DEF Lease, Goto, LateInv, OwnInv, FamilyInv,
         Past, Exclusive, Conflict, OffInv, TypeOK, Entered, disk, life, memory
    <3>7. DirtyInv' /\ Guarded'
      BY <2>6, ConstantsAssumption DEF Lease, Goto, DirtyInv, Guarded, OwnInv, LateInv,
         VerdictOK, TypeOK, disk, life, memory
    <3> QED
      BY Zenon, <3>1, <3>2, <3>3, <3>4, <3>5, <3>6, <3>7 DEF IInv
  <2>7. ASSUME NEW a \in Assignments, Enter(a) PROVE IInv'
    <3>1. TypeOK' /\ VerdictOK'
      BY Zenon, <2>7, ConstantsAssumption DEF Enter, Goto, Free, TypeOK, VerdictOK,
         Entered, disk, life
    <3>2. OffInv'
      BY Zenon, <2>7, ConstantsAssumption DEF Enter, Goto, Free, OffInv, TypeOK, Entered,
         disk, life
    <3>3. ActiveInv' /\ Exclusive'
      <4>1. \A b \in Assignments : pc'[b] \in Entered /\ b # a => pc[b] \in Entered /\ active[KeyOf[b]] = b
        BY Zenon, <2>7 DEF Enter, Goto, TypeOK, ActiveInv
      <4>2. \A b \in Assignments : pc'[b] \in Entered /\ b # a => ~Conflict(KeyOf[b], KeyOf[a])
        BY Zenon, <2>7, <4>1, ConstantsAssumption DEF Enter, Free
      <4>3. \A b \in Assignments : Conflict(KeyOf[b], KeyOf[a]) <=> Conflict(KeyOf[a], KeyOf[b])
        BY Zenon DEF Conflict
      <4>4. Exclusive'
        BY Zenon, <4>1, <4>2, <4>3 DEF Exclusive, Conflict
      <4>5. ActiveInv'
        <5> SUFFICES ASSUME NEW b \in Assignments, pc'[b] \in Entered PROVE active'[KeyOf[b]] = b
          BY Zenon DEF ActiveInv
        <5>1. active' = [active EXCEPT ![KeyOf[a]] = a] /\ KeyOf[a] \in Keys /\ KeyOf[b] \in Keys
          BY Zenon, <2>7, ConstantsAssumption DEF Enter
        <5>2. b # a => KeyOf[b] # KeyOf[a]
          BY Zenon, <4>2 DEF Conflict
        <5> QED
          BY Zenon, <4>1, <5>1, <5>2 DEF TypeOK
      <4> QED
        BY Zenon, <4>4, <4>5
    <3>4. OwnInv'
      BY Zenon, <2>7, ConstantsAssumption DEF Enter, Goto, Free, OwnInv, Exclusive,
         Conflict, LateInv, TypeOK, Entered, disk, life
    <3>5. FamilyInv'
      BY <2>7, ConstantsAssumption DEF Enter, Goto, Free, FamilyInv, Past, Available,
         Exclusive, Conflict, OffInv, TypeOK, Entered, disk, life
    <3>6. LateInv'
      BY Zenon, <2>7, ConstantsAssumption DEF Enter, Goto, Free, LateInv, OwnInv,
         FamilyInv, Past, Exclusive, Conflict, OffInv, TypeOK, Entered, disk, life
    <3>7. DirtyInv' /\ Guarded'
      BY <2>7, ConstantsAssumption DEF Enter, Goto, Free, DirtyInv, Guarded, OwnInv,
         LateInv, VerdictOK, TypeOK, disk, life
    <3> QED
      BY Zenon, <3>1, <3>2, <3>3, <3>4, <3>5, <3>6, <3>7 DEF IInv
  <2>8. ASSUME NEW a \in Assignments, GiveBack(a) PROVE IInv'
    <3>1. TypeOK' /\ VerdictOK'
      BY Zenon, <2>8, ConstantsAssumption DEF GiveBack, Goto, TypeOK, VerdictOK, Entered,
         disk, life, memory
    <3>2. OffInv'
      BY Zenon, <2>8, ConstantsAssumption DEF GiveBack, Goto, OffInv, TypeOK, Entered,
         disk, life, memory
    <3>3. ActiveInv' /\ Exclusive'
      BY <2>8, ConstantsAssumption DEF GiveBack, Goto, ActiveInv, Exclusive, Conflict,
         TypeOK, Entered, disk, life, memory
    <3>4. OwnInv'
      BY Zenon, <2>8, ConstantsAssumption DEF GiveBack, Goto, OwnInv, Exclusive,
         Conflict, LateInv, TypeOK, Entered, disk, life, memory
    <3>5. FamilyInv'
      BY <2>8, ConstantsAssumption DEF GiveBack, Goto, FamilyInv, Past, Available,
         Exclusive, Conflict, OffInv, TypeOK, Entered, disk, life, memory
    <3>6. LateInv'
      BY Zenon, <2>8, ConstantsAssumption DEF GiveBack, Goto, LateInv, OwnInv, FamilyInv,
         Past, Exclusive, Conflict, OffInv, TypeOK, Entered, disk, life, memory
    <3>7. DirtyInv' /\ Guarded'
      BY <2>8, ConstantsAssumption DEF GiveBack, Goto, DirtyInv, Guarded, OwnInv,
         LateInv, VerdictOK, TypeOK, disk, life, memory
    <3> QED
      BY Zenon, <3>1, <3>2, <3>3, <3>4, <3>5, <3>6, <3>7 DEF IInv
  <2>9. ASSUME NEW a \in Assignments, RefreshFails(a) PROVE IInv'
    <3>1. TypeOK' /\ VerdictOK'
      BY Zenon, <2>9, ConstantsAssumption DEF RefreshFails, Goto, TypeOK, VerdictOK,
         Entered, disk, life, memory
    <3>2. OffInv'
      BY Zenon, <2>9, ConstantsAssumption DEF RefreshFails, Goto, OffInv, TypeOK,
         Entered, disk, life, memory
    <3>3. ActiveInv' /\ Exclusive'
      BY <2>9, ConstantsAssumption DEF RefreshFails, Goto, ActiveInv, Exclusive,
         Conflict, TypeOK, Entered, disk, life, memory
    <3>4. OwnInv'
      BY <2>9, ConstantsAssumption DEF RefreshFails, Goto, OwnInv, Exclusive, Conflict,
         LateInv, TypeOK, Entered, disk, life, memory
    <3>5. FamilyInv'
      BY <2>9, ConstantsAssumption DEF RefreshFails, Goto, FamilyInv, Past, Available,
         Exclusive, Conflict, OffInv, TypeOK, Entered, disk, life, memory
    <3>6. LateInv'
      BY <2>9, ConstantsAssumption DEF RefreshFails, Goto, LateInv, OwnInv, FamilyInv,
         Past, Exclusive, Conflict, OffInv, TypeOK, Entered, disk, life, memory
    <3>7. DirtyInv' /\ Guarded'
      BY <2>9, ConstantsAssumption DEF RefreshFails, Goto, DirtyInv, Guarded, OwnInv,
         LateInv, VerdictOK, TypeOK, disk, life, memory
    <3> QED
      BY Zenon, <3>1, <3>2, <3>3, <3>4, <3>5, <3>6, <3>7 DEF IInv
  <2>10. ASSUME NEW a \in Assignments, CheckGuard(a) PROVE IInv'
    <3>1. TypeOK' /\ VerdictOK'
      BY Zenon, <2>10, ConstantsAssumption DEF CheckGuard, Goto, Available, TypeOK,
         VerdictOK, Entered, disk, life, memory
    <3>2. OffInv'
      BY Zenon, <2>10, ConstantsAssumption DEF CheckGuard, Goto, Available, OffInv,
         TypeOK, Entered, disk, life, memory
    <3>3. ActiveInv' /\ Exclusive'
      BY <2>10, ConstantsAssumption DEF CheckGuard, Goto, Available, ActiveInv,
         Exclusive, Conflict, TypeOK, Entered, disk, life, memory
    <3>4. OwnInv'
      BY <2>10, ConstantsAssumption DEF CheckGuard, Goto, Available, OwnInv, Exclusive,
         Conflict, LateInv, TypeOK, Entered, disk, life, memory
    <3>5. FamilyInv'
      BY <2>10, ConstantsAssumption DEF CheckGuard, Goto, Available, FamilyInv, Past,
         Exclusive, Conflict, OffInv, TypeOK, Entered, disk, life, memory
    <3>6. LateInv'
      BY Zenon, <2>10, ConstantsAssumption DEF CheckGuard, Goto, Available, LateInv,
         OwnInv, FamilyInv, Past, Exclusive, Conflict, OffInv, TypeOK, Entered, disk,
         life, memory
    <3>7. DirtyInv' /\ Guarded'
      BY <2>10, ConstantsAssumption DEF CheckGuard, Goto, Available, DirtyInv, Guarded,
         OwnInv, LateInv, VerdictOK, TypeOK, disk, life, memory
    <3> QED
      BY Zenon, <3>1, <3>2, <3>3, <3>4, <3>5, <3>6, <3>7 DEF IInv
  <2>11. ASSUME NEW a \in Assignments, CheckFamily(a) PROVE IInv'
    <3>1. TypeOK' /\ VerdictOK'
      BY Zenon, <2>11, ConstantsAssumption DEF CheckFamily, Goto, FamilyAvailable,
         Children, TypeOK, VerdictOK, Entered, disk, life, memory
    <3>2. OffInv'
      BY Zenon, <2>11, ConstantsAssumption DEF CheckFamily, Goto, FamilyAvailable,
         Children, OffInv, TypeOK, Entered, disk, life, memory
    <3>3. ActiveInv' /\ Exclusive'
      BY <2>11, ConstantsAssumption DEF CheckFamily, Goto, FamilyAvailable, Children,
         ActiveInv, Exclusive, Conflict, TypeOK, Entered, disk, life, memory
    <3>4. OwnInv'
      BY <2>11, ConstantsAssumption DEF CheckFamily, Goto, FamilyAvailable, Children,
         OwnInv, Exclusive, Conflict, LateInv, TypeOK, Entered, disk, life, memory
    <3>5. FamilyInv'
      BY <2>11, ConstantsAssumption DEF CheckFamily, Goto, FamilyAvailable, Children,
         FamilyInv, Past, Available, Exclusive, Conflict, OffInv, TypeOK, Entered, disk,
         life, memory
    <3>6. LateInv'
      BY Zenon, <2>11, ConstantsAssumption DEF CheckFamily, Goto, FamilyAvailable,
         Children, LateInv, OwnInv, FamilyInv, Past, Exclusive, Conflict, OffInv, TypeOK,
         Entered, disk, life, memory
    <3>7. DirtyInv' /\ Guarded'
      BY <2>11, ConstantsAssumption DEF CheckFamily, Goto, FamilyAvailable, Children,
         DirtyInv, Guarded, OwnInv, LateInv, VerdictOK, TypeOK, disk, life, memory
    <3> QED
      BY Zenon, <3>1, <3>2, <3>3, <3>4, <3>5, <3>6, <3>7 DEF IInv
  <2>12. ASSUME NEW a \in Assignments, Refuse(a) PROVE IInv'
    <3>1. TypeOK' /\ VerdictOK'
      BY Zenon, <2>12, ConstantsAssumption DEF Refuse, Ends, Goto, TypeOK, VerdictOK,
         Entered, disk, life, memory
    <3>2. OffInv'
      BY Zenon, <2>12, ConstantsAssumption DEF Refuse, Ends, Goto, OffInv, TypeOK,
         Entered, disk, life, memory
    <3>3. ActiveInv' /\ Exclusive'
      BY <2>12, ConstantsAssumption DEF Refuse, Ends, Goto, ActiveInv, Exclusive,
         Conflict, TypeOK, Entered, disk, life, memory
    <3>4. OwnInv'
      BY Zenon, <2>12, ConstantsAssumption DEF Refuse, Ends, Goto, OwnInv, Exclusive,
         Conflict, LateInv, TypeOK, Entered, disk, life, memory
    <3>5. FamilyInv'
      BY <2>12, ConstantsAssumption DEF Refuse, Ends, Goto, FamilyInv, Past, Available,
         Exclusive, Conflict, OffInv, TypeOK, Entered, disk, life, memory
    <3>6. LateInv'
      BY Zenon, <2>12, ConstantsAssumption DEF Refuse, Ends, Goto, LateInv, OwnInv,
         FamilyInv, Past, Exclusive, Conflict, OffInv, TypeOK, Entered, disk, life, memory
    <3>7. DirtyInv' /\ Guarded'
      BY <2>12, ConstantsAssumption DEF Refuse, Ends, Goto, DirtyInv, Guarded, OwnInv,
         LateInv, VerdictOK, TypeOK, disk, life, memory
    <3> QED
      BY Zenon, <3>1, <3>2, <3>3, <3>4, <3>5, <3>6, <3>7 DEF IInv
  <2>13. ASSUME NEW a \in Assignments, Arm(a) PROVE IInv'
    <3>1. TypeOK' /\ VerdictOK'
      BY <2>13, ConstantsAssumption DEF Arm, Write, Goto, TypeOK, VerdictOK, Entered, life
    <3>2. OffInv'
      BY Zenon, <2>13, ConstantsAssumption DEF Arm, Write, Goto, OffInv, TypeOK, Entered,
         life
    <3>3. ActiveInv' /\ Exclusive'
      BY <2>13, ConstantsAssumption DEF Arm, Write, Goto, ActiveInv, Exclusive, Conflict,
         TypeOK, Entered, life
    <3>4. OwnInv'
      BY <2>13, ConstantsAssumption DEF Arm, Write, Goto, OwnInv, Exclusive, Conflict,
         LateInv, TypeOK, Entered, life
    <3>5. FamilyInv'
      BY <2>13, ConstantsAssumption DEF Arm, Write, Goto, FamilyInv, Past, Available,
         Exclusive, Conflict, OffInv, TypeOK, Entered, life
    <3>6. LateInv'
      BY <2>13, ConstantsAssumption DEF Arm, Write, Goto, LateInv, OwnInv, FamilyInv,
         Past, Exclusive, Conflict, OffInv, TypeOK, Entered, life
    <3>7. DirtyInv' /\ Guarded'
      BY <2>13, ConstantsAssumption DEF Arm, Write, Goto, DirtyInv, Guarded, OwnInv,
         LateInv, VerdictOK, TypeOK, life
    <3> QED
      BY Zenon, <3>1, <3>2, <3>3, <3>4, <3>5, <3>6, <3>7 DEF IInv
  <2>14. ASSUME NEW a \in Assignments, Armed(a) PROVE IInv'
    <3>1. TypeOK' /\ VerdictOK'
      BY <2>14, ConstantsAssumption DEF Armed, Write, Goto, TypeOK, VerdictOK, Entered,
         life, memory
    <3>2. OffInv'
      BY Zenon, <2>14, ConstantsAssumption DEF Armed, Write, Goto, OffInv, TypeOK,
         Entered, life, memory
    <3>3. ActiveInv' /\ Exclusive'
      BY <2>14, ConstantsAssumption DEF Armed, Write, Goto, ActiveInv, Exclusive,
         Conflict, TypeOK, Entered, life, memory
    <3>4. OwnInv'
      BY <2>14, ConstantsAssumption DEF Armed, Write, Goto, OwnInv, Exclusive, Conflict,
         LateInv, TypeOK, Entered, life, memory
    <3>5. FamilyInv'
      BY <2>14, ConstantsAssumption DEF Armed, Write, Goto, FamilyInv, Past, Available,
         Exclusive, Conflict, OffInv, TypeOK, Entered, life, memory
    <3>6. LateInv'
      BY <2>14, ConstantsAssumption DEF Armed, Write, Goto, LateInv, OwnInv, FamilyInv,
         Past, Exclusive, Conflict, OffInv, TypeOK, Entered, life, memory
    <3>7. DirtyInv' /\ Guarded'
      BY <2>14, ConstantsAssumption DEF Armed, Write, Goto, DirtyInv, Guarded, OwnInv,
         LateInv, VerdictOK, TypeOK, life, memory
    <3> QED
      BY Zenon, <3>1, <3>2, <3>3, <3>4, <3>5, <3>6, <3>7 DEF IInv
  <2>15. ASSUME NEW a \in Assignments, Begins(a) PROVE IInv'
    <3>1. TypeOK' /\ VerdictOK'
      BY Zenon, <2>15, ConstantsAssumption DEF Begins, Goto, TypeOK, VerdictOK, Entered,
         life, memory
    <3>2. OffInv'
      BY Zenon, <2>15, ConstantsAssumption DEF Begins, Goto, OffInv, TypeOK, Entered,
         life, memory
    <3>3. ActiveInv' /\ Exclusive'
      BY <2>15, ConstantsAssumption DEF Begins, Goto, ActiveInv, Exclusive, Conflict,
         TypeOK, Entered, life, memory
    <3>4. OwnInv'
      BY <2>15, ConstantsAssumption DEF Begins, Goto, OwnInv, Exclusive, Conflict,
         LateInv, TypeOK, Entered, life, memory
    <3>5. FamilyInv'
      BY <2>15, ConstantsAssumption DEF Begins, Goto, FamilyInv, Past, Available,
         Exclusive, Conflict, OffInv, TypeOK, Entered, life, memory
    <3>6. LateInv'
      BY Zenon, <2>15, ConstantsAssumption DEF Begins, Goto, LateInv, OwnInv, FamilyInv,
         Past, Exclusive, Conflict, OffInv, TypeOK, Entered, life, memory
    <3>7. DirtyInv' /\ Guarded'
      BY <2>15, ConstantsAssumption DEF Begins, Goto, DirtyInv, Guarded, OwnInv, LateInv,
         VerdictOK, TypeOK, life, memory
    <3> QED
      BY Zenon, <3>1, <3>2, <3>3, <3>4, <3>5, <3>6, <3>7 DEF IInv
  <2>16. ASSUME NEW a \in Assignments, Returns(a) PROVE IInv'
    <3>1. TypeOK' /\ VerdictOK'
      BY <2>16, ConstantsAssumption DEF Returns, Ends, Goto, CutShort, TypeOK, VerdictOK,
         Entered, life
    <3>2. OffInv'
      BY Zenon, <2>16, ConstantsAssumption DEF Returns, Ends, Goto, CutShort, OffInv,
         TypeOK, Entered, life
    <3>3. ActiveInv' /\ Exclusive'
      BY <2>16, ConstantsAssumption DEF Returns, Ends, Goto, CutShort, ActiveInv,
         Exclusive, Conflict, TypeOK, Entered, life
    <3>4. OwnInv'
      BY <2>16, ConstantsAssumption DEF Returns, Ends, Goto, CutShort, OwnInv, Exclusive,
         Conflict, LateInv, TypeOK, Entered, life
    <3>5. FamilyInv'
      BY <2>16, ConstantsAssumption DEF Returns, Ends, Goto, CutShort, FamilyInv, Past,
         Available, Exclusive, Conflict, OffInv, TypeOK, Entered, life
    <3>6. LateInv'
      BY <2>16, ConstantsAssumption DEF Returns, Ends, Goto, CutShort, LateInv, OwnInv,
         FamilyInv, Past, Exclusive, Conflict, OffInv, TypeOK, Entered, life
    <3>7. DirtyInv' /\ Guarded'
      BY <2>16, ConstantsAssumption DEF Returns, Ends, Goto, CutShort, DirtyInv, Guarded,
         OwnInv, LateInv, VerdictOK, TypeOK, life
    <3> QED
      BY Zenon, <3>1, <3>2, <3>3, <3>4, <3>5, <3>6, <3>7 DEF IInv
  <2>17. ASSUME NEW a \in Assignments, Beat(a) PROVE IInv'
    <3>1. TypeOK' /\ VerdictOK'
      BY Zenon, <2>17, ConstantsAssumption DEF Beat, TypeOK, VerdictOK, Entered, disk, life
    <3>2. OffInv'
      BY Zenon, <2>17, ConstantsAssumption DEF Beat, OffInv, TypeOK, Entered, disk, life
    <3>3. ActiveInv' /\ Exclusive'
      BY Zenon, <2>17, ConstantsAssumption DEF Beat, ActiveInv, Exclusive, Conflict,
         TypeOK, Entered, disk, life
    <3>4. OwnInv'
      BY Zenon, <2>17, ConstantsAssumption DEF Beat, OwnInv, Exclusive, Conflict,
         LateInv, TypeOK, Entered, disk, life
    <3>5. FamilyInv'
      BY <2>17, ConstantsAssumption DEF Beat, FamilyInv, Past, Available, Exclusive,
         Conflict, OffInv, TypeOK, Entered, disk, life
    <3>6. LateInv'
      BY Zenon, <2>17, ConstantsAssumption DEF Beat, LateInv, OwnInv, FamilyInv, Past,
         Exclusive, Conflict, OffInv, TypeOK, Entered, disk, life
    <3>7. DirtyInv' /\ Guarded'
      BY Zenon, <2>17, ConstantsAssumption DEF Beat, DirtyInv, Guarded, OwnInv, LateInv,
         VerdictOK, TypeOK, disk, life
    <3> QED
      BY Zenon, <3>1, <3>2, <3>3, <3>4, <3>5, <3>6, <3>7 DEF IInv
  <2>18. ASSUME NEW a \in Assignments, Settle(a) PROVE IInv'
    <3>1. TypeOK' /\ VerdictOK'
      BY Zenon, <2>18, ConstantsAssumption DEF Settle, Goto, TypeOK, VerdictOK, Entered,
         life, memory
    <3>2. OffInv'
      BY Zenon, <2>18, ConstantsAssumption DEF Settle, Goto, OffInv, TypeOK, Entered,
         life, memory
    <3>3. ActiveInv' /\ Exclusive'
      BY <2>18, ConstantsAssumption DEF Settle, Goto, ActiveInv, Exclusive, Conflict,
         TypeOK, Entered, life, memory
    <3>4. OwnInv'
      BY <2>18, ConstantsAssumption DEF Settle, Goto, OwnInv, Exclusive, Conflict,
         LateInv, TypeOK, Entered, life, memory
    <3>5. FamilyInv'
      BY <2>18, ConstantsAssumption DEF Settle, Goto, FamilyInv, Past, Available,
         Exclusive, Conflict, OffInv, TypeOK, Entered, life, memory
    <3>6. LateInv'
      BY <2>18, ConstantsAssumption DEF Settle, Goto, LateInv, OwnInv, FamilyInv, Past,
         Exclusive, Conflict, OffInv, TypeOK, Entered, life, memory
    <3>7. DirtyInv' /\ Guarded'
      BY <2>18, ConstantsAssumption DEF Settle, Goto, DirtyInv, Guarded, OwnInv, LateInv,
         VerdictOK, TypeOK, life, memory
    <3> QED
      BY Zenon, <3>1, <3>2, <3>3, <3>4, <3>5, <3>6, <3>7 DEF IInv
  <2>19. ASSUME NEW a \in Assignments, SettleFails(a) PROVE IInv'
    <3>1. TypeOK' /\ VerdictOK'
      BY Zenon, <2>19, ConstantsAssumption DEF SettleFails, Goto, TypeOK, VerdictOK,
         Entered, disk, life, memory
    <3>2. OffInv'
      BY Zenon, <2>19, ConstantsAssumption DEF SettleFails, Goto, OffInv, TypeOK,
         Entered, disk, life, memory
    <3>3. ActiveInv' /\ Exclusive'
      BY <2>19, ConstantsAssumption DEF SettleFails, Goto, ActiveInv, Exclusive,
         Conflict, TypeOK, Entered, disk, life, memory
    <3>4. OwnInv'
      BY <2>19, ConstantsAssumption DEF SettleFails, Goto, OwnInv, Exclusive, Conflict,
         LateInv, TypeOK, Entered, disk, life, memory
    <3>5. FamilyInv'
      BY <2>19, ConstantsAssumption DEF SettleFails, Goto, FamilyInv, Past, Available,
         Exclusive, Conflict, OffInv, TypeOK, Entered, disk, life, memory
    <3>6. LateInv'
      BY Zenon, <2>19, ConstantsAssumption DEF SettleFails, Goto, LateInv, OwnInv,
         FamilyInv, Past, Exclusive, Conflict, OffInv, TypeOK, Entered, disk, life, memory
    <3>7. DirtyInv' /\ Guarded'
      BY <2>19, ConstantsAssumption DEF SettleFails, Goto, DirtyInv, Guarded, OwnInv,
         LateInv, VerdictOK, TypeOK, disk, life, memory
    <3> QED
      BY Zenon, <3>1, <3>2, <3>3, <3>4, <3>5, <3>6, <3>7 DEF IInv
  <2>20. ASSUME NEW a \in Assignments, Clear(a) PROVE IInv'
    <3>1. TypeOK' /\ VerdictOK'
      BY Zenon, <2>20, ConstantsAssumption DEF Clear, Write, Goto, TypeOK, VerdictOK,
         Entered, life
    <3>2. OffInv'
      BY Zenon, <2>20, ConstantsAssumption DEF Clear, Write, Goto, OffInv, TypeOK,
         Entered, life
    <3>3. ActiveInv' /\ Exclusive'
      BY <2>20, ConstantsAssumption DEF Clear, Write, Goto, ActiveInv, Exclusive,
         Conflict, TypeOK, Entered, life
    <3>4. OwnInv'
      BY <2>20, ConstantsAssumption DEF Clear, Write, Goto, OwnInv, Exclusive, Conflict,
         LateInv, TypeOK, Entered, life
    <3>5. FamilyInv'
      BY <2>20, ConstantsAssumption DEF Clear, Write, Goto, FamilyInv, Past, Available,
         Exclusive, Conflict, OffInv, TypeOK, Entered, life
    <3>6. LateInv'
      BY Zenon, <2>20, ConstantsAssumption DEF Clear, Write, Goto, LateInv, OwnInv,
         FamilyInv, Past, Exclusive, Conflict, OffInv, TypeOK, Entered, life
    <3>7. DirtyInv' /\ Guarded'
      BY <2>20, ConstantsAssumption DEF Clear, Write, Goto, DirtyInv, Guarded, OwnInv,
         LateInv, VerdictOK, TypeOK, life
    <3> QED
      BY Zenon, <3>1, <3>2, <3>3, <3>4, <3>5, <3>6, <3>7 DEF IInv
  <2>21. ASSUME NEW a \in Assignments, ClearFails(a) PROVE IInv'
    <3>1. TypeOK' /\ VerdictOK'
      BY Zenon, <2>21, ConstantsAssumption DEF ClearFails, Write, Goto, TypeOK,
         VerdictOK, Entered, life
    <3>2. OffInv'
      BY Zenon, <2>21, ConstantsAssumption DEF ClearFails, Write, Goto, OffInv, TypeOK,
         Entered, life
    <3>3. ActiveInv' /\ Exclusive'
      BY <2>21, ConstantsAssumption DEF ClearFails, Write, Goto, ActiveInv, Exclusive,
         Conflict, TypeOK, Entered, life
    <3>4. OwnInv'
      <4>1. CASE Write(KeyOf[a], None) /\ UNCHANGED clearing
        BY <2>21, <4>1, ConstantsAssumption DEF ClearFails, Write, Goto, OwnInv,
           Exclusive, Conflict, TypeOK, Entered, life
      <4>2. CASE UNCHANGED <<marker, clearing>>
        BY <2>21, <4>2, ConstantsAssumption DEF ClearFails, Goto, OwnInv, Exclusive,
           Conflict, TypeOK, Entered, life
      <4>3. CASE clearing' = clearing \cup {a} /\ UNCHANGED marker
        BY <2>21, <4>3, ConstantsAssumption DEF ClearFails, Goto, OwnInv, Exclusive,
           Conflict, TypeOK, Entered, life
      <4> QED
        BY Zenon, <2>21, <4>1, <4>2, <4>3 DEF ClearFails
    <3>5. FamilyInv'
      BY <2>21, ConstantsAssumption DEF ClearFails, Write, Goto, FamilyInv, Past,
         Available, Exclusive, Conflict, OffInv, TypeOK, Entered, life
    <3>6. LateInv'
      <4>1. CASE Write(KeyOf[a], None) /\ UNCHANGED clearing
        BY <2>21, <4>1, ConstantsAssumption DEF ClearFails, Write, Goto, LateInv, OwnInv,
           Exclusive, Conflict, TypeOK, Entered, life
      <4>2. CASE UNCHANGED <<marker, clearing>>
        BY <2>21, <4>2, ConstantsAssumption DEF ClearFails, Goto, LateInv, OwnInv,
           Exclusive, Conflict, TypeOK, Entered, life
      <4>3. CASE clearing' = clearing \cup {a} /\ UNCHANGED marker
        BY <2>21, <4>3, ConstantsAssumption DEF ClearFails, Goto, LateInv, OwnInv,
           Exclusive, Conflict, TypeOK, Entered, life
      <4> QED
        BY Zenon, <2>21, <4>1, <4>2, <4>3 DEF ClearFails
    <3>7. DirtyInv' /\ Guarded'
      <4>1. CASE Write(KeyOf[a], None) /\ UNCHANGED clearing
        BY <2>21, <4>1, ConstantsAssumption DEF ClearFails, Write, Goto, DirtyInv,
           Guarded, OwnInv, LateInv, VerdictOK, TypeOK, life
      <4>2. CASE UNCHANGED <<marker, clearing>>
        BY <2>21, <4>2, ConstantsAssumption DEF ClearFails, Goto, DirtyInv, Guarded,
           OwnInv, LateInv, VerdictOK, TypeOK, life
      <4>3. CASE clearing' = clearing \cup {a} /\ UNCHANGED marker
        BY <2>21, <4>3, ConstantsAssumption DEF ClearFails, Goto, DirtyInv, Guarded,
           OwnInv, LateInv, VerdictOK, TypeOK, life
      <4> QED
        BY Zenon, <2>21, <4>1, <4>2, <4>3 DEF ClearFails
    <3> QED
      BY Zenon, <3>1, <3>2, <3>3, <3>4, <3>5, <3>6, <3>7 DEF IInv
  <2>22. ASSUME NEW a \in Assignments, ClearsLate(a) PROVE IInv'
    <3>1. TypeOK' /\ VerdictOK'
      BY Zenon, <2>22, ConstantsAssumption DEF ClearsLate, Write, TypeOK, VerdictOK,
         Entered, life
    <3>2. OffInv'
      BY Zenon, <2>22, ConstantsAssumption DEF ClearsLate, Write, OffInv, TypeOK,
         Entered, life
    <3>3. ActiveInv' /\ Exclusive'
      BY Zenon, <2>22, ConstantsAssumption DEF ClearsLate, Write, ActiveInv, Exclusive,
         Conflict, TypeOK, Entered, life
    <3>4. OwnInv'
      BY <2>22, ConstantsAssumption DEF ClearsLate, Write, OwnInv, Exclusive, Conflict,
         LateInv, TypeOK, Entered, life
    <3>5. FamilyInv'
      BY <2>22, ConstantsAssumption DEF ClearsLate, Write, FamilyInv, Past, Available,
         Exclusive, Conflict, OffInv, TypeOK, Entered, life
    <3>6. LateInv'
      BY Zenon, <2>22, ConstantsAssumption DEF ClearsLate, Write, LateInv, OwnInv,
         FamilyInv, Past, Exclusive, Conflict, OffInv, TypeOK, Entered, life
    <3>7. DirtyInv' /\ Guarded'
      BY <2>22, ConstantsAssumption DEF ClearsLate, Write, DirtyInv, Guarded, OwnInv,
         LateInv, VerdictOK, TypeOK, life
    <3> QED
      BY Zenon, <3>1, <3>2, <3>3, <3>4, <3>5, <3>6, <3>7 DEF IInv
  <2>23. ASSUME NEW a \in Assignments, Report(a) PROVE IInv'
    <3>1. TypeOK' /\ VerdictOK'
      BY <2>23, ConstantsAssumption DEF Report, Goto, TypeOK, VerdictOK, Entered, disk,
         life, memory
    <3>2. OffInv'
      BY Zenon, <2>23, ConstantsAssumption DEF Report, Goto, OffInv, TypeOK, Entered,
         disk, life, memory
    <3>3. ActiveInv' /\ Exclusive'
      BY <2>23, ConstantsAssumption DEF Report, Goto, ActiveInv, Exclusive, Conflict,
         TypeOK, Entered, disk, life, memory
    <3>4. OwnInv'
      BY <2>23, ConstantsAssumption DEF Report, Goto, OwnInv, Exclusive, Conflict,
         LateInv, TypeOK, Entered, disk, life, memory
    <3>5. FamilyInv'
      BY <2>23, ConstantsAssumption DEF Report, Goto, FamilyInv, Past, Available,
         Exclusive, Conflict, OffInv, TypeOK, Entered, disk, life, memory
    <3>6. LateInv'
      BY <2>23, ConstantsAssumption DEF Report, Goto, LateInv, OwnInv, FamilyInv, Past,
         Exclusive, Conflict, OffInv, TypeOK, Entered, disk, life, memory
    <3>7. DirtyInv' /\ Guarded'
      BY <2>23, ConstantsAssumption DEF Report, Goto, DirtyInv, Guarded, OwnInv, LateInv,
         VerdictOK, TypeOK, disk, life, memory
    <3> QED
      BY Zenon, <3>1, <3>2, <3>3, <3>4, <3>5, <3>6, <3>7 DEF IInv
  <2>24. ASSUME NEW a \in Assignments, Leave(a) PROVE IInv'
    <3>1. TypeOK' /\ VerdictOK'
      BY Zenon, <2>24, ConstantsAssumption DEF Leave, Leaves, Goto, TypeOK, VerdictOK,
         Entered, disk, life
    <3>2. OffInv'
      BY Zenon, <2>24, ConstantsAssumption DEF Leave, Leaves, Goto, OffInv, TypeOK,
         Entered, disk, life
    <3>3. ActiveInv' /\ Exclusive'
      BY <2>24, ConstantsAssumption DEF Leave, Leaves, Goto, ActiveInv, Exclusive,
         Conflict, TypeOK, Entered, disk, life
    <3>4. OwnInv'
      BY Zenon, <2>24, ConstantsAssumption DEF Leave, Leaves, Goto, OwnInv, Exclusive,
         Conflict, LateInv, TypeOK, Entered, disk, life
    <3>5. FamilyInv'
      BY <2>24, ConstantsAssumption DEF Leave, Leaves, Goto, FamilyInv, Past, Available,
         Exclusive, Conflict, OffInv, TypeOK, Entered, disk, life
    <3>6. LateInv'
      BY Zenon, <2>24, ConstantsAssumption DEF Leave, Leaves, Goto, LateInv, OwnInv,
         FamilyInv, Past, Exclusive, Conflict, OffInv, TypeOK, Entered, disk, life
    <3>7. DirtyInv' /\ Guarded'
      BY <2>24, ConstantsAssumption DEF Leave, Leaves, Goto, DirtyInv, Guarded, OwnInv,
         LateInv, VerdictOK, TypeOK, disk, life
    <3> QED
      BY Zenon, <3>1, <3>2, <3>3, <3>4, <3>5, <3>6, <3>7 DEF IInv
  <2>25. ASSUME NEW a \in Assignments, Fail(a) PROVE IInv'
    <3>1. TypeOK' /\ VerdictOK'
      BY Zenon, <2>25, ConstantsAssumption DEF Fail, Leaves, Goto, TypeOK, VerdictOK,
         Entered, disk
    <3>2. OffInv'
      BY Zenon, <2>25, ConstantsAssumption DEF Fail, Leaves, Goto, OffInv, TypeOK,
         Entered, disk
    <3>3. ActiveInv' /\ Exclusive'
      BY <2>25, ConstantsAssumption DEF Fail, Leaves, Goto, ActiveInv, Exclusive,
         Conflict, TypeOK, Entered, disk
    <3>4. OwnInv'
      BY Zenon, <2>25, ConstantsAssumption DEF Fail, Leaves, Goto, OwnInv, Exclusive,
         Conflict, LateInv, TypeOK, Entered, disk
    <3>5. FamilyInv'
      BY <2>25, ConstantsAssumption DEF Fail, Leaves, Goto, FamilyInv, Past, Available,
         Exclusive, Conflict, OffInv, TypeOK, Entered, disk
    <3>6. LateInv'
      BY Zenon, <2>25, ConstantsAssumption DEF Fail, Leaves, Goto, LateInv, OwnInv,
         FamilyInv, Past, Exclusive, Conflict, OffInv, TypeOK, Entered, disk
    <3>7. DirtyInv' /\ Guarded'
      BY <2>25, ConstantsAssumption DEF Fail, Leaves, Goto, DirtyInv, Guarded, OwnInv,
         LateInv, VerdictOK, TypeOK, disk
    <3> QED
      BY Zenon, <3>1, <3>2, <3>3, <3>4, <3>5, <3>6, <3>7 DEF IInv
  <2>26. ASSUME NEW a \in Assignments, Quarantine(a) PROVE IInv'
    <3>1. TypeOK' /\ VerdictOK'
      BY Zenon, <2>26, ConstantsAssumption DEF Quarantine, Fence, Leaves, Goto, TypeOK,
         VerdictOK, Entered, disk
    <3>2. OffInv'
      BY Zenon, <2>26, ConstantsAssumption DEF Quarantine, Fence, Leaves, Goto, OffInv,
         TypeOK, Entered, disk
    <3>3. ActiveInv' /\ Exclusive'
      BY <2>26, ConstantsAssumption DEF Quarantine, Fence, Leaves, Goto, ActiveInv,
         Exclusive, Conflict, TypeOK, Entered, disk
    <3>4. OwnInv'
      BY Zenon, <2>26, ConstantsAssumption DEF Quarantine, Fence, Leaves, Goto, OwnInv,
         Exclusive, Conflict, LateInv, TypeOK, Entered, disk
    <3>5. FamilyInv'
      BY <2>26, ConstantsAssumption DEF Quarantine, Fence, Leaves, Goto, FamilyInv, Past,
         Available, Exclusive, Conflict, OffInv, TypeOK, Entered, disk
    <3>6. LateInv'
      BY Zenon, <2>26, ConstantsAssumption DEF Quarantine, Fence, Leaves, Goto, LateInv,
         OwnInv, FamilyInv, Past, Exclusive, Conflict, OffInv, TypeOK, Entered, disk
    <3>7. DirtyInv' /\ Guarded'
      BY <2>26, ConstantsAssumption DEF Quarantine, Fence, Leaves, Goto, DirtyInv,
         Guarded, OwnInv, LateInv, VerdictOK, TypeOK, disk
    <3> QED
      BY Zenon, <3>1, <3>2, <3>3, <3>4, <3>5, <3>6, <3>7 DEF IInv
  <2>27. CASE UNCHANGED vars
    <3>1. TypeOK' /\ VerdictOK' /\ OffInv' /\ ActiveInv' /\ Exclusive'
      BY Zenon, <2>27 DEF vars, TypeOK, VerdictOK, OffInv, ActiveInv, Exclusive
    <3>2. OwnInv' /\ LateInv' /\ DirtyInv' /\ Guarded'
      BY Zenon, <2>27 DEF vars, OwnInv, LateInv, DirtyInv, Guarded
    <3>3. FamilyInv'
      BY <2>27 DEF vars, FamilyInv, Available
    <3> QED
      BY Zenon, <3>1, <3>2, <3>3
  <2> HIDE DEF IInv
  <2> QED
    BY Zenon, <2>1, <2>2, <2>3, <2>4, <2>5, <2>6, <2>7, <2>8, <2>9, <2>10, <2>11, <2>12,
       <2>13, <2>14, <2>15, <2>16, <2>17, <2>18, <2>19, <2>20, <2>21, <2>22, <2>23,
       <2>24, <2>25, <2>26, <2>27 DEF Next
<1> QED
  BY <1>1, <1>2, PTL DEF Spec

(* Whatever the server hands out and wherever the worker dies, operations of *)
(* a checkout and its worktrees exclude each other, and unaccounted effects  *)
(* keep their guard and the family at rest.                                   *)
THEOREM WorkerKept == Spec => []WorkerSafe
<1>1. IInv => WorkerSafe
  <2> SUFFICES ASSUME IInv PROVE NoneOnDirty /\ FencedRests
    BY Zenon DEF IInv, WorkerSafe
  <2>1. NoneOnDirty
    <3> SUFFICES ASSUME NEW a \in Assignments, NEW b \in dirty, a # b, pc[a] = "exec",
                        Conflict(KeyOf[a], KeyOf[b])
                 PROVE  FALSE
      BY Zenon DEF NoneOnDirty
    <3>1. b \in Assignments /\ marker[KeyOf[b]] = b /\ b # None
      BY Zenon, ConstantsAssumption DEF IInv, DirtyInv, Guarded
    <3>2. KeyOf[a] # KeyOf[b]
      BY Zenon, <3>1 DEF IInv, OwnInv
    <3>3. Conflict(KeyOf[b], KeyOf[a]) /\ KeyOf[b] \in Keys
      BY Zenon, <3>1, ConstantsAssumption DEF Conflict
    <3> QED
      BY Zenon, <3>1, <3>2, <3>3 DEF IInv, FamilyInv, Past, Available
  <2>2. FencedRests
    <3> SUFFICES ASSUME NEW a \in Assignments, NEW b \in Assignments, pc[a] = "exec", pc[b] = "fenced",
                        Conflict(KeyOf[a], KeyOf[b])
                 PROVE  FALSE
      BY Zenon DEF FencedRests
    <3>1. Conflict(KeyOf[b], KeyOf[a]) /\ KeyOf[b] \in Keys /\ KeyOf[b] \in fenced
      BY Zenon, ConstantsAssumption DEF Conflict, IInv, FamilyInv
    <3> QED
      BY Zenon, <3>1 DEF IInv, FamilyInv, Past, Available
  <2> QED
    BY <2>1, <2>2
<1> QED
  BY <1>1, WorkerInvariant, PTL
=============================================================================
