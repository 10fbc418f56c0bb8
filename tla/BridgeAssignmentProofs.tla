------------------------ MODULE BridgeAssignmentProofs ------------------------
(***************************************************************************)
(* Proofs about BridgeAssignment, for every set of incarnations and of     *)
(* assignments: types, where an assignment may be, and what is final once  *)
(* it is settled.  Where the text of a theorem says so, leases are         *)
(* returned promptly (Returns = "prompt"); otherwise also late.            *)
(***************************************************************************)
EXTENDS BridgeAssignment, TLAPS

(* A process has a task exactly while it works on one, and a dispatcher    *)
(* that has begun knows its incarnation.                                   *)
ControlInv ==
  /\ \A i \in Incarnations :
       /\ wpc[i] \in {"off", "idle", "stopped"} => task[i] = None
       /\ wpc[i] \in {"claimed", "leased", "run", "settle"} => task[i] # None
       /\ wpc[i] = "settle" => verdict[i] # "none"
  /\ \A d \in Assignments : dpc[d] # "new" => dispInc[d] # None

TypeInv == TypeOK /\ ControlInv

(* Incarnation i may still be given assignment d.                          *)
Deliverable(i, d) == d \in queue[i] \/ claim[i] = d

(* Who may hold an assignment: nobody before its enqueue, then only the    *)
(* incarnation it was dispatched to, and in one place.                     *)
PlaceInv ==
  /\ \A d \in Assignments : dpc[d] \in {"new", "acquire", "enqueue"} =>
       /\ d \notin dirty /\ d \notin open /\ d \notin stored
       /\ settlement[d] = "none" /\ outcome[d] = "none"
       /\ \A i \in Incarnations : ~Deliverable(i, d) /\ task[i] # d /\ d \notin returning[i]
  /\ \A d \in Assignments, i \in Incarnations :
       Deliverable(i, d) \/ task[i] = d \/ d \in returning[i] => dispInc[d] = i
  /\ \A d \in Assignments, i \in Incarnations :
       d \in returning[i] => wpc[i] \in {"idle", "stopped"}
  /\ \A d \in Assignments, i \in Incarnations :
       d \in queue[i] => claim[i] # d /\ task[i] # d
  /\ \A d \in Assignments, i \in Incarnations : Deliverable(i, d) => wpc[i] # "off"
  /\ \A i \in Incarnations : current = i => wpc[i] # "off"
  /\ \A d \in Assignments : dpc[d] # "new" => wpc[dispInc[d]] # "off"

(* A settled assignment is delivered no more, and a worker that has a      *)
(* task, unless it executed it, has not touched the workspace.             *)
SettledInv ==
  /\ \A d \in Assignments, i \in Incarnations :
       settlement[d] # "none" \/ dpc[d] = "finalize" \/ outcome[d] = "fulfilled"
         => ~Deliverable(i, d) /\ ~(task[i] = d /\ wpc[i] = "run")
  /\ \A d \in Assignments : dpc[d] \in {"wait", "finalize", "rejected",
     "quarantine"} => outcome[d] = "none"
  /\ \A d \in Assignments : outcome[d] = "fulfilled" => d \notin dirty
  /\ \A d \in Assignments : outcome[d] = "expired" => d \notin open /\ settlement[d] # "fulfilled"

(* Where an expiry comes from: it closes the assignment for good, and no   *)
(* outcome is known before the dispatcher has one.                         *)
ExpiryInv ==
  \A d \in Assignments :
    /\ dpc[d] \in {"new", "acquire", "enqueue"}
         => d \notin open /\ d \notin stored /\ settlement[d] = "none"
    /\ dpc[d] \in {"new", "acquire", "enqueue", "wait", "finalize", "rejected", "quarantine"}
         => outcome[d] = "none"
    /\ outcome[d] = "expired" => d \notin open /\ settlement[d] # "fulfilled"

-----------------------------------------------------------------------------
(* Type correctness, and the control states that keep it. *)
THEOREM TypeInvariant == Spec => []TypeInv
<1>1. Init => TypeInv
  BY ConstantsAssumption DEF Init, TypeInv, TypeOK, ControlInv, DispatchStates, WorkerStates
<1>2. TypeInv /\ [Next]_vars => TypeInv'
  <2> SUFFICES ASSUME TypeInv, [Next]_vars
               PROVE  TypeInv'
    BY Zenon
  <2> USE ConstantsAssumption DEF TypeInv, TypeOK, ControlInv, DispatchStates, WorkerStates
  <2> USE DEF worker, disp, reg, locks, lists, work
  <2>1. ASSUME NEW d \in Assignments, Begin(d) PROVE TypeInv'
    BY <2>1, SMTT(30) DEF Begin, DispGoto
  <2>2. ASSUME NEW d \in Assignments, Acquire(d) PROVE TypeInv'
    BY <2>2, SMTT(30) DEF Acquire, TakeLock, DispGoto
  <2>3. ASSUME NEW d \in Assignments, EnqueueElsewhere(d) PROVE TypeInv'
    BY <2>3, SMTT(30) DEF EnqueueElsewhere, DispGoto
  <2>4. ASSUME NEW d \in Assignments, Enqueue(d) PROVE TypeInv'
    BY <2>4, SMTT(30) DEF Enqueue, WorkspaceFree, DispGoto
  <2>5. ASSUME NEW d \in Assignments, EnqueueFails(d) PROVE TypeInv'
    BY ZenonT(60), <2>5 DEF EnqueueFails, DispGoto
  <2>6. ASSUME NEW d \in Assignments, Poll(d) PROVE TypeInv'
    BY ZenonT(60), <2>6 DEF Poll, DispGoto, Settled
  <2>7. ASSUME NEW d \in Assignments, Close(d) PROVE TypeInv'
    BY <2>7, SMTT(30) DEF Close, DispGoto, Settled
  <2>8. ASSUME NEW d \in Assignments, Commit(d) PROVE TypeInv'
    BY <2>8, SMTT(30) DEF Commit, DispGoto
  <2>9. ASSUME NEW d \in Assignments, PassRejection(d) PROVE TypeInv'
    BY ZenonT(60), <2>9 DEF PassRejection, DispGoto
  <2>10. ASSUME NEW d \in Assignments, FinalizeFails(d) PROVE TypeInv'
    BY ZenonT(60), <2>10 DEF FinalizeFails, DispGoto
  <2>11. ASSUME NEW d \in Assignments, Quarantine(d) PROVE TypeInv'
    BY <2>11, SMTT(30) DEF Quarantine, DispGoto
  <2>12. ASSUME NEW d \in Assignments, Cleanup(d) PROVE TypeInv'
    BY ZenonT(60), <2>12 DEF Cleanup, Undelivered, DispGoto
  <2>13. ASSUME NEW d \in Assignments, Release(d) PROVE TypeInv'
    BY ZenonT(60), <2>13 DEF Release, DispGoto
  <2>14. ASSUME NEW d \in Assignments, DispatcherCrash(d) PROVE TypeInv'
    BY ZenonT(60), <2>14 DEF DispatcherCrash, DispGoto
  <2>15. ASSUME NEW i \in Incarnations, Register(i) PROVE TypeInv'
    BY <2>15, SMTT(30) DEF Register, RegisterAccepts
  <2>16. ASSUME NEW i \in Incarnations, Lease(i) PROVE TypeInv'
    BY <2>16, SMTT(30) DEF Lease, WorkerGoto, workRest
  <2>17. ASSUME NEW i \in Incarnations, Deliver(i) PROVE TypeInv'
    BY <2>17, SMTT(30) DEF Deliver, WorkerGoto, workRest
  <2>18. ASSUME NEW i \in Incarnations, LeaseGone(i) PROVE TypeInv'
    BY ZenonT(60), <2>18 DEF LeaseGone, WorkerGoto, workRest, DiscardClaim
  <2>19. ASSUME NEW i \in Incarnations, LeaseExpired(i) PROVE TypeInv'
    BY <2>19, SMTT(30) DEF LeaseExpired, WorkerGoto, workRest, DiscardClaim
  <2>20. ASSUME NEW i \in Incarnations, LeaseFenced(i) PROVE TypeInv'
    BY <2>20, SMTT(30) DEF LeaseFenced, WorkerGoto, workRest, ReturnLease
  <2>21. ASSUME NEW i \in Incarnations, Abandon(i) PROVE TypeInv'
    BY <2>21, SMTT(30) DEF Abandon, WorkerGoto, workRest
  <2>22. ASSUME NEW i \in Incarnations, Acknowledge(i) PROVE TypeInv'
    BY <2>22, SMTT(30) DEF Acknowledge, WorkerGoto
  <2>23. ASSUME NEW i \in Incarnations, AcknowledgeFails(i) PROVE TypeInv'
    BY <2>23, SMTT(30) DEF AcknowledgeFails, WorkerGoto
  <2>24. ASSUME NEW i \in Incarnations, Execute(i) PROVE TypeInv'
    BY <2>24, SMTT(30) DEF Execute, WorkerGoto
  <2>25. ASSUME NEW i \in Incarnations, Settle(i) PROVE TypeInv'
    BY <2>25, SMTT(30) DEF Settle, WorkerGoto, WorkerDone, SettleAccepts, DiscardClaim
  <2>26. ASSUME NEW i \in Incarnations, SettleAgain(i) PROVE TypeInv'
    BY ZenonT(60), <2>26 DEF SettleAgain, WorkerGoto, WorkerDone
  <2>27. ASSUME NEW i \in Incarnations, SettleFails(i) PROVE TypeInv'
    BY <2>27, SMTT(30) DEF SettleFails, WorkerGoto, WorkerDone, SettleAccepts
  <2>28. ASSUME NEW i \in Incarnations, WorkerCrash(i) PROVE TypeInv'
    BY ZenonT(60), <2>28 DEF WorkerCrash, WorkerGoto
  <2>29. ASSUME NEW i \in Incarnations, NEW d \in Assignments, ReturnAbandoned(i, d) PROVE TypeInv'
    BY <2>29, SMTT(30) DEF ReturnAbandoned, ReturnLease, workRest
  <2>30. CASE RegistrationExpires
    BY Zenon, <2>30 DEF RegistrationExpires
  <2>31. CASE ResetWorkspace
    BY Zenon, <2>31 DEF ResetWorkspace
  <2>32. ASSUME NEW d \in Assignments, Deadline(d) PROVE TypeInv'
    BY <2>32, SMTT(30) DEF Deadline
  <2>33. ASSUME NEW d \in Assignments, LockExpires(d) PROVE TypeInv'
    BY Zenon, <2>33 DEF LockExpires
  <2>34. ASSUME NEW d \in Assignments, AssignmentExpires(d) PROVE TypeInv'
    BY Zenon, <2>34 DEF AssignmentExpires
  <2>35. CASE UNCHANGED vars
    BY Zenon, <2>35 DEF vars
  <2> HIDE DEF TypeInv, TypeOK, ControlInv
  <2> QED
    BY Zenon, <2>1, <2>2, <2>3, <2>4, <2>5, <2>6, <2>7, <2>8, <2>9, <2>10, <2>11, <2>12,
       <2>13, <2>14,
       <2>15, <2>16, <2>17, <2>18, <2>19, <2>20, <2>21, <2>22, <2>23, <2>24, <2>25, <2>26, <2>27,
       <2>28, <2>29, <2>30, <2>31, <2>32, <2>33, <2>34, <2>35 DEF Next, DispatchStep, WorkerStep
<1> QED
  BY <1>1, <1>2, PTL DEF Spec

(* An expiry closes an assignment for good, whenever leases are returned. *)
THEOREM ExpiryInvariant == Spec => []ExpiryInv
<1>1. Init => ExpiryInv
  BY ZenonT(60), ConstantsAssumption DEF Init, ExpiryInv
<1>2. TypeInv /\ ExpiryInv /\ [Next]_vars => ExpiryInv'
  <2> SUFFICES ASSUME TypeInv, ExpiryInv, [Next]_vars
               PROVE  ExpiryInv'
    BY Zenon
  <2>a. /\ dpc \in [Assignments -> DispatchStates]
        /\ open \subseteq Assignments /\ stored \subseteq Assignments
        /\ settlement \in [Assignments -> {"none", "fulfilled", "rejected"}]
        /\ outcome \in [Assignments -> {"none", "fulfilled", "expired"}]
        /\ task \in [Incarnations -> Assignments \cup {None}]
    BY Zenon DEF TypeInv, TypeOK
  <2> USE ConstantsAssumption, <2>a DEF ExpiryInv, DispatchStates
  <2> USE DEF worker, disp, reg, locks, lists, work
  <2>1. ASSUME NEW d \in Assignments, Begin(d) PROVE ExpiryInv'
    BY Zenon, <2>1 DEF Begin, DispGoto
  <2>2. ASSUME NEW d \in Assignments, Acquire(d) PROVE ExpiryInv'
    BY Zenon, <2>2 DEF Acquire, TakeLock, DispGoto
  <2>3. ASSUME NEW d \in Assignments, EnqueueElsewhere(d) PROVE ExpiryInv'
    BY Zenon, <2>3 DEF EnqueueElsewhere, DispGoto
  <2>4. ASSUME NEW d \in Assignments, Enqueue(d) PROVE ExpiryInv'
    BY ZenonT(60), <2>4 DEF Enqueue, WorkspaceFree, DispGoto
  <2>5. ASSUME NEW d \in Assignments, EnqueueFails(d) PROVE ExpiryInv'
    BY Zenon, <2>5 DEF EnqueueFails, DispGoto
  <2>6. ASSUME NEW d \in Assignments, Poll(d) PROVE ExpiryInv'
    BY Zenon, <2>6 DEF Poll, DispGoto, Settled
  <2>7. ASSUME NEW d \in Assignments, Close(d) PROVE ExpiryInv'
    BY <2>7, SMTT(30) DEF Close, DispGoto, Settled
  <2>8. ASSUME NEW d \in Assignments, Commit(d) PROVE ExpiryInv'
    BY <2>8, SMTT(30) DEF Commit, DispGoto
  <2>9. ASSUME NEW d \in Assignments, PassRejection(d) PROVE ExpiryInv'
    BY Zenon, <2>9 DEF PassRejection, DispGoto
  <2>10. ASSUME NEW d \in Assignments, FinalizeFails(d) PROVE ExpiryInv'
    BY Zenon, <2>10 DEF FinalizeFails, DispGoto
  <2>11. ASSUME NEW d \in Assignments, Quarantine(d) PROVE ExpiryInv'
    BY Zenon, <2>11 DEF Quarantine, DispGoto
  <2>12. ASSUME NEW d \in Assignments, Cleanup(d) PROVE ExpiryInv'
    BY Zenon, <2>12 DEF Cleanup, Undelivered, DispGoto
  <2>13. ASSUME NEW d \in Assignments, Release(d) PROVE ExpiryInv'
    BY Zenon, <2>13 DEF Release, DispGoto
  <2>14. ASSUME NEW d \in Assignments, DispatcherCrash(d) PROVE ExpiryInv'
    BY Zenon, <2>14 DEF DispatcherCrash, DispGoto
  <2>15. ASSUME NEW i \in Incarnations, Register(i) PROVE ExpiryInv'
    BY Zenon, <2>15 DEF Register, RegisterAccepts
  <2>16. ASSUME NEW i \in Incarnations, Lease(i) PROVE ExpiryInv'
    BY Zenon, <2>16 DEF Lease, WorkerGoto, workRest
  <2>17. ASSUME NEW i \in Incarnations, Deliver(i) PROVE ExpiryInv'
    BY Zenon, <2>17 DEF Deliver, WorkerGoto, workRest
  <2>18. ASSUME NEW i \in Incarnations, LeaseGone(i) PROVE ExpiryInv'
    BY Zenon, <2>18 DEF LeaseGone, WorkerGoto, workRest, DiscardClaim
  <2>19. ASSUME NEW i \in Incarnations, LeaseExpired(i) PROVE ExpiryInv'
    BY Zenon, <2>19 DEF LeaseExpired, WorkerGoto, workRest, DiscardClaim
  <2>20. ASSUME NEW i \in Incarnations, LeaseFenced(i) PROVE ExpiryInv'
    BY Zenon, <2>20 DEF LeaseFenced, WorkerGoto, workRest, ReturnLease
  <2>21. ASSUME NEW i \in Incarnations, Abandon(i) PROVE ExpiryInv'
    BY Zenon, <2>21 DEF Abandon, WorkerGoto, workRest
  <2>22. ASSUME NEW i \in Incarnations, Acknowledge(i) PROVE ExpiryInv'
    BY Zenon, <2>22 DEF Acknowledge, WorkerGoto
  <2>23. ASSUME NEW i \in Incarnations, AcknowledgeFails(i) PROVE ExpiryInv'
    BY Zenon, <2>23 DEF AcknowledgeFails, WorkerGoto
  <2>24. ASSUME NEW i \in Incarnations, Execute(i) PROVE ExpiryInv'
    BY Zenon, <2>24 DEF Execute, WorkerGoto
  <2>25. ASSUME NEW i \in Incarnations, Settle(i) PROVE ExpiryInv'
    BY ZenonT(60), <2>25 DEF Settle, WorkerGoto, WorkerDone, SettleAccepts, DiscardClaim
  <2>26. ASSUME NEW i \in Incarnations, SettleAgain(i) PROVE ExpiryInv'
    BY Zenon, <2>26 DEF SettleAgain, WorkerGoto, WorkerDone
  <2>27. ASSUME NEW i \in Incarnations, SettleFails(i) PROVE ExpiryInv'
    BY Zenon, <2>27 DEF SettleFails, WorkerGoto, WorkerDone, SettleAccepts
  <2>28. ASSUME NEW i \in Incarnations, WorkerCrash(i) PROVE ExpiryInv'
    BY Zenon, <2>28 DEF WorkerCrash, WorkerGoto
  <2>29. ASSUME NEW i \in Incarnations, NEW d \in Assignments, ReturnAbandoned(i, d) PROVE ExpiryInv'
    BY Zenon, <2>29 DEF ReturnAbandoned, ReturnLease, workRest
  <2>30. CASE RegistrationExpires
    BY Zenon, <2>30 DEF RegistrationExpires
  <2>31. CASE ResetWorkspace
    BY Zenon, <2>31 DEF ResetWorkspace
  <2>32. ASSUME NEW d \in Assignments, Deadline(d) PROVE ExpiryInv'
    BY Zenon, <2>32 DEF Deadline
  <2>33. ASSUME NEW d \in Assignments, LockExpires(d) PROVE ExpiryInv'
    BY Zenon, <2>33 DEF LockExpires
  <2>34. ASSUME NEW d \in Assignments, AssignmentExpires(d) PROVE ExpiryInv'
    BY Zenon, <2>34 DEF AssignmentExpires
  <2>35. CASE UNCHANGED vars
    BY Zenon, <2>35 DEF vars
  <2> HIDE DEF ExpiryInv
  <2> QED
    BY Zenon, <2>1, <2>2, <2>3, <2>4, <2>5, <2>6, <2>7, <2>8, <2>9, <2>10, <2>11, <2>12,
       <2>13, <2>14,
       <2>15, <2>16, <2>17, <2>18, <2>19, <2>20, <2>21, <2>22, <2>23, <2>24, <2>25, <2>26, <2>27,
       <2>28, <2>29, <2>30, <2>31, <2>32, <2>33, <2>34, <2>35 DEF Next, DispatchStep, WorkerStep
<1> QED
  BY <1>1, <1>2, TypeInvariant, PTL DEF Spec

(* An assignment is delivered only to the incarnation it was enqueued for,
   from one place at a time. *)
THEOREM PlaceInvariant ==
  ASSUME Returns = "prompt"
  PROVE  Spec => []PlaceInv
<1>1. Init => PlaceInv
  BY ConstantsAssumption DEF Init, PlaceInv, Deliverable, WorkerStates
<1>2. TypeInv /\ PlaceInv /\ [Next]_vars => PlaceInv'
  <2> SUFFICES ASSUME TypeInv, PlaceInv, [Next]_vars
               PROVE  PlaceInv'
    BY Zenon
  <2>a. /\ wpc \in [Incarnations -> WorkerStates] /\ task \in [Incarnations -> Assignments \cup {None}]
        /\ claim \in [Incarnations -> Assignments \cup {None}] /\ returning \in [Incarnations -> SUBSET Assignments]
        /\ queue \in [Incarnations -> SUBSET Assignments] /\ dirty \subseteq Assignments
        /\ dpc \in [Assignments -> DispatchStates] /\ dispInc \in [Assignments -> Incarnations \cup {None}]
        /\ settlement \in [Assignments -> {"none", "fulfilled", "rejected"}]
        /\ outcome \in [Assignments -> {"none", "fulfilled", "expired"}]
        /\ current \in Incarnations \cup {None} /\ stored \subseteq Assignments /\ open \subseteq Assignments
    BY Zenon DEF TypeInv, TypeOK
  <2>b. ControlInv
    BY Zenon DEF TypeInv
  <2>c. UNCHANGED <<wpc, task, queue, claim, returning, dirty, open, stored, settlement, dpc, dispInc,
                    outcome, current>> => PlaceInv'
    BY SMTT(30) DEF PlaceInv, Deliverable
  <2> USE ConstantsAssumption, <2>a, <2>b DEF WorkerStates, DispatchStates
  <2> USE DEF worker, disp, reg, locks, lists, work
  <2>1. ASSUME NEW d \in Assignments, Begin(d) PROVE PlaceInv'
    BY <2>1, SMTT(30) DEF Begin, DispGoto, PlaceInv, ControlInv, Deliverable
  <2>2. ASSUME NEW d \in Assignments, Acquire(d) PROVE PlaceInv'
    BY <2>2, SMTT(30) DEF Acquire, TakeLock, DispGoto, PlaceInv, ControlInv, Deliverable
  <2>3. ASSUME NEW d \in Assignments, EnqueueElsewhere(d) PROVE PlaceInv'
    BY <2>3, SMTT(30) DEF EnqueueElsewhere, DispGoto, PlaceInv, ControlInv, Deliverable
  <2>4. ASSUME NEW d \in Assignments, Enqueue(d) PROVE PlaceInv'
    BY <2>4, SMTT(30) DEF Enqueue, WorkspaceFree, DispGoto, PlaceInv, ControlInv,
       Deliverable
  <2>5. ASSUME NEW d \in Assignments, EnqueueFails(d) PROVE PlaceInv'
    BY <2>5, SMTT(30) DEF EnqueueFails, DispGoto, PlaceInv, ControlInv, Deliverable
  <2>6. ASSUME NEW d \in Assignments, Poll(d) PROVE PlaceInv'
    BY <2>6, SMTT(30) DEF Poll, DispGoto, Settled, PlaceInv, ControlInv, Deliverable
  <2>7. ASSUME NEW d \in Assignments, Close(d) PROVE PlaceInv'
    BY <2>7, SMTT(30) DEF Close, DispGoto, Settled, PlaceInv, ControlInv, Deliverable
  <2>8. ASSUME NEW d \in Assignments, Commit(d) PROVE PlaceInv'
    BY <2>8, SMTT(30) DEF Commit, DispGoto, PlaceInv, ControlInv, Deliverable
  <2>9. ASSUME NEW d \in Assignments, PassRejection(d) PROVE PlaceInv'
    BY <2>9, SMTT(30) DEF PassRejection, DispGoto, PlaceInv, ControlInv, Deliverable
  <2>10. ASSUME NEW d \in Assignments, FinalizeFails(d) PROVE PlaceInv'
    BY <2>10, SMTT(30) DEF FinalizeFails, DispGoto, PlaceInv, ControlInv, Deliverable
  <2>11. ASSUME NEW d \in Assignments, Quarantine(d) PROVE PlaceInv'
    BY <2>11, SMTT(30) DEF Quarantine, DispGoto, PlaceInv, ControlInv, Deliverable
  <2>12. ASSUME NEW d \in Assignments, Cleanup(d) PROVE PlaceInv'
    BY <2>12, SMTT(30) DEF Cleanup, Undelivered, DispGoto, PlaceInv, ControlInv, Deliverable
  <2>13. ASSUME NEW d \in Assignments, Release(d) PROVE PlaceInv'
    BY <2>13, SMTT(30) DEF Release, DispGoto, PlaceInv, ControlInv, Deliverable
  <2>14. ASSUME NEW d \in Assignments, DispatcherCrash(d) PROVE PlaceInv'
    BY <2>14, SMTT(30) DEF DispatcherCrash, DispGoto, PlaceInv, ControlInv, Deliverable
  <2>15. ASSUME NEW i \in Incarnations, Register(i) PROVE PlaceInv'
    BY <2>15, SMTT(30) DEF Register, RegisterAccepts, PlaceInv, ControlInv, Deliverable
  <2>16. ASSUME NEW i \in Incarnations, Lease(i) PROVE PlaceInv'
    <3>1. CASE claim[i] = None
      BY <2>16, <3>1, SMTT(30) DEF Lease, WorkerGoto, workRest, PlaceInv, ControlInv,
         Deliverable
    <3>2. CASE claim[i] # None
      BY <2>16, <3>2, SMTT(30) DEF Lease, WorkerGoto, workRest, PlaceInv, ControlInv,
         Deliverable
    <3> QED
      BY Zenon, <2>16, <3>1, <3>2 DEF Lease, WorkerGoto, workRest
  <2>17. ASSUME NEW i \in Incarnations, Deliver(i) PROVE PlaceInv'
    BY <2>17, SMTT(30) DEF Deliver, WorkerGoto, workRest, PlaceInv, ControlInv, Deliverable
  <2>18. ASSUME NEW i \in Incarnations, LeaseGone(i) PROVE PlaceInv'
    BY <2>18, SMTT(30) DEF LeaseGone, WorkerGoto, workRest, DiscardClaim, PlaceInv,
       ControlInv, Deliverable
  <2>19. ASSUME NEW i \in Incarnations, LeaseExpired(i) PROVE PlaceInv'
    BY <2>19, SMTT(30) DEF LeaseExpired, WorkerGoto, workRest, DiscardClaim, PlaceInv,
       ControlInv, Deliverable
  <2>20. ASSUME NEW i \in Incarnations, LeaseFenced(i) PROVE PlaceInv'
    BY <2>20, SMTT(30) DEF LeaseFenced, WorkerGoto, workRest, ReturnLease, PlaceInv,
       ControlInv, Deliverable
  <2>21. ASSUME NEW i \in Incarnations, Abandon(i) PROVE PlaceInv'
    BY <2>21, SMTT(30) DEF Abandon, WorkerGoto, workRest, PlaceInv, ControlInv, Deliverable
  <2>22. ASSUME NEW i \in Incarnations, Acknowledge(i) PROVE PlaceInv'
    <3>1. CASE WorkerGoto(i, "run", task[i])
      BY <2>22, <3>1, SMTT(30) DEF Acknowledge, WorkerGoto, PlaceInv, ControlInv,
         Deliverable
    <3>2. CASE WorkerGoto(i, "settle", task[i])
      BY <2>22, <3>2, SMTT(30) DEF Acknowledge, WorkerGoto, PlaceInv, ControlInv,
         Deliverable
    <3> QED
      BY Zenon, <2>22, <3>1, <3>2 DEF Acknowledge, WorkerGoto
  <2>23. ASSUME NEW i \in Incarnations, AcknowledgeFails(i) PROVE PlaceInv'
    <3>1. CASE WorkerGoto(i, "idle", None)
      BY <2>23, <3>1, SMTT(30) DEF AcknowledgeFails, WorkerGoto, PlaceInv, ControlInv,
         Deliverable
    <3>2. CASE WorkerGoto(i, "settle", task[i])
      BY <2>23, <3>2, SMTT(30) DEF AcknowledgeFails, WorkerGoto, PlaceInv, ControlInv,
         Deliverable
    <3> QED
      BY Zenon, <2>23, <3>1, <3>2 DEF AcknowledgeFails, WorkerGoto
  <2>24. ASSUME NEW i \in Incarnations, Execute(i) PROVE PlaceInv'
    <3>1. CASE WorkerGoto(i, "settle", task[i])
      BY <2>24, <3>1, SMTT(30) DEF Execute, WorkerGoto, PlaceInv, ControlInv, Deliverable
    <3>2. CASE WorkerGoto(i, "stopped", None)
      BY <2>24, <3>2, SMTT(30) DEF Execute, WorkerGoto, PlaceInv, ControlInv, Deliverable
    <3> QED
      BY Zenon, <2>24, <3>1, <3>2 DEF Execute, WorkerGoto
  <2>25. ASSUME NEW i \in Incarnations, Settle(i) PROVE PlaceInv'
    BY <2>25, SMTT(30) DEF Settle, WorkerGoto, WorkerDone, SettleAccepts, DiscardClaim,
       PlaceInv, ControlInv, Deliverable
  <2>26. ASSUME NEW i \in Incarnations, SettleAgain(i) PROVE PlaceInv'
    BY <2>26, SMTT(30) DEF SettleAgain, WorkerGoto, WorkerDone, PlaceInv, ControlInv,
       Deliverable
  <2>27. ASSUME NEW i \in Incarnations, SettleFails(i) PROVE PlaceInv'
    BY <2>27, SMTT(30) DEF SettleFails, WorkerGoto, WorkerDone, SettleAccepts, PlaceInv,
       ControlInv, Deliverable
  <2>28. ASSUME NEW i \in Incarnations, WorkerCrash(i) PROVE PlaceInv'
    BY <2>28, SMTT(30) DEF WorkerCrash, WorkerGoto, PlaceInv, ControlInv, Deliverable
  <2>29. ASSUME NEW i \in Incarnations, NEW d \in Assignments, ReturnAbandoned(i, d) PROVE PlaceInv'
    BY <2>29, SMTT(30) DEF ReturnAbandoned, ReturnLease, workRest, PlaceInv, ControlInv,
       Deliverable
  <2>30. CASE RegistrationExpires
    BY <2>30, SMTT(30) DEF RegistrationExpires, PlaceInv, ControlInv, Deliverable
  <2>31. CASE ResetWorkspace
    BY <2>31, SMTT(30) DEF ResetWorkspace, PlaceInv, ControlInv, Deliverable
  <2>32. ASSUME NEW d \in Assignments, Deadline(d) PROVE PlaceInv'
    BY <2>32, SMTT(30) DEF Deadline, PlaceInv, ControlInv, Deliverable
  <2>33. ASSUME NEW d \in Assignments, LockExpires(d) PROVE PlaceInv'
    BY Zenon, <2>33, <2>c DEF LockExpires
  <2>34. ASSUME NEW d \in Assignments, AssignmentExpires(d) PROVE PlaceInv'
    BY <2>34, SMTT(30) DEF AssignmentExpires, PlaceInv, ControlInv, Deliverable
  <2>35. CASE UNCHANGED vars
    BY Zenon, <2>35, <2>c DEF vars
  <2> QED
    BY Zenon, <2>1, <2>2, <2>3, <2>4, <2>5, <2>6, <2>7, <2>8, <2>9, <2>10, <2>11, <2>12,
       <2>13, <2>14,
       <2>15, <2>16, <2>17, <2>18, <2>19, <2>20, <2>21, <2>22, <2>23, <2>24, <2>25, <2>26, <2>27,
       <2>28, <2>29, <2>30, <2>31, <2>32, <2>33, <2>34, <2>35 DEF Next, DispatchStep, WorkerStep
<1> QED
  BY <1>1, <1>2, TypeInvariant, PTL DEF Spec

(* A settled assignment is not delivered again. *)
THEOREM SettledInvariant ==
  ASSUME Returns = "prompt"
  PROVE  Spec => []SettledInv
<1>1. Init => SettledInv
  BY ZenonT(60), ConstantsAssumption DEF Init, SettledInv, Deliverable
<1>2. TypeInv /\ PlaceInv /\ SettledInv /\ [Next]_vars => SettledInv'
  <2> SUFFICES ASSUME TypeInv, PlaceInv, SettledInv, [Next]_vars
               PROVE  SettledInv'
    BY Zenon
  <2>a. /\ wpc \in [Incarnations -> WorkerStates] /\ task \in [Incarnations -> Assignments \cup {None}]
        /\ claim \in [Incarnations -> Assignments \cup {None}] /\ ack \in [Incarnations -> Assignments \cup {None}]
        /\ queue \in [Incarnations -> SUBSET Assignments] /\ dirty \subseteq Assignments
        /\ verdict \in [Incarnations -> {"none", "fulfilled", "rejected"}]
        /\ dpc \in [Assignments -> DispatchStates] /\ settlement \in [Assignments -> {"none",
           "fulfilled", "rejected"}]
        /\ outcome \in [Assignments -> {"none", "fulfilled", "expired"}]
        /\ dispInc \in [Assignments -> Incarnations \cup {None}]
    BY Zenon DEF TypeInv, TypeOK
  <2>b. ControlInv
    BY Zenon DEF TypeInv
  <2>c. UNCHANGED <<wpc, task, queue, claim, dirty, open, settlement, dpc, outcome>> => SettledInv'
    BY Zenon DEF SettledInv, Deliverable
  <2> USE ConstantsAssumption, <2>a, <2>b DEF WorkerStates, DispatchStates
  <2> USE DEF worker, disp, reg, locks, lists, work
  <2>1. ASSUME NEW d \in Assignments, Begin(d) PROVE SettledInv'
    BY <2>1, SMTT(30) DEF Begin, DispGoto, SettledInv, Deliverable
  <2>2. ASSUME NEW d \in Assignments, Acquire(d) PROVE SettledInv'
    BY <2>2, SMTT(30) DEF Acquire, TakeLock, DispGoto, SettledInv, Deliverable
  <2>3. ASSUME NEW d \in Assignments, EnqueueElsewhere(d) PROVE SettledInv'
    BY <2>3, SMTT(30) DEF EnqueueElsewhere, DispGoto, SettledInv, Deliverable
  <2>4. ASSUME NEW d \in Assignments, Enqueue(d) PROVE SettledInv'
    BY <2>4, SMTT(30) DEF Enqueue, WorkspaceFree, DispGoto, SettledInv, PlaceInv,
       Deliverable
  <2>5. ASSUME NEW d \in Assignments, EnqueueFails(d) PROVE SettledInv'
    BY <2>5, SMTT(30) DEF EnqueueFails, DispGoto, SettledInv, Deliverable
  <2>6. ASSUME NEW d \in Assignments, Poll(d) PROVE SettledInv'
    <3>1. CASE settlement[d] = "none"
      BY Zenon, <2>6, <3>1 DEF Poll, DispGoto, Settled, SettledInv, Deliverable
    <3>2. CASE settlement[d] # "none"
      BY <2>6, <3>2, SMTT(30) DEF Poll, DispGoto, Settled, SettledInv, Deliverable
    <3> QED
      BY Zenon, <2>6, <3>1, <3>2 DEF Poll, DispGoto, Settled
  <2>7. ASSUME NEW d \in Assignments, Close(d) PROVE SettledInv'
    <3>1. CASE settlement[d] = "none"
      BY <2>7, <3>1, SMTT(30) DEF Close, DispGoto, Settled, SettledInv, Deliverable
    <3>2. CASE settlement[d] # "none"
      BY <2>7, <3>2, SMTT(30) DEF Close, DispGoto, Settled, SettledInv, Deliverable
    <3> QED
      BY Zenon, <2>7, <3>1, <3>2 DEF Close, DispGoto, Settled
  <2>8. ASSUME NEW d \in Assignments, Commit(d) PROVE SettledInv'
    BY <2>8, SMTT(30) DEF Commit, DispGoto, SettledInv, Deliverable
  <2>9. ASSUME NEW d \in Assignments, PassRejection(d) PROVE SettledInv'
    BY <2>9, SMTT(30) DEF PassRejection, DispGoto, SettledInv, Deliverable
  <2>10. ASSUME NEW d \in Assignments, FinalizeFails(d) PROVE SettledInv'
    BY <2>10, SMTT(30) DEF FinalizeFails, DispGoto, SettledInv, Deliverable
  <2>11. ASSUME NEW d \in Assignments, Quarantine(d) PROVE SettledInv'
    BY <2>11, SMTT(30) DEF Quarantine, DispGoto, SettledInv, Deliverable
  <2>12. ASSUME NEW d \in Assignments, Cleanup(d) PROVE SettledInv'
    BY <2>12, SMTT(30) DEF Cleanup, Undelivered, DispGoto, SettledInv, Deliverable
  <2>13. ASSUME NEW d \in Assignments, Release(d) PROVE SettledInv'
    BY <2>13, SMTT(30) DEF Release, DispGoto, SettledInv, Deliverable
  <2>14. ASSUME NEW d \in Assignments, DispatcherCrash(d) PROVE SettledInv'
    BY <2>14, SMTT(30) DEF DispatcherCrash, DispGoto, SettledInv, Deliverable
  <2>15. ASSUME NEW i \in Incarnations, Register(i) PROVE SettledInv'
    BY <2>15, SMTT(30) DEF Register, RegisterAccepts, SettledInv, Deliverable
  <2>16. ASSUME NEW i \in Incarnations, Lease(i) PROVE SettledInv'
    BY <2>16, SMTT(30) DEF Lease, WorkerGoto, workRest, SettledInv, Deliverable
  <2>17. ASSUME NEW i \in Incarnations, Deliver(i) PROVE SettledInv'
    BY <2>17, SMTT(30) DEF Deliver, WorkerGoto, workRest, SettledInv, Deliverable
  <2>18. ASSUME NEW i \in Incarnations, LeaseGone(i) PROVE SettledInv'
    BY <2>18, SMTT(30) DEF LeaseGone, WorkerGoto, workRest, DiscardClaim, SettledInv,
       Deliverable
  <2>19. ASSUME NEW i \in Incarnations, LeaseExpired(i) PROVE SettledInv'
    BY <2>19, SMTT(30) DEF LeaseExpired, WorkerGoto, workRest, DiscardClaim, SettledInv,
       Deliverable
  <2>20. ASSUME NEW i \in Incarnations, LeaseFenced(i) PROVE SettledInv'
    BY <2>20, SMTT(30) DEF LeaseFenced, WorkerGoto, workRest, ReturnLease, SettledInv,
       Deliverable
  <2>21. ASSUME NEW i \in Incarnations, Abandon(i) PROVE SettledInv'
    BY <2>21, SMTT(30) DEF Abandon, WorkerGoto, workRest, SettledInv, Deliverable
  <2>22. ASSUME NEW i \in Incarnations, Acknowledge(i) PROVE SettledInv'
    BY <2>22, SMTT(30) DEF Acknowledge, WorkerGoto, SettledInv, Deliverable
  <2>23. ASSUME NEW i \in Incarnations, AcknowledgeFails(i) PROVE SettledInv'
    BY <2>23, SMTT(30) DEF AcknowledgeFails, WorkerGoto, SettledInv, Deliverable
  <2>24. ASSUME NEW i \in Incarnations, Execute(i) PROVE SettledInv'
    BY <2>24, SMTT(30) DEF Execute, WorkerGoto, SettledInv, Deliverable
  <2>25. ASSUME NEW i \in Incarnations, Settle(i) PROVE SettledInv'
    BY <2>25, SMTT(30) DEF Settle, WorkerGoto, WorkerDone, SettleAccepts, DiscardClaim,
       SettledInv,
       PlaceInv, ControlInv, Deliverable
  <2>26. ASSUME NEW i \in Incarnations, SettleAgain(i) PROVE SettledInv'
    BY <2>26, SMTT(30) DEF SettleAgain, WorkerGoto, WorkerDone, SettledInv, Deliverable
  <2>27. ASSUME NEW i \in Incarnations, SettleFails(i) PROVE SettledInv'
    BY <2>27, SMTT(30) DEF SettleFails, WorkerGoto, WorkerDone, SettleAccepts,
       SettledInv, Deliverable
  <2>28. ASSUME NEW i \in Incarnations, WorkerCrash(i) PROVE SettledInv'
    BY <2>28, SMTT(30) DEF WorkerCrash, WorkerGoto, SettledInv, Deliverable
  <2>29. ASSUME NEW i \in Incarnations, NEW d \in Assignments, ReturnAbandoned(i, d) PROVE SettledInv'
    BY <2>29, SMTT(30) DEF ReturnAbandoned, ReturnLease, workRest, SettledInv, Deliverable
  <2>30. CASE RegistrationExpires
    BY Zenon, <2>30, <2>c DEF RegistrationExpires
  <2>31. CASE ResetWorkspace
    BY <2>31, SMTT(30) DEF ResetWorkspace, SettledInv, Deliverable
  <2>32. ASSUME NEW d \in Assignments, Deadline(d) PROVE SettledInv'
    BY ZenonT(60), <2>32 DEF Deadline, SettledInv, Deliverable
  <2>33. ASSUME NEW d \in Assignments, LockExpires(d) PROVE SettledInv'
    BY Zenon, <2>33, <2>c DEF LockExpires
  <2>34. ASSUME NEW d \in Assignments, AssignmentExpires(d) PROVE SettledInv'
    BY <2>34, SMTT(30) DEF AssignmentExpires, SettledInv, Deliverable
  <2>35. CASE UNCHANGED vars
    BY Zenon, <2>35, <2>c DEF vars
  <2> QED
    BY Zenon, <2>1, <2>2, <2>3, <2>4, <2>5, <2>6, <2>7, <2>8, <2>9, <2>10, <2>11, <2>12,
       <2>13, <2>14,
       <2>15, <2>16, <2>17, <2>18, <2>19, <2>20, <2>21, <2>22, <2>23, <2>24, <2>25, <2>26, <2>27,
       <2>28, <2>29, <2>30, <2>31, <2>32, <2>33, <2>34, <2>35 DEF Next, DispatchStep, WorkerStep
<1> QED
  BY <1>1, <1>2, TypeInvariant, PlaceInvariant, PTL DEF Spec

-----------------------------------------------------------------------------
(* Type correctness of the worker, its dispatchers and their Redis keys. *)
THEOREM TypeCorrect == Spec => []TypeOK
  BY TypeInvariant, PTL DEF TypeInv

(* An assignment that the dispatcher closed is never fulfilled later, also
   when lease returns take effect late (store.ts waitForSettlement, settle). *)
THEOREM ExpiryFinal == Spec => []ExpiredStaysUnfulfilled
<1>1. ExpiryInv => ExpiredStaysUnfulfilled
  BY Zenon DEF ExpiryInv, ExpiredStaysUnfulfilled
<1> QED
  BY <1>1, ExpiryInvariant, PTL

(* A result is handed out only after the workspace commit, and an expiry is
   final. *)
THEOREM HonestResults ==
  ASSUME Returns = "prompt"
  PROVE  Spec => []ResultsHonest
<1>1. SettledInv => ResultsHonest
  BY Zenon DEF SettledInv, ResultsHonest, ResultIsCommitted, ExpiredStaysUnfulfilled
<1> QED
  BY <1>1, SettledInvariant, PTL

(* A process that is still alive may be given assignment d.                *)
Held(i, d) == wpc[i] # "stopped" /\ Deliverable(i, d)

(* The executions that left effects, and who may still work on them.       *)
DirtyAt(i) ==
  /\ wpc[i] \in {"claimed", "leased"} => task[i] \notin dirty
  /\ wpc[i] = "settle" /\ verdict[i] = "rejected" => task[i] \notin dirty
  /\ wpc[i] = "run" => task[i] \in dirty
  /\ \A d \in dirty :
       /\ d \notin queue[i]
       /\ claim[i] = d =>
            /\ ack[i] = d
            /\ \/ wpc[i] = "stopped"
               \/ task[i] = d /\ wpc[i] \in {"run", "settle"}
       /\ d \notin returning[i]
DirtyInv == Stateful => \A i \in Incarnations : DirtyAt(i)

(* A step of incarnation i that leaves the others and the effects alone.   *)
Others(i) ==
  /\ kind' = kind /\ dirty' = dirty
  /\ \A j \in Incarnations \ {i} :
       /\ wpc'[j] = wpc[j] /\ task'[j] = task[j] /\ verdict'[j] = verdict[j]
       /\ queue'[j] = queue[j] /\ claim'[j] = claim[j] /\ ack'[j] = ack[j]
       /\ returning'[j] = returning[j]

(* At most one assignment is in flight, that is executed without a         *)
(* committed result or deliverable to a process that is still alive; the   *)
(* marker names it or says that the workspace is quarantined.              *)
MarkerInv == Stateful =>
  /\ \A d \in dirty : fence \in {d, Quarantined}
  /\ \A d \in Assignments, i \in Incarnations : Held(i, d) => fence \in {d, Quarantined}
  /\ \A d, e \in dirty : d = e
  /\ \A d \in dirty, e \in Assignments, i \in Incarnations : Held(i, e) => d = e
  /\ \A d, e \in Assignments, i, j \in Incarnations : Held(i, d) /\ Held(j, e) => d = e

-----------------------------------------------------------------------------
(* A step of one incarnation that has no effects of its own keeps DirtyInv *)
(* if it keeps its part of it.                                             *)
LEMMA DirtyByOne ==
  ASSUME DirtyInv, NEW i \in Incarnations, Others(i), Stateful => DirtyAt(i)'
  PROVE  DirtyInv'
<1>1. ASSUME NEW j \in Incarnations \ {i}, Stateful PROVE DirtyAt(j)'
  <2>1. DirtyAt(j)
    BY Zenon, <1>1 DEF DirtyInv
  <2>2. /\ dirty' = dirty /\ wpc'[j] = wpc[j] /\ task'[j] = task[j] /\ verdict'[j] = verdict[j]
        /\ queue'[j] = queue[j] /\ claim'[j] = claim[j] /\ ack'[j] = ack[j] /\ returning'[j] = returning[j]
    BY Zenon DEF Others
  <2> QED
    BY Zenon, <2>1, <2>2 DEF DirtyAt
<1> QED
  BY Zenon, <1>1 DEF Others, DirtyInv, Stateful

(* A process that goes idle or stops leaves nothing to be delivered that   *)
(* has had effects, except what it had acknowledged when it stopped.       *)
LEMMA RestsClean ==
  ASSUME NEW i \in Incarnations, DirtyAt(i), dirty' = dirty, wpc'[i] \in {"idle", "stopped"},
         \A d \in dirty : d \notin queue'[i] /\ d \notin returning'[i],
         claim'[i] \in dirty => wpc'[i] = "stopped" /\ claim'[i] = claim[i] /\ ack'[i] = ack[i]
  PROVE  DirtyAt(i)'
<1>1. ASSUME NEW d \in dirty, claim'[i] = d PROVE ack'[i] = d /\ wpc'[i] = "stopped"
  BY Zenon, <1>1 DEF DirtyAt
<1> QED
  BY Zenon, <1>1 DEF DirtyAt

(* Outside of an execution and its settlement nothing claimed has had      *)
(* effects.                                                                *)
LEMMA ClaimClean ==
  ASSUME NEW i \in Incarnations, DirtyAt(i),
         wpc[i] \notin {"run", "settle", "stopped"} \/ (wpc[i] = "settle" /\ claim[i] # task[i])
  PROVE  claim[i] \notin dirty
BY Zenon DEF DirtyAt

(* Discarding a claim leaves that of another assignment, or none.          *)
LEMMA Discarded ==
  ASSUME NEW i \in Incarnations, NEW d, DiscardClaim(i, d), claim \in [Incarnations -> Assignments \cup {None}],
         ack \in [Incarnations -> Assignments \cup {None}]
  PROVE  /\ claim'[i] = None \/ (claim'[i] = claim[i] /\ claim[i] # d)
         /\ \A j \in Incarnations \ {i} : claim'[j] = claim[j] /\ ack'[j] = ack[j]
<1>1. CASE claim[i] = d
  <2>1. claim' = [claim EXCEPT ![i] = None] /\ ack' = [ack EXCEPT ![i] = None]
    BY Zenon, <1>1 DEF DiscardClaim
  <2> QED
    BY Zenon, <2>1
<1>2. CASE claim[i] # d
  BY Zenon, <1>2 DEF DiscardClaim
<1> QED
  BY Zenon, <1>1, <1>2

(* Returning a lease puts the assignment that was claimed back in its      *)
(* queue, or does nothing.                                                 *)
LEMMA Returned ==
  ASSUME NEW i \in Incarnations, NEW d, ReturnLease(i, d), claim \in [Incarnations -> Assignments \cup {None}],
         ack \in [Incarnations -> Assignments \cup {None}], queue \in [Incarnations -> SUBSET Assignments]
  PROVE  /\ \/ claim'[i] = None /\ queue'[i] = queue[i] \cup {d}
            \/ claim'[i] = claim[i] /\ ack'[i] = ack[i] /\ queue'[i] = queue[i]
         /\ \A j \in Incarnations \ {i} : claim'[j] = claim[j] /\ ack'[j] = ack[j] /\ queue'[j] = queue[j]
<1>1. CASE d \in stored /\ claim[i] = d
  <2>1. /\ claim' = [claim EXCEPT ![i] = None] /\ ack' = [ack EXCEPT ![i] = None]
        /\ queue' = [queue EXCEPT ![i] = @ \cup {d}]
    BY Zenon, <1>1 DEF ReturnLease
  <2> QED
    BY Zenon, <2>1
<1>2. CASE ~(d \in stored /\ claim[i] = d)
  BY Zenon, <1>2 DEF ReturnLease
<1> QED
  BY Zenon, <1>1, <1>2

(* What a worker process does keeps the account of effects.                *)
LEMMA WorkerKeepsDirty ==
  ASSUME TypeInv, PlaceInv, SettledInv, DirtyInv, NEW i \in Incarnations, WorkerStep(i)
  PROVE  DirtyInv'
<1> DEFINE d == task[i]
<1>w. wpc \in [Incarnations -> WorkerStates] /\ task \in [Incarnations -> Assignments \cup {None}]
  BY Zenon DEF TypeInv, TypeOK
<1>v. verdict \in [Incarnations -> {"none", "fulfilled", "rejected"}]
  BY Zenon DEF TypeInv, TypeOK
<1>l. /\ claim \in [Incarnations -> Assignments \cup {None}] /\ ack \in [Incarnations -> Assignments \cup {None}]
      /\ queue \in [Incarnations -> SUBSET Assignments] /\ returning \in [Incarnations -> SUBSET Assignments]
  BY Zenon DEF TypeInv, TypeOK
<1>n. None \notin dirty
  BY Zenon, ConstantsAssumption DEF TypeInv, TypeOK
<1>t. wpc[i] \in {"claimed", "leased", "run", "settle"} => d \in Assignments
  BY Zenon, <1>w DEF TypeInv, ControlInv
<1>d. ASSUME Stateful
      PROVE  DirtyAt(i) /\ \A e \in dirty : e \notin queue[i] /\ e \notin returning[i]
  BY Zenon, <1>d DEF DirtyInv, DirtyAt
<1>g. ASSUME NEW pc, NEW e, WorkerGoto(i, pc, e)
      PROVE  /\ wpc'[i] = pc /\ task'[i] = e
             /\ \A j \in Incarnations \ {i} : wpc'[j] = wpc[j] /\ task'[j] = task[j]
  BY Zenon, <1>g, <1>w DEF WorkerGoto
<1>e. ASSUME NEW v, verdict' = [verdict EXCEPT ![i] = v]
      PROVE  verdict'[i] = v /\ \A j \in Incarnations \ {i} : verdict'[j] = verdict[j]
  BY Zenon, <1>e, <1>v
<1>1. ASSUME Register(i) PROVE DirtyInv'
  <2>1. /\ kind' = kind /\ dirty' = dirty /\ UNCHANGED <<task, verdict, queue, claim, ack, returning>>
        /\ wpc[i] \in {"off", "idle", "run", "settle"}
    BY Zenon, <1>1 DEF Register, work, lists
  <2>2. /\ \A j \in Incarnations \ {i} : wpc'[j] = wpc[j]
        /\ wpc'[i] = wpc[i] \/ (wpc'[i] \in {"idle", "stopped"} /\ wpc[i] \in {"off", "idle"})
    BY Zenon, <1>1, <1>w DEF Register
  <2>3. Others(i)
    BY Zenon, <2>1, <2>2 DEF Others
  <2>4. ASSUME Stateful, wpc'[i] = wpc[i] PROVE DirtyAt(i)'
    BY Zenon, <2>1, <2>4, <1>d DEF DirtyAt
  <2>5. ASSUME Stateful, wpc'[i] \in {"idle", "stopped"}, wpc[i] \in {"off", "idle"} PROVE DirtyAt(i)'
    <3>1. claim[i] \notin dirty
      BY Zenon, <2>5, <1>d, ClaimClean
    <3> QED
      BY Zenon, <2>1, <2>5, <3>1, <1>d, RestsClean
  <2> QED
    BY Zenon, <2>2, <2>3, <2>4, <2>5, DirtyByOne
<1>2. ASSUME Lease(i) PROVE DirtyInv'
  <2>1. /\ kind' = kind /\ dirty' = dirty /\ UNCHANGED <<verdict, ack, returning>>
        /\ wpc[i] = "idle"
    BY Zenon, <1>2 DEF Lease, workRest
  <2> DEFINE Claims ==
         /\ wpc'[i] = "claimed" /\ task'[i] \in queue[i] \cup {claim[i]} /\ claim'[i] = task'[i]
         /\ queue'[i] \subseteq queue[i]
         /\ \A j \in Incarnations \ {i} : /\ wpc'[j] = wpc[j] /\ task'[j] = task[j]
                                         /\ queue'[j] = queue[j] /\ claim'[j] = claim[j]
  <2>2. Claims
    <3>1. CASE claim[i] # None /\ WorkerGoto(i, "claimed", claim[i]) /\ UNCHANGED <<claim, queue>>
      BY Zenon, <3>1, <1>g
    <3>2. ASSUME NEW e \in queue[i], claim' = [claim EXCEPT ![i] = e], queue' = [queue EXCEPT ![i] = @ \ {e}],
                 WorkerGoto(i, "claimed", e)
          PROVE  Claims
      BY Zenon, <3>2, <1>g, <1>l
    <3> QED
      BY Zenon, <1>2, <3>1, <3>2 DEF Lease
  <2>3. Others(i)
    BY Zenon, <2>1, <2>2 DEF Others
  <2>4. ASSUME Stateful PROVE DirtyAt(i)'
    <3>1. claim[i] \notin dirty
      BY Zenon, <2>1, <2>4, <1>d, ClaimClean
    <3>2. task'[i] \notin dirty /\ claim'[i] \notin dirty /\ \A e \in dirty : e \notin queue'[i]
      BY Zenon, <2>2, <2>4, <3>1, <1>d
    <3> QED
      BY Zenon, <2>1, <2>2, <2>4, <3>2, <1>d DEF DirtyAt
  <2> QED
    BY Zenon, <2>3, <2>4, DirtyByOne
<1>3. ASSUME Deliver(i) PROVE DirtyInv'
  <2>1. /\ kind' = kind /\ dirty' = dirty /\ UNCHANGED <<verdict, queue, claim, ack, returning>>
        /\ wpc[i] = "claimed" /\ WorkerGoto(i, "leased", d)
    BY Zenon, <1>3 DEF Deliver, workRest, lists
  <2>2. Others(i) /\ wpc'[i] = "leased" /\ task'[i] = d
    BY Zenon, <2>1, <1>g DEF Others
  <2>3. ASSUME Stateful PROVE DirtyAt(i)'
    BY Zenon, <2>1, <2>2, <2>3, <1>d DEF DirtyAt
  <2> QED
    BY Zenon, <2>2, <2>3, DirtyByOne
<1>4. ASSUME LeaseGone(i) \/ LeaseExpired(i) PROVE DirtyInv'
  <2>1. /\ kind' = kind /\ dirty' = dirty /\ UNCHANGED <<verdict, queue, returning>>
        /\ wpc[i] = "claimed" /\ DiscardClaim(i, d) /\ WorkerGoto(i, "idle", None)
    BY Zenon, <1>4 DEF LeaseGone, LeaseExpired, workRest
  <2>2. Others(i) /\ wpc'[i] = "idle"
    BY Zenon, <2>1, <1>g, <1>l, Discarded DEF Others
  <2>3. ASSUME Stateful PROVE DirtyAt(i)'
    <3>1. claim[i] \notin dirty
      BY Zenon, <2>1, <2>3, <1>d, ClaimClean
    <3>2. claim'[i] \notin dirty
      BY Zenon, <2>1, <3>1, <1>l, <1>n, Discarded
    <3> QED
      BY Zenon, <2>1, <2>2, <2>3, <3>2, <1>d, RestsClean
  <2> QED
    BY Zenon, <2>2, <2>3, DirtyByOne
<1>5. ASSUME LeaseFenced(i) PROVE DirtyInv'
  <2>1. /\ kind' = kind /\ dirty' = dirty /\ UNCHANGED <<verdict, returning>>
        /\ wpc[i] = "claimed" /\ ReturnLease(i, d) /\ WorkerGoto(i, "stopped", None)
    BY Zenon, <1>5 DEF LeaseFenced, workRest
  <2>2. Others(i) /\ wpc'[i] = "stopped"
    BY Zenon, <2>1, <1>g, <1>l, Returned DEF Others
  <2>3. ASSUME Stateful PROVE DirtyAt(i)'
    <3>1. claim[i] \notin dirty /\ d \notin dirty
      BY Zenon, <2>1, <2>3, <1>d, ClaimClean DEF DirtyAt
    <3>2. claim'[i] \notin dirty /\ \A e \in dirty : e \notin queue'[i]
      <4>1. \/ claim'[i] = None /\ queue'[i] = queue[i] \cup {d}
            \/ claim'[i] = claim[i] /\ queue'[i] = queue[i]
        BY Zenon, <2>1, <1>l, Returned
      <4> QED
        BY Zenon, <4>1, <2>3, <3>1, <1>d, <1>n
    <3> QED
      BY Zenon, <2>1, <2>2, <2>3, <3>2, <1>d, RestsClean
  <2> QED
    BY Zenon, <2>2, <2>3, DirtyByOne
<1>6. ASSUME Abandon(i) PROVE DirtyInv'
  <2>1. /\ kind' = kind /\ dirty' = dirty /\ UNCHANGED <<verdict, queue, claim, ack>>
        /\ wpc[i] = "claimed" /\ WorkerGoto(i, "idle", None)
    BY Zenon, <1>6 DEF Abandon, workRest
  <2>2. /\ returning'[i] \subseteq returning[i] \cup {d}
        /\ \A j \in Incarnations \ {i} : returning'[j] = returning[j]
    BY Zenon, <1>6, <1>l DEF Abandon
  <2>3. Others(i) /\ wpc'[i] = "idle"
    BY Zenon, <2>1, <2>2, <1>g DEF Others
  <2>4. ASSUME Stateful PROVE DirtyAt(i)'
    <3>1. claim[i] \notin dirty /\ d \notin dirty
      BY Zenon, <2>1, <2>4, <1>d, ClaimClean DEF DirtyAt
    <3> QED
      BY Zenon, <2>1, <2>2, <2>3, <2>4, <3>1, <1>d, RestsClean
  <2> QED
    BY Zenon, <2>3, <2>4, DirtyByOne
<1>7. ASSUME Acknowledge(i) PROVE DirtyInv'
  <2>1. /\ kind' = kind /\ UNCHANGED <<queue, claim, returning>> /\ wpc[i] = "leased" /\ claim[i] = d
        /\ d \in Assignments
    BY Zenon, <1>7, <1>t DEF Acknowledge
  <2>2. ack'[i] = d /\ \A j \in Incarnations \ {i} : ack'[j] = ack[j]
    BY Zenon, <1>7, <1>l DEF Acknowledge
  <2>3. \/ wpc'[i] = "run" /\ dirty' = dirty \cup {d}
        \/ wpc'[i] = "settle" /\ verdict'[i] = "rejected" /\ dirty' = dirty
    BY Zenon, <1>7, <1>g, <1>e DEF Acknowledge
  <2>4. /\ task'[i] = d
        /\ \A j \in Incarnations \ {i} : wpc'[j] = wpc[j] /\ task'[j] = task[j] /\ verdict'[j] = verdict[j]
    BY Zenon, <1>7, <1>g, <1>e DEF Acknowledge
  <2>5. dispInc[d] = i /\ d \notin queue[i] /\ d \notin returning[i]
    BY Zenon, <2>1 DEF PlaceInv
  <2> SUFFICES ASSUME Stateful, NEW j \in Incarnations PROVE DirtyAt(j)'
    BY Zenon, <2>1 DEF DirtyInv, Stateful
  <2>6. CASE j = i
    <3>1. d \notin dirty
      BY Zenon, <2>1, <1>d DEF DirtyAt
    <3> QED
      BY Zenon, <2>1, <2>2, <2>3, <2>4, <2>5, <2>6, <3>1, <1>d DEF DirtyAt
  <2>7. CASE j # i
    <3>1. task[j] # d /\ claim[j] # d /\ d \notin queue[j] /\ d \notin returning[j]
      BY Zenon, <2>1, <2>5, <2>7 DEF PlaceInv, Deliverable
    <3>2. DirtyAt(j)
      BY Zenon DEF DirtyInv
    <3>3. dirty \subseteq dirty' /\ \A e \in dirty' : e # d => e \in dirty
      BY Zenon, <2>3
    <3> QED
      BY Zenon, <2>1, <2>2, <2>4, <2>7, <3>1, <3>2, <3>3 DEF DirtyAt
  <2> QED
    BY Zenon, <2>6, <2>7
<1>8. ASSUME AcknowledgeFails(i) PROVE DirtyInv'
  <2>1. /\ kind' = kind /\ dirty' = dirty /\ UNCHANGED <<queue, claim, ack, returning>>
        /\ wpc[i] = "leased"
    BY Zenon, <1>8 DEF AcknowledgeFails, work, lists
  <2>2. /\ wpc'[i] = "idle" \/ (wpc'[i] = "settle" /\ task'[i] = d /\ verdict'[i] = "rejected")
        /\ \A j \in Incarnations \ {i} : wpc'[j] = wpc[j] /\ task'[j] = task[j] /\ verdict'[j] = verdict[j]
    BY Zenon, <1>8, <1>g, <1>e DEF AcknowledgeFails
  <2>3. Others(i)
    BY Zenon, <2>1, <2>2 DEF Others
  <2>4. ASSUME Stateful PROVE DirtyAt(i)'
    <3>1. claim[i] \notin dirty /\ d \notin dirty
      BY Zenon, <2>1, <2>4, <1>d, ClaimClean DEF DirtyAt
    <3>2. CASE wpc'[i] = "idle"
      BY Zenon, <2>1, <2>4, <3>1, <3>2, <1>d, RestsClean
    <3>3. CASE wpc'[i] = "settle" /\ task'[i] = d
      BY Zenon, <2>1, <2>4, <3>1, <3>3, <1>d DEF DirtyAt
    <3> QED
      BY Zenon, <2>2, <3>2, <3>3
  <2> QED
    BY Zenon, <2>3, <2>4, DirtyByOne
<1>9. ASSUME Execute(i) PROVE DirtyInv'
  <2>1. kind' = kind /\ UNCHANGED <<queue, claim, ack, returning>> /\ wpc[i] = "run" /\ d \in Assignments
    BY Zenon, <1>9, <1>t DEF Execute, work, lists
  <2>2. \/ wpc'[i] = "settle" /\ task'[i] = d /\ verdict'[i] = "fulfilled" /\ dirty' = dirty
        \/ wpc'[i] = "settle" /\ task'[i] = d /\ verdict'[i] = "rejected" /\ dirty' = dirty \ {d}
        \/ wpc'[i] = "stopped" /\ dirty' = dirty
    <3>1. ASSUME NEW v \in {"fulfilled", "rejected"}, WorkerGoto(i, "settle", d),
                 verdict' = [verdict EXCEPT ![i] = v],
                 dirty' = (IF v = "rejected" THEN dirty \ {d} ELSE dirty)
          PROVE  /\ wpc'[i] = "settle" /\ task'[i] = d
                 /\ \/ verdict'[i] = "fulfilled" /\ dirty' = dirty
                    \/ verdict'[i] = "rejected" /\ dirty' = dirty \ {d}
      <4>1. wpc'[i] = "settle" /\ task'[i] = d /\ verdict'[i] = v
        BY Zenon, <3>1, <1>g, <1>e
      <4> QED
        BY Zenon, <3>1, <4>1
    <3>2. CASE WorkerGoto(i, "stopped", None) /\ dirty' = dirty
      BY Zenon, <3>2, <1>g
    <3> QED
      BY Zenon, <1>9, <3>1, <3>2 DEF Execute
  <2>3. \A j \in Incarnations \ {i} : wpc'[j] = wpc[j] /\ task'[j] = task[j] /\ verdict'[j] = verdict[j]
    BY Zenon, <1>9, <1>g, <1>e DEF Execute
  <2> SUFFICES ASSUME Stateful, NEW j \in Incarnations PROVE DirtyAt(j)'
    BY Zenon, <2>1 DEF DirtyInv, Stateful
  <2>4. CASE j = i
    BY Zenon, <2>1, <2>2, <2>4, <1>d DEF DirtyAt
  <2>5. CASE j # i
    <3>1. task[j] # d
      BY Zenon, <2>1, <2>5 DEF PlaceInv
    <3>2. DirtyAt(j)
      BY Zenon DEF DirtyInv
    <3>3. dirty' \subseteq dirty /\ \A e \in dirty : e # d => e \in dirty'
      BY Zenon, <2>2
    <3> QED
      BY Zenon, <2>1, <2>3, <2>5, <3>1, <3>2, <3>3 DEF DirtyAt
  <2> QED
    BY Zenon, <2>4, <2>5
<1>10. ASSUME Settle(i) PROVE DirtyInv'
  <2>1. /\ kind' = kind /\ dirty' = dirty /\ UNCHANGED <<queue, returning>>
        /\ wpc[i] = "settle" /\ DiscardClaim(i, d)
    BY Zenon, <1>10 DEF Settle
  <2>2. /\ \A j \in Incarnations \ {i} : wpc'[j] = wpc[j] /\ task'[j] = task[j] /\ verdict'[j] = verdict[j]
        /\ wpc'[i] = "idle" \/ UNCHANGED <<wpc, task, verdict>>
    BY Zenon, <1>10, <1>g, <1>e DEF Settle, WorkerDone, worker
  <2>3. Others(i)
    BY Zenon, <2>1, <2>2, <1>l, Discarded DEF Others
  <2>4. ASSUME Stateful PROVE DirtyAt(i)'
    <3>1. claim'[i] \notin dirty
      BY Zenon, <2>1, <2>4, <1>d, <1>l, <1>n, ClaimClean, Discarded
    <3>2. CASE wpc'[i] = "idle"
      BY Zenon, <2>1, <2>4, <3>1, <3>2, <1>d, RestsClean
    <3>3. CASE UNCHANGED <<wpc, task, verdict>>
      BY Zenon, <2>1, <2>4, <3>1, <3>3, <1>d DEF DirtyAt
    <3> QED
      BY Zenon, <2>2, <3>2, <3>3
  <2> QED
    BY Zenon, <2>3, <2>4, DirtyByOne
<1>11. ASSUME SettleAgain(i) PROVE DirtyInv'
  <2>1. /\ kind' = kind /\ dirty' = dirty /\ UNCHANGED <<queue, claim, ack, returning>>
        /\ wpc[i] = "settle" /\ settlement[d] = verdict[i] /\ WorkerDone(i)
    BY Zenon, <1>11 DEF SettleAgain, work, lists
  <2>2. Others(i) /\ wpc'[i] = "idle"
    BY Zenon, <2>1, <1>g, <1>e DEF Others, WorkerDone
  <2>3. claim[i] # d
    BY Zenon, <2>1, <1>t DEF SettledInv, Deliverable, TypeInv, ControlInv
  <2>4. ASSUME Stateful PROVE DirtyAt(i)'
    <3>1. claim[i] \notin dirty
      BY Zenon, <2>1, <2>3, <2>4, <1>d, ClaimClean
    <3> QED
      BY Zenon, <2>1, <2>2, <2>4, <3>1, <1>d, RestsClean
  <2> QED
    BY Zenon, <2>2, <2>4, DirtyByOne
<1>12. ASSUME SettleFails(i) \/ WorkerCrash(i) PROVE DirtyInv'
  <2>1. kind' = kind /\ dirty' = dirty /\ UNCHANGED <<queue, claim, ack, returning>>
    BY Zenon, <1>12 DEF SettleFails, WorkerCrash, work, lists
  <2>2. /\ verdict' = [verdict EXCEPT ![i] = "none"]
        /\ \/ WorkerGoto(i, "stopped", None)
           \/ WorkerGoto(i, "idle", None) /\ wpc[i] = "settle" /\ (Stateful => verdict[i] # "fulfilled")
    BY Zenon, <1>12 DEF SettleFails, WorkerCrash, WorkerDone
  <2>3. Others(i)
    BY Zenon, <2>1, <2>2, <1>g, <1>e DEF Others
  <2>4. ASSUME Stateful PROVE DirtyAt(i)'
    <3>1. CASE wpc'[i] = "stopped"
      BY Zenon, <2>1, <2>4, <3>1, <1>d, RestsClean
    <3>2. CASE wpc'[i] = "idle" /\ wpc[i] = "settle" /\ verdict[i] # "fulfilled"
      <4>1. d \notin dirty
        BY Zenon, <2>4, <3>2, <1>d, <1>v DEF DirtyAt, TypeInv, ControlInv
      <4>2. claim[i] \notin dirty
        BY Zenon, <2>4, <3>2, <4>1, <1>d, ClaimClean
      <4> QED
        BY Zenon, <2>1, <2>4, <3>2, <4>2, <1>d, RestsClean
    <3> QED
      BY Zenon, <2>2, <2>4, <3>1, <3>2, <1>g
  <2> QED
    BY Zenon, <2>3, <2>4, DirtyByOne
<1> QED
  BY Zenon, <1>1, <1>2, <1>3, <1>4, <1>5, <1>6, <1>7, <1>8, <1>9, <1>10, <1>11,
     <1>12 DEF WorkerStep

(* So does the return of a lease whose request was given up.               *)
LEMMA ReturnKeepsDirty ==
  ASSUME TypeInv, PlaceInv, DirtyInv, NEW i \in Incarnations, NEW d \in Assignments, ReturnAbandoned(i, d)
  PROVE  DirtyInv'
<1>1. /\ claim \in [Incarnations -> Assignments \cup {None}] /\ ack \in [Incarnations -> Assignments \cup {None}]
      /\ queue \in [Incarnations -> SUBSET Assignments] /\ returning \in [Incarnations -> SUBSET Assignments]
      /\ None \notin dirty
  BY Zenon, ConstantsAssumption DEF TypeInv, TypeOK
<1>2. /\ kind' = kind /\ dirty' = dirty /\ UNCHANGED <<wpc, task, verdict>>
      /\ d \in returning[i] /\ ReturnLease(i, d) /\ wpc[i] \in {"idle", "stopped"}
  BY Zenon DEF ReturnAbandoned, workRest, PlaceInv
<1>3. returning'[i] = returning[i] \ {d} /\ \A j \in Incarnations \ {i} : returning'[j] = returning[j]
  BY Zenon, <1>1 DEF ReturnAbandoned
<1>4. Others(i)
  BY Zenon, <1>1, <1>2, <1>3, Returned DEF Others
<1>5. ASSUME Stateful PROVE DirtyAt(i)'
  <2>1. DirtyAt(i) /\ d \notin dirty /\ \A e \in dirty : e \notin queue[i] /\ e \notin returning[i]
    BY Zenon, <1>2, <1>5 DEF DirtyInv, DirtyAt
  <2>2. \A e \in dirty : e \notin queue'[i] /\ e \notin returning'[i]
    <3>1. queue'[i] = queue[i] \cup {d} \/ queue'[i] = queue[i]
      BY Zenon, <1>1, <1>2, Returned
    <3> QED
      BY Zenon, <1>3, <2>1, <3>1
  <2>3. claim'[i] \in dirty => claim'[i] = claim[i] /\ ack'[i] = ack[i]
    BY Zenon, <1>1, <1>2, Returned
  <2>4. claim'[i] \in dirty => wpc'[i] = "stopped"
    BY Zenon, <1>2, <2>1, <2>3 DEF DirtyAt
  <2> QED
    BY Zenon, <1>2, <2>1, <2>2, <2>3, <2>4, RestsClean
<1> QED
  BY Zenon, <1>4, <1>5, DirtyByOne

(* Work that may have had effects is out of the queue, acknowledged, and
   its process still busy with it or stopped. *)
THEOREM DirtyInvariant ==
  ASSUME Returns = "prompt"
  PROVE  Spec => []DirtyInv
<1>1. Init => DirtyInv
  BY Zenon, ConstantsAssumption DEF Init, DirtyInv, DirtyAt, Stateful
<1>2. TypeInv /\ PlaceInv /\ SettledInv /\ DirtyInv /\ [Next]_vars => DirtyInv'
  <2> SUFFICES ASSUME TypeInv, PlaceInv, SettledInv, DirtyInv, [Next]_vars
               PROVE  DirtyInv'
    BY Zenon
  <2>a. /\ wpc \in [Incarnations -> WorkerStates] /\ task \in [Incarnations -> Assignments \cup {None}]
        /\ claim \in [Incarnations -> Assignments \cup {None}] /\ ack \in [Incarnations -> Assignments \cup {None}]
        /\ queue \in [Incarnations -> SUBSET Assignments] /\ dirty \subseteq Assignments
        /\ verdict \in [Incarnations -> {"none", "fulfilled", "rejected"}]
        /\ returning \in [Incarnations -> SUBSET Assignments]
    BY Zenon DEF TypeInv, TypeOK
  <2>b. ControlInv
    BY Zenon DEF TypeInv
  <2>c. UNCHANGED <<kind, wpc, task, verdict, queue, claim, ack, returning, dirty>> => DirtyInv'
    BY SMTT(30) DEF DirtyInv, DirtyAt, Stateful
  <2> USE ConstantsAssumption, <2>a, <2>b DEF Stateful, WorkerStates
  <2> USE DEF worker, disp, reg, locks, lists, work
  <2>1. ASSUME NEW d \in Assignments, Begin(d) PROVE DirtyInv'
    BY Zenon, <2>1, <2>c DEF Begin, DispGoto
  <2>2. ASSUME NEW d \in Assignments, Acquire(d) PROVE DirtyInv'
    BY Zenon, <2>2, <2>c DEF Acquire, TakeLock, DispGoto
  <2>3. ASSUME NEW d \in Assignments, EnqueueElsewhere(d) PROVE DirtyInv'
    BY Zenon, <2>3, <2>c DEF EnqueueElsewhere, DispGoto
  <2>4. ASSUME NEW d \in Assignments, Enqueue(d) PROVE DirtyInv'
    BY <2>4, SMTT(30) DEF Enqueue, WorkspaceFree, DispGoto, DirtyInv, DirtyAt, PlaceInv,
       Deliverable
  <2>5. ASSUME NEW d \in Assignments, EnqueueFails(d) PROVE DirtyInv'
    BY Zenon, <2>5, <2>c DEF EnqueueFails, DispGoto
  <2>6. ASSUME NEW d \in Assignments, Poll(d) PROVE DirtyInv'
    BY Zenon, <2>6, <2>c DEF Poll, DispGoto, Settled
  <2>7. ASSUME NEW d \in Assignments, Close(d) PROVE DirtyInv'
    BY Zenon, <2>7, <2>c DEF Close, DispGoto, Settled
  <2>8. ASSUME NEW d \in Assignments, Commit(d) PROVE DirtyInv'
    BY <2>8, SMTT(30) DEF Commit, DispGoto, DirtyInv, DirtyAt, SettledInv, ControlInv,
       Deliverable
  <2>9. ASSUME NEW d \in Assignments, PassRejection(d) PROVE DirtyInv'
    BY Zenon, <2>9, <2>c DEF PassRejection, DispGoto
  <2>10. ASSUME NEW d \in Assignments, FinalizeFails(d) PROVE DirtyInv'
    BY Zenon, <2>10, <2>c DEF FinalizeFails, DispGoto
  <2>11. ASSUME NEW d \in Assignments, Quarantine(d) PROVE DirtyInv'
    BY ZenonT(60), <2>11, <2>c DEF Quarantine, DispGoto
  <2>12. ASSUME NEW d \in Assignments, Cleanup(d) PROVE DirtyInv'
    BY <2>12, SMTT(30) DEF Cleanup, Undelivered, DispGoto, DirtyInv, DirtyAt
  <2>13. ASSUME NEW d \in Assignments, Release(d) PROVE DirtyInv'
    BY Zenon, <2>13, <2>c DEF Release, DispGoto
  <2>14. ASSUME NEW d \in Assignments, DispatcherCrash(d) PROVE DirtyInv'
    BY Zenon, <2>14, <2>c DEF DispatcherCrash, DispGoto
  <2>15. ASSUME NEW i \in Incarnations, WorkerStep(i) PROVE DirtyInv'
    BY Zenon, <2>15, WorkerKeepsDirty
  <2>16. ASSUME NEW i \in Incarnations, NEW d \in Assignments, ReturnAbandoned(i, d) PROVE DirtyInv'
    BY Zenon, <2>16, ReturnKeepsDirty
  <2>17. CASE RegistrationExpires
    BY Zenon, <2>17, <2>c DEF RegistrationExpires
  <2>18. CASE ResetWorkspace
    BY Zenon, <2>18 DEF ResetWorkspace, DirtyInv, DirtyAt
  <2>19. ASSUME NEW d \in Assignments, Deadline(d) PROVE DirtyInv'
    BY Zenon, <2>19, <2>c DEF Deadline
  <2>20. ASSUME NEW d \in Assignments, LockExpires(d) PROVE DirtyInv'
    BY Zenon, <2>20, <2>c DEF LockExpires
  <2>21. ASSUME NEW d \in Assignments, AssignmentExpires(d) PROVE DirtyInv'
    BY <2>21, SMTT(30) DEF AssignmentExpires, DirtyInv, DirtyAt
  <2>22. CASE UNCHANGED vars
    BY Zenon, <2>22, <2>c DEF vars
  <2> QED
    BY Zenon, <2>1, <2>2, <2>3, <2>4, <2>5, <2>6, <2>7, <2>8, <2>9, <2>10, <2>11, <2>12,
       <2>13, <2>14,
       <2>15, <2>16, <2>17, <2>18, <2>19, <2>20, <2>21, <2>22 DEF Next, DispatchStep
<1> QED
  BY <1>1, <1>2, TypeInvariant, PlaceInvariant, SettledInvariant, PTL DEF Spec

(* The marker covers the one assignment in flight. *)
THEOREM MarkerInvariant ==
  ASSUME Returns = "prompt"
  PROVE  Spec => []MarkerInv
<1>1. Init => MarkerInv
  BY ConstantsAssumption DEF Init, MarkerInv, Held, Deliverable, Stateful
<1>2. TypeInv /\ PlaceInv /\ SettledInv /\ DirtyInv /\ MarkerInv /\ [Next]_vars => MarkerInv'
  <2> SUFFICES ASSUME TypeInv, PlaceInv, SettledInv, DirtyInv, MarkerInv, [Next]_vars
               PROVE  MarkerInv'
    BY Zenon
  <2>a. /\ wpc \in [Incarnations -> WorkerStates] /\ task \in [Incarnations -> Assignments \cup {None}]
        /\ claim \in [Incarnations -> Assignments \cup {None}] /\ ack \in [Incarnations -> Assignments \cup {None}]
        /\ queue \in [Incarnations -> SUBSET Assignments] /\ dirty \subseteq Assignments
        /\ verdict \in [Incarnations -> {"none", "fulfilled", "rejected"}]
        /\ dpc \in [Assignments -> DispatchStates] /\ settlement \in [Assignments -> {"none",
           "fulfilled", "rejected"}]
        /\ outcome \in [Assignments -> {"none", "fulfilled", "expired"}]
        /\ dispInc \in [Assignments -> Incarnations \cup {None}]
    BY Zenon DEF TypeInv, TypeOK
  <2>b. ControlInv
    BY Zenon DEF TypeInv
  <2>c. UNCHANGED <<kind, wpc, queue, claim, dirty, fence>> => MarkerInv'
    BY ZenonT(60) DEF MarkerInv, Held, Deliverable, Stateful
  <2>s. ASSUME kind' = kind, fence' = fence, dirty' \subseteq dirty,
               \A e \in Assignments, j \in Incarnations : Held(j, e)' => Held(j, e)
        PROVE  MarkerInv'
    <3>1. ASSUME Stateful', NEW e \in dirty' PROVE fence' \in {e, Quarantined}
      BY Zenon, <2>s, <3>1, <2>a, ConstantsAssumption DEF MarkerInv, Stateful
    <3>2. ASSUME Stateful', NEW e \in Assignments, NEW j \in Incarnations, Held(j,
       e)' PROVE fence' \in {e, Quarantined}
      BY Zenon, <2>s, <3>2, <2>a, ConstantsAssumption DEF MarkerInv, Stateful
    <3>3. ASSUME Stateful', NEW e \in dirty', NEW f \in dirty' PROVE e = f
      BY Zenon, <2>s, <3>3, <2>a, ConstantsAssumption DEF MarkerInv, Stateful
    <3>4. ASSUME Stateful', NEW e \in dirty', NEW f \in Assignments, NEW j \in Incarnations,
       Held(j, f)' PROVE e = f
      BY Zenon, <2>s, <3>4, <2>a, ConstantsAssumption DEF MarkerInv, Stateful
    <3>5. ASSUME Stateful', NEW e \in Assignments, NEW f \in Assignments, NEW j \in Incarnations,
       NEW k \in Incarnations,
                 Held(j, e)', Held(k, f)' PROVE e = f
      BY Zenon, <2>s, <3>5, <2>a, ConstantsAssumption DEF MarkerInv, Stateful
    <3> QED
      BY Zenon, <3>1, <3>2, <3>3, <3>4, <3>5 DEF MarkerInv
  <2>w. ASSUME NEW d \in Assignments, kind' = kind, fence = d, fence' = None,
     \A e \in dirty' : e \in dirty /\ e # d,
               \A e \in Assignments, j \in Incarnations : Held(j, e)' => Held(j, e) /\ e # d
        PROVE  MarkerInv'
    <3>1. ASSUME Stateful', NEW e \in dirty' PROVE fence' \in {e, Quarantined}
      BY <2>w, <3>1, <2>a, ConstantsAssumption, SMTT(30) DEF MarkerInv, Stateful
    <3>2. ASSUME Stateful', NEW e \in Assignments, NEW j \in Incarnations, Held(j,
       e)' PROVE fence' \in {e, Quarantined}
      BY ZenonT(60), <2>w, <3>2, <2>a, ConstantsAssumption DEF MarkerInv, Stateful
    <3>3. ASSUME Stateful', NEW e \in dirty', NEW f \in dirty' PROVE e = f
      BY Zenon, <2>w, <3>3, <2>a, ConstantsAssumption DEF MarkerInv, Stateful
    <3>4. ASSUME Stateful', NEW e \in dirty', NEW f \in Assignments, NEW j \in Incarnations,
       Held(j, f)' PROVE e = f
      BY Zenon, <2>w, <3>4, <2>a, ConstantsAssumption DEF MarkerInv, Stateful
    <3>5. ASSUME Stateful', NEW e \in Assignments, NEW f \in Assignments, NEW j \in Incarnations,
       NEW k \in Incarnations,
                 Held(j, e)', Held(k, f)' PROVE e = f
      BY Zenon, <2>w, <3>5, <2>a, ConstantsAssumption DEF MarkerInv, Stateful
    <3> QED
      BY Zenon, <3>1, <3>2, <3>3, <3>4, <3>5 DEF MarkerInv
  <2> USE ConstantsAssumption, <2>a, <2>b DEF Stateful, WorkerStates, DispatchStates
  <2> USE DEF worker, disp, reg, locks, lists, work
  <2>1. ASSUME NEW d \in Assignments, Begin(d) PROVE MarkerInv'
    BY Zenon, <2>1, <2>c DEF Begin, DispGoto
  <2>2. ASSUME NEW d \in Assignments, Acquire(d) PROVE MarkerInv'
    BY Zenon, <2>2, <2>c DEF Acquire, TakeLock, DispGoto
  <2>3. ASSUME NEW d \in Assignments, EnqueueElsewhere(d) PROVE MarkerInv'
    BY ZenonT(60), <2>3, <2>c DEF EnqueueElsewhere, DispGoto
  <2>4. ASSUME NEW d \in Assignments, Enqueue(d) PROVE MarkerInv'
    BY <2>4, SMTT(30) DEF Enqueue, WorkspaceFree, DispGoto, MarkerInv, PlaceInv, Held,
       Deliverable
  <2>5. ASSUME NEW d \in Assignments, EnqueueFails(d) PROVE MarkerInv'
    BY Zenon, <2>5, <2>c DEF EnqueueFails, DispGoto
  <2>6. ASSUME NEW d \in Assignments, Poll(d) PROVE MarkerInv'
    BY Zenon, <2>6, <2>c DEF Poll, DispGoto, Settled
  <2>7. ASSUME NEW d \in Assignments, Close(d) PROVE MarkerInv'
    BY Zenon, <2>7, <2>c DEF Close, DispGoto, Settled
  <2>8. ASSUME NEW d \in Assignments, Commit(d) PROVE MarkerInv'
    BY <2>8, SMTT(30) DEF Commit, DispGoto, MarkerInv, SettledInv, Held, Deliverable
  <2>9. ASSUME NEW d \in Assignments, PassRejection(d) PROVE MarkerInv'
    BY Zenon, <2>9, <2>c DEF PassRejection, DispGoto
  <2>10. ASSUME NEW d \in Assignments, FinalizeFails(d) PROVE MarkerInv'
    BY Zenon, <2>10, <2>c DEF FinalizeFails, DispGoto
  <2>11. ASSUME NEW d \in Assignments, Quarantine(d) PROVE MarkerInv'
    BY <2>11, SMTT(30) DEF Quarantine, DispGoto, MarkerInv, Held, Deliverable
  <2>12. ASSUME NEW d \in Assignments, Cleanup(d) PROVE MarkerInv'
    <3>1. ASSUME NEW e \in Assignments, NEW j \in Incarnations, Held(j, e)' PROVE Held(j, e)
      BY ZenonT(60), <2>12, <3>1 DEF Cleanup, Undelivered, DispGoto, Held, Deliverable
    <3>2. kind' = kind /\ dirty' \subseteq dirty
      BY Zenon, <2>12 DEF Cleanup, Undelivered, DispGoto
    <3>3. CASE fence' = fence
      BY Zenon, <3>1, <3>2, <3>3, <2>s
    <3>4. CASE fence' # fence
      <4>1. d \in Assignments /\ fence = d /\ fence' = None
        BY Zenon, <2>12, <3>4 DEF Cleanup, Undelivered, DispGoto, ControlInv
      <4>2. d \notin dirty'
        <5>1. Stateful /\ Undelivered(d) /\ dirty' = dirty /\ dpc[d] = "cleanup"
          BY Zenon, <2>12, <3>4 DEF Cleanup
        <5>2. dispInc[d] \in Incarnations
          BY Zenon, <5>1 DEF ControlInv
        <5> QED
          BY ZenonT(60), <5>1, <5>2 DEF Undelivered, DirtyInv, DirtyAt
      <4>3. ASSUME NEW j \in Incarnations, Held(j, d)' PROVE FALSE
        <5>1. Held(j, d)
          BY Zenon, <3>1, <4>1, <4>3
        <5>2. j = dispInc[d]
          BY Zenon, <4>1, <5>1 DEF PlaceInv, Held
        <5> QED
          BY <2>12, <4>1, <4>3, <5>2, SMTT(30) DEF Cleanup, Undelivered, DispGoto, Held,
             Deliverable, PlaceInv
      <4>4. \A e \in Assignments, j \in Incarnations : Held(j, e)' => Held(j, e) /\ e # d
        BY <3>1, <4>3, SMTT(30)
      <4> QED
        BY Zenon, <3>2, <4>1, <4>2, <4>4, <2>w
    <3> QED
      BY Zenon, <3>3, <3>4
  <2>13. ASSUME NEW d \in Assignments, Release(d) PROVE MarkerInv'
    BY Zenon, <2>13, <2>c DEF Release, DispGoto
  <2>14. ASSUME NEW d \in Assignments, DispatcherCrash(d) PROVE MarkerInv'
    BY Zenon, <2>14, <2>c DEF DispatcherCrash, DispGoto
  <2>15. ASSUME NEW i \in Incarnations, Register(i) PROVE MarkerInv'
    <3>1. ASSUME NEW e \in Assignments, NEW j \in Incarnations, Held(j, e)' PROVE Held(j, e)
      BY ZenonT(60), <2>15, <3>1 DEF Register, RegisterAccepts, Held, Deliverable
    <3>2. kind' = kind /\ fence' = fence /\ dirty' \subseteq dirty
      BY Zenon, <2>15 DEF Register, RegisterAccepts
    <3> QED
      BY Zenon, <3>1, <3>2, <2>s
  <2>16. ASSUME NEW i \in Incarnations, Lease(i) PROVE MarkerInv'
    <3>1. ASSUME NEW e \in Assignments, NEW j \in Incarnations, Held(j, e)' PROVE Held(j, e)
      <4>1. CASE UNCHANGED <<claim, queue>> /\ WorkerGoto(i, "claimed", claim[i])
        BY ZenonT(60), <2>16, <3>1, <4>1 DEF Lease, WorkerGoto, Held, Deliverable
      <4>2. ASSUME NEW f \in queue[i], claim' = [claim EXCEPT ![i] = f],
                   queue' = [queue EXCEPT ![i] = @ \ {f}], WorkerGoto(i, "claimed", f)
            PROVE  Held(j, e)
        BY ZenonT(60), <2>16, <3>1, <4>2 DEF Lease, WorkerGoto, Held, Deliverable
      <4> QED
        BY Zenon, <2>16, <4>1, <4>2 DEF Lease
    <3>2. kind' = kind /\ fence' = fence /\ dirty' \subseteq dirty
      BY Zenon, <2>16 DEF Lease, WorkerGoto, workRest
    <3> QED
      BY Zenon, <3>1, <3>2, <2>s
  <2>17. ASSUME NEW i \in Incarnations, Deliver(i) PROVE MarkerInv'
    <3>1. ASSUME NEW e \in Assignments, NEW j \in Incarnations, Held(j, e)' PROVE Held(j, e)
      BY ZenonT(60), <2>17, <3>1 DEF Deliver, WorkerGoto, workRest, Held, Deliverable
    <3>2. kind' = kind /\ fence' = fence /\ dirty' \subseteq dirty
      BY Zenon, <2>17 DEF Deliver, WorkerGoto, workRest
    <3> QED
      BY Zenon, <3>1, <3>2, <2>s
  <2>18. ASSUME NEW i \in Incarnations, LeaseGone(i) PROVE MarkerInv'
    <3>1. ASSUME NEW e \in Assignments, NEW j \in Incarnations, Held(j, e)' PROVE Held(j, e)
      BY Zenon, <2>18, <3>1 DEF LeaseGone, WorkerGoto, workRest, DiscardClaim, Held,
         Deliverable
    <3>2. kind' = kind /\ fence' = fence /\ dirty' \subseteq dirty
      BY Zenon, <2>18 DEF LeaseGone, WorkerGoto, workRest, DiscardClaim
    <3> QED
      BY Zenon, <3>1, <3>2, <2>s
  <2>19. ASSUME NEW i \in Incarnations, LeaseExpired(i) PROVE MarkerInv'
    <3>1. ASSUME NEW e \in Assignments, NEW j \in Incarnations, Held(j, e)' PROVE Held(j, e)
      BY ZenonT(60), <2>19, <3>1 DEF LeaseExpired, WorkerGoto, workRest, DiscardClaim, Held,
         Deliverable
    <3>2. kind' = kind /\ dirty' \subseteq dirty
      BY Zenon, <2>19 DEF LeaseExpired, WorkerGoto, workRest, DiscardClaim
    <3>t. PICK t \in Assignments : t = task[i]
      BY <2>19, SMTT(30) DEF LeaseExpired, WorkerGoto, workRest, DiscardClaim, ControlInv
    <3>3. CASE fence' = fence
      BY Zenon, <3>1, <3>2, <3>3, <2>s
    <3>4. CASE fence' # fence
      <4>1. t \in Assignments /\ fence = t /\ fence' = None
        BY Zenon, <2>19, <3>t, <3>4 DEF LeaseExpired, WorkerGoto, workRest, DiscardClaim,
           ControlInv
      <4>2. t \notin dirty'
        BY Zenon, <2>19, <3>t, <3>4 DEF LeaseExpired, WorkerGoto, workRest, DiscardClaim,
           DirtyInv, DirtyAt, ControlInv, PlaceInv, Deliverable
      <4>3. ASSUME NEW j \in Incarnations, Held(j, t)' PROVE FALSE
        <5>1. Held(j, t)
          BY Zenon, <3>1, <4>1, <4>3
        <5>2. j = i
          BY <3>t, <4>1, <5>1, SMTT(30) DEF PlaceInv, Held
        <5> QED
          BY <2>19, <3>t, <4>1, <4>3, <5>2, SMTT(30) DEF LeaseExpired, WorkerGoto, workRest,
             DiscardClaim, Held, Deliverable, PlaceInv, ControlInv
      <4>4. \A e \in Assignments, j \in Incarnations : Held(j, e)' => Held(j, e) /\ e # t
        BY <3>1, <4>3, SMTT(30)
      <4> QED
        BY ZenonT(60), <3>2, <4>1, <4>2, <4>4, <2>w
    <3> QED
      BY Zenon, <3>3, <3>4
  <2>20. ASSUME NEW i \in Incarnations, LeaseFenced(i) PROVE MarkerInv'
    <3>1. ASSUME NEW e \in Assignments, NEW j \in Incarnations, Held(j, e)' PROVE Held(j, e)
      BY ZenonT(60), <2>20, <3>1 DEF LeaseFenced, WorkerGoto, workRest, ReturnLease, Held,
         Deliverable
    <3>2. kind' = kind /\ fence' = fence /\ dirty' \subseteq dirty
      BY Zenon, <2>20 DEF LeaseFenced, WorkerGoto, workRest, ReturnLease
    <3> QED
      BY Zenon, <3>1, <3>2, <2>s
  <2>21. ASSUME NEW i \in Incarnations, Abandon(i) PROVE MarkerInv'
    <3>1. ASSUME NEW e \in Assignments, NEW j \in Incarnations, Held(j, e)' PROVE Held(j, e)
      BY Zenon, <2>21, <3>1 DEF Abandon, WorkerGoto, workRest, Held, Deliverable
    <3>2. kind' = kind /\ fence' = fence /\ dirty' \subseteq dirty
      BY Zenon, <2>21 DEF Abandon, WorkerGoto, workRest
    <3> QED
      BY Zenon, <3>1, <3>2, <2>s
  <2>22. ASSUME NEW i \in Incarnations, Acknowledge(i) PROVE MarkerInv'
    <3>1. ASSUME NEW e \in Assignments, NEW j \in Incarnations, Held(j, e)' PROVE Held(j, e)
      BY Zenon, <2>22, <3>1 DEF Acknowledge, WorkerGoto, Held, Deliverable
    <3>2. kind' = kind /\ fence' = fence
      BY Zenon, <2>22 DEF Acknowledge, WorkerGoto
    <3>3. PICK t \in Assignments : Held(i, t) /\ \A e \in dirty' : e \in dirty \/ e = t
      BY <2>22, SMTT(30) DEF Acknowledge, WorkerGoto, Held, Deliverable, ControlInv
    <3> QED
      <4>1. ASSUME Stateful', NEW e \in dirty' PROVE fence' \in {e, Quarantined}
        BY Zenon, <3>1, <3>2, <3>3, <4>1, <2>a, ConstantsAssumption DEF MarkerInv,
           Stateful
      <4>2. ASSUME Stateful', NEW e \in Assignments, NEW j \in Incarnations, Held(j,
         e)' PROVE fence' \in {e, Quarantined}
        BY Zenon, <3>1, <3>2, <3>3, <4>2, <2>a, ConstantsAssumption DEF MarkerInv,
           Stateful
      <4>3. ASSUME Stateful', NEW e \in dirty', NEW f \in dirty' PROVE e = f
        BY <3>1, <3>2, <3>3, <4>3, <2>a, ConstantsAssumption, SMTT(30) DEF MarkerInv,
           Stateful
      <4>4. ASSUME Stateful', NEW e \in dirty', NEW f \in Assignments, NEW j \in Incarnations,
         Held(j, f)' PROVE e = f
        BY Zenon, <3>1, <3>2, <3>3, <4>4, <2>a, ConstantsAssumption DEF MarkerInv,
           Stateful
      <4>5. ASSUME Stateful', NEW e \in Assignments, NEW f \in Assignments,
         NEW j \in Incarnations, NEW k \in Incarnations,
                   Held(j, e)', Held(k, f)' PROVE e = f
        BY Zenon, <3>1, <3>2, <3>3, <4>5, <2>a, ConstantsAssumption DEF MarkerInv,
           Stateful
      <4> QED
        BY Zenon, <4>1, <4>2, <4>3, <4>4, <4>5 DEF MarkerInv
  <2>23. ASSUME NEW i \in Incarnations, AcknowledgeFails(i) PROVE MarkerInv'
    <3>1. ASSUME NEW e \in Assignments, NEW j \in Incarnations, Held(j, e)' PROVE Held(j, e)
      BY Zenon, <2>23, <3>1 DEF AcknowledgeFails, WorkerGoto, Held, Deliverable
    <3>2. kind' = kind /\ fence' = fence /\ dirty' \subseteq dirty
      BY Zenon, <2>23 DEF AcknowledgeFails, WorkerGoto
    <3> QED
      BY Zenon, <3>1, <3>2, <2>s
  <2>24. ASSUME NEW i \in Incarnations, Execute(i) PROVE MarkerInv'
    <3>1. ASSUME NEW e \in Assignments, NEW j \in Incarnations, Held(j, e)' PROVE Held(j, e)
      BY ZenonT(60), <2>24, <3>1 DEF Execute, WorkerGoto, Held, Deliverable
    <3>2. kind' = kind /\ fence' = fence /\ dirty' \subseteq dirty
      BY Zenon, <2>24 DEF Execute, WorkerGoto
    <3> QED
      BY Zenon, <3>1, <3>2, <2>s
  <2>25. ASSUME NEW i \in Incarnations, Settle(i) PROVE MarkerInv'
    <3>1. ASSUME NEW e \in Assignments, NEW j \in Incarnations, Held(j, e)' PROVE Held(j, e)
      BY ZenonT(60), <2>25, <3>1 DEF Settle, WorkerGoto, WorkerDone, SettleAccepts,
         DiscardClaim,
         Held, Deliverable
    <3>2. kind' = kind /\ dirty' \subseteq dirty
      BY Zenon, <2>25 DEF Settle, WorkerGoto, WorkerDone, SettleAccepts, DiscardClaim
    <3>t. PICK t \in Assignments : t = task[i]
      BY <2>25, SMTT(30) DEF Settle, WorkerGoto, WorkerDone, SettleAccepts, DiscardClaim,
         ControlInv
    <3>3. CASE fence' = fence
      BY Zenon, <3>1, <3>2, <3>3, <2>s
    <3>4. CASE fence' # fence
      <4>1. t \in Assignments /\ fence = t /\ fence' = None
        BY Zenon, <2>25, <3>t, <3>4 DEF Settle, WorkerGoto, WorkerDone, SettleAccepts,
           DiscardClaim, ControlInv
      <4>2. t \notin dirty'
        BY ZenonT(60), <2>25, <3>t, <3>4 DEF Settle, WorkerGoto, WorkerDone, SettleAccepts,
           DiscardClaim, DirtyInv, DirtyAt, ControlInv, PlaceInv, Deliverable
      <4>3. ASSUME NEW j \in Incarnations, Held(j, t)' PROVE FALSE
        <5>1. Held(j, t)
          BY Zenon, <3>1, <4>1, <4>3
        <5>2. j = i
          BY <3>t, <4>1, <5>1, SMTT(30) DEF PlaceInv, Held
        <5> QED
          BY <2>25, <3>t, <4>1, <4>3, <5>2, SMTT(30) DEF Settle, WorkerGoto, WorkerDone,
             SettleAccepts, DiscardClaim, Held, Deliverable, PlaceInv, ControlInv
      <4>4. \A e \in Assignments, j \in Incarnations : Held(j, e)' => Held(j, e) /\ e # t
        BY <3>1, <4>3, SMTT(30)
      <4> QED
        BY Zenon, <3>2, <4>1, <4>2, <4>4, <2>w
    <3> QED
      BY Zenon, <3>3, <3>4
  <2>26. ASSUME NEW i \in Incarnations, SettleAgain(i) PROVE MarkerInv'
    <3>1. ASSUME NEW e \in Assignments, NEW j \in Incarnations, Held(j, e)' PROVE Held(j, e)
      BY Zenon, <2>26, <3>1 DEF SettleAgain, WorkerGoto, WorkerDone, Held, Deliverable
    <3>2. kind' = kind /\ fence' = fence /\ dirty' \subseteq dirty
      BY Zenon, <2>26 DEF SettleAgain, WorkerGoto, WorkerDone
    <3> QED
      BY Zenon, <3>1, <3>2, <2>s
  <2>27. ASSUME NEW i \in Incarnations, SettleFails(i) PROVE MarkerInv'
    <3>1. ASSUME NEW e \in Assignments, NEW j \in Incarnations, Held(j, e)' PROVE Held(j, e)
      BY ZenonT(60), <2>27, <3>1 DEF SettleFails, WorkerGoto, WorkerDone, SettleAccepts,
         Held,
         Deliverable
    <3>2. kind' = kind /\ fence' = fence /\ dirty' \subseteq dirty
      BY Zenon, <2>27 DEF SettleFails, WorkerGoto, WorkerDone, SettleAccepts
    <3> QED
      BY Zenon, <3>1, <3>2, <2>s
  <2>28. ASSUME NEW i \in Incarnations, WorkerCrash(i) PROVE MarkerInv'
    <3>1. ASSUME NEW e \in Assignments, NEW j \in Incarnations, Held(j, e)' PROVE Held(j, e)
      BY Zenon, <2>28, <3>1 DEF WorkerCrash, WorkerGoto, Held, Deliverable
    <3>2. kind' = kind /\ fence' = fence /\ dirty' \subseteq dirty
      BY Zenon, <2>28 DEF WorkerCrash, WorkerGoto
    <3> QED
      BY Zenon, <3>1, <3>2, <2>s
  <2>29. ASSUME NEW i \in Incarnations, NEW d \in Assignments, ReturnAbandoned(i, d) PROVE MarkerInv'
    <3>1. ASSUME NEW e \in Assignments, NEW j \in Incarnations, Held(j, e)' PROVE Held(j, e)
      BY <2>29, <3>1, SMTT(30) DEF ReturnAbandoned, workRest, ReturnLease, Held, Deliverable
    <3>2. kind' = kind /\ fence' = fence /\ dirty' \subseteq dirty
      BY Zenon, <2>29 DEF ReturnAbandoned, workRest, ReturnLease
    <3> QED
      BY Zenon, <3>1, <3>2, <2>s
  <2>30. CASE RegistrationExpires
    BY ZenonT(60), <2>30, <2>c DEF RegistrationExpires
  <2>31. CASE ResetWorkspace
    BY <2>31, SMTT(30) DEF ResetWorkspace, MarkerInv, PlaceInv, Held, Deliverable
  <2>32. ASSUME NEW d \in Assignments, Deadline(d) PROVE MarkerInv'
    <3>1. UNCHANGED <<kind, wpc, queue, claim, dirty, fence>>
      BY Zenon, <2>32 DEF Deadline
    <3> QED
      BY Zenon, <3>1, <2>c
  <2>33. ASSUME NEW d \in Assignments, LockExpires(d) PROVE MarkerInv'
    BY Zenon, <2>33, <2>c DEF LockExpires
  <2>34. ASSUME NEW d \in Assignments, AssignmentExpires(d) PROVE MarkerInv'
    <3>1. ASSUME NEW e \in Assignments, NEW j \in Incarnations, Held(j, e)' PROVE Held(j, e)
      BY Zenon, <2>34, <3>1 DEF AssignmentExpires, Held, Deliverable
    <3>2. kind' = kind /\ fence' = fence /\ dirty' \subseteq dirty
      BY Zenon, <2>34 DEF AssignmentExpires
    <3> QED
      BY Zenon, <3>1, <3>2, <2>s
  <2>35. CASE UNCHANGED vars
    BY Zenon, <2>35, <2>c DEF vars
  <2> QED
    BY Zenon, <2>1, <2>2, <2>3, <2>4, <2>5, <2>6, <2>7, <2>8, <2>9, <2>10, <2>11, <2>12,
       <2>13, <2>14,
       <2>15, <2>16, <2>17, <2>18, <2>19, <2>20, <2>21, <2>22, <2>23, <2>24, <2>25, <2>26, <2>27,
       <2>28, <2>29, <2>30, <2>31, <2>32, <2>33, <2>34, <2>35 DEF Next, DispatchStep, WorkerStep
<1> QED
  BY <1>1, <1>2, TypeInvariant, PlaceInvariant, SettledInvariant, DirtyInvariant,
     PTL DEF Spec

-----------------------------------------------------------------------------
(* The in-flight marker of a workspace stays as long as it may hold effects
   that no result accounts for, whoever crashes and whatever expires. *)
THEOREM MarkerKept ==
  ASSUME Returns = "prompt"
  PROVE  Spec => []FenceHolds
<1>1. TypeInv /\ MarkerInv => FenceHolds
  BY ConstantsAssumption DEF TypeInv, TypeOK, MarkerInv, FenceHolds
<1> QED
  BY <1>1, TypeInvariant, MarkerInvariant, PTL

(* Two processes of a worker never execute in the workspace together. *)
THEOREM Exclusion ==
  ASSUME Returns = "prompt"
  PROVE  Spec => []ExclusiveExecution
<1>1. TypeInv /\ PlaceInv /\ DirtyInv /\ MarkerInv => ExclusiveExecution
  BY DEF TypeInv, TypeOK, ControlInv, PlaceInv, DirtyInv, DirtyAt, MarkerInv,
     ExclusiveExecution,
     Stateful
<1> QED
  BY <1>1, TypeInvariant, PlaceInvariant, DirtyInvariant, MarkerInvariant, PTL

(* No step but an acknowledgement moves a process to "run". *)
LEMMA OnlyAcknowledgeStarts ==
  ASSUME wpc \in [Incarnations -> WorkerStates], [Next]_vars,
         NEW j \in Incarnations, wpc[j] # "run", wpc'[j] = "run"
  PROVE  Acknowledge(j)
<1> USE DEF worker
<1>1. ASSUME NEW d \in Assignments, Begin(d) PROVE FALSE
  BY Zenon, <1>1 DEF Begin
<1>2. ASSUME NEW d \in Assignments, Acquire(d) PROVE FALSE
  BY Zenon, <1>2 DEF Acquire
<1>3. ASSUME NEW d \in Assignments, EnqueueElsewhere(d) PROVE FALSE
  BY Zenon, <1>3 DEF EnqueueElsewhere
<1>4. ASSUME NEW d \in Assignments, Enqueue(d) PROVE FALSE
  BY Zenon, <1>4 DEF Enqueue
<1>5. ASSUME NEW d \in Assignments, EnqueueFails(d) PROVE FALSE
  BY Zenon, <1>5 DEF EnqueueFails
<1>6. ASSUME NEW d \in Assignments, Poll(d) PROVE FALSE
  BY Zenon, <1>6 DEF Poll
<1>7. ASSUME NEW d \in Assignments, Close(d) PROVE FALSE
  BY Zenon, <1>7 DEF Close
<1>8. ASSUME NEW d \in Assignments, Commit(d) PROVE FALSE
  BY Zenon, <1>8 DEF Commit
<1>9. ASSUME NEW d \in Assignments, PassRejection(d) PROVE FALSE
  BY Zenon, <1>9 DEF PassRejection
<1>10. ASSUME NEW d \in Assignments, FinalizeFails(d) PROVE FALSE
  BY Zenon, <1>10 DEF FinalizeFails
<1>11. ASSUME NEW d \in Assignments, Quarantine(d) PROVE FALSE
  BY Zenon, <1>11 DEF Quarantine
<1>12. ASSUME NEW d \in Assignments, Cleanup(d) PROVE FALSE
  BY Zenon, <1>12 DEF Cleanup
<1>13. ASSUME NEW d \in Assignments, Release(d) PROVE FALSE
  BY Zenon, <1>13 DEF Release
<1>14. ASSUME NEW d \in Assignments, DispatcherCrash(d) PROVE FALSE
  BY Zenon, <1>14 DEF DispatcherCrash
<1>15. ASSUME NEW i \in Incarnations, Register(i) PROVE FALSE
  BY Zenon, <1>15 DEF Register
<1>16. ASSUME NEW i \in Incarnations, Lease(i) PROVE FALSE
  BY Zenon, <1>16 DEF Lease, WorkerGoto
<1>17. ASSUME NEW i \in Incarnations, Deliver(i) PROVE FALSE
  BY Zenon, <1>17 DEF Deliver, WorkerGoto
<1>18. ASSUME NEW i \in Incarnations, LeaseGone(i) PROVE FALSE
  BY Zenon, <1>18 DEF LeaseGone, WorkerGoto
<1>19. ASSUME NEW i \in Incarnations, LeaseExpired(i) PROVE FALSE
  BY Zenon, <1>19 DEF LeaseExpired, WorkerGoto
<1>20. ASSUME NEW i \in Incarnations, LeaseFenced(i) PROVE FALSE
  BY Zenon, <1>20 DEF LeaseFenced, WorkerGoto
<1>21. ASSUME NEW i \in Incarnations, Abandon(i) PROVE FALSE
  BY Zenon, <1>21 DEF Abandon, WorkerGoto
<1>22. ASSUME NEW i \in Incarnations, Acknowledge(i) PROVE i = j
  BY Zenon, <1>22 DEF Acknowledge, WorkerGoto
<1>23. ASSUME NEW i \in Incarnations, AcknowledgeFails(i) PROVE FALSE
  BY Zenon, <1>23 DEF AcknowledgeFails, WorkerGoto
<1>24. ASSUME NEW i \in Incarnations, Execute(i) PROVE FALSE
  BY Zenon, <1>24 DEF Execute, WorkerGoto
<1>25. ASSUME NEW i \in Incarnations, Settle(i) PROVE FALSE
  BY Zenon, <1>25 DEF Settle, WorkerGoto, WorkerDone
<1>26. ASSUME NEW i \in Incarnations, SettleAgain(i) PROVE FALSE
  BY Zenon, <1>26 DEF SettleAgain, WorkerGoto, WorkerDone
<1>27. ASSUME NEW i \in Incarnations, SettleFails(i) PROVE FALSE
  BY Zenon, <1>27 DEF SettleFails, WorkerGoto, WorkerDone
<1>28. ASSUME NEW i \in Incarnations, WorkerCrash(i) PROVE FALSE
  BY Zenon, <1>28 DEF WorkerCrash, WorkerGoto
<1>29. ASSUME NEW i \in Incarnations, NEW d \in Assignments, ReturnAbandoned(i, d) PROVE FALSE
  BY Zenon, <1>29 DEF ReturnAbandoned
<1>30. ASSUME RegistrationExpires \/ ResetWorkspace PROVE FALSE
  BY Zenon, <1>30 DEF RegistrationExpires, ResetWorkspace
<1>31. ASSUME NEW d \in Assignments, Deadline(d) \/ LockExpires(d) \/ AssignmentExpires(d) PROVE FALSE
  BY Zenon, <1>31 DEF Deadline, LockExpires, AssignmentExpires
<1>32. ASSUME UNCHANGED vars PROVE FALSE
  BY Zenon, <1>32 DEF vars
<1> QED
  BY Zenon, <1>1, <1>2, <1>3, <1>4, <1>5, <1>6, <1>7, <1>8, <1>9, <1>10, <1>11, <1>12,
     <1>13,
     <1>14, <1>15, <1>16, <1>17, <1>18, <1>19, <1>20, <1>21, <1>22, <1>23, <1>24, <1>25,
     <1>26, <1>27, <1>28, <1>29, <1>30, <1>31, <1>32
     DEF Next, DispatchStep, WorkerStep

(* An execution starts only in a workspace without unaccounted effects. *)
THEOREM StartsOnlyClean ==
  ASSUME Returns = "prompt"
  PROVE  Spec => CleanStart
<1>1. TypeInv /\ DirtyInv /\ MarkerInv /\ [Next]_vars => [StartsClean]_vars
  <2> SUFFICES ASSUME TypeInv, DirtyInv, MarkerInv, [Next]_vars,
                      NEW i \in Incarnations, Stateful, wpc[i] # "run", wpc'[i] = "run"
               PROVE  dirty = {}
    BY Zenon DEF StartsClean
  <2>1. wpc \in [Incarnations -> WorkerStates] /\ task[i] \in Assignments \cup {None} /\ dirty \subseteq Assignments
    BY Zenon DEF TypeInv, TypeOK
  <2>2. Acknowledge(i)
    BY Zenon, <2>1, OnlyAcknowledgeStarts
  <2>3. wpc[i] = "leased" /\ claim[i] = task[i]
    BY Zenon, <2>2 DEF Acknowledge
  <2>4. task[i] \in Assignments
    BY Zenon, <2>1, <2>3 DEF TypeInv, ControlInv
  <2>5. Held(i, task[i]) /\ task[i] \notin dirty
    BY Zenon, <2>3 DEF Held, Deliverable, DirtyInv, DirtyAt
  <2> QED
    BY Zenon, <2>4, <2>5 DEF MarkerInv
<1> QED
  BY <1>1, TypeInvariant, DirtyInvariant, MarkerInvariant, PTL DEF Spec, CleanStart
=============================================================================
