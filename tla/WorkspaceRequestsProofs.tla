----------------------- MODULE WorkspaceRequestsProofs -----------------------
(***************************************************************************)
(* Proofs about WorkspaceRequests, for every set of attempts and every     *)
(* bound on faults: however the attempts of several replicas overlap, one  *)
(* command at most, an outcome that is true and final, and nothing left    *)
(* behind.                                                                 *)
(***************************************************************************)
EXTENDS WorkspaceRequests, TLAPS

(* An attempt about to write has decided on an outcome, and a completion   *)
(* keeps the settlement it rests on.                                       *)
DecidedInv ==
  /\ \A p \in Attempts : pc[p] = "write" =>
       out[p] \in Outcomes /\ (out[p].state = "completed" => out[p].kept = "fulfilled")
  /\ state = "completed" => kept = "fulfilled"
  /\ state \notin Ended => reason = "none"

(* Nothing is queued before the admission, and while an attempt that found *)
(* the request queued holds the claim, it is queued: only the holder may   *)
(* admit it or end it.                                                     *)
ClaimInv ==
  /\ pushed \in {0, 1}
  /\ state \in {"absent", "queued"} => pushed = 0
  /\ state \in {"queued", "admitted"} => active
  /\ state = "absent" => ~active /\ \A p \in Attempts : pc[p] = "idle"
  /\ \A p \in Attempts : claim = p /\ pc[p] \in {"admit", "enqueue"} => state = "queued"
  /\ \A p \in Attempts : claim = p /\ pc[p] = "write" /\ out[p].reason = "unstarted" => state = "queued"
  /\ reason = "unstarted" => pushed = 0

(* A request that was completed or never started: its outcome is final,    *)
(* and whatever it holds is only given back from now on.                   *)
Closed == state = "completed" \/ reason = "unstarted"

(* The steps of finishDurableWorkspaceTool leave behind what they have     *)
(* dealt with, although the steps of other attempts come in between.       *)
FinishInv ==
  /\ marker = "req" => pushed # 0
  /\ committed => marker # "req" /\ state \in Ended
  /\ \A p \in Attempts : pc[p] \in {"commit", "cleanup", "unlock", "leave", "retire"} => state \in Ended
  /\ \A p \in Attempts : Closed /\ pc[p] \in {"cleanup", "unlock", "leave", "retire"} => marker # "req"
  /\ \A p \in Attempts : Closed /\ pc[p] \in {"leave", "retire"} => lock # "req"
  /\ \A p \in Attempts : Closed /\ pc[p] = "retire" => ~waiting
  /\ NothingLeftBehind

IInv == TypeOK /\ DecidedInv /\ ClaimInv /\ FinishInv

-----------------------------------------------------------------------------
(* How an attempt moves on: to one of the steps S, the others stay.        *)
Moved(p, S) ==
  /\ pc' \in [Attempts -> Steps] /\ zombie' \subseteq Attempts /\ faults' \in 0..MaxFaults
  /\ pc'[p] \in S
  /\ \A q \in Attempts \ {p} : pc'[q] = pc[q]

(* An attempt that goes on takes the next step of its transition, or ends  *)
(* there if its deadline has passed.                                       *)
LEMMA GotoMoves ==
  ASSUME TypeOK, NEW p \in Attempts, NEW next \in Steps, Goto(p, next), faults' \in 0..MaxFaults
  PROVE  Moved(p, {next, "idle"})
<1> DEFINE to == IF p \in zombie /\ next \in {"write", "failwrite", "reread", "retire", "unclaim"}
                   THEN "idle" ELSE next
<1>1. pc' = [pc EXCEPT ![p] = to] /\ zombie' \subseteq zombie
  BY Zenon DEF Goto
<1>2. to \in Steps /\ to \in {next, "idle"}
  BY Zenon DEF Steps
<1>3. pc \in [Attempts -> Steps] /\ zombie \subseteq Attempts
  BY Zenon DEF TypeOK, AttemptsOK
<1> HIDE DEF to
<1> QED
  BY Zenon, <1>1, <1>2, <1>3 DEF Moved

(* So does one whose script was answered.                                  *)
LEMMA RepliedMoves ==
  ASSUME TypeOK, NEW p \in Attempts, NEW next \in Steps, Replied(p, next)
  PROVE  Moved(p, {next, "idle"})
<1>1. faults' \in 0..MaxFaults
  BY Zenon DEF Replied, TypeOK, AttemptsOK
<1> QED
  BY Zenon, <1>1, GotoMoves DEF Replied

(* A lost reply is one more fault, within the bound.                       *)
LEMMA LostReplyMoves ==
  ASSUME TypeOK, NEW p \in Attempts, LostReply(p)
  PROVE  Moved(p, {"unclaim", "idle"})
<1>1. faults' \in 0..MaxFaults
  BY ConstantsAssumption DEF LostReply, TypeOK, AttemptsOK
<1>2. "unclaim" \in Steps
  BY Zenon DEF Steps
<1> QED
  BY Zenon, <1>1, <1>2, GotoMoves DEF LostReply

(* A script is answered, or its reply is lost and the claim is given back. *)
LEMMA SentMoves ==
  ASSUME TypeOK, NEW p \in Attempts, NEW next \in Steps, Sent(p, next)
  PROVE  Moved(p, {next, "unclaim", "idle"})
<1>1. CASE Replied(p, next)
  BY Zenon, <1>1, RepliedMoves DEF Moved
<1>2. CASE LostReply(p)
  BY Zenon, <1>2, LostReplyMoves DEF Moved
<1> QED
  BY Zenon, <1>1, <1>2 DEF Sent

(* A replica whose clock is behind moves on as if in time, at the cost of  *)
(* a fault.                                                                *)
LEMMA InTimeMoves ==
  ASSUME TypeOK, NEW p \in Attempts, NEW open, NEW next \in Steps, InTime(p, open, next)
  PROVE  Moved(p, {next, "idle"})
<1>1. CASE Replied(p, next)
  BY Zenon, <1>1, RepliedMoves
<1>2. CASE faults < MaxFaults /\ faults' = faults + 1 /\ Goto(p, next)
  <2>1. faults' \in 0..MaxFaults
    BY <1>2, ConstantsAssumption DEF TypeOK, AttemptsOK
  <2> QED
    BY Zenon, <1>2, <2>1, GotoMoves
<1> QED
  BY Zenon, <1>1, <1>2 DEF InTime

(* However the attempts overlap, every step keeps the inductive invariant. *)
THEOREM RequestInvariant == Spec => []IInv
<1>1. Init => IInv
  <2> SUFFICES ASSUME Init PROVE IInv
    BY Zenon
  <2>1. FlagsOK
    BY ConstantsAssumption, Zenon DEF Init, FlagsOK
  <2>2. SeenOK
    BY Zenon DEF Init, SeenOK, States
  <2>3. RequestOK /\ BridgeOK /\ AttemptsOK
    BY ConstantsAssumption DEF Init, RequestOK, BridgeOK, AttemptsOK, States, Steps
  <2>4. DecidedInv /\ ClaimInv
    BY Zenon DEF Init, DecidedInv, ClaimInv
  <2>5. FinishInv
    BY Zenon, ConstantsAssumption DEF Init, FinishInv, NothingLeftBehind, Closed
  <2> QED
    BY Zenon, <2>1, <2>2, <2>3, <2>4, <2>5 DEF IInv, TypeOK
<1> SUFFICES IInv /\ [Next]_vars => IInv'
  BY <1>1, PTL DEF Spec
<1> SUFFICES ASSUME IInv, [Next]_vars PROVE IInv'
  BY Zenon
<1>2. ASSUME Submit
      PROVE  IInv'
  <2>2. TypeOK'
    <3>1. RequestOK'
      BY Zenon, <1>2, ConstantsAssumption DEF Submit, vars, request, sets, clock, bridge,
         proc, IInv, TypeOK, RequestOK,
         DecidedInv, Outcomes, States, Ended
    <3>2. BridgeOK'
      BY Zenon, <1>2, ConstantsAssumption DEF Submit, vars, request, sets, clock, bridge,
         proc, IInv, TypeOK, BridgeOK,
         ClaimInv
    <3>3. AttemptsOK'
      BY Zenon, <1>2, ConstantsAssumption DEF Submit, vars, request, sets, clock, bridge,
         proc, IInv, TypeOK,
         AttemptsOK, Outcomes, Ended
    <3>4. FlagsOK'
      BY <1>2, ConstantsAssumption, Zenon DEF Submit, vars, request, sets, clock, bridge,
         proc, IInv, TypeOK,
         FlagsOK
    <3>5. SeenOK'
      BY Zenon, <1>2, ConstantsAssumption DEF Submit, vars, request, sets, clock, bridge,
         proc, IInv, TypeOK, SeenOK,
         RequestOK, FlagsOK, States
    <3> QED
      BY Zenon, <3>1, <3>2, <3>3, <3>4, <3>5 DEF TypeOK
  <2>3. DecidedInv'
    BY Zenon, <1>2, ConstantsAssumption DEF Submit, vars, request, sets, clock, bridge,
       proc, IInv, TypeOK, RequestOK,
       BridgeOK, AttemptsOK, DecidedInv, Ended, Outcomes
  <2>4. ClaimInv'
    BY Zenon, <1>2, ConstantsAssumption DEF Submit, vars, request, sets, clock, bridge,
       proc, IInv, TypeOK, RequestOK,
       BridgeOK, AttemptsOK, DecidedInv, ClaimInv, Ended
  <2>5. FinishInv'
    BY Zenon, <1>2, ConstantsAssumption DEF Submit, vars, request, sets, clock, bridge,
       proc, IInv, TypeOK, RequestOK,
       BridgeOK, AttemptsOK, DecidedInv, ClaimInv, FinishInv, NothingLeftBehind, Closed, Ended
  <2> QED
    BY Zenon, <2>2, <2>3, <2>4, <2>5 DEF IInv
<1>3. ASSUME Cancel
      PROVE  IInv'
  <2>2. TypeOK'
    <3>1. RequestOK'
      BY Zenon, <1>3, ConstantsAssumption DEF Cancel, vars, request, sets, clock, bridge,
         proc, IInv, TypeOK, RequestOK,
         DecidedInv, Outcomes, States, Ended
    <3>2. BridgeOK'
      BY Zenon, <1>3, ConstantsAssumption DEF Cancel, vars, request, sets, clock, bridge,
         proc, IInv, TypeOK, BridgeOK,
         ClaimInv
    <3>3. AttemptsOK'
      BY Zenon, <1>3, ConstantsAssumption DEF Cancel, vars, request, sets, clock, bridge,
         proc, IInv, TypeOK,
         AttemptsOK, Outcomes, Ended
    <3>4. FlagsOK'
      BY <1>3, ConstantsAssumption, Zenon DEF Cancel, vars, request, sets, clock, bridge,
         proc, IInv, TypeOK,
         FlagsOK
    <3>5. SeenOK'
      BY Zenon, <1>3, ConstantsAssumption DEF Cancel, vars, request, sets, clock, bridge,
         proc, IInv, TypeOK, SeenOK,
         RequestOK, FlagsOK, States
    <3> QED
      BY Zenon, <3>1, <3>2, <3>3, <3>4, <3>5 DEF TypeOK
  <2>3. DecidedInv'
    BY Zenon, <1>3, ConstantsAssumption DEF Cancel, vars, request, sets, clock, bridge,
       proc, IInv, TypeOK, RequestOK,
       BridgeOK, AttemptsOK, DecidedInv, Ended, Outcomes
  <2>4. ClaimInv'
    BY Zenon, <1>3, ConstantsAssumption DEF Cancel, vars, request, sets, clock, bridge,
       proc, IInv, TypeOK, RequestOK,
       BridgeOK, AttemptsOK, DecidedInv, ClaimInv, Ended
  <2>5. FinishInv'
    BY Zenon, <1>3, ConstantsAssumption DEF Cancel, vars, request, sets, clock, bridge,
       proc, IInv, TypeOK, RequestOK,
       BridgeOK, AttemptsOK, DecidedInv, ClaimInv, FinishInv, NothingLeftBehind, Closed, Ended
  <2> QED
    BY Zenon, <2>2, <2>3, <2>4, <2>5 DEF IInv
<1>4. ASSUME NEW p \in Attempts, Claim(p)
      PROVE  IInv'
  <2>1. Moved(p, {"read"})
    BY Zenon, <1>4, ConstantsAssumption DEF Claim, Moved, IInv, TypeOK, AttemptsOK, Steps
  <2>2. TypeOK'
    <3>1. RequestOK'
      BY Zenon, <1>4, <2>1, ConstantsAssumption DEF Claim, vars, request, sets, clock,
         bridge, proc, Moved, IInv,
         TypeOK, RequestOK, DecidedInv, Outcomes, States, Ended
    <3>2. BridgeOK'
      BY Zenon, <1>4, <2>1, ConstantsAssumption DEF Claim, vars, request, sets, clock,
         bridge, proc, Moved, IInv,
         TypeOK, BridgeOK, ClaimInv
    <3>3. AttemptsOK'
      BY Zenon, <1>4, <2>1, ConstantsAssumption DEF Claim, vars, request, sets, clock,
         bridge, proc, Moved, IInv,
         TypeOK, AttemptsOK, Outcomes, Ended
    <3>4. FlagsOK'
      BY <1>4, <2>1, ConstantsAssumption, Zenon DEF Claim, vars, request, sets, clock,
         bridge, proc, Moved, IInv,
         TypeOK, FlagsOK
    <3>5. SeenOK'
      BY Zenon, <1>4, <2>1, ConstantsAssumption DEF Claim, vars, request, sets, clock,
         bridge, proc, Moved, IInv,
         TypeOK, SeenOK, RequestOK, FlagsOK, States
    <3> QED
      BY Zenon, <3>1, <3>2, <3>3, <3>4, <3>5 DEF TypeOK
  <2>3. DecidedInv'
    BY ZenonT(60), <1>4, <2>1, ConstantsAssumption DEF Claim, vars, request, sets, clock,
       bridge, proc, Moved, IInv, TypeOK,
       RequestOK, BridgeOK, AttemptsOK, DecidedInv, Ended, Outcomes
  <2>4. ClaimInv'
    BY Zenon, <1>4, <2>1, ConstantsAssumption DEF Claim, vars, request, sets, clock,
       bridge, proc, Moved, IInv, TypeOK,
       RequestOK, BridgeOK, AttemptsOK, DecidedInv, ClaimInv, Ended
  <2>5. FinishInv'
    BY Zenon, <1>4, <2>1, ConstantsAssumption DEF Claim, vars, request, sets, clock,
       bridge, proc, Moved, IInv, TypeOK,
       RequestOK, BridgeOK, AttemptsOK, DecidedInv, ClaimInv, FinishInv, NothingLeftBehind, Closed, Ended
  <2> QED
    BY Zenon, <2>2, <2>3, <2>4, <2>5 DEF IInv
<1>5. ASSUME NEW p \in Attempts, Read(p)
      PROVE  IInv'
  <2>1. Moved(p, {AfterRead(state), "idle"})
    BY Zenon, <1>5, RepliedMoves DEF Read, AfterRead, IInv, Steps
  <2>2. TypeOK'
    <3>1. RequestOK'
      BY Zenon, <1>5, <2>1, ConstantsAssumption DEF Read, vars, request, sets, clock,
         bridge, proc, AfterRead, Moved,
         IInv, TypeOK, RequestOK, DecidedInv, Outcomes, States, Ended
    <3>2. BridgeOK'
      BY Zenon, <1>5, <2>1, ConstantsAssumption DEF Read, vars, request, sets, clock,
         bridge, proc, AfterRead, Moved,
         IInv, TypeOK, BridgeOK, ClaimInv
    <3>3. AttemptsOK'
      BY Zenon, <1>5, <2>1, ConstantsAssumption DEF Read, vars, request, sets, clock,
         bridge, proc, AfterRead, Moved,
         IInv, TypeOK, AttemptsOK, Outcomes, Ended
    <3>4. FlagsOK'
      BY <1>5, <2>1, ConstantsAssumption, Zenon DEF Read, vars, request, sets, clock,
         bridge, proc, AfterRead,
         Moved, IInv, TypeOK, FlagsOK
    <3>5. SeenOK'
      BY Zenon, <1>5, <2>1, ConstantsAssumption DEF Read, vars, request, sets, clock,
         bridge, proc, AfterRead, Moved,
         IInv, TypeOK, SeenOK, RequestOK, FlagsOK, States
    <3> QED
      BY Zenon, <3>1, <3>2, <3>3, <3>4, <3>5 DEF TypeOK
  <2>3. DecidedInv'
    BY Zenon, <1>5, <2>1, ConstantsAssumption DEF Read, vars, request, sets, clock,
       bridge, proc, AfterRead, Moved,
       IInv, TypeOK, RequestOK, BridgeOK, AttemptsOK, DecidedInv, Ended, Outcomes
  <2>4. ClaimInv'
    BY ZenonT(60), <1>5, <2>1, ConstantsAssumption DEF Read, vars, request, sets, clock,
       bridge, proc, AfterRead, Moved,
       IInv, TypeOK, RequestOK, BridgeOK, AttemptsOK, DecidedInv, ClaimInv, Ended
  <2>5. FinishInv'
    <3>1. state # "absent"
      BY Zenon, <1>5 DEF Read, IInv, ClaimInv
    <3>2. pc'[p] \in {"admit", "observe", "idle"} \/ (pc'[p] = "commit" /\ state \in Ended)
      BY Zenon, <2>1, <3>1 DEF AfterRead, Moved, IInv, TypeOK, RequestOK, States
    <3> QED
      BY Zenon, <1>5, <2>1, <3>2 DEF Read, request, sets, bridge, Moved, IInv, FinishInv,
         NothingLeftBehind, Closed
  <2> QED
    BY Zenon, <2>2, <2>3, <2>4, <2>5 DEF IInv
<1>6. ASSUME NEW p \in Attempts, DecideUnstarted(p)
      PROVE  IInv'
  <2>1. Moved(p, {"write", "idle"})
    BY Zenon, <1>6, RepliedMoves DEF DecideUnstarted, Decide, IInv, Steps
  <2>2. TypeOK'
    <3>1. RequestOK'
      BY Zenon, <1>6, <2>1, ConstantsAssumption DEF DecideUnstarted, vars, request, sets,
         clock, bridge, proc, Decide,
         Moved, IInv, TypeOK, RequestOK, DecidedInv, Outcomes, States, Ended
    <3>2. BridgeOK'
      BY Zenon, <1>6, <2>1, ConstantsAssumption DEF DecideUnstarted, vars, request, sets,
         clock, bridge, proc, Decide,
         Moved, IInv, TypeOK, BridgeOK, ClaimInv
    <3>3. AttemptsOK'
      BY <1>6, <2>1, ConstantsAssumption DEF DecideUnstarted, vars, request, sets, clock,
         bridge, proc, Decide,
         Moved, IInv, TypeOK, AttemptsOK, Outcomes, Ended
    <3>4. FlagsOK'
      BY <1>6, <2>1, ConstantsAssumption, Zenon DEF DecideUnstarted, vars, request, sets,
         clock, bridge, proc,
         Decide, Moved, IInv, TypeOK, FlagsOK
    <3>5. SeenOK'
      BY Zenon, <1>6, <2>1, ConstantsAssumption DEF DecideUnstarted, vars, request, sets,
         clock, bridge, proc, Decide,
         Moved, IInv, TypeOK, SeenOK, RequestOK, FlagsOK, States
    <3> QED
      BY Zenon, <3>1, <3>2, <3>3, <3>4, <3>5 DEF TypeOK
  <2>3. DecidedInv'
    BY <1>6, <2>1, ConstantsAssumption DEF DecideUnstarted, vars, request, sets, clock,
       bridge, proc, Decide,
       Moved, IInv, TypeOK, RequestOK, BridgeOK, AttemptsOK, DecidedInv, Ended, Outcomes
  <2>4. ClaimInv'
    BY ZenonT(60), <1>6, <2>1, ConstantsAssumption DEF DecideUnstarted, vars, request, sets,
       clock, bridge, proc, Decide,
       Moved, IInv, TypeOK, RequestOK, BridgeOK, AttemptsOK, DecidedInv, ClaimInv, Ended
  <2>5. FinishInv'
    BY ZenonT(60), <1>6, <2>1, ConstantsAssumption DEF DecideUnstarted, vars, request, sets,
       clock, bridge, proc, Decide,
       Moved, IInv, TypeOK, RequestOK, BridgeOK, AttemptsOK, DecidedInv, ClaimInv, FinishInv, NothingLeftBehind,
    Closed, Ended
  <2> QED
    BY Zenon, <2>2, <2>3, <2>4, <2>5 DEF IInv
<1>7. ASSUME NEW p \in Attempts, WorkerUnavailable(p)
      PROVE  IInv'
  <2>1. Moved(p, {"unclaim", "failwrite", "idle"})
    <3>1. InTime(p, queueOpen, "unclaim") => Moved(p, {"unclaim", "idle"})
      BY Zenon, InTimeMoves DEF IInv, Steps
    <3>2. InTime(p, queueOpen, "failwrite") => Moved(p, {"failwrite", "idle"})
      BY Zenon, InTimeMoves DEF IInv, Steps
    <3> QED
      BY Zenon, <1>7, <3>1, <3>2 DEF WorkerUnavailable, Moved
  <2>2. TypeOK'
    <3>1. RequestOK'
      BY Zenon, <1>7, <2>1, ConstantsAssumption DEF WorkerUnavailable, vars, request,
         sets, clock, bridge, proc, Moved,
         IInv, TypeOK, RequestOK, DecidedInv, Outcomes, States, Ended
    <3>2. BridgeOK'
      BY Zenon, <1>7, <2>1, ConstantsAssumption DEF WorkerUnavailable, vars, request,
         sets, clock, bridge, proc, Moved,
         IInv, TypeOK, BridgeOK, ClaimInv
    <3>3. AttemptsOK'
      BY Zenon, <1>7, <2>1, ConstantsAssumption DEF WorkerUnavailable, vars, request,
         sets, clock, bridge, proc, Moved,
         IInv, TypeOK, AttemptsOK, Outcomes, Ended
    <3>4. FlagsOK'
      BY <1>7, <2>1, ConstantsAssumption, Zenon DEF WorkerUnavailable, vars, request,
         sets, clock, bridge, proc,
         Moved, IInv, TypeOK, FlagsOK
    <3>5. SeenOK'
      BY Zenon, <1>7, <2>1, ConstantsAssumption DEF WorkerUnavailable, vars, request,
         sets, clock, bridge, proc, Moved,
         IInv, TypeOK, SeenOK, RequestOK, FlagsOK, States
    <3> QED
      BY Zenon, <3>1, <3>2, <3>3, <3>4, <3>5 DEF TypeOK
  <2>3. DecidedInv'
    BY Zenon, <1>7, <2>1, ConstantsAssumption DEF WorkerUnavailable, vars, request, sets,
       clock, bridge, proc, Moved,
       IInv, TypeOK, RequestOK, BridgeOK, AttemptsOK, DecidedInv, Ended, Outcomes
  <2>4. ClaimInv'
    BY Zenon, <1>7, <2>1, ConstantsAssumption DEF WorkerUnavailable, vars, request, sets,
       clock, bridge, proc, Moved,
       IInv, TypeOK, RequestOK, BridgeOK, AttemptsOK, DecidedInv, ClaimInv, Ended
  <2>5. FinishInv'
    BY ZenonT(60), <1>7, <2>1, ConstantsAssumption DEF WorkerUnavailable, vars, request, sets,
       clock, bridge, proc, Moved,
       IInv, TypeOK, RequestOK, BridgeOK, AttemptsOK, DecidedInv, ClaimInv, FinishInv, NothingLeftBehind, Closed,
    Ended
  <2> QED
    BY Zenon, <2>2, <2>3, <2>4, <2>5 DEF IInv
<1>8. ASSUME NEW p \in Attempts, Acquire(p)
      PROVE  IInv'
  <2>1. Moved(p, {"reread", "enqueue", "unclaim", "idle"})
    <3>1. InTime(p, queueOpen, "reread") => Moved(p, {"reread", "idle"})
      BY Zenon, InTimeMoves DEF IInv, Steps
    <3>2. Sent(p, "enqueue") => Moved(p, {"enqueue", "unclaim", "idle"})
      BY Zenon, SentMoves DEF IInv, Steps
    <3> QED
      BY Zenon, <1>8, <3>1, <3>2 DEF Acquire, AdmissionFence, Moved
  <2>2. TypeOK'
    <3>1. RequestOK'
      BY Zenon, <1>8, <2>1, ConstantsAssumption DEF Acquire, vars, request, sets, clock,
         bridge, proc, AdmissionFence,
         Moved, IInv, TypeOK, RequestOK, DecidedInv, Outcomes, States, Ended
    <3>2. BridgeOK'
      BY Zenon, <1>8, <2>1, ConstantsAssumption DEF Acquire, vars, request, sets, clock,
         bridge, proc, AdmissionFence,
         Moved, IInv, TypeOK, BridgeOK, ClaimInv
    <3>3. AttemptsOK'
      BY Zenon, <1>8, <2>1, ConstantsAssumption DEF Acquire, vars, request, sets, clock,
         bridge, proc, AdmissionFence,
         Moved, IInv, TypeOK, AttemptsOK, Outcomes, Ended
    <3>4. FlagsOK'
      BY <1>8, <2>1, ConstantsAssumption, Zenon DEF Acquire, vars, request, sets, clock,
         bridge, proc,
         AdmissionFence, Moved, IInv, TypeOK, FlagsOK
    <3>5. SeenOK'
      BY Zenon, <1>8, <2>1, ConstantsAssumption DEF Acquire, vars, request, sets, clock,
         bridge, proc, AdmissionFence,
         Moved, IInv, TypeOK, SeenOK, RequestOK, FlagsOK, States
    <3> QED
      BY Zenon, <3>1, <3>2, <3>3, <3>4, <3>5 DEF TypeOK
  <2>3. DecidedInv'
    BY ZenonT(60), <1>8, <2>1, ConstantsAssumption DEF Acquire, vars, request, sets, clock,
       bridge, proc, AdmissionFence,
       Moved, IInv, TypeOK, RequestOK, BridgeOK, AttemptsOK, DecidedInv, Ended, Outcomes
  <2>4. ClaimInv'
    BY Zenon, <1>8, <2>1, ConstantsAssumption DEF Acquire, vars, request, sets, clock,
       bridge, proc, AdmissionFence,
       Moved, IInv, TypeOK, RequestOK, BridgeOK, AttemptsOK, DecidedInv, ClaimInv, Ended
  <2>5. FinishInv'
    BY ZenonT(60), <1>8, <2>1, ConstantsAssumption DEF Acquire, vars, request, sets, clock,
       bridge, proc, AdmissionFence,
       Moved, IInv, TypeOK, RequestOK, BridgeOK, AttemptsOK, DecidedInv, ClaimInv, FinishInv, NothingLeftBehind,
    Closed, Ended
  <2> QED
    BY Zenon, <2>2, <2>3, <2>4, <2>5 DEF IInv
<1>9. ASSUME NEW p \in Attempts, Enqueue(p)
      PROVE  IInv'
  <2>1. Moved(p, {"reread", "failwrite", "unclaim", "idle"})
    <3>1. Replied(p, "reread") => Moved(p, {"reread", "idle"})
      BY Zenon, RepliedMoves DEF IInv, Steps
    <3>2. Replied(p, "failwrite") => Moved(p, {"failwrite", "idle"})
      BY Zenon, RepliedMoves DEF IInv, Steps
    <3>3. Sent(p, "reread") => Moved(p, {"reread", "unclaim", "idle"})
      BY Zenon, SentMoves DEF IInv, Steps
    <3> QED
      BY Zenon, <1>9, <3>1, <3>2, <3>3 DEF Enqueue, AdmissionFence, Moved
  <2>2. TypeOK'
    <3>1. RequestOK'
      BY Zenon, <1>9, <2>1, ConstantsAssumption DEF Enqueue, vars, request, sets, clock,
         bridge, proc, AdmissionFence,
         Moved, IInv, TypeOK, RequestOK, DecidedInv, Outcomes, States, Ended
    <3>2. BridgeOK'
      BY <1>9, <2>1, ConstantsAssumption DEF Enqueue, vars, request, sets, clock, bridge,
         proc, AdmissionFence,
         Moved, IInv, TypeOK, BridgeOK, ClaimInv
    <3>3. AttemptsOK'
      BY Zenon, <1>9, <2>1, ConstantsAssumption DEF Enqueue, vars, request, sets, clock,
         bridge, proc, AdmissionFence,
         Moved, IInv, TypeOK, AttemptsOK, Outcomes, Ended
    <3>4. FlagsOK'
      BY <1>9, <2>1, ConstantsAssumption, Zenon DEF Enqueue, vars, request, sets, clock,
         bridge, proc,
         AdmissionFence, Moved, IInv, TypeOK, FlagsOK
    <3>5. SeenOK'
      BY Zenon, <1>9, <2>1, ConstantsAssumption DEF Enqueue, vars, request, sets, clock,
         bridge, proc, AdmissionFence,
         Moved, IInv, TypeOK, SeenOK, RequestOK, FlagsOK, States
    <3> QED
      BY Zenon, <3>1, <3>2, <3>3, <3>4, <3>5 DEF TypeOK
  <2>3. DecidedInv'
    BY Zenon, <1>9, <2>1, ConstantsAssumption DEF Enqueue, vars, request, sets, clock,
       bridge, proc, AdmissionFence,
       Moved, IInv, TypeOK, RequestOK, BridgeOK, AttemptsOK, DecidedInv, Ended, Outcomes
  <2>4. ClaimInv'
    BY <1>9, <2>1, ConstantsAssumption DEF Enqueue, vars, request, sets, clock, bridge,
       proc, AdmissionFence,
       Moved, IInv, TypeOK, RequestOK, BridgeOK, AttemptsOK, DecidedInv, ClaimInv, Ended
  <2>5. FinishInv'
    BY <1>9, <2>1, ConstantsAssumption DEF Enqueue, vars, request, sets, clock, bridge,
       proc, AdmissionFence,
       Moved, IInv, TypeOK, RequestOK, BridgeOK, AttemptsOK, DecidedInv, ClaimInv, FinishInv, NothingLeftBehind,
    Closed, Ended
  <2> QED
    BY Zenon, <2>2, <2>3, <2>4, <2>5 DEF IInv
<1>10. ASSUME NEW p \in Attempts, StillRunning(p)
      PROVE  IInv'
  <2>1. Moved(p, {"reread", "idle"})
    BY Zenon, <1>10, InTimeMoves DEF StillRunning, IInv, Steps
  <2>2. TypeOK'
    <3>1. RequestOK'
      BY Zenon, <1>10, <2>1, ConstantsAssumption DEF StillRunning, vars, request, sets,
         clock, bridge, proc, Moved,
         IInv, TypeOK, RequestOK, DecidedInv, Outcomes, States, Ended
    <3>2. BridgeOK'
      BY Zenon, <1>10, <2>1, ConstantsAssumption DEF StillRunning, vars, request, sets,
         clock, bridge, proc, Moved,
         IInv, TypeOK, BridgeOK, ClaimInv
    <3>3. AttemptsOK'
      BY Zenon, <1>10, <2>1, ConstantsAssumption DEF StillRunning, vars, request, sets,
         clock, bridge, proc, Moved,
         IInv, TypeOK, AttemptsOK, Outcomes, Ended
    <3>4. FlagsOK'
      BY <1>10, <2>1, ConstantsAssumption, Zenon DEF StillRunning, vars, request, sets,
         clock, bridge, proc,
         Moved, IInv, TypeOK, FlagsOK
    <3>5. SeenOK'
      BY Zenon, <1>10, <2>1, ConstantsAssumption DEF StillRunning, vars, request, sets,
         clock, bridge, proc, Moved,
         IInv, TypeOK, SeenOK, RequestOK, FlagsOK, States
    <3> QED
      BY Zenon, <3>1, <3>2, <3>3, <3>4, <3>5 DEF TypeOK
  <2>3. DecidedInv'
    BY Zenon, <1>10, <2>1, ConstantsAssumption DEF StillRunning, vars, request, sets,
       clock, bridge, proc, Moved, IInv,
       TypeOK, RequestOK, BridgeOK, AttemptsOK, DecidedInv, Ended, Outcomes
  <2>4. ClaimInv'
    BY Zenon, <1>10, <2>1, ConstantsAssumption DEF StillRunning, vars, request, sets,
       clock, bridge, proc, Moved, IInv,
       TypeOK, RequestOK, BridgeOK, AttemptsOK, DecidedInv, ClaimInv, Ended
  <2>5. FinishInv'
    BY ZenonT(60), <1>10, <2>1, ConstantsAssumption DEF StillRunning, vars, request, sets,
       clock, bridge, proc, Moved, IInv,
       TypeOK, RequestOK, BridgeOK, AttemptsOK, DecidedInv, ClaimInv, FinishInv, NothingLeftBehind, Closed, Ended
  <2> QED
    BY Zenon, <2>2, <2>3, <2>4, <2>5 DEF IInv
<1>11. ASSUME NEW p \in Attempts, Observe(p)
      PROVE  IInv'
  <2>1. Moved(p, {"write", "unclaim", "idle"})
    <3>1. Replied(p, "write") => Moved(p, {"write", "idle"})
      BY Zenon, RepliedMoves DEF IInv, Steps
    <3>2. LostReply(p) => Moved(p, {"unclaim", "idle"})
      BY Zenon, LostReplyMoves DEF IInv, Steps
    <3> QED
      BY Zenon, <1>11, <3>1, <3>2 DEF Observe, Decide, FromSettlement, Moved
  <2>2. TypeOK'
    <3>1. RequestOK'
      BY Zenon, <1>11, <2>1, ConstantsAssumption DEF Observe, vars, request, sets, clock,
         bridge, proc, Decide,
         FromSettlement, Moved, IInv, TypeOK, RequestOK, DecidedInv, Outcomes, States, Ended
    <3>2. BridgeOK'
      BY Zenon, <1>11, <2>1, ConstantsAssumption DEF Observe, vars, request, sets, clock,
         bridge, proc, Decide,
         FromSettlement, Moved, IInv, TypeOK, BridgeOK, ClaimInv
    <3>3. AttemptsOK'
      BY <1>11, <2>1, ConstantsAssumption DEF Observe, vars, request, sets, clock,
         bridge, proc, Decide,
         FromSettlement, Moved, IInv, TypeOK, AttemptsOK, Outcomes, Ended
    <3>4. FlagsOK'
      BY <1>11, <2>1, ConstantsAssumption, Zenon DEF Observe, vars, request, sets, clock,
         bridge, proc, Decide,
         FromSettlement, Moved, IInv, TypeOK, FlagsOK
    <3>5. SeenOK'
      BY Zenon, <1>11, <2>1, ConstantsAssumption DEF Observe, vars, request, sets, clock,
         bridge, proc, Decide,
         FromSettlement, Moved, IInv, TypeOK, SeenOK, RequestOK, FlagsOK, States
    <3> QED
      BY Zenon, <3>1, <3>2, <3>3, <3>4, <3>5 DEF TypeOK
  <2>3. DecidedInv'
    <3>1. CASE pc'[p] # "write"
      <4>1. \A q \in Attempts \ {p} : out'[q] = out[q]
        BY Zenon, <1>11 DEF Observe, Decide, FromSettlement, IInv, TypeOK, AttemptsOK
      <4> QED
        BY Zenon, <1>11, <2>1, <3>1, <4>1 DEF Observe, request, Moved, IInv, DecidedInv
    <3>2. CASE pc'[p] = "write"
      <4>1. ~LostReply(p)
        BY Zenon, <3>2, LostReplyMoves DEF Moved, IInv
      <4>2. PICK s \in Ended, r \in {"settled", "expired"}, k \in {None, "fulfilled", "rejected"} :
              (s = "completed" => k = "fulfilled") /\ Decide(p, s, r, k)
        BY Zenon, <1>11, <4>1 DEF Observe, FromSettlement, Ended
      <4> QED
        BY Zenon, <1>11, <2>1, <4>2 DEF Observe, Decide, request, Moved, IInv, TypeOK,
           AttemptsOK, DecidedInv, Outcomes
    <3> QED
      BY Zenon, <3>1, <3>2
  <2>4. ClaimInv'
    <3>1. \A q \in Attempts \ {p} : out'[q] = out[q]
      BY Zenon, <1>11 DEF Observe, Decide, FromSettlement, IInv, TypeOK, AttemptsOK
    <3>2. pc'[p] = "write" => out'[p].reason \in {"settled", "expired"}
      <4> SUFFICES ASSUME pc'[p] = "write" PROVE out'[p].reason \in {"settled", "expired"}
        BY Zenon
      <4>1. ~LostReply(p)
        BY Zenon, LostReplyMoves DEF Moved, IInv
      <4>2. PICK s \in Ended, r \in {"settled", "expired"}, k \in {None, "fulfilled", "rejected"} :
              Decide(p, s, r, k)
        BY Zenon, <1>11, <4>1 DEF Observe, FromSettlement, Ended
      <4> QED
        BY Zenon, <4>2 DEF Decide, IInv, TypeOK, AttemptsOK
    <3> QED
      BY Zenon, <1>11, <2>1, <3>1, <3>2 DEF Observe, request, sets, Moved, IInv, ClaimInv
  <2>5. FinishInv'
    BY ZenonT(60), <1>11, <2>1, ConstantsAssumption DEF Observe, vars, request, sets, clock,
       bridge, proc, Decide,
       FromSettlement, Moved, IInv, TypeOK, RequestOK, BridgeOK, AttemptsOK, DecidedInv, ClaimInv, FinishInv,
    NothingLeftBehind, Closed, Ended
  <2> QED
    BY Zenon, <2>2, <2>3, <2>4, <2>5 DEF IInv
<1>12. ASSUME NEW p \in Attempts, Write(p)
      PROVE  IInv'
  <2>1. Moved(p, {"reread", "unclaim", "idle"})
    BY Zenon, <1>12, SentMoves DEF Write, MayRecord, IInv, Steps
  <2>2. TypeOK'
    <3>1. RequestOK'
      BY Zenon, <1>12, <2>1, ConstantsAssumption DEF Write, vars, request, sets, clock,
         bridge, proc, MayRecord, Moved,
         IInv, TypeOK, RequestOK, DecidedInv, Outcomes, States, Ended
    <3>2. BridgeOK'
      BY Zenon, <1>12, <2>1, ConstantsAssumption DEF Write, vars, request, sets, clock,
         bridge, proc, MayRecord, Moved,
         IInv, TypeOK, BridgeOK, ClaimInv
    <3>3. AttemptsOK'
      BY Zenon, <1>12, <2>1, ConstantsAssumption DEF Write, vars, request, sets, clock,
         bridge, proc, MayRecord, Moved,
         IInv, TypeOK, AttemptsOK, Outcomes, Ended
    <3>4. FlagsOK'
      BY <1>12, <2>1, ConstantsAssumption, Zenon DEF Write, vars, request, sets, clock,
         bridge, proc, MayRecord,
         Moved, IInv, TypeOK, FlagsOK
    <3>5. SeenOK'
      BY Zenon, <1>12, <2>1, ConstantsAssumption DEF Write, vars, request, sets, clock,
         bridge, proc, MayRecord, Moved,
         IInv, TypeOK, SeenOK, RequestOK, FlagsOK, States
    <3> QED
      BY Zenon, <3>1, <3>2, <3>3, <3>4, <3>5 DEF TypeOK
  <2>3. DecidedInv'
    BY ZenonT(60), <1>12, <2>1, ConstantsAssumption DEF Write, vars, request, sets, clock,
       bridge, proc, MayRecord, Moved,
       IInv, TypeOK, RequestOK, BridgeOK, AttemptsOK, DecidedInv, Ended, Outcomes
  <2>4. ClaimInv'
    <3>1. out[p].state \in Ended
      BY Zenon, <1>12 DEF Write, IInv, DecidedInv, Outcomes
    <3>2. MayRecord(p) /\ out[p].reason = "unstarted" => pushed = 0
      BY Zenon, <1>12 DEF Write, MayRecord, IInv, ClaimInv
    <3>3. CASE MayRecord(p)
      BY Zenon, <1>12, <2>1, <3>1, <3>2, <3>3 DEF Write, MayRecord, sets, bridge, Moved,
         IInv, ClaimInv, Ended
    <3>4. CASE ~MayRecord(p)
      BY Zenon, <1>12, <2>1, <3>4 DEF Write, sets, bridge, Moved, IInv, ClaimInv
    <3> QED
      BY Zenon, <3>3, <3>4
  <2>5. FinishInv'
    BY <1>12, <2>1, ConstantsAssumption DEF Write, vars, request, sets, clock, bridge,
       proc, MayRecord, Moved,
       IInv, TypeOK, RequestOK, BridgeOK, AttemptsOK, DecidedInv, ClaimInv, FinishInv, NothingLeftBehind, Closed,
    Ended
  <2> QED
    BY Zenon, <2>2, <2>3, <2>4, <2>5 DEF IInv
<1>13. ASSUME NEW p \in Attempts, FailWrite(p)
      PROVE  IInv'
  <2>1. Moved(p, {"reread", "unclaim", "idle"})
    <3>1. Replied(p, "unclaim") => Moved(p, {"unclaim", "idle"})
      BY Zenon, RepliedMoves DEF IInv, Steps
    <3>2. Sent(p, "reread") => Moved(p, {"reread", "unclaim", "idle"})
      BY Zenon, SentMoves DEF IInv, Steps
    <3> QED
      BY Zenon, <1>13, <3>1, <3>2 DEF FailWrite, Moved
  <2>2. TypeOK'
    <3>1. RequestOK'
      BY Zenon, <1>13, <2>1, ConstantsAssumption DEF FailWrite, vars, request, sets,
         clock, bridge, proc, Moved, IInv,
         TypeOK, RequestOK, DecidedInv, Outcomes, States, Ended
    <3>2. BridgeOK'
      BY Zenon, <1>13, <2>1, ConstantsAssumption DEF FailWrite, vars, request, sets,
         clock, bridge, proc, Moved, IInv,
         TypeOK, BridgeOK, ClaimInv
    <3>3. AttemptsOK'
      BY Zenon, <1>13, <2>1, ConstantsAssumption DEF FailWrite, vars, request, sets,
         clock, bridge, proc, Moved, IInv,
         TypeOK, AttemptsOK, Outcomes, Ended
    <3>4. FlagsOK'
      BY <1>13, <2>1, ConstantsAssumption, Zenon DEF FailWrite, vars, request, sets,
         clock, bridge, proc, Moved,
         IInv, TypeOK, FlagsOK
    <3>5. SeenOK'
      BY Zenon, <1>13, <2>1, ConstantsAssumption DEF FailWrite, vars, request, sets,
         clock, bridge, proc, Moved, IInv,
         TypeOK, SeenOK, RequestOK, FlagsOK, States
    <3> QED
      BY Zenon, <3>1, <3>2, <3>3, <3>4, <3>5 DEF TypeOK
  <2>3. DecidedInv'
    BY Zenon, <1>13, <2>1, ConstantsAssumption DEF FailWrite, vars, request, sets, clock,
       bridge, proc, Moved, IInv,
       TypeOK, RequestOK, BridgeOK, AttemptsOK, DecidedInv, Ended, Outcomes
  <2>4. ClaimInv'
    BY ZenonT(60), <1>13, <2>1, ConstantsAssumption DEF FailWrite, vars, request, sets, clock,
       bridge, proc, Moved, IInv,
       TypeOK, RequestOK, BridgeOK, AttemptsOK, DecidedInv, ClaimInv, Ended
  <2>5. FinishInv'
    BY <1>13, <2>1, ConstantsAssumption DEF FailWrite, vars, request, sets, clock,
       bridge, proc, Moved, IInv,
       TypeOK, RequestOK, BridgeOK, AttemptsOK, DecidedInv, ClaimInv, FinishInv, NothingLeftBehind, Closed, Ended
  <2> QED
    BY Zenon, <2>2, <2>3, <2>4, <2>5 DEF IInv
<1>14. ASSUME NEW p \in Attempts, Reread(p)
      PROVE  IInv'
  <2>1. Moved(p, {IF state \in Ended THEN "commit" ELSE "unclaim", "idle"})
    BY Zenon, <1>14, RepliedMoves DEF Reread, IInv, Steps
  <2>2. TypeOK'
    <3>1. RequestOK'
      BY Zenon, <1>14, <2>1, ConstantsAssumption DEF Reread, vars, request, sets, clock,
         bridge, proc, Moved, IInv,
         TypeOK, RequestOK, DecidedInv, Outcomes, States, Ended
    <3>2. BridgeOK'
      BY Zenon, <1>14, <2>1, ConstantsAssumption DEF Reread, vars, request, sets, clock,
         bridge, proc, Moved, IInv,
         TypeOK, BridgeOK, ClaimInv
    <3>3. AttemptsOK'
      BY Zenon, <1>14, <2>1, ConstantsAssumption DEF Reread, vars, request, sets, clock,
         bridge, proc, Moved, IInv,
         TypeOK, AttemptsOK, Outcomes, Ended
    <3>4. FlagsOK'
      BY <1>14, <2>1, ConstantsAssumption, Zenon DEF Reread, vars, request, sets, clock,
         bridge, proc, Moved,
         IInv, TypeOK, FlagsOK
    <3>5. SeenOK'
      BY Zenon, <1>14, <2>1, ConstantsAssumption DEF Reread, vars, request, sets, clock,
         bridge, proc, Moved, IInv,
         TypeOK, SeenOK, RequestOK, FlagsOK, States
    <3> QED
      BY Zenon, <3>1, <3>2, <3>3, <3>4, <3>5 DEF TypeOK
  <2>3. DecidedInv'
    BY Zenon, <1>14, <2>1, ConstantsAssumption DEF Reread, vars, request, sets, clock,
       bridge, proc, Moved, IInv,
       TypeOK, RequestOK, BridgeOK, AttemptsOK, DecidedInv, Ended, Outcomes
  <2>4. ClaimInv'
    BY ZenonT(60), <1>14, <2>1, ConstantsAssumption DEF Reread, vars, request, sets, clock,
       bridge, proc, Moved, IInv,
       TypeOK, RequestOK, BridgeOK, AttemptsOK, DecidedInv, ClaimInv, Ended
  <2>5. FinishInv'
    BY ZenonT(60), <1>14, <2>1, ConstantsAssumption DEF Reread, vars, request, sets, clock,
       bridge, proc, Moved, IInv,
       TypeOK, RequestOK, BridgeOK, AttemptsOK, DecidedInv, ClaimInv, FinishInv, NothingLeftBehind, Closed, Ended
  <2> QED
    BY Zenon, <2>2, <2>3, <2>4, <2>5 DEF IInv
<1>15. ASSUME NEW p \in Attempts, Commit(p)
      PROVE  IInv'
  <2>1. Moved(p, {"cleanup", "unclaim", "idle"})
    <3>1. Replied(p, "cleanup") => Moved(p, {"cleanup", "idle"})
      BY Zenon, RepliedMoves DEF IInv, Steps
    <3>2. Sent(p, "cleanup") => Moved(p, {"cleanup", "unclaim", "idle"})
      BY Zenon, SentMoves DEF IInv, Steps
    <3>3. Replied(p, "unclaim") => Moved(p, {"unclaim", "idle"})
      BY Zenon, RepliedMoves DEF IInv, Steps
    <3> QED
      BY Zenon, <1>15, <3>1, <3>2, <3>3 DEF Commit, AlreadyCommitted, Moved
  <2>2. TypeOK'
    <3>1. RequestOK'
      BY Zenon, <1>15, <2>1, ConstantsAssumption DEF Commit, vars, request, sets, clock,
         bridge, proc, AlreadyCommitted,
         Moved, IInv, TypeOK, RequestOK, DecidedInv, Outcomes, States, Ended
    <3>2. BridgeOK'
      BY Zenon, <1>15, <2>1, ConstantsAssumption DEF Commit, vars, request, sets, clock,
         bridge, proc, AlreadyCommitted,
         Moved, IInv, TypeOK, BridgeOK, ClaimInv
    <3>3. AttemptsOK'
      BY Zenon, <1>15, <2>1, ConstantsAssumption DEF Commit, vars, request, sets, clock,
         bridge, proc, AlreadyCommitted,
         Moved, IInv, TypeOK, AttemptsOK, Outcomes, Ended
    <3>4. FlagsOK'
      BY <1>15, <2>1, ConstantsAssumption, Zenon DEF Commit, vars, request, sets, clock,
         bridge, proc,
         AlreadyCommitted, Moved, IInv, TypeOK, FlagsOK
    <3>5. SeenOK'
      BY Zenon, <1>15, <2>1, ConstantsAssumption DEF Commit, vars, request, sets, clock,
         bridge, proc, AlreadyCommitted,
         Moved, IInv, TypeOK, SeenOK, RequestOK, FlagsOK, States
    <3> QED
      BY Zenon, <3>1, <3>2, <3>3, <3>4, <3>5 DEF TypeOK
  <2>3. DecidedInv'
    BY Zenon, <1>15, <2>1, ConstantsAssumption DEF Commit, vars, request, sets, clock,
       bridge, proc, AlreadyCommitted,
       Moved, IInv, TypeOK, RequestOK, BridgeOK, AttemptsOK, DecidedInv, Ended, Outcomes
  <2>4. ClaimInv'
    BY Zenon, <1>15, <2>1, ConstantsAssumption DEF Commit, vars, request, sets, clock,
       bridge, proc, AlreadyCommitted,
       Moved, IInv, TypeOK, RequestOK, BridgeOK, AttemptsOK, DecidedInv, ClaimInv, Ended
  <2>5. FinishInv'
    BY ZenonT(60), <1>15, <2>1, ConstantsAssumption DEF Commit, vars, request, sets, clock,
       bridge, proc, AlreadyCommitted,
       Moved, IInv, TypeOK, RequestOK, BridgeOK, AttemptsOK, DecidedInv, ClaimInv, FinishInv, NothingLeftBehind,
    Closed, Ended
  <2> QED
    BY Zenon, <2>2, <2>3, <2>4, <2>5 DEF IInv
<1>16. ASSUME NEW p \in Attempts, Cleanup(p)
      PROVE  IInv'
  <2>1. Moved(p, {"unlock", "leave", "unclaim", "idle"})
    <3>1. Replied(p, "unlock") => Moved(p, {"unlock", "idle"})
      BY Zenon, RepliedMoves DEF IInv, Steps
    <3>2. Sent(p, "unlock") => Moved(p, {"unlock", "unclaim", "idle"})
      BY Zenon, SentMoves DEF IInv, Steps
    <3>3. Sent(p, "leave") => Moved(p, {"leave", "unclaim", "idle"})
      BY Zenon, SentMoves DEF IInv, Steps
    <3> QED
      BY Zenon, <1>16, <3>1, <3>2, <3>3 DEF Cleanup, Moved
  <2>2. TypeOK'
    <3>1. RequestOK'
      BY Zenon, <1>16, <2>1, ConstantsAssumption DEF Cleanup, vars, request, sets, clock,
         bridge, proc, Moved, IInv,
         TypeOK, RequestOK, DecidedInv, Outcomes, States, Ended
    <3>2. BridgeOK'
      BY Zenon, <1>16, <2>1, ConstantsAssumption DEF Cleanup, vars, request, sets, clock,
         bridge, proc, Moved, IInv,
         TypeOK, BridgeOK, ClaimInv
    <3>3. AttemptsOK'
      BY Zenon, <1>16, <2>1, ConstantsAssumption DEF Cleanup, vars, request, sets, clock,
         bridge, proc, Moved, IInv,
         TypeOK, AttemptsOK, Outcomes, Ended
    <3>4. FlagsOK'
      BY <1>16, <2>1, ConstantsAssumption, Zenon DEF Cleanup, vars, request, sets, clock,
         bridge, proc, Moved,
         IInv, TypeOK, FlagsOK
    <3>5. SeenOK'
      BY Zenon, <1>16, <2>1, ConstantsAssumption DEF Cleanup, vars, request, sets, clock,
         bridge, proc, Moved, IInv,
         TypeOK, SeenOK, RequestOK, FlagsOK, States
    <3> QED
      BY Zenon, <3>1, <3>2, <3>3, <3>4, <3>5 DEF TypeOK
  <2>3. DecidedInv'
    BY Zenon, <1>16, <2>1, ConstantsAssumption DEF Cleanup, vars, request, sets, clock,
       bridge, proc, Moved, IInv,
       TypeOK, RequestOK, BridgeOK, AttemptsOK, DecidedInv, Ended, Outcomes
  <2>4. ClaimInv'
    BY Zenon, <1>16, <2>1, ConstantsAssumption DEF Cleanup, vars, request, sets, clock,
       bridge, proc, Moved, IInv,
       TypeOK, RequestOK, BridgeOK, AttemptsOK, DecidedInv, ClaimInv, Ended
  <2>5. FinishInv'
    <3>1. state \in Ended /\ (Closed => marker # "req")
      BY Zenon, <1>16 DEF Cleanup, IInv, FinishInv
    <3>2. marker' \in {marker, None}
      BY Zenon, <1>16 DEF Cleanup
    <3>3. Closed => pc'[p] \in {"unlock", "unclaim", "idle"}
      <4>1. Closed => Replied(p, "unlock") \/ Sent(p, "unlock")
        BY Zenon, <1>16, <3>1, ConstantsAssumption DEF Cleanup
      <4> QED
        BY Zenon, <4>1, RepliedMoves, SentMoves DEF Moved, IInv, Steps
    <3> QED
      BY Zenon, <1>16, <2>1, <3>1, <3>2, <3>3, ConstantsAssumption
      DEF Cleanup, request, sets, Moved, IInv, FinishInv, NothingLeftBehind, Closed, Ended
  <2> QED
    BY Zenon, <2>2, <2>3, <2>4, <2>5 DEF IInv
<1>17. ASSUME NEW p \in Attempts, Unlock(p)
      PROVE  IInv'
  <2>1. Moved(p, {"leave", "unclaim", "idle"})
    BY Zenon, <1>17, SentMoves DEF Unlock, IInv, Steps
  <2>2. TypeOK'
    <3>1. RequestOK'
      BY Zenon, <1>17, <2>1, ConstantsAssumption DEF Unlock, vars, request, sets, clock,
         bridge, proc, Moved, IInv,
         TypeOK, RequestOK, DecidedInv, Outcomes, States, Ended
    <3>2. BridgeOK'
      BY Zenon, <1>17, <2>1, ConstantsAssumption DEF Unlock, vars, request, sets, clock,
         bridge, proc, Moved, IInv,
         TypeOK, BridgeOK, ClaimInv
    <3>3. AttemptsOK'
      BY Zenon, <1>17, <2>1, ConstantsAssumption DEF Unlock, vars, request, sets, clock,
         bridge, proc, Moved, IInv,
         TypeOK, AttemptsOK, Outcomes, Ended
    <3>4. FlagsOK'
      BY <1>17, <2>1, ConstantsAssumption, Zenon DEF Unlock, vars, request, sets, clock,
         bridge, proc, Moved,
         IInv, TypeOK, FlagsOK
    <3>5. SeenOK'
      BY Zenon, <1>17, <2>1, ConstantsAssumption DEF Unlock, vars, request, sets, clock,
         bridge, proc, Moved, IInv,
         TypeOK, SeenOK, RequestOK, FlagsOK, States
    <3> QED
      BY Zenon, <3>1, <3>2, <3>3, <3>4, <3>5 DEF TypeOK
  <2>3. DecidedInv'
    BY Zenon, <1>17, <2>1, ConstantsAssumption DEF Unlock, vars, request, sets, clock,
       bridge, proc, Moved, IInv,
       TypeOK, RequestOK, BridgeOK, AttemptsOK, DecidedInv, Ended, Outcomes
  <2>4. ClaimInv'
    BY Zenon, <1>17, <2>1, ConstantsAssumption DEF Unlock, vars, request, sets, clock,
       bridge, proc, Moved, IInv,
       TypeOK, RequestOK, BridgeOK, AttemptsOK, DecidedInv, ClaimInv, Ended
  <2>5. FinishInv'
    BY ZenonT(60), <1>17, <2>1, ConstantsAssumption DEF Unlock, vars, request, sets, clock,
       bridge, proc, Moved, IInv,
       TypeOK, RequestOK, BridgeOK, AttemptsOK, DecidedInv, ClaimInv, FinishInv, NothingLeftBehind, Closed, Ended
  <2> QED
    BY Zenon, <2>2, <2>3, <2>4, <2>5 DEF IInv
<1>18. ASSUME NEW p \in Attempts, Leave(p)
      PROVE  IInv'
  <2>1. Moved(p, {"retire", "unclaim", "idle"})
    BY Zenon, <1>18, SentMoves DEF Leave, IInv, Steps
  <2>2. TypeOK'
    <3>1. RequestOK'
      BY Zenon, <1>18, <2>1, ConstantsAssumption DEF Leave, vars, request, sets, clock,
         bridge, proc, Moved, IInv,
         TypeOK, RequestOK, DecidedInv, Outcomes, States, Ended
    <3>2. BridgeOK'
      BY Zenon, <1>18, <2>1, ConstantsAssumption DEF Leave, vars, request, sets, clock,
         bridge, proc, Moved, IInv,
         TypeOK, BridgeOK, ClaimInv
    <3>3. AttemptsOK'
      BY Zenon, <1>18, <2>1, ConstantsAssumption DEF Leave, vars, request, sets, clock,
         bridge, proc, Moved, IInv,
         TypeOK, AttemptsOK, Outcomes, Ended
    <3>4. FlagsOK'
      BY <1>18, <2>1, ConstantsAssumption, Zenon DEF Leave, vars, request, sets, clock,
         bridge, proc, Moved,
         IInv, TypeOK, FlagsOK
    <3>5. SeenOK'
      BY Zenon, <1>18, <2>1, ConstantsAssumption DEF Leave, vars, request, sets, clock,
         bridge, proc, Moved, IInv,
         TypeOK, SeenOK, RequestOK, FlagsOK, States
    <3> QED
      BY Zenon, <3>1, <3>2, <3>3, <3>4, <3>5 DEF TypeOK
  <2>3. DecidedInv'
    BY Zenon, <1>18, <2>1, ConstantsAssumption DEF Leave, vars, request, sets, clock,
       bridge, proc, Moved, IInv, TypeOK,
       RequestOK, BridgeOK, AttemptsOK, DecidedInv, Ended, Outcomes
  <2>4. ClaimInv'
    BY Zenon, <1>18, <2>1, ConstantsAssumption DEF Leave, vars, request, sets, clock,
       bridge, proc, Moved, IInv, TypeOK,
       RequestOK, BridgeOK, AttemptsOK, DecidedInv, ClaimInv, Ended
  <2>5. FinishInv'
    BY Zenon, <1>18, <2>1, ConstantsAssumption DEF Leave, vars, request, sets, clock,
       bridge, proc, Moved, IInv, TypeOK,
       RequestOK, BridgeOK, AttemptsOK, DecidedInv, ClaimInv, FinishInv, NothingLeftBehind, Closed, Ended
  <2> QED
    BY Zenon, <2>2, <2>3, <2>4, <2>5 DEF IInv
<1>19. ASSUME NEW p \in Attempts, Retire(p)
      PROVE  IInv'
  <2>1. Moved(p, {"unclaim", "idle"})
    BY Zenon, <1>19, SentMoves DEF Retire, IInv, Steps
  <2>2. TypeOK'
    <3>1. RequestOK'
      BY Zenon, <1>19, <2>1, ConstantsAssumption DEF Retire, vars, request, sets, clock,
         bridge, proc, Moved, IInv,
         TypeOK, RequestOK, DecidedInv, Outcomes, States, Ended
    <3>2. BridgeOK'
      BY Zenon, <1>19, <2>1, ConstantsAssumption DEF Retire, vars, request, sets, clock,
         bridge, proc, Moved, IInv,
         TypeOK, BridgeOK, ClaimInv
    <3>3. AttemptsOK'
      BY Zenon, <1>19, <2>1, ConstantsAssumption DEF Retire, vars, request, sets, clock,
         bridge, proc, Moved, IInv,
         TypeOK, AttemptsOK, Outcomes, Ended
    <3>4. FlagsOK'
      BY <1>19, <2>1, ConstantsAssumption, Zenon DEF Retire, vars, request, sets, clock,
         bridge, proc, Moved,
         IInv, TypeOK, FlagsOK
    <3>5. SeenOK'
      BY Zenon, <1>19, <2>1, ConstantsAssumption DEF Retire, vars, request, sets, clock,
         bridge, proc, Moved, IInv,
         TypeOK, SeenOK, RequestOK, FlagsOK, States
    <3> QED
      BY Zenon, <3>1, <3>2, <3>3, <3>4, <3>5 DEF TypeOK
  <2>3. DecidedInv'
    BY Zenon, <1>19, <2>1, ConstantsAssumption DEF Retire, vars, request, sets, clock,
       bridge, proc, Moved, IInv,
       TypeOK, RequestOK, BridgeOK, AttemptsOK, DecidedInv, Ended, Outcomes
  <2>4. ClaimInv'
    <3>1. state \in Ended
      BY Zenon, <1>19 DEF Retire, IInv, FinishInv
    <3> QED
      BY Zenon, <1>19, <2>1, <3>1 DEF Retire, request, bridge, Moved, IInv, ClaimInv, Ended
  <2>5. FinishInv'
    BY Zenon, <1>19, <2>1, ConstantsAssumption DEF Retire, vars, request, sets, clock,
       bridge, proc, Moved, IInv,
       TypeOK, RequestOK, BridgeOK, AttemptsOK, DecidedInv, ClaimInv, FinishInv, NothingLeftBehind, Closed, Ended
  <2> QED
    BY Zenon, <2>2, <2>3, <2>4, <2>5 DEF IInv
<1>20. ASSUME NEW p \in Attempts, Unclaim(p)
      PROVE  IInv'
  <2>1. Moved(p, {"idle"})
    BY Zenon, <1>20, RepliedMoves DEF Unclaim, IInv, Steps
  <2>2. TypeOK'
    <3>1. RequestOK'
      BY Zenon, <1>20, <2>1, ConstantsAssumption DEF Unclaim, vars, request, sets, clock,
         bridge, proc, Moved, IInv,
         TypeOK, RequestOK, DecidedInv, Outcomes, States, Ended
    <3>2. BridgeOK'
      BY Zenon, <1>20, <2>1, ConstantsAssumption DEF Unclaim, vars, request, sets, clock,
         bridge, proc, Moved, IInv,
         TypeOK, BridgeOK, ClaimInv
    <3>3. AttemptsOK'
      BY Zenon, <1>20, <2>1, ConstantsAssumption DEF Unclaim, vars, request, sets, clock,
         bridge, proc, Moved, IInv,
         TypeOK, AttemptsOK, Outcomes, Ended
    <3>4. FlagsOK'
      BY <1>20, <2>1, ConstantsAssumption, Zenon DEF Unclaim, vars, request, sets, clock,
         bridge, proc, Moved,
         IInv, TypeOK, FlagsOK
    <3>5. SeenOK'
      BY Zenon, <1>20, <2>1, ConstantsAssumption DEF Unclaim, vars, request, sets, clock,
         bridge, proc, Moved, IInv,
         TypeOK, SeenOK, RequestOK, FlagsOK, States
    <3> QED
      BY Zenon, <3>1, <3>2, <3>3, <3>4, <3>5 DEF TypeOK
  <2>3. DecidedInv'
    BY Zenon, <1>20, <2>1, ConstantsAssumption DEF Unclaim, vars, request, sets, clock,
       bridge, proc, Moved, IInv,
       TypeOK, RequestOK, BridgeOK, AttemptsOK, DecidedInv, Ended, Outcomes
  <2>4. ClaimInv'
    BY Zenon, <1>20, <2>1, ConstantsAssumption DEF Unclaim, vars, request, sets, clock,
       bridge, proc, Moved, IInv,
       TypeOK, RequestOK, BridgeOK, AttemptsOK, DecidedInv, ClaimInv, Ended
  <2>5. FinishInv'
    BY ZenonT(60), <1>20, <2>1, ConstantsAssumption DEF Unclaim, vars, request, sets, clock,
       bridge, proc, Moved, IInv,
       TypeOK, RequestOK, BridgeOK, AttemptsOK, DecidedInv, ClaimInv, FinishInv, NothingLeftBehind, Closed, Ended
  <2> QED
    BY Zenon, <2>2, <2>3, <2>4, <2>5 DEF IInv
<1>21. ASSUME NEW p \in Attempts, TransitionTimeout(p)
      PROVE  IInv'
  <2>2. TypeOK'
    <3>1. RequestOK'
      BY Zenon, <1>21, ConstantsAssumption DEF TransitionTimeout, vars, request, sets,
         clock, bridge, proc, Inner, IInv,
         TypeOK, RequestOK, DecidedInv, Outcomes, States, Ended
    <3>2. BridgeOK'
      BY Zenon, <1>21, ConstantsAssumption DEF TransitionTimeout, vars, request, sets,
         clock, bridge, proc, Inner, IInv,
         TypeOK, BridgeOK, ClaimInv
    <3>3. AttemptsOK'
      BY <1>21, ConstantsAssumption DEF TransitionTimeout, vars, request, sets, clock,
         bridge, proc, Inner, IInv,
         TypeOK, AttemptsOK, Outcomes, Ended
    <3>4. FlagsOK'
      BY <1>21, ConstantsAssumption, Zenon DEF TransitionTimeout, vars, request, sets,
         clock, bridge, proc,
         Inner, IInv, TypeOK, FlagsOK
    <3>5. SeenOK'
      BY Zenon, <1>21, ConstantsAssumption DEF TransitionTimeout, vars, request, sets,
         clock, bridge, proc, Inner, IInv,
         TypeOK, SeenOK, RequestOK, FlagsOK, States
    <3> QED
      BY Zenon, <3>1, <3>2, <3>3, <3>4, <3>5 DEF TypeOK
  <2>3. DecidedInv'
    BY Zenon, <1>21, ConstantsAssumption DEF TransitionTimeout, vars, request, sets,
       clock, bridge, proc, Inner, IInv,
       TypeOK, RequestOK, BridgeOK, AttemptsOK, DecidedInv, Ended, Outcomes
  <2>4. ClaimInv'
    BY Zenon, <1>21, ConstantsAssumption DEF TransitionTimeout, vars, request, sets,
       clock, bridge, proc, Inner, IInv,
       TypeOK, RequestOK, BridgeOK, AttemptsOK, DecidedInv, ClaimInv, Ended
  <2>5. FinishInv'
    BY Zenon, <1>21, ConstantsAssumption DEF TransitionTimeout, vars, request, sets,
       clock, bridge, proc, Inner, IInv,
       TypeOK, RequestOK, BridgeOK, AttemptsOK, DecidedInv, ClaimInv, FinishInv, NothingLeftBehind, Closed, Ended
  <2> QED
    BY Zenon, <2>2, <2>3, <2>4, <2>5 DEF IInv
<1>22. ASSUME NEW p \in Attempts, Crash(p)
      PROVE  IInv'
  <2>1. Moved(p, {"idle"})
    BY <1>22, ConstantsAssumption DEF Crash, Moved, IInv, TypeOK, AttemptsOK, Steps
  <2>2. TypeOK'
    <3>1. RequestOK'
      BY Zenon, <1>22, <2>1, ConstantsAssumption DEF Crash, vars, request, sets, clock,
         bridge, proc, Moved, IInv,
         TypeOK, RequestOK, DecidedInv, Outcomes, States, Ended
    <3>2. BridgeOK'
      BY Zenon, <1>22, <2>1, ConstantsAssumption DEF Crash, vars, request, sets, clock,
         bridge, proc, Moved, IInv,
         TypeOK, BridgeOK, ClaimInv
    <3>3. AttemptsOK'
      BY Zenon, <1>22, <2>1, ConstantsAssumption DEF Crash, vars, request, sets, clock,
         bridge, proc, Moved, IInv,
         TypeOK, AttemptsOK, Outcomes, Ended
    <3>4. FlagsOK'
      BY <1>22, <2>1, ConstantsAssumption, Zenon DEF Crash, vars, request, sets, clock,
         bridge, proc, Moved,
         IInv, TypeOK, FlagsOK
    <3>5. SeenOK'
      BY Zenon, <1>22, <2>1, ConstantsAssumption DEF Crash, vars, request, sets, clock,
         bridge, proc, Moved, IInv,
         TypeOK, SeenOK, RequestOK, FlagsOK, States
    <3> QED
      BY Zenon, <3>1, <3>2, <3>3, <3>4, <3>5 DEF TypeOK
  <2>3. DecidedInv'
    BY Zenon, <1>22, <2>1, ConstantsAssumption DEF Crash, vars, request, sets, clock,
       bridge, proc, Moved, IInv, TypeOK,
       RequestOK, BridgeOK, AttemptsOK, DecidedInv, Ended, Outcomes
  <2>4. ClaimInv'
    BY Zenon, <1>22, <2>1, ConstantsAssumption DEF Crash, vars, request, sets, clock,
       bridge, proc, Moved, IInv, TypeOK,
       RequestOK, BridgeOK, AttemptsOK, DecidedInv, ClaimInv, Ended
  <2>5. FinishInv'
    BY Zenon, <1>22, <2>1, ConstantsAssumption DEF Crash, vars, request, sets, clock,
       bridge, proc, Moved, IInv, TypeOK,
       RequestOK, BridgeOK, AttemptsOK, DecidedInv, ClaimInv, FinishInv, NothingLeftBehind, Closed, Ended
  <2> QED
    BY Zenon, <2>2, <2>3, <2>4, <2>5 DEF IInv
<1>23. ASSUME ClaimExpires
      PROVE  IInv'
  <2>2. TypeOK'
    <3>1. RequestOK'
      BY Zenon, <1>23, ConstantsAssumption DEF ClaimExpires, vars, request, sets, clock,
         bridge, proc, IInv, TypeOK,
         RequestOK, DecidedInv, Outcomes, States, Ended
    <3>2. BridgeOK'
      BY Zenon, <1>23, ConstantsAssumption DEF ClaimExpires, vars, request, sets, clock,
         bridge, proc, IInv, TypeOK,
         BridgeOK, ClaimInv
    <3>3. AttemptsOK'
      BY <1>23, ConstantsAssumption DEF ClaimExpires, vars, request, sets, clock, bridge,
         proc, IInv, TypeOK,
         AttemptsOK, Outcomes, Ended
    <3>4. FlagsOK'
      BY <1>23, ConstantsAssumption, Zenon DEF ClaimExpires, vars, request, sets, clock,
         bridge, proc, IInv,
         TypeOK, FlagsOK
    <3>5. SeenOK'
      BY Zenon, <1>23, ConstantsAssumption DEF ClaimExpires, vars, request, sets, clock,
         bridge, proc, IInv, TypeOK,
         SeenOK, RequestOK, FlagsOK, States
    <3> QED
      BY Zenon, <3>1, <3>2, <3>3, <3>4, <3>5 DEF TypeOK
  <2>3. DecidedInv'
    BY Zenon, <1>23, ConstantsAssumption DEF ClaimExpires, vars, request, sets, clock,
       bridge, proc, IInv, TypeOK,
       RequestOK, BridgeOK, AttemptsOK, DecidedInv, Ended, Outcomes
  <2>4. ClaimInv'
    BY Zenon, <1>23, ConstantsAssumption DEF ClaimExpires, vars, request, sets, clock,
       bridge, proc, IInv, TypeOK,
       RequestOK, BridgeOK, AttemptsOK, DecidedInv, ClaimInv, Ended
  <2>5. FinishInv'
    BY Zenon, <1>23, ConstantsAssumption DEF ClaimExpires, vars, request, sets, clock,
       bridge, proc, IInv, TypeOK,
       RequestOK, BridgeOK, AttemptsOK, DecidedInv, ClaimInv, FinishInv, NothingLeftBehind, Closed, Ended
  <2> QED
    BY Zenon, <2>2, <2>3, <2>4, <2>5 DEF IInv
<1>24. ASSUME OrphanedClaimExpires
      PROVE  IInv'
  <2>2. TypeOK'
    <3>1. RequestOK'
      BY Zenon, <1>24, ConstantsAssumption DEF OrphanedClaimExpires, vars, request, sets,
         clock, bridge, proc, IInv,
         TypeOK, RequestOK, DecidedInv, Outcomes, States, Ended
    <3>2. BridgeOK'
      BY Zenon, <1>24, ConstantsAssumption DEF OrphanedClaimExpires, vars, request, sets,
         clock, bridge, proc, IInv,
         TypeOK, BridgeOK, ClaimInv
    <3>3. AttemptsOK'
      BY Zenon, <1>24, ConstantsAssumption DEF OrphanedClaimExpires, vars, request, sets,
         clock, bridge, proc, IInv,
         TypeOK, AttemptsOK, Outcomes, Ended
    <3>4. FlagsOK'
      BY <1>24, ConstantsAssumption, Zenon DEF OrphanedClaimExpires, vars, request, sets,
         clock, bridge, proc,
         IInv, TypeOK, FlagsOK
    <3>5. SeenOK'
      BY Zenon, <1>24, ConstantsAssumption DEF OrphanedClaimExpires, vars, request, sets,
         clock, bridge, proc, IInv,
         TypeOK, SeenOK, RequestOK, FlagsOK, States
    <3> QED
      BY Zenon, <3>1, <3>2, <3>3, <3>4, <3>5 DEF TypeOK
  <2>3. DecidedInv'
    BY Zenon, <1>24, ConstantsAssumption DEF OrphanedClaimExpires, vars, request, sets,
       clock, bridge, proc, IInv,
       TypeOK, RequestOK, BridgeOK, AttemptsOK, DecidedInv, Ended, Outcomes
  <2>4. ClaimInv'
    BY Zenon, <1>24, ConstantsAssumption DEF OrphanedClaimExpires, vars, request, sets,
       clock, bridge, proc, IInv,
       TypeOK, RequestOK, BridgeOK, AttemptsOK, DecidedInv, ClaimInv, Ended
  <2>5. FinishInv'
    BY Zenon, <1>24, ConstantsAssumption DEF OrphanedClaimExpires, vars, request, sets,
       clock, bridge, proc, IInv,
       TypeOK, RequestOK, BridgeOK, AttemptsOK, DecidedInv, ClaimInv, FinishInv, NothingLeftBehind, Closed, Ended
  <2> QED
    BY Zenon, <2>2, <2>3, <2>4, <2>5 DEF IInv
<1>25. ASSUME QueueDeadline
      PROVE  IInv'
  <2>2. TypeOK'
    <3>1. RequestOK'
      BY Zenon, <1>25, ConstantsAssumption DEF QueueDeadline, vars, request, sets, clock,
         bridge, proc, IInv, TypeOK,
         RequestOK, DecidedInv, Outcomes, States, Ended
    <3>2. BridgeOK'
      BY Zenon, <1>25, ConstantsAssumption DEF QueueDeadline, vars, request, sets, clock,
         bridge, proc, IInv, TypeOK,
         BridgeOK, ClaimInv
    <3>3. AttemptsOK'
      BY Zenon, <1>25, ConstantsAssumption DEF QueueDeadline, vars, request, sets, clock,
         bridge, proc, IInv, TypeOK,
         AttemptsOK, Outcomes, Ended
    <3>4. FlagsOK'
      BY <1>25, ConstantsAssumption, Zenon DEF QueueDeadline, vars, request, sets, clock,
         bridge, proc, IInv,
         TypeOK, FlagsOK
    <3>5. SeenOK'
      BY Zenon, <1>25, ConstantsAssumption DEF QueueDeadline, vars, request, sets, clock,
         bridge, proc, IInv, TypeOK,
         SeenOK, RequestOK, FlagsOK, States
    <3> QED
      BY Zenon, <3>1, <3>2, <3>3, <3>4, <3>5 DEF TypeOK
  <2>3. DecidedInv'
    BY Zenon, <1>25, ConstantsAssumption DEF QueueDeadline, vars, request, sets, clock,
       bridge, proc, IInv, TypeOK,
       RequestOK, BridgeOK, AttemptsOK, DecidedInv, Ended, Outcomes
  <2>4. ClaimInv'
    BY Zenon, <1>25, ConstantsAssumption DEF QueueDeadline, vars, request, sets, clock,
       bridge, proc, IInv, TypeOK,
       RequestOK, BridgeOK, AttemptsOK, DecidedInv, ClaimInv, Ended
  <2>5. FinishInv'
    BY Zenon, <1>25, ConstantsAssumption DEF QueueDeadline, vars, request, sets, clock,
       bridge, proc, IInv, TypeOK,
       RequestOK, BridgeOK, AttemptsOK, DecidedInv, ClaimInv, FinishInv, NothingLeftBehind, Closed, Ended
  <2> QED
    BY Zenon, <2>2, <2>3, <2>4, <2>5 DEF IInv
<1>26. ASSUME AssignmentDeadline
      PROVE  IInv'
  <2>2. TypeOK'
    <3>1. RequestOK'
      BY Zenon, <1>26, ConstantsAssumption DEF AssignmentDeadline, vars, request, sets,
         clock, bridge, proc, IInv,
         TypeOK, RequestOK, DecidedInv, Outcomes, States, Ended
    <3>2. BridgeOK'
      BY Zenon, <1>26, ConstantsAssumption DEF AssignmentDeadline, vars, request, sets,
         clock, bridge, proc, IInv,
         TypeOK, BridgeOK, ClaimInv
    <3>3. AttemptsOK'
      BY Zenon, <1>26, ConstantsAssumption DEF AssignmentDeadline, vars, request, sets,
         clock, bridge, proc, IInv,
         TypeOK, AttemptsOK, Outcomes, Ended
    <3>4. FlagsOK'
      BY <1>26, ConstantsAssumption, Zenon DEF AssignmentDeadline, vars, request, sets,
         clock, bridge, proc,
         IInv, TypeOK, FlagsOK
    <3>5. SeenOK'
      BY Zenon, <1>26, ConstantsAssumption DEF AssignmentDeadline, vars, request, sets,
         clock, bridge, proc, IInv,
         TypeOK, SeenOK, RequestOK, FlagsOK, States
    <3> QED
      BY Zenon, <3>1, <3>2, <3>3, <3>4, <3>5 DEF TypeOK
  <2>3. DecidedInv'
    BY Zenon, <1>26, ConstantsAssumption DEF AssignmentDeadline, vars, request, sets,
       clock, bridge, proc, IInv, TypeOK,
       RequestOK, BridgeOK, AttemptsOK, DecidedInv, Ended, Outcomes
  <2>4. ClaimInv'
    BY Zenon, <1>26, ConstantsAssumption DEF AssignmentDeadline, vars, request, sets,
       clock, bridge, proc, IInv, TypeOK,
       RequestOK, BridgeOK, AttemptsOK, DecidedInv, ClaimInv, Ended
  <2>5. FinishInv'
    BY Zenon, <1>26, ConstantsAssumption DEF AssignmentDeadline, vars, request, sets,
       clock, bridge, proc, IInv, TypeOK,
       RequestOK, BridgeOK, AttemptsOK, DecidedInv, ClaimInv, FinishInv, NothingLeftBehind, Closed, Ended
  <2> QED
    BY Zenon, <2>2, <2>3, <2>4, <2>5 DEF IInv
<1>27. ASSUME RecordsExpire
      PROVE  IInv'
  <2>2. TypeOK'
    <3>1. RequestOK'
      BY Zenon, <1>27, ConstantsAssumption DEF RecordsExpire, vars, request, sets, clock,
         bridge, proc, IInv, TypeOK,
         RequestOK, DecidedInv, Outcomes, States, Ended
    <3>2. BridgeOK'
      BY Zenon, <1>27, ConstantsAssumption DEF RecordsExpire, vars, request, sets, clock,
         bridge, proc, IInv, TypeOK,
         BridgeOK, ClaimInv
    <3>3. AttemptsOK'
      BY Zenon, <1>27, ConstantsAssumption DEF RecordsExpire, vars, request, sets, clock,
         bridge, proc, IInv, TypeOK,
         AttemptsOK, Outcomes, Ended
    <3>4. FlagsOK'
      BY <1>27, ConstantsAssumption, Zenon DEF RecordsExpire, vars, request, sets, clock,
         bridge, proc, IInv,
         TypeOK, FlagsOK
    <3>5. SeenOK'
      BY Zenon, <1>27, ConstantsAssumption DEF RecordsExpire, vars, request, sets, clock,
         bridge, proc, IInv, TypeOK,
         SeenOK, RequestOK, FlagsOK, States
    <3> QED
      BY Zenon, <3>1, <3>2, <3>3, <3>4, <3>5 DEF TypeOK
  <2>3. DecidedInv'
    BY Zenon, <1>27, ConstantsAssumption DEF RecordsExpire, vars, request, sets, clock,
       bridge, proc, IInv, TypeOK,
       RequestOK, BridgeOK, AttemptsOK, DecidedInv, Ended, Outcomes
  <2>4. ClaimInv'
    BY Zenon, <1>27, ConstantsAssumption DEF RecordsExpire, vars, request, sets, clock,
       bridge, proc, IInv, TypeOK,
       RequestOK, BridgeOK, AttemptsOK, DecidedInv, ClaimInv, Ended
  <2>5. FinishInv'
    BY Zenon, <1>27, ConstantsAssumption DEF RecordsExpire, vars, request, sets, clock,
       bridge, proc, IInv, TypeOK,
       RequestOK, BridgeOK, AttemptsOK, DecidedInv, ClaimInv, FinishInv, NothingLeftBehind, Closed, Ended
  <2> QED
    BY Zenon, <2>2, <2>3, <2>4, <2>5 DEF IInv
<1>28. ASSUME LockExpires
      PROVE  IInv'
  <2>2. TypeOK'
    <3>1. RequestOK'
      BY Zenon, <1>28, ConstantsAssumption DEF LockExpires, vars, request, sets, clock,
         bridge, proc, IInv, TypeOK,
         RequestOK, DecidedInv, Outcomes, States, Ended
    <3>2. BridgeOK'
      BY Zenon, <1>28, ConstantsAssumption DEF LockExpires, vars, request, sets, clock,
         bridge, proc, IInv, TypeOK,
         BridgeOK, ClaimInv
    <3>3. AttemptsOK'
      BY Zenon, <1>28, ConstantsAssumption DEF LockExpires, vars, request, sets, clock,
         bridge, proc, IInv, TypeOK,
         AttemptsOK, Outcomes, Ended
    <3>4. FlagsOK'
      BY <1>28, ConstantsAssumption, Zenon DEF LockExpires, vars, request, sets, clock,
         bridge, proc, IInv,
         TypeOK, FlagsOK
    <3>5. SeenOK'
      BY Zenon, <1>28, ConstantsAssumption DEF LockExpires, vars, request, sets, clock,
         bridge, proc, IInv, TypeOK,
         SeenOK, RequestOK, FlagsOK, States
    <3> QED
      BY Zenon, <3>1, <3>2, <3>3, <3>4, <3>5 DEF TypeOK
  <2>3. DecidedInv'
    BY Zenon, <1>28, ConstantsAssumption DEF LockExpires, vars, request, sets, clock,
       bridge, proc, IInv, TypeOK,
       RequestOK, BridgeOK, AttemptsOK, DecidedInv, Ended, Outcomes
  <2>4. ClaimInv'
    BY Zenon, <1>28, ConstantsAssumption DEF LockExpires, vars, request, sets, clock,
       bridge, proc, IInv, TypeOK,
       RequestOK, BridgeOK, AttemptsOK, DecidedInv, ClaimInv, Ended
  <2>5. FinishInv'
    BY Zenon, <1>28, ConstantsAssumption DEF LockExpires, vars, request, sets, clock,
       bridge, proc, IInv, TypeOK,
       RequestOK, BridgeOK, AttemptsOK, DecidedInv, ClaimInv, FinishInv, NothingLeftBehind, Closed, Ended
  <2> QED
    BY Zenon, <2>2, <2>3, <2>4, <2>5 DEF IInv
<1>29. ASSUME Start
      PROVE  IInv'
  <2>2. TypeOK'
    <3>1. RequestOK'
      BY Zenon, <1>29, ConstantsAssumption DEF Start, vars, request, sets, clock, bridge,
         proc, IInv, TypeOK, RequestOK,
         DecidedInv, Outcomes, States, Ended
    <3>2. BridgeOK'
      BY Zenon, <1>29, ConstantsAssumption DEF Start, vars, request, sets, clock, bridge,
         proc, IInv, TypeOK, BridgeOK,
         ClaimInv
    <3>3. AttemptsOK'
      BY Zenon, <1>29, ConstantsAssumption DEF Start, vars, request, sets, clock, bridge,
         proc, IInv, TypeOK,
         AttemptsOK, Outcomes, Ended
    <3>4. FlagsOK'
      BY <1>29, ConstantsAssumption, Zenon DEF Start, vars, request, sets, clock, bridge,
         proc, IInv, TypeOK,
         FlagsOK
    <3>5. SeenOK'
      BY Zenon, <1>29, ConstantsAssumption DEF Start, vars, request, sets, clock, bridge,
         proc, IInv, TypeOK, SeenOK,
         RequestOK, FlagsOK, States
    <3> QED
      BY Zenon, <3>1, <3>2, <3>3, <3>4, <3>5 DEF TypeOK
  <2>3. DecidedInv'
    BY Zenon, <1>29, ConstantsAssumption DEF Start, vars, request, sets, clock, bridge,
       proc, IInv, TypeOK, RequestOK,
       BridgeOK, AttemptsOK, DecidedInv, Ended, Outcomes
  <2>4. ClaimInv'
    BY Zenon, <1>29, ConstantsAssumption DEF Start, vars, request, sets, clock, bridge,
       proc, IInv, TypeOK, RequestOK,
       BridgeOK, AttemptsOK, DecidedInv, ClaimInv, Ended
  <2>5. FinishInv'
    BY Zenon, <1>29, ConstantsAssumption DEF Start, vars, request, sets, clock, bridge,
       proc, IInv, TypeOK, RequestOK,
       BridgeOK, AttemptsOK, DecidedInv, ClaimInv, FinishInv, NothingLeftBehind, Closed, Ended
  <2> QED
    BY Zenon, <2>2, <2>3, <2>4, <2>5 DEF IInv
<1>30. ASSUME NEW s \in {"fulfilled", "rejected"}, Settle(s)
      PROVE  IInv'
  <2>2. TypeOK'
    <3>1. RequestOK'
      BY Zenon, <1>30, ConstantsAssumption DEF Settle, vars, request, sets, clock,
         bridge, proc, IInv, TypeOK,
         RequestOK, DecidedInv, Outcomes, States, Ended
    <3>2. BridgeOK'
      BY Zenon, <1>30, ConstantsAssumption DEF Settle, vars, request, sets, clock,
         bridge, proc, IInv, TypeOK, BridgeOK,
         ClaimInv
    <3>3. AttemptsOK'
      BY Zenon, <1>30, ConstantsAssumption DEF Settle, vars, request, sets, clock,
         bridge, proc, IInv, TypeOK,
         AttemptsOK, Outcomes, Ended
    <3>4. FlagsOK'
      BY <1>30, ConstantsAssumption, Zenon DEF Settle, vars, request, sets, clock,
         bridge, proc, IInv, TypeOK,
         FlagsOK
    <3>5. SeenOK'
      BY Zenon, <1>30, ConstantsAssumption DEF Settle, vars, request, sets, clock,
         bridge, proc, IInv, TypeOK, SeenOK,
         RequestOK, FlagsOK, States
    <3> QED
      BY Zenon, <3>1, <3>2, <3>3, <3>4, <3>5 DEF TypeOK
  <2>3. DecidedInv'
    BY Zenon, <1>30, ConstantsAssumption DEF Settle, vars, request, sets, clock, bridge,
       proc, IInv, TypeOK, RequestOK,
       BridgeOK, AttemptsOK, DecidedInv, Ended, Outcomes
  <2>4. ClaimInv'
    BY Zenon, <1>30, ConstantsAssumption DEF Settle, vars, request, sets, clock, bridge,
       proc, IInv, TypeOK, RequestOK,
       BridgeOK, AttemptsOK, DecidedInv, ClaimInv, Ended
  <2>5. FinishInv'
    BY Zenon, <1>30, ConstantsAssumption DEF Settle, vars, request, sets, clock, bridge,
       proc, IInv, TypeOK, RequestOK,
       BridgeOK, AttemptsOK, DecidedInv, ClaimInv, FinishInv, NothingLeftBehind, Closed, Ended
  <2> QED
    BY Zenon, <2>2, <2>3, <2>4, <2>5 DEF IInv
<1>31. ASSUME OtherStarts
      PROVE  IInv'
  <2>2. TypeOK'
    <3>1. RequestOK'
      BY Zenon, <1>31, ConstantsAssumption DEF OtherStarts, vars, request, sets, clock,
         bridge, proc, IInv, TypeOK,
         RequestOK, DecidedInv, Outcomes, States, Ended
    <3>2. BridgeOK'
      BY Zenon, <1>31, ConstantsAssumption DEF OtherStarts, vars, request, sets, clock,
         bridge, proc, IInv, TypeOK,
         BridgeOK, ClaimInv
    <3>3. AttemptsOK'
      BY Zenon, <1>31, ConstantsAssumption DEF OtherStarts, vars, request, sets, clock,
         bridge, proc, IInv, TypeOK,
         AttemptsOK, Outcomes, Ended
    <3>4. FlagsOK'
      BY <1>31, ConstantsAssumption, Zenon DEF OtherStarts, vars, request, sets, clock,
         bridge, proc, IInv,
         TypeOK, FlagsOK
    <3>5. SeenOK'
      BY Zenon, <1>31, ConstantsAssumption DEF OtherStarts, vars, request, sets, clock,
         bridge, proc, IInv, TypeOK,
         SeenOK, RequestOK, FlagsOK, States
    <3> QED
      BY Zenon, <3>1, <3>2, <3>3, <3>4, <3>5 DEF TypeOK
  <2>3. DecidedInv'
    BY Zenon, <1>31, ConstantsAssumption DEF OtherStarts, vars, request, sets, clock,
       bridge, proc, IInv, TypeOK,
       RequestOK, BridgeOK, AttemptsOK, DecidedInv, Ended, Outcomes
  <2>4. ClaimInv'
    BY Zenon, <1>31, ConstantsAssumption DEF OtherStarts, vars, request, sets, clock,
       bridge, proc, IInv, TypeOK,
       RequestOK, BridgeOK, AttemptsOK, DecidedInv, ClaimInv, Ended
  <2>5. FinishInv'
    BY Zenon, <1>31, ConstantsAssumption DEF OtherStarts, vars, request, sets, clock,
       bridge, proc, IInv, TypeOK,
       RequestOK, BridgeOK, AttemptsOK, DecidedInv, ClaimInv, FinishInv, NothingLeftBehind, Closed, Ended
  <2> QED
    BY Zenon, <2>2, <2>3, <2>4, <2>5 DEF IInv
<1>32. ASSUME OtherEnds
      PROVE  IInv'
  <2>2. TypeOK'
    <3>1. RequestOK'
      BY Zenon, <1>32, ConstantsAssumption DEF OtherEnds, vars, request, sets, clock,
         bridge, proc, IInv, TypeOK,
         RequestOK, DecidedInv, Outcomes, States, Ended
    <3>2. BridgeOK'
      BY Zenon, <1>32, ConstantsAssumption DEF OtherEnds, vars, request, sets, clock,
         bridge, proc, IInv, TypeOK,
         BridgeOK, ClaimInv
    <3>3. AttemptsOK'
      BY Zenon, <1>32, ConstantsAssumption DEF OtherEnds, vars, request, sets, clock,
         bridge, proc, IInv, TypeOK,
         AttemptsOK, Outcomes, Ended
    <3>4. FlagsOK'
      BY <1>32, ConstantsAssumption, Zenon DEF OtherEnds, vars, request, sets, clock,
         bridge, proc, IInv, TypeOK,
         FlagsOK
    <3>5. SeenOK'
      BY Zenon, <1>32, ConstantsAssumption DEF OtherEnds, vars, request, sets, clock,
         bridge, proc, IInv, TypeOK,
         SeenOK, RequestOK, FlagsOK, States
    <3> QED
      BY Zenon, <3>1, <3>2, <3>3, <3>4, <3>5 DEF TypeOK
  <2>3. DecidedInv'
    BY Zenon, <1>32, ConstantsAssumption DEF OtherEnds, vars, request, sets, clock,
       bridge, proc, IInv, TypeOK,
       RequestOK, BridgeOK, AttemptsOK, DecidedInv, Ended, Outcomes
  <2>4. ClaimInv'
    BY Zenon, <1>32, ConstantsAssumption DEF OtherEnds, vars, request, sets, clock,
       bridge, proc, IInv, TypeOK,
       RequestOK, BridgeOK, AttemptsOK, DecidedInv, ClaimInv, Ended
  <2>5. FinishInv'
    BY Zenon, <1>32, ConstantsAssumption DEF OtherEnds, vars, request, sets, clock,
       bridge, proc, IInv, TypeOK,
       RequestOK, BridgeOK, AttemptsOK, DecidedInv, ClaimInv, FinishInv, NothingLeftBehind, Closed, Ended
  <2> QED
    BY Zenon, <2>2, <2>3, <2>4, <2>5 DEF IInv
<1>33. ASSUME UNCHANGED vars
      PROVE  IInv'
  BY <1>33 DEF vars, request, sets, clock, bridge, proc, IInv, TypeOK, RequestOK,
     BridgeOK, AttemptsOK, FlagsOK,
     SeenOK, DecidedInv, ClaimInv,
     FinishInv, NothingLeftBehind, Closed
<1> HIDE DEF IInv
<1> QED
  BY Zenon, <1>2, <1>3, <1>4, <1>5, <1>6, <1>7, <1>8, <1>9, <1>10, <1>11, <1>12, <1>13,
     <1>14, <1>15, <1>16, <1>17,
     <1>18, <1>19, <1>20, <1>21, <1>22, <1>23, <1>24, <1>25, <1>26, <1>27, <1>28, <1>29, <1>30, <1>31, <1>32,
  <1>33 DEF Next, Advance

(* No step of any attempt changes the outcome of a request that has ended: *)
(* the script of updateRequest records one only for the holder of the      *)
(* claim, and only over "queued" or "admitted".                            *)
THEOREM FinalStep == ASSUME [Next]_vars PROVE OutcomeIsFinal
<1> SUFFICES ASSUME state \in Ended PROVE request' = request
  BY Zenon DEF OutcomeIsFinal
<1>1. state \notin {"absent", "queued", "admitted"}
  BY Zenon DEF Ended
<1>2. ASSUME NEW p \in Attempts, Advance(p) \/ TransitionTimeout(p) \/ Crash(p)
      PROVE  request' = request
  BY Zenon, <1>1, <1>2 DEF Advance, Claim, Read, DecideUnstarted, WorkerUnavailable,
     Acquire, Enqueue, AdmissionFence,
     StillRunning, Observe, Write, MayRecord, FailWrite, Reread, Commit, Cleanup, Unlock, Leave, Retire, Unclaim,
     TransitionTimeout, Crash, request
<1>3. CASE Submit \/ Cancel
  BY Zenon, <1>1, <1>3 DEF Submit, Cancel
<1>4. CASE UNCHANGED vars
  BY Zenon, <1>4 DEF vars
<1>5. CASE \/ ClaimExpires \/ OrphanedClaimExpires \/ QueueDeadline \/ AssignmentDeadline \/ RecordsExpire
           \/ LockExpires \/ Start \/ (\E s \in {"fulfilled", "rejected"} : Settle(s)) \/ OtherStarts \/ OtherEnds
  BY Zenon, <1>5 DEF ClaimExpires, OrphanedClaimExpires, QueueDeadline,
     AssignmentDeadline, RecordsExpire, LockExpires,
     Start, Settle, OtherStarts, OtherEnds
<1> QED
  BY Zenon, <1>2, <1>3, <1>4, <1>5 DEF Next

(* The durable request, whatever the attempts of several replicas do to it *)
(* at once and whichever replies are lost: one command at most, an outcome *)
(* that is true and final, and nothing left behind once it is retired      *)
(* (workspace-tools/requests.ts, store.ts advanceDurableWorkspaceTool).    *)
THEOREM RequestsKept == Spec => RequestsSafe
<1>1. IInv => TypeOK /\ OneCommand /\ UnstartedIsTrue /\ NothingLeftBehind
  BY DEF IInv, ClaimInv, FinishInv, OneCommand, UnstartedIsTrue
<1> QED
  BY <1>1, RequestInvariant, FinalStep, PTL DEF Spec, RequestsSafe
=============================================================================
