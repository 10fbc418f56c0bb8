-------------------------- MODULE JobExecutionProofs --------------------------
(***************************************************************************)
(* Proofs about JobExecution, for every set of attempts.                   *)
(***************************************************************************)
EXTENDS JobExecution, TLAPS

(* Attempts that hold, or held, the permission to start sandbox work.      *)
Permitted == {a \in Attempts : apc[a] = "start" \/ a \in ran}

(* While the execution key cannot expire it guards the one permission;     *)
(* after the retention every live attempt is aborted and cannot start.     *)
ExecutionInv ==
  /\ now < 2 => /\ \A a \in Permitted : execution = "claimed"
                /\ \A a, b \in Permitted : a = b
  /\ now = 2 => \A a \in Attempts : apc[a] \in Live => abort[a] # "no"
  /\ \A a, b \in ran : a = b

(* Nothing runs before the job is enqueued, and a job is not enqueued      *)
(* before it is attached to the request a Stop names.                      *)
EnqueueInv ==
  /\ "add" \notin sent => job = "unsent" /\ api \in {"reserve", "attach", "add", "done"}
  /\ job = "unsent" => committed = None /\ \A a \in Attempts : apc[a] = "idle"
  /\ stop # "absent" /\ "attached" \notin request => "add" \notin sent /\ api \in {"reserve", "attach", "done"}

(* Until the retention passes a commit is visible as the decision, so      *)
(* whoever is told that the cancellation won can rely on it.               *)
DecisionInv ==
  /\ decision = "completed" => result = committed /\ committed # None
  /\ now < 2 /\ committed # None => decision = "completed"
  /\ now = 2 => api = "done" /\ stop # "decide"
  /\ apiOut = "cancelled" \/ stop = "remove"
       => committed = None /\ (now = 2 \/ decision = "cancelled")
  /\ stop = "accepted"
       => /\ committed = None
          /\ \/ now = 2
             \/ decision = "cancelled"
             \/ "add" \notin sent /\ "cancelled" \in request /\ api \in {"reserve", "attach", "done"}

(* Where a result is on its way to somebody, it is the committed one.      *)
ResultInv ==
  /\ \A a \in Attempts : apc[a] = "returning" => returned[a] # None
  /\ \A a \in Attempts : returned[a] # None => returned[a] = committed
  /\ job = "completed" => value # None
  /\ value # None => value = committed
  /\ apiOut = "result" => apiValue = committed /\ committed # None

(* A controller that is registered has a subscription, up or down, and a   *)
(* cancellation that was read or published has aborted it or will.         *)
SubscriptionInv ==
  /\ \A a \in Attempts :
       apc[a] \in {"check", "claim", "start", "run", "finalize", "revoke", "commit"} => line[a] # "none"
  /\ CancellationReaches

(* An attempt past the start has run; the request has no outcome before it *)
(* is answered or fenced.                                                  *)
ControlInv ==
  /\ \A a \in Attempts : apc[a] \in {"run", "finalize", "revoke", "commit"} => a \in ran
  /\ api \notin {"done", "remove"} => apiOut = "none"

IInv == TypeOK /\ ExecutionInv /\ EnqueueInv /\ DecisionInv /\ ResultInv

-----------------------------------------------------------------------------
(* Type correctness: every reachable state of a job, its keys, its
   attempts and its request is well formed. *)
THEOREM TypeCorrect == Spec => []TypeOK
<1>1. Init => TypeOK
  BY NoneAssumption DEF Init, TypeOK, Live, ApiStates
<1>2. TypeOK /\ [Next]_vars => TypeOK'
  <2> SUFFICES ASSUME TypeOK, [Next]_vars
               PROVE  TypeOK'
    BY Zenon
  <2> USE NoneAssumption DEF TypeOK, Live, ApiStates
  <2> USE DEF redis, bull, work, front, signal, apiRest, stopRest
  <2>1. ASSUME NEW a \in Attempts, Subscribe(a) PROVE TypeOK'
    BY <2>1 DEF Subscribe, Goto
  <2>2. ASSUME NEW a \in Attempts, CheckMarker(a) PROVE TypeOK'
    BY <2>2 DEF CheckMarker, Goto, Aborted
  <2>3. ASSUME NEW a \in Attempts, Claim(a) PROVE TypeOK'
    BY <2>3 DEF Claim, Goto, ClaimWins
  <2>4. ASSUME NEW a \in Attempts, Start(a) PROVE TypeOK'
    BY <2>4 DEF Start, Goto
  <2>5. ASSUME NEW a \in Attempts, Execute(a) PROVE TypeOK'
    BY <2>5 DEF Execute, Goto
  <2>6. ASSUME NEW a \in Attempts, Finalize(a) PROVE TypeOK'
    BY <2>6 DEF Finalize, Goto
  <2>7. ASSUME NEW a \in Attempts, Revoke(a) PROVE TypeOK'
    BY <2>7 DEF Revoke, Goto
  <2>8. ASSUME NEW a \in Attempts, Commit(a) PROVE TypeOK'
    BY <2>8 DEF Commit, Goto, CommitScript, CommitWins
  <2>9. ASSUME NEW a \in Attempts, Settle(a) PROVE TypeOK'
    BY <2>9 DEF Settle, Dispose, Goto
  <2>10. ASSUME NEW a \in Attempts, Deliver(a) PROVE TypeOK'
    BY <2>10 DEF Deliver, Goto, Aborted
  <2>11. ASSUME NEW a \in Attempts, Crash(a) PROVE TypeOK'
    BY <2>11 DEF Crash, Dispose, Goto
  <2>12. ASSUME NEW a \in Attempts, DeadlineTimer(a) PROVE TypeOK'
    BY <2>12 DEF DeadlineTimer, Aborted
  <2>13. ASSUME NEW a \in Attempts, OnSubscriberMessage(a) PROVE TypeOK'
    BY <2>13 DEF OnSubscriberMessage, Aborted
  <2>14. ASSUME NEW a \in Attempts, LoseLink(a) PROVE TypeOK'
    BY <2>14 DEF LoseLink
  <2>15. ASSUME NEW a \in Attempts, Reconcile(a) PROVE TypeOK'
    BY <2>15 DEF Reconcile, Aborted
  <2>16. CASE Reserve
    BY <2>16 DEF Reserve, Answer, ApiGoto
  <2>17. CASE Attach
    BY <2>17 DEF Attach, Answer, ApiGoto
  <2>18. CASE Add
    BY <2>18 DEF Add, ApiGoto
  <2>19. CASE Adding
    BY <2>19 DEF Adding, ApiGoto
  <2>20. CASE WaitCompleted
    BY <2>20 DEF WaitCompleted, Answer
  <2>21. CASE WaitFails
    BY <2>21 DEF WaitFails, ApiGoto
  <2>22. CASE FenceReply
    BY <2>22 DEF FenceReply, CancelScript, Answer, FenceEnds
  <2>23. CASE FenceExpires
    BY <2>23 DEF FenceExpires, FenceEnds
  <2>24. CASE Remove
    BY <2>24 DEF Remove, RemoveIfWaiting
  <2>25. CASE FenceRetry
    BY <2>25 DEF FenceRetry, CancelScript
  <2>26. CASE Enqueue
    BY <2>26 DEF Enqueue
  <2>27. CASE FailStalled
    BY <2>27 DEF FailStalled
  <2>28. CASE LateFence
    BY <2>28 DEF LateFence, CancelScript
  <2>29. CASE StopRequest
    BY <2>29 DEF StopRequest
  <2>30. CASE StopDecide
    BY <2>30 DEF StopDecide, CancelScript
  <2>31. CASE StopRemove
    BY <2>31 DEF StopRemove, RemoveIfWaiting
  <2>32. CASE DeadlinePasses
    BY <2>32 DEF DeadlinePasses
  <2>33. CASE RetentionPasses
    BY <2>33 DEF RetentionPasses
  <2>34. CASE DecisionExpires
    BY <2>34 DEF DecisionExpires
  <2>35. CASE ExecutionKeyExpires
    BY <2>35 DEF ExecutionKeyExpires
  <2>36. CASE UNCHANGED vars
    BY <2>36 DEF vars
  <2> QED
    BY ZenonT(60), <2>1, <2>2, <2>3, <2>4, <2>5, <2>6, <2>7, <2>8, <2>9, <2>10, <2>11, <2>12,
       <2>13, <2>14, <2>15, <2>16, <2>17, <2>18, <2>19, <2>20, <2>21, <2>22, <2>23,
       <2>24, <2>25, <2>26, <2>27, <2>28, <2>29, <2>30, <2>31, <2>32, <2>33, <2>34,
       <2>35, <2>36 DEF Next, AttemptStep, ApiStep
<1> QED
  BY <1>1, <1>2, PTL DEF Spec

(* The execution key, and after its expiry the abort of every live attempt,
   guard the permission to start sandbox work. *)
THEOREM ExecutionInvariant == Spec => []ExecutionInv
<1>1. Init => ExecutionInv
  BY NoneAssumption DEF Init, ExecutionInv, Permitted
<1>2. TypeOK /\ ExecutionInv /\ [Next]_vars => ExecutionInv'
  <2> SUFFICES ASSUME TypeOK, ExecutionInv, [Next]_vars
               PROVE  ExecutionInv'
    BY Zenon
  <2> USE NoneAssumption DEF ExecutionInv, TypeOK, Permitted, Live
  <2> USE DEF redis, bull, work, front, signal, apiRest, stopRest
  <2>1. ASSUME NEW a \in Attempts, Subscribe(a) PROVE ExecutionInv'
    BY <2>1 DEF Subscribe, Goto
  <2>2. ASSUME NEW a \in Attempts, CheckMarker(a) PROVE ExecutionInv'
    BY <2>2 DEF CheckMarker, Goto, Aborted
  <2>3. ASSUME NEW a \in Attempts, Claim(a) PROVE ExecutionInv'
    BY <2>3 DEF Claim, Goto, ClaimWins
  <2>4. ASSUME NEW a \in Attempts, Start(a) PROVE ExecutionInv'
    BY <2>4 DEF Start, Goto
  <2>5. ASSUME NEW a \in Attempts, Execute(a) PROVE ExecutionInv'
    BY <2>5 DEF Execute, Goto
  <2>6. ASSUME NEW a \in Attempts, Finalize(a) PROVE ExecutionInv'
    BY <2>6 DEF Finalize, Goto
  <2>7. ASSUME NEW a \in Attempts, Revoke(a) PROVE ExecutionInv'
    BY ZenonT(60), <2>7 DEF Revoke, Goto
  <2>8. ASSUME NEW a \in Attempts, Commit(a) PROVE ExecutionInv'
    BY <2>8 DEF Commit, Goto, CommitScript, CommitWins
  <2>9. ASSUME NEW a \in Attempts, Settle(a) PROVE ExecutionInv'
    BY <2>9 DEF Settle, Dispose, Goto
  <2>10. ASSUME NEW a \in Attempts, Deliver(a) PROVE ExecutionInv'
    BY <2>10 DEF Deliver, Goto, Aborted
  <2>11. ASSUME NEW a \in Attempts, Crash(a) PROVE ExecutionInv'
    BY ZenonT(60), <2>11 DEF Crash, Dispose, Goto
  <2>12. ASSUME NEW a \in Attempts, DeadlineTimer(a) PROVE ExecutionInv'
    BY ZenonT(60), <2>12 DEF DeadlineTimer, Aborted
  <2>13. ASSUME NEW a \in Attempts, OnSubscriberMessage(a) PROVE ExecutionInv'
    BY ZenonT(60), <2>13 DEF OnSubscriberMessage, Aborted
  <2>14. ASSUME NEW a \in Attempts, LoseLink(a) PROVE ExecutionInv'
    BY Zenon, <2>14 DEF LoseLink
  <2>15. ASSUME NEW a \in Attempts, Reconcile(a) PROVE ExecutionInv'
    BY ZenonT(60), <2>15 DEF Reconcile, Aborted
  <2>16. CASE Reserve
    BY Zenon, <2>16 DEF Reserve, Answer, ApiGoto
  <2>17. CASE Attach
    BY ZenonT(60), <2>17 DEF Attach, Answer, ApiGoto
  <2>18. CASE Add
    BY Zenon, <2>18 DEF Add, ApiGoto
  <2>19. CASE Adding
    BY Zenon, <2>19 DEF Adding, ApiGoto
  <2>20. CASE WaitCompleted
    BY Zenon, <2>20 DEF WaitCompleted, Answer
  <2>21. CASE WaitFails
    BY Zenon, <2>21 DEF WaitFails, ApiGoto
  <2>22. CASE FenceReply
    BY Zenon, <2>22 DEF FenceReply, CancelScript, Answer, FenceEnds
  <2>23. CASE FenceExpires
    BY Zenon, <2>23 DEF FenceExpires, FenceEnds
  <2>24. CASE Remove
    BY Zenon, <2>24 DEF Remove, RemoveIfWaiting
  <2>25. CASE FenceRetry
    BY Zenon, <2>25 DEF FenceRetry, CancelScript
  <2>26. CASE Enqueue
    BY Zenon, <2>26 DEF Enqueue
  <2>27. CASE FailStalled
    BY Zenon, <2>27 DEF FailStalled
  <2>28. CASE LateFence
    BY Zenon, <2>28 DEF LateFence, CancelScript
  <2>29. CASE StopRequest
    BY Zenon, <2>29 DEF StopRequest
  <2>30. CASE StopDecide
    BY Zenon, <2>30 DEF StopDecide, CancelScript
  <2>31. CASE StopRemove
    BY Zenon, <2>31 DEF StopRemove, RemoveIfWaiting
  <2>32. CASE DeadlinePasses
    BY <2>32 DEF DeadlinePasses
  <2>33. CASE RetentionPasses
    BY <2>33 DEF RetentionPasses
  <2>34. CASE DecisionExpires
    BY Zenon, <2>34 DEF DecisionExpires
  <2>35. CASE ExecutionKeyExpires
    BY <2>35 DEF ExecutionKeyExpires
  <2>36. CASE UNCHANGED vars
    BY ZenonT(60), <2>36 DEF vars
  <2> QED
    BY Zenon, <2>1, <2>2, <2>3, <2>4, <2>5, <2>6, <2>7, <2>8, <2>9, <2>10, <2>11, <2>12,
       <2>13, <2>14, <2>15, <2>16, <2>17, <2>18, <2>19, <2>20, <2>21, <2>22, <2>23,
       <2>24, <2>25, <2>26, <2>27, <2>28, <2>29, <2>30, <2>31, <2>32, <2>33, <2>34,
       <2>35, <2>36 DEF Next, AttemptStep, ApiStep
<1> QED
  BY <1>1, <1>2, TypeCorrect, PTL DEF Spec

(* No attempt exists before queue.add was issued, and it is issued only
   after the job was attached to its request. *)
THEOREM EnqueueInvariant == Spec => []EnqueueInv
<1>1. Init => EnqueueInv
  BY Zenon, NoneAssumption DEF Init, EnqueueInv, Live
<1>2. TypeOK /\ EnqueueInv /\ [Next]_vars => EnqueueInv'
  <2> SUFFICES ASSUME TypeOK, EnqueueInv, [Next]_vars
               PROVE  EnqueueInv'
    BY Zenon
  <2> USE NoneAssumption DEF EnqueueInv, TypeOK, Live, ApiStates
  <2> USE DEF redis, bull, work, front, signal, apiRest, stopRest
  <2>1. ASSUME NEW a \in Attempts, Subscribe(a) PROVE EnqueueInv'
    BY Zenon, <2>1 DEF Subscribe, Goto
  <2>2. ASSUME NEW a \in Attempts, CheckMarker(a) PROVE EnqueueInv'
    BY Zenon, <2>2 DEF CheckMarker, Goto, Aborted
  <2>3. ASSUME NEW a \in Attempts, Claim(a) PROVE EnqueueInv'
    BY Zenon, <2>3 DEF Claim, Goto, ClaimWins
  <2>4. ASSUME NEW a \in Attempts, Start(a) PROVE EnqueueInv'
    BY Zenon, <2>4 DEF Start, Goto
  <2>5. ASSUME NEW a \in Attempts, Execute(a) PROVE EnqueueInv'
    BY Zenon, <2>5 DEF Execute, Goto
  <2>6. ASSUME NEW a \in Attempts, Finalize(a) PROVE EnqueueInv'
    BY Zenon, <2>6 DEF Finalize, Goto
  <2>7. ASSUME NEW a \in Attempts, Revoke(a) PROVE EnqueueInv'
    BY Zenon, <2>7 DEF Revoke, Goto
  <2>8. ASSUME NEW a \in Attempts, Commit(a) PROVE EnqueueInv'
    BY Zenon, <2>8 DEF Commit, Goto, CommitScript, CommitWins
  <2>9. ASSUME NEW a \in Attempts, Settle(a) PROVE EnqueueInv'
    BY Zenon, <2>9 DEF Settle, Dispose, Goto
  <2>10. ASSUME NEW a \in Attempts, Deliver(a) PROVE EnqueueInv'
    BY Zenon, <2>10 DEF Deliver, Goto, Aborted
  <2>11. ASSUME NEW a \in Attempts, Crash(a) PROVE EnqueueInv'
    BY Zenon, <2>11 DEF Crash, Dispose, Goto
  <2>12. ASSUME NEW a \in Attempts, DeadlineTimer(a) PROVE EnqueueInv'
    BY Zenon, <2>12 DEF DeadlineTimer, Aborted
  <2>13. ASSUME NEW a \in Attempts, OnSubscriberMessage(a) PROVE EnqueueInv'
    BY Zenon, <2>13 DEF OnSubscriberMessage, Aborted
  <2>14. ASSUME NEW a \in Attempts, LoseLink(a) PROVE EnqueueInv'
    BY Zenon, <2>14 DEF LoseLink
  <2>15. ASSUME NEW a \in Attempts, Reconcile(a) PROVE EnqueueInv'
    BY Zenon, <2>15 DEF Reconcile, Aborted
  <2>16. CASE Reserve
    BY Zenon, <2>16 DEF Reserve, Answer, ApiGoto
  <2>17. CASE Attach
    BY Zenon, <2>17 DEF Attach, Answer, ApiGoto
  <2>18. CASE Add
    BY Zenon, <2>18 DEF Add, ApiGoto
  <2>19. CASE Adding
    BY Zenon, <2>19 DEF Adding, ApiGoto
  <2>20. CASE WaitCompleted
    BY Zenon, <2>20 DEF WaitCompleted, Answer
  <2>21. CASE WaitFails
    BY Zenon, <2>21 DEF WaitFails, ApiGoto
  <2>22. CASE FenceReply
    BY Zenon, <2>22 DEF FenceReply, CancelScript, Answer, FenceEnds
  <2>23. CASE FenceExpires
    BY Zenon, <2>23 DEF FenceExpires, FenceEnds
  <2>24. CASE Remove
    BY Zenon, <2>24 DEF Remove, RemoveIfWaiting
  <2>25. CASE FenceRetry
    BY Zenon, <2>25 DEF FenceRetry, CancelScript
  <2>26. CASE Enqueue
    BY Zenon, <2>26 DEF Enqueue
  <2>27. CASE FailStalled
    BY Zenon, <2>27 DEF FailStalled
  <2>28. CASE LateFence
    BY Zenon, <2>28 DEF LateFence, CancelScript
  <2>29. CASE StopRequest
    BY Zenon, <2>29 DEF StopRequest
  <2>30. CASE StopDecide
    BY Zenon, <2>30 DEF StopDecide, CancelScript
  <2>31. CASE StopRemove
    BY Zenon, <2>31 DEF StopRemove, RemoveIfWaiting
  <2>32. CASE DeadlinePasses
    BY Zenon, <2>32 DEF DeadlinePasses
  <2>33. CASE RetentionPasses
    BY Zenon, <2>33 DEF RetentionPasses
  <2>34. CASE DecisionExpires
    BY Zenon, <2>34 DEF DecisionExpires
  <2>35. CASE ExecutionKeyExpires
    BY Zenon, <2>35 DEF ExecutionKeyExpires
  <2>36. CASE UNCHANGED vars
    BY Zenon, <2>36 DEF vars
  <2> QED
    BY Zenon, <2>1, <2>2, <2>3, <2>4, <2>5, <2>6, <2>7, <2>8, <2>9, <2>10, <2>11, <2>12,
       <2>13, <2>14, <2>15, <2>16, <2>17, <2>18, <2>19, <2>20, <2>21, <2>22, <2>23,
       <2>24, <2>25, <2>26, <2>27, <2>28, <2>29, <2>30, <2>31, <2>32, <2>33, <2>34,
       <2>35, <2>36 DEF Next, AttemptStep, ApiStep
<1> QED
  BY <1>1, <1>2, TypeCorrect, PTL DEF Spec

(* The durable decision is what was acknowledged, for as long as it can
   still matter. *)
THEOREM DecisionInvariant == Spec => []DecisionInv
<1>1. Init => DecisionInv
  BY NoneAssumption DEF Init, DecisionInv, Live
<1>2. TypeOK /\ EnqueueInv /\ DecisionInv /\ [Next]_vars => DecisionInv'
  <2> SUFFICES ASSUME TypeOK, EnqueueInv, DecisionInv, [Next]_vars
               PROVE  DecisionInv'
    BY Zenon
  <2> USE NoneAssumption DEF DecisionInv, EnqueueInv, TypeOK, Live, ApiStates
  <2> USE DEF redis, bull, work, front, signal, apiRest, stopRest
  <2>1. ASSUME NEW a \in Attempts, Subscribe(a) PROVE DecisionInv'
    BY Zenon, <2>1 DEF Subscribe, Goto
  <2>2. ASSUME NEW a \in Attempts, CheckMarker(a) PROVE DecisionInv'
    BY Zenon, <2>2 DEF CheckMarker, Goto, Aborted
  <2>3. ASSUME NEW a \in Attempts, Claim(a) PROVE DecisionInv'
    BY Zenon, <2>3 DEF Claim, Goto, ClaimWins
  <2>4. ASSUME NEW a \in Attempts, Start(a) PROVE DecisionInv'
    BY Zenon, <2>4 DEF Start, Goto
  <2>5. ASSUME NEW a \in Attempts, Execute(a) PROVE DecisionInv'
    BY Zenon, <2>5 DEF Execute, Goto
  <2>6. ASSUME NEW a \in Attempts, Finalize(a) PROVE DecisionInv'
    BY Zenon, <2>6 DEF Finalize, Goto
  <2>7. ASSUME NEW a \in Attempts, Revoke(a) PROVE DecisionInv'
    BY Zenon, <2>7 DEF Revoke, Goto
  <2>8. ASSUME NEW a \in Attempts, Commit(a) PROVE DecisionInv'
    BY <2>8 DEF Commit, Goto, CommitScript, CommitWins
  <2>9. ASSUME NEW a \in Attempts, Settle(a) PROVE DecisionInv'
    BY Zenon, <2>9 DEF Settle, Dispose, Goto
  <2>10. ASSUME NEW a \in Attempts, Deliver(a) PROVE DecisionInv'
    BY Zenon, <2>10 DEF Deliver, Goto, Aborted
  <2>11. ASSUME NEW a \in Attempts, Crash(a) PROVE DecisionInv'
    BY Zenon, <2>11 DEF Crash, Dispose, Goto
  <2>12. ASSUME NEW a \in Attempts, DeadlineTimer(a) PROVE DecisionInv'
    BY Zenon, <2>12 DEF DeadlineTimer, Aborted
  <2>13. ASSUME NEW a \in Attempts, OnSubscriberMessage(a) PROVE DecisionInv'
    BY Zenon, <2>13 DEF OnSubscriberMessage, Aborted
  <2>14. ASSUME NEW a \in Attempts, LoseLink(a) PROVE DecisionInv'
    BY Zenon, <2>14 DEF LoseLink
  <2>15. ASSUME NEW a \in Attempts, Reconcile(a) PROVE DecisionInv'
    BY Zenon, <2>15 DEF Reconcile, Aborted
  <2>16. CASE Reserve
    BY Zenon, <2>16 DEF Reserve, Answer, ApiGoto
  <2>17. CASE Attach
    BY Zenon, <2>17 DEF Attach, Answer, ApiGoto
  <2>18. CASE Add
    BY Zenon, <2>18 DEF Add, ApiGoto
  <2>19. CASE Adding
    BY Zenon, <2>19 DEF Adding, ApiGoto
  <2>20. CASE WaitCompleted
    BY Zenon, <2>20 DEF WaitCompleted, Answer
  <2>21. CASE WaitFails
    BY Zenon, <2>21 DEF WaitFails, ApiGoto
  <2>22. CASE FenceReply
    BY <2>22 DEF FenceReply, CancelScript, Answer, FenceEnds
  <2>23. CASE FenceExpires
    BY Zenon, <2>23 DEF FenceExpires, FenceEnds
  <2>24. CASE Remove
    BY Zenon, <2>24 DEF Remove, RemoveIfWaiting
  <2>25. CASE FenceRetry
    BY Zenon, <2>25 DEF FenceRetry, CancelScript
  <2>26. CASE Enqueue
    BY Zenon, <2>26 DEF Enqueue
  <2>27. CASE FailStalled
    BY Zenon, <2>27 DEF FailStalled
  <2>28. CASE LateFence
    BY Zenon, <2>28 DEF LateFence, CancelScript
  <2>29. CASE StopRequest
    BY <2>29 DEF StopRequest
  <2>30. CASE StopDecide
    BY <2>30 DEF StopDecide, CancelScript
  <2>31. CASE StopRemove
    BY Zenon, <2>31 DEF StopRemove, RemoveIfWaiting
  <2>32. CASE DeadlinePasses
    BY <2>32 DEF DeadlinePasses
  <2>33. CASE RetentionPasses
    BY <2>33 DEF RetentionPasses
  <2>34. CASE DecisionExpires
    BY <2>34 DEF DecisionExpires
  <2>35. CASE ExecutionKeyExpires
    BY Zenon, <2>35 DEF ExecutionKeyExpires
  <2>36. CASE UNCHANGED vars
    BY Zenon, <2>36 DEF vars
  <2> QED
    BY ZenonT(60), <2>1, <2>2, <2>3, <2>4, <2>5, <2>6, <2>7, <2>8, <2>9, <2>10, <2>11, <2>12,
       <2>13, <2>14, <2>15, <2>16, <2>17, <2>18, <2>19, <2>20, <2>21, <2>22, <2>23,
       <2>24, <2>25, <2>26, <2>27, <2>28, <2>29, <2>30, <2>31, <2>32, <2>33, <2>34,
       <2>35, <2>36 DEF Next, AttemptStep, ApiStep
<1> QED
  BY <1>1, <1>2, TypeCorrect, EnqueueInvariant, PTL DEF Spec

(* Every result under way is the committed one. *)
THEOREM ResultInvariant == Spec => []ResultInv
<1>1. Init => ResultInv
  BY Zenon, NoneAssumption DEF Init, ResultInv, Live
<1>2. TypeOK /\ EnqueueInv /\ DecisionInv /\ ResultInv /\ [Next]_vars => ResultInv'
  <2> SUFFICES ASSUME TypeOK, EnqueueInv, DecisionInv, ResultInv, [Next]_vars
               PROVE  ResultInv'
    BY Zenon
  <2> USE NoneAssumption DEF ResultInv, DecisionInv, TypeOK, Live, ApiStates
  <2> USE DEF redis, bull, work, front, signal, apiRest, stopRest
  <2>1. ASSUME NEW a \in Attempts, Subscribe(a) PROVE ResultInv'
    BY ZenonT(60), <2>1 DEF Subscribe, Goto
  <2>2. ASSUME NEW a \in Attempts, CheckMarker(a) PROVE ResultInv'
    BY ZenonT(60), <2>2 DEF CheckMarker, Goto, Aborted
  <2>3. ASSUME NEW a \in Attempts, Claim(a) PROVE ResultInv'
    BY <2>3 DEF Claim, Goto, ClaimWins
  <2>4. ASSUME NEW a \in Attempts, Start(a) PROVE ResultInv'
    BY ZenonT(60), <2>4 DEF Start, Goto
  <2>5. ASSUME NEW a \in Attempts, Execute(a) PROVE ResultInv'
    BY ZenonT(60), <2>5 DEF Execute, Goto
  <2>6. ASSUME NEW a \in Attempts, Finalize(a) PROVE ResultInv'
    BY ZenonT(60), <2>6 DEF Finalize, Goto
  <2>7. ASSUME NEW a \in Attempts, Revoke(a) PROVE ResultInv'
    BY Zenon, <2>7 DEF Revoke, Goto
  <2>8. ASSUME NEW a \in Attempts, Commit(a) PROVE ResultInv'
    BY <2>8 DEF Commit, Goto, CommitScript, CommitWins
  <2>9. ASSUME NEW a \in Attempts, Settle(a) PROVE ResultInv'
    BY Zenon, <2>9 DEF Settle, Dispose, Goto
  <2>10. ASSUME NEW a \in Attempts, Deliver(a) PROVE ResultInv'
    BY Zenon, <2>10 DEF Deliver, Goto, Aborted
  <2>11. ASSUME NEW a \in Attempts, Crash(a) PROVE ResultInv'
    BY Zenon, <2>11 DEF Crash, Dispose, Goto
  <2>12. ASSUME NEW a \in Attempts, DeadlineTimer(a) PROVE ResultInv'
    BY Zenon, <2>12 DEF DeadlineTimer, Aborted
  <2>13. ASSUME NEW a \in Attempts, OnSubscriberMessage(a) PROVE ResultInv'
    BY Zenon, <2>13 DEF OnSubscriberMessage, Aborted
  <2>14. ASSUME NEW a \in Attempts, LoseLink(a) PROVE ResultInv'
    BY Zenon, <2>14 DEF LoseLink
  <2>15. ASSUME NEW a \in Attempts, Reconcile(a) PROVE ResultInv'
    BY Zenon, <2>15 DEF Reconcile, Aborted
  <2>16. CASE Reserve
    BY Zenon, <2>16 DEF Reserve, Answer, ApiGoto
  <2>17. CASE Attach
    BY Zenon, <2>17 DEF Attach, Answer, ApiGoto
  <2>18. CASE Add
    BY Zenon, <2>18 DEF Add, ApiGoto
  <2>19. CASE Adding
    BY Zenon, <2>19 DEF Adding, ApiGoto
  <2>20. CASE WaitCompleted
    BY Zenon, <2>20 DEF WaitCompleted, Answer
  <2>21. CASE WaitFails
    BY Zenon, <2>21 DEF WaitFails, ApiGoto
  <2>22. CASE FenceReply
    BY Zenon, <2>22 DEF FenceReply, CancelScript, Answer, FenceEnds
  <2>23. CASE FenceExpires
    BY Zenon, <2>23 DEF FenceExpires, FenceEnds
  <2>24. CASE Remove
    BY Zenon, <2>24 DEF Remove, RemoveIfWaiting
  <2>25. CASE FenceRetry
    BY Zenon, <2>25 DEF FenceRetry, CancelScript
  <2>26. CASE Enqueue
    BY Zenon, <2>26 DEF Enqueue
  <2>27. CASE FailStalled
    BY Zenon, <2>27 DEF FailStalled
  <2>28. CASE LateFence
    BY Zenon, <2>28 DEF LateFence, CancelScript
  <2>29. CASE StopRequest
    BY Zenon, <2>29 DEF StopRequest
  <2>30. CASE StopDecide
    BY Zenon, <2>30 DEF StopDecide, CancelScript
  <2>31. CASE StopRemove
    BY Zenon, <2>31 DEF StopRemove, RemoveIfWaiting
  <2>32. CASE DeadlinePasses
    BY Zenon, <2>32 DEF DeadlinePasses
  <2>33. CASE RetentionPasses
    BY Zenon, <2>33 DEF RetentionPasses
  <2>34. CASE DecisionExpires
    BY Zenon, <2>34 DEF DecisionExpires
  <2>35. CASE ExecutionKeyExpires
    BY Zenon, <2>35 DEF ExecutionKeyExpires
  <2>36. CASE UNCHANGED vars
    BY Zenon, <2>36 DEF vars
  <2> QED
    BY ZenonT(60), <2>1, <2>2, <2>3, <2>4, <2>5, <2>6, <2>7, <2>8, <2>9, <2>10, <2>11, <2>12,
       <2>13, <2>14, <2>15, <2>16, <2>17, <2>18, <2>19, <2>20, <2>21, <2>22, <2>23,
       <2>24, <2>25, <2>26, <2>27, <2>28, <2>29, <2>30, <2>31, <2>32, <2>33, <2>34,
       <2>35, <2>36 DEF Next, AttemptStep, ApiStep
<1> QED
  BY <1>1, <1>2, TypeCorrect, EnqueueInvariant, DecisionInvariant, PTL DEF Spec

(* A worker that has registered its controller is subscribed, and hears of
   every cancellation after that or reads it when it reconnects. *)
THEOREM SubscriptionInvariant == Spec => []SubscriptionInv
<1>1. Init => SubscriptionInv
  BY Zenon DEF Init, SubscriptionInv, CancellationReaches
<1>2. TypeOK /\ SubscriptionInv /\ [Next]_vars => SubscriptionInv'
  <2> SUFFICES ASSUME TypeOK, SubscriptionInv, [Next]_vars
               PROVE  SubscriptionInv'
    BY Zenon
  <2> USE DEF TypeOK, SubscriptionInv, CancellationReaches
  <2> USE DEF redis, bull, work, front, signal, apiRest, stopRest
  <2>1. ASSUME NEW a \in Attempts, Subscribe(a) PROVE SubscriptionInv'
    BY <2>1 DEF Subscribe, Goto
  <2>2. ASSUME NEW a \in Attempts, CheckMarker(a) PROVE SubscriptionInv'
    BY <2>2 DEF CheckMarker, Goto, Aborted
  <2>3. ASSUME NEW a \in Attempts, Claim(a) PROVE SubscriptionInv'
    BY <2>3 DEF Claim, Goto, ClaimWins
  <2>4. ASSUME NEW a \in Attempts, Start(a) PROVE SubscriptionInv'
    BY <2>4 DEF Start, Goto
  <2>5. ASSUME NEW a \in Attempts, Execute(a) PROVE SubscriptionInv'
    BY <2>5 DEF Execute, Goto
  <2>6. ASSUME NEW a \in Attempts, Finalize(a) PROVE SubscriptionInv'
    BY <2>6 DEF Finalize, Goto
  <2>7. ASSUME NEW a \in Attempts, Revoke(a) PROVE SubscriptionInv'
    BY Zenon, <2>7 DEF Revoke, Goto
  <2>8. ASSUME NEW a \in Attempts, Commit(a) PROVE SubscriptionInv'
    BY ZenonT(60), <2>8 DEF Commit, Goto, CommitScript, CommitWins
  <2>9. ASSUME NEW a \in Attempts, Settle(a) PROVE SubscriptionInv'
    BY ZenonT(60), <2>9 DEF Settle, Dispose, Goto
  <2>10. ASSUME NEW a \in Attempts, Deliver(a) PROVE SubscriptionInv'
    BY ZenonT(60), <2>10 DEF Deliver, Goto, Aborted
  <2>11. ASSUME NEW a \in Attempts, Crash(a) PROVE SubscriptionInv'
    BY ZenonT(60), <2>11 DEF Crash, Dispose, Goto
  <2>12. ASSUME NEW a \in Attempts, DeadlineTimer(a) PROVE SubscriptionInv'
    BY Zenon, <2>12 DEF DeadlineTimer, Aborted
  <2>13. ASSUME NEW a \in Attempts, OnSubscriberMessage(a) PROVE SubscriptionInv'
    BY Zenon, <2>13 DEF OnSubscriberMessage, Aborted
  <2>14. ASSUME NEW a \in Attempts, LoseLink(a) PROVE SubscriptionInv'
    BY Zenon, <2>14 DEF LoseLink
  <2>15. ASSUME NEW a \in Attempts, Reconcile(a) PROVE SubscriptionInv'
    BY Zenon, <2>15 DEF Reconcile, Aborted
  <2>16. CASE Reserve
    BY Zenon, <2>16 DEF Reserve, Answer, ApiGoto
  <2>17. CASE Attach
    BY Zenon, <2>17 DEF Attach, Answer, ApiGoto
  <2>18. CASE Add
    BY Zenon, <2>18 DEF Add, ApiGoto
  <2>19. CASE Adding
    BY Zenon, <2>19 DEF Adding, ApiGoto
  <2>20. CASE WaitCompleted
    BY Zenon, <2>20 DEF WaitCompleted, Answer
  <2>21. CASE WaitFails
    BY Zenon, <2>21 DEF WaitFails, ApiGoto
  <2>22. CASE FenceReply
    BY <2>22 DEF FenceReply, CancelScript, Answer, FenceEnds
  <2>23. CASE FenceExpires
    BY Zenon, <2>23 DEF FenceExpires, FenceEnds
  <2>24. CASE Remove
    BY Zenon, <2>24 DEF Remove, RemoveIfWaiting
  <2>25. CASE FenceRetry
    BY ZenonT(60), <2>25 DEF FenceRetry, CancelScript
  <2>26. CASE Enqueue
    BY Zenon, <2>26 DEF Enqueue
  <2>27. CASE FailStalled
    BY Zenon, <2>27 DEF FailStalled
  <2>28. CASE LateFence
    BY ZenonT(60), <2>28 DEF LateFence, CancelScript
  <2>29. CASE StopRequest
    BY Zenon, <2>29 DEF StopRequest
  <2>30. CASE StopDecide
    BY ZenonT(60), <2>30 DEF StopDecide, CancelScript
  <2>31. CASE StopRemove
    BY Zenon, <2>31 DEF StopRemove, RemoveIfWaiting
  <2>32. CASE DeadlinePasses
    BY Zenon, <2>32 DEF DeadlinePasses
  <2>33. CASE RetentionPasses
    BY Zenon, <2>33 DEF RetentionPasses
  <2>34. CASE DecisionExpires
    BY Zenon, <2>34 DEF DecisionExpires
  <2>35. CASE ExecutionKeyExpires
    BY Zenon, <2>35 DEF ExecutionKeyExpires
  <2>36. CASE UNCHANGED vars
    BY Zenon, <2>36 DEF vars
  <2> QED
    BY ZenonT(60), <2>1, <2>2, <2>3, <2>4, <2>5, <2>6, <2>7, <2>8, <2>9, <2>10, <2>11, <2>12,
       <2>13, <2>14, <2>15, <2>16, <2>17, <2>18, <2>19, <2>20, <2>21, <2>22, <2>23,
       <2>24, <2>25, <2>26, <2>27, <2>28, <2>29, <2>30, <2>31, <2>32, <2>33, <2>34,
       <2>35, <2>36 DEF Next, AttemptStep, ApiStep
<1> QED
  BY <1>1, <1>2, TypeCorrect, PTL DEF Spec

-----------------------------------------------------------------------------
(* The sandbox work of a job starts at most once (claimJobExecution), for
   any number of deliveries. *)
THEOREM SingleExecution == Spec => []AtMostOneExecution
  BY ExecutionInvariant, PTL DEF ExecutionInv, AtMostOneExecution

(* Every result anybody obtains is the one committed result
   (commitJobResult, fenceJobCancellation). *)
THEOREM OneResult == Spec => []ResultAgreement
  BY ResultInvariant, PTL DEF ResultInv, ResultAgreement

(* An acknowledged cancellation is never followed by a committed result
   (cancelJobInRedis against commitJobResult). *)
THEOREM CancellationWins == Spec => []CancellationIsFinal
  BY DecisionInvariant, PTL DEF DecisionInv, CancellationIsFinal

(* A cancellation is never lost on an attempt that has read the marker
   (JobCancellationRegistry.register and reconcile). *)
THEOREM CancellationArrives == Spec => []CancellationReaches
  BY SubscriptionInvariant, PTL DEF SubscriptionInv

(* Where the contract's steps come from: the attempts past the start have
   run, and the request has no outcome before it is answered. *)
THEOREM ControlInvariant == Spec => []ControlInv
<1>1. Init => ControlInv
  BY Zenon, NoneAssumption DEF Init, ControlInv
<1>2. TypeOK /\ ControlInv /\ [Next]_vars => ControlInv'
  <2> SUFFICES ASSUME TypeOK, ControlInv, [Next]_vars
               PROVE  ControlInv'
    BY Zenon
  <2> USE NoneAssumption DEF ControlInv, TypeOK, Live
  <2> USE DEF redis, bull, work, front, signal, apiRest, stopRest
  <2>1. ASSUME NEW a \in Attempts, Subscribe(a) PROVE ControlInv'
    BY ZenonT(60), <2>1 DEF Subscribe, Goto
  <2>2. ASSUME NEW a \in Attempts, CheckMarker(a) PROVE ControlInv'
    BY ZenonT(60), <2>2 DEF CheckMarker, Goto, Aborted
  <2>3. ASSUME NEW a \in Attempts, Claim(a) PROVE ControlInv'
    BY ZenonT(60), <2>3 DEF Claim, Goto, ClaimWins
  <2>4. ASSUME NEW a \in Attempts, Start(a) PROVE ControlInv'
    BY ZenonT(60), <2>4 DEF Start, Goto
  <2>5. ASSUME NEW a \in Attempts, Execute(a) PROVE ControlInv'
    BY Zenon, <2>5 DEF Execute, Goto
  <2>6. ASSUME NEW a \in Attempts, Finalize(a) PROVE ControlInv'
    BY Zenon, <2>6 DEF Finalize, Goto
  <2>7. ASSUME NEW a \in Attempts, Revoke(a) PROVE ControlInv'
    BY Zenon, <2>7 DEF Revoke, Goto
  <2>8. ASSUME NEW a \in Attempts, Commit(a) PROVE ControlInv'
    BY Zenon, <2>8 DEF Commit, Goto, CommitScript, CommitWins
  <2>9. ASSUME NEW a \in Attempts, Settle(a) PROVE ControlInv'
    BY Zenon, <2>9 DEF Settle, Dispose, Goto
  <2>10. ASSUME NEW a \in Attempts, Deliver(a) PROVE ControlInv'
    BY Zenon, <2>10 DEF Deliver, Goto, Aborted
  <2>11. ASSUME NEW a \in Attempts, Crash(a) PROVE ControlInv'
    BY Zenon, <2>11 DEF Crash, Dispose, Goto
  <2>12. ASSUME NEW a \in Attempts, DeadlineTimer(a) PROVE ControlInv'
    BY Zenon, <2>12 DEF DeadlineTimer, Aborted
  <2>13. ASSUME NEW a \in Attempts, OnSubscriberMessage(a) PROVE ControlInv'
    BY Zenon, <2>13 DEF OnSubscriberMessage, Aborted
  <2>14. ASSUME NEW a \in Attempts, LoseLink(a) PROVE ControlInv'
    BY Zenon, <2>14 DEF LoseLink
  <2>15. ASSUME NEW a \in Attempts, Reconcile(a) PROVE ControlInv'
    BY Zenon, <2>15 DEF Reconcile, Aborted
  <2>16. CASE Reserve
    BY Zenon, <2>16 DEF Reserve, Answer, ApiGoto
  <2>17. CASE Attach
    BY Zenon, <2>17 DEF Attach, Answer, ApiGoto
  <2>18. CASE Add
    BY Zenon, <2>18 DEF Add, ApiGoto
  <2>19. CASE Adding
    BY Zenon, <2>19 DEF Adding, ApiGoto
  <2>20. CASE WaitCompleted
    BY Zenon, <2>20 DEF WaitCompleted, Answer
  <2>21. CASE WaitFails
    BY Zenon, <2>21 DEF WaitFails, ApiGoto
  <2>22. CASE FenceReply
    BY Zenon, <2>22 DEF FenceReply, CancelScript, Answer, FenceEnds
  <2>23. CASE FenceExpires
    BY Zenon, <2>23 DEF FenceExpires, FenceEnds
  <2>24. CASE Remove
    BY Zenon, <2>24 DEF Remove, RemoveIfWaiting
  <2>25. CASE FenceRetry
    BY Zenon, <2>25 DEF FenceRetry, CancelScript
  <2>26. CASE Enqueue
    BY Zenon, <2>26 DEF Enqueue
  <2>27. CASE FailStalled
    BY Zenon, <2>27 DEF FailStalled
  <2>28. CASE LateFence
    BY Zenon, <2>28 DEF LateFence, CancelScript
  <2>29. CASE StopRequest
    BY Zenon, <2>29 DEF StopRequest
  <2>30. CASE StopDecide
    BY Zenon, <2>30 DEF StopDecide, CancelScript
  <2>31. CASE StopRemove
    BY Zenon, <2>31 DEF StopRemove, RemoveIfWaiting
  <2>32. CASE DeadlinePasses
    BY Zenon, <2>32 DEF DeadlinePasses
  <2>33. CASE RetentionPasses
    BY Zenon, <2>33 DEF RetentionPasses
  <2>34. CASE DecisionExpires
    BY Zenon, <2>34 DEF DecisionExpires
  <2>35. CASE ExecutionKeyExpires
    BY Zenon, <2>35 DEF ExecutionKeyExpires
  <2>36. CASE UNCHANGED vars
    BY Zenon, <2>36 DEF vars
  <2> QED
    BY Zenon, <2>1, <2>2, <2>3, <2>4, <2>5, <2>6, <2>7, <2>8, <2>9, <2>10, <2>11, <2>12,
       <2>13, <2>14, <2>15, <2>16, <2>17, <2>18, <2>19, <2>20, <2>21, <2>22, <2>23,
       <2>24, <2>25, <2>26, <2>27, <2>28, <2>29, <2>30, <2>31, <2>32, <2>33, <2>34,
       <2>35, <2>36 DEF Next, AttemptStep, ApiStep
<1> QED
  BY <1>1, <1>2, TypeCorrect, PTL DEF Spec

(* The attempts, the request, the Stop endpoint and the Redis keys between
   them implement the contract of a job (JobContract): every step is a start,
   a completion, a cancellation or an answer the contract allows, or changes
   nothing its callers see. *)
THEOREM ContractKept == Spec => Implements
<1>1. Init => Contract!Init
  BY Zenon DEF Init, Contract!Init
<1>2. IInv /\ IInv' /\ ControlInv /\ [Next]_vars => [Contract!Next]_(Contract!vars)
  <2> SUFFICES ASSUME IInv, IInv', ControlInv, [Next]_vars
               PROVE  [Contract!Next]_(Contract!vars)
    BY Zenon
  <2> DEFINE CStep == [Contract!Next]_(Contract!vars)
             Cancelled == stop = "accepted" \/ apiOut = "cancelled"
             Told == IF apiOut = "result" THEN apiValue ELSE None
  <2>a. ASSUME ran' = ran, committed' = committed, Cancelled' <=> Cancelled, Told' = Told
        PROVE  CStep
    BY <2>a, Zenon DEF Contract!vars
  <2>b. ASSUME ran' = ran, committed' = committed, committed = None, Cancelled', Told' = Told
        PROVE  CStep
    BY <2>b, Zenon DEF Contract!Next, Contract!Cancel
  <2>c. ASSUME ran' = ran, committed' = committed, committed # None, Told' = committed, Cancelled' <=> Cancelled
        PROVE  CStep
    BY <2>c, Zenon DEF Contract!Next, Contract!Tell
  <2>e. ASSUME NEW a \in Attempts, ran = {}, ran' = {a}, committed' = committed,
               Cancelled' <=> Cancelled, Told' = Told
        PROVE  CStep
    BY <2>e, Zenon DEF Contract!Next, Contract!Start
  <2>f. ASSUME ran' = ran, committed = None, ~Cancelled, committed' \in ran,
               Cancelled' <=> Cancelled, Told' = Told
        PROVE  CStep
    BY <2>f, Zenon DEF Contract!Next, Contract!Complete
  <2> HIDE DEF CStep
  <2>d. ASSUME UNCHANGED <<ran, committed, stop, apiOut, apiValue>>
        PROVE  CStep
    BY Zenon, <2>a, <2>d
  <2> USE NoneAssumption DEF redis, bull, work, front, signal, apiRest, stopRest
  <2>1. ASSUME NEW a \in Attempts, Subscribe(a) PROVE CStep
    BY Zenon, <2>1, <2>d DEF Subscribe, Goto
  <2>2. ASSUME NEW a \in Attempts, CheckMarker(a) PROVE CStep
    BY Zenon, <2>2, <2>d DEF CheckMarker, Goto, Aborted
  <2>3. ASSUME NEW a \in Attempts, Claim(a) PROVE CStep
    BY Zenon, <2>3, <2>d DEF Claim, Goto, ClaimWins
  <2>4. ASSUME NEW a \in Attempts, Start(a) PROVE CStep
    <3>1. CASE ran' = ran
      BY Zenon, <2>4, <3>1, <2>d DEF Start
    <3>2. CASE ran' # ran
      <4>1. apc[a] = "start" /\ abort[a] = "no" /\ ran' = ran \cup {a} /\ a \notin ran
        BY Zenon, <2>4, <3>2 DEF Start
      <4>2. now < 2
        BY <4>1 DEF IInv, ExecutionInv, TypeOK, Live
      <4>3. ran = {}
        BY <4>1, <4>2 DEF IInv, ExecutionInv, Permitted, TypeOK
      <4>4. ran' = {a}
        BY Zenon, <4>1, <4>3
      <4>5. UNCHANGED <<committed, stop, apiOut, apiValue>>
        BY Zenon, <2>4 DEF Start
      <4> QED
        BY <4>3, <4>4, <4>5, <2>e, Zenon
    <3> QED
      BY Zenon, <3>1, <3>2
  <2>5. ASSUME NEW a \in Attempts, Execute(a) PROVE CStep
    BY Zenon, <2>5, <2>d DEF Execute, Goto
  <2>6. ASSUME NEW a \in Attempts, Finalize(a) PROVE CStep
    BY Zenon, <2>6, <2>d DEF Finalize, Goto
  <2>7. ASSUME NEW a \in Attempts, Revoke(a) PROVE CStep
    BY Zenon, <2>7, <2>d DEF Revoke, Goto
  <2>8. ASSUME NEW a \in Attempts, Commit(a) PROVE CStep
    <3>1. CASE ~CommitWins
      BY Zenon, <2>8, <3>1, <2>d DEF Commit, CommitScript
    <3>2. CASE CommitWins
      <4>1. committed' = a /\ apc[a] = "commit" /\ UNCHANGED <<ran, stop, apiOut, apiValue>>
        BY Zenon, <2>8, <3>2 DEF Commit, CommitScript
      <4>2. decision = "none" /\ now = 0
        BY Zenon, <3>2 DEF CommitWins
      <4>3. committed = None
        BY <4>2 DEF IInv, DecisionInv
      <4>4. "add" \in sent
        BY Zenon, <4>1 DEF IInv, EnqueueInv
      <4>5. ~Cancelled
        BY <4>2, <4>4 DEF IInv, DecisionInv
      <4>6. committed' \in ran
        BY Zenon, <4>1 DEF ControlInv
      <4> QED
        BY <4>1, <4>3, <4>5, <4>6, <2>f, Zenon
    <3> QED
      BY Zenon, <3>1, <3>2
  <2>9. ASSUME NEW a \in Attempts, Settle(a) PROVE CStep
    BY Zenon, <2>9, <2>d DEF Settle, Dispose, Goto
  <2>10. ASSUME NEW a \in Attempts, Deliver(a) PROVE CStep
    BY Zenon, <2>10, <2>d DEF Deliver, Goto, Aborted
  <2>11. ASSUME NEW a \in Attempts, Crash(a) PROVE CStep
    BY Zenon, <2>11, <2>d DEF Crash, Dispose, Goto
  <2>12. ASSUME NEW a \in Attempts, DeadlineTimer(a) PROVE CStep
    BY Zenon, <2>12, <2>d DEF DeadlineTimer, Aborted
  <2>13. ASSUME NEW a \in Attempts, OnSubscriberMessage(a) PROVE CStep
    BY Zenon, <2>13, <2>d DEF OnSubscriberMessage, Aborted
  <2>14. ASSUME NEW a \in Attempts, LoseLink(a) PROVE CStep
    BY Zenon, <2>14, <2>d DEF LoseLink
  <2>15. ASSUME NEW a \in Attempts, Reconcile(a) PROVE CStep
    BY Zenon, <2>15, <2>d DEF Reconcile, Aborted
  <2>16. ASSUME Reserve PROVE CStep
    <3>1. UNCHANGED <<ran, committed, stop>> /\ apiOut = "none" /\ apiOut' \in {"none", "refused"}
      BY Zenon, <2>16 DEF Reserve, Answer, ApiGoto, ControlInv
    <3> QED
      BY Zenon, <3>1, <2>a
  <2>17. ASSUME Attach PROVE CStep
    <3>1. UNCHANGED <<ran, committed, stop>> /\ apiOut = "none" /\ apiOut' \in {"none", "refused"}
      BY Zenon, <2>17 DEF Attach, Answer, ApiGoto, ControlInv
    <3> QED
      BY Zenon, <3>1, <2>a
  <2>18. ASSUME Add PROVE CStep
    BY Zenon, <2>18, <2>d DEF Add, ApiGoto
  <2>19. ASSUME Adding PROVE CStep
    BY Zenon, <2>19, <2>d DEF Adding, ApiGoto
  <2>20. ASSUME WaitCompleted PROVE CStep
    <3>1. /\ UNCHANGED <<ran, committed, stop>> /\ apiOut = "none"
          /\ apiOut' = "result" /\ apiValue' = value /\ job = "completed"
      BY Zenon, <2>20 DEF WaitCompleted, Answer, ControlInv
    <3>2. value = committed /\ committed # None
      BY Zenon, <3>1 DEF IInv, ResultInv
    <3> QED
      BY Zenon, <3>1, <3>2, <2>c
  <2>21. ASSUME WaitFails PROVE CStep
    BY Zenon, <2>21, <2>d DEF WaitFails, ApiGoto
  <2>22. ASSUME FenceReply PROVE CStep
    <3>1. UNCHANGED <<ran, committed, stop>> /\ apiOut = "none"
      BY Zenon, <2>22 DEF FenceReply, ControlInv
    <3>2. CASE decision = "completed"
      <4>1. apiOut' = "result" /\ apiValue' = committed /\ committed # None
        BY Zenon, <2>22, <3>2 DEF FenceReply, Answer, IInv, DecisionInv
      <4> QED
        BY Zenon, <3>1, <4>1, <2>c
    <3>3. CASE decision # "completed"
      <4>1. apiOut' = "cancelled"
        BY Zenon, <2>22, <3>3 DEF FenceReply, FenceEnds
      <4>2. committed = None
        BY Zenon, <3>1, <4>1 DEF IInv, DecisionInv
      <4> QED
        BY Zenon, <3>1, <4>1, <4>2, <2>b
    <3> QED
      BY Zenon, <3>2, <3>3
  <2>23. ASSUME FenceExpires PROVE CStep
    <3>1. UNCHANGED <<ran, committed, stop>> /\ apiOut = "none" /\ apiOut' = "expired"
      BY Zenon, <2>23 DEF FenceExpires, FenceEnds, ControlInv
    <3> QED
      BY Zenon, <3>1, <2>a
  <2>24. ASSUME Remove PROVE CStep
    BY Zenon, <2>24, <2>d DEF Remove, RemoveIfWaiting
  <2>25. ASSUME FenceRetry PROVE CStep
    BY Zenon, <2>25, <2>d DEF FenceRetry, CancelScript
  <2>26. ASSUME Enqueue PROVE CStep
    BY Zenon, <2>26, <2>d DEF Enqueue
  <2>27. ASSUME FailStalled PROVE CStep
    BY Zenon, <2>27, <2>d DEF FailStalled
  <2>28. ASSUME LateFence PROVE CStep
    BY Zenon, <2>28, <2>d DEF LateFence, CancelScript
  <2>29. ASSUME StopRequest PROVE CStep
    <3>1. UNCHANGED <<ran, committed, apiOut, apiValue>> /\ stop = "idle"
      BY Zenon, <2>29 DEF StopRequest
    <3>2. CASE stop' = "accepted"
      <4>1. committed = None
        BY Zenon, <3>1, <3>2 DEF IInv, DecisionInv
      <4> QED
        BY Zenon, <3>1, <3>2, <4>1, <2>b
    <3>3. CASE stop' # "accepted"
      BY Zenon, <3>1, <3>3, <2>a
    <3> QED
      BY Zenon, <3>2, <3>3
  <2>30. ASSUME StopDecide PROVE CStep
    <3>1. UNCHANGED <<ran, committed, apiOut, apiValue>> /\ stop = "decide" /\ stop' # "accepted"
      BY Zenon, <2>30 DEF StopDecide
    <3> QED
      BY Zenon, <3>1, <2>a
  <2>31. ASSUME StopRemove PROVE CStep
    <3>1. UNCHANGED <<ran, committed, apiOut, apiValue>> /\ stop' = "accepted"
      BY Zenon, <2>31 DEF StopRemove
    <3>2. committed = None
      BY Zenon, <3>1 DEF IInv, DecisionInv
    <3> QED
      BY Zenon, <3>1, <3>2, <2>b
  <2>32. ASSUME DeadlinePasses PROVE CStep
    BY Zenon, <2>32, <2>d DEF DeadlinePasses
  <2>33. ASSUME RetentionPasses PROVE CStep
    BY Zenon, <2>33, <2>d DEF RetentionPasses
  <2>34. ASSUME DecisionExpires PROVE CStep
    BY Zenon, <2>34, <2>d DEF DecisionExpires
  <2>35. ASSUME ExecutionKeyExpires PROVE CStep
    BY Zenon, <2>35, <2>d DEF ExecutionKeyExpires
  <2>36. ASSUME UNCHANGED vars PROVE CStep
    BY Zenon, <2>36, <2>d DEF vars
  <2>37. CStep
    BY Zenon, <2>1, <2>2, <2>3, <2>4, <2>5, <2>6, <2>7, <2>8, <2>9, <2>10, <2>11, <2>12,
       <2>13, <2>14, <2>15, <2>16, <2>17, <2>18, <2>19, <2>20, <2>21, <2>22, <2>23,
       <2>24, <2>25, <2>26, <2>27, <2>28, <2>29, <2>30, <2>31, <2>32, <2>33, <2>34,
       <2>35, <2>36 DEF Next, AttemptStep, ApiStep
  <2> QED
    BY Zenon, <2>37 DEF CStep
<1> QED
  BY <1>1, <1>2, TypeCorrect, ExecutionInvariant, EnqueueInvariant, DecisionInvariant,
     ResultInvariant, ControlInvariant, PTL
     DEF Spec, IInv, Implements, Contract!Spec
=============================================================================
