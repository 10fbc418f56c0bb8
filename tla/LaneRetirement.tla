--------------------------- MODULE LaneRetirement ---------------------------
(* Linked worktrees of one checkout in a worker: the requests that use them  *)
(* (packages/code/src/linked-worktrees.ts) and the background pass that      *)
(* removes stale ones (worktree-retirement.ts).  What would be lost by       *)
(* removing a worktree is abstracted to three kinds of work: uncommitted     *)
(* changes, commits no remote has, and ignored files written in the lane     *)
(* since it was last idle, or from outside it since a pass took it up.       *)
EXTENDS Integers, FiniteSets

CONSTANTS
    Lanes,          \* worktrees
    Requests,
    Checkout,       \* the target of a request outside any lane
    InspectLimit,   \* limits.inspect
    MaxPasses,      \* bound on the passes
    MaxUser,        \* bound on the steps of a user at the keyboard
    None

VARIABLES
    tree,       \* worktrees on disk
    work,       \* what removing each would lose
    head,       \* changes with every commit
    diskTime,   \* lastActivity
    used,       \* `used`
    events,     \* checkoutEvents
    recent,     \* used less than idleMs ago
    locked, quarantined,
    target, reqPc,
    retiring,   \* the lane reserved by whileIdle
    lanes,      \* registered lanes
    pass,       \* where the pass is
    candidates, \* still to look at in this pass
    inspected,  \* how many it has inspected
    rotation,
    cand,       \* the candidate, with what was read of it
    stopping,   \* stop was called
    passes, userSteps

vars == <<tree, work, head, diskTime, used, events, recent, locked, quarantined, target, reqPc,
          retiring, lanes, pass, candidates, inspected, rotation, cand, stopping, passes, userSteps>>
diskVars == <<tree, work, head, diskTime>>
useVars == <<used, events, recent>>
marks == <<locked, quarantined>>
reqVars == <<target, reqPc>>
passVars == <<pass, candidates, inspected, rotation, cand, passes>>

NoCand == [lane |-> None, used |-> 0, disk |-> 0, checkout |-> 0, head |-> 0]

Init ==
    /\ tree = Lanes /\ work \in [Lanes -> {{}, {"unpushed"}}]
    /\ head = [w \in Lanes |-> 0] /\ diskTime = [w \in Lanes |-> 0]
    /\ used = [w \in Lanes |-> 0] /\ events = 0 /\ recent = {}
    /\ locked = {} /\ quarantined = {}
    /\ target \in [Requests -> Lanes \cup {Checkout}] /\ reqPc = [r \in Requests |-> "new"]
    /\ retiring = None /\ lanes = {}
    /\ pass = "idle" /\ candidates = {} /\ inspected = 0 /\ rotation = {} /\ cand = NoCand
    /\ stopping = FALSE /\ passes = 0 /\ userSteps = 0
-----------------------------------------------------------------------------
(* Requests.                                                                 *)
SetReq(r, s) == reqPc' = [reqPc EXCEPT ![r] = s]
ActiveOn(t) == {r \in Requests : target[r] = t /\ reqPc[r] \in {"wait", "inside"}}

(* `tracked` notes the start and the end of every request.                   *)
Record(t) ==
    IF t = Checkout THEN events' = events + 1 /\ UNCHANGED <<used, recent>>
    ELSE used' = [used EXCEPT ![t] = @ + 1] /\ recent' = recent \cup {t} /\ UNCHANGED events

(* A request is counted from its first step.                                 *)
Arrive(r) ==
    /\ reqPc[r] = "new" /\ SetReq(r, "wait") /\ Record(target[r])
    /\ UNCHANGED <<diskVars, marks, target, retiring, lanes, passVars, stopping, userSteps>>

(* afterRetirement: a request waits while its lane, or a lane of its         *)
(* checkout, is being retired.                                               *)
Collides(r) == retiring # None /\ target[r] \in {retiring, Checkout}

(* It then verifies the lane, again if it had to wait.                       *)
Enter(r) ==
    LET t == target[r] IN
    /\ reqPc[r] = "wait" /\ ~Collides(r)
    /\ IF t = Checkout THEN SetReq(r, "inside") /\ UNCHANGED <<lanes, useVars>>
       ELSE IF t \in tree THEN SetReq(r, "inside") /\ lanes' = lanes \cup {t} /\ UNCHANGED useVars
       ELSE SetReq(r, "done") /\ lanes' = lanes \ {t} /\ Record(t)
    /\ UNCHANGED <<diskVars, marks, target, retiring, passVars, stopping, userSteps>>

(* A request works in its lane; one outside any lane reaches every lane.     *)
Works(r) ==
    /\ reqPc[r] = "inside"
    /\ \E w \in tree :
        /\ target[r] \in {w, Checkout}
        /\ \/ \E k \in {"dirty", "ignored"} : work' = [work EXCEPT ![w] = @ \cup {k}] /\ UNCHANGED <<head, diskTime>>
           \/ /\ "dirty" \in work[w] /\ head[w] < 1
              /\ work' = [work EXCEPT ![w] = (@ \ {"dirty"}) \cup {"unpushed"}]
              /\ head' = [head EXCEPT ![w] = @ + 1] /\ diskTime' = [diskTime EXCEPT ![w] = @ + 1]
           \/ work' = [work EXCEPT ![w] = @ \ {"unpushed"}] /\ UNCHANGED <<head, diskTime>>
    /\ UNCHANGED <<tree, useVars, marks, reqVars, retiring, lanes, passVars, stopping, userSteps>>

(* It ends; one that failed halfway leaves its lane in quarantine.           *)
Leave(r) ==
    /\ reqPc[r] \in {"wait", "inside"} /\ SetReq(r, "done") /\ Record(target[r])
    /\ quarantined' \in {quarantined} \cup
            (IF reqPc[r] = "inside" THEN {quarantined \cup {target[r]}} ELSE {})
    /\ UNCHANGED <<diskVars, locked, target, retiring, lanes, passVars, stopping, userSteps>>

(* Someone else uses a worktree outside the worker: they change a tracked    *)
(* file or commit on its branch, or lock the worktree.                       *)
User(w) ==
    /\ w \in tree /\ userSteps < MaxUser /\ userSteps' = userSteps + 1
    /\ \/ work' = [work EXCEPT ![w] = @ \cup {"dirty"}] /\ UNCHANGED locked
       \/ locked' = locked \cup {w} /\ UNCHANGED work
    /\ UNCHANGED <<tree, head, diskTime, useVars, quarantined, reqVars, retiring, lanes, passVars, stopping>>

(* Days go by between two passes.  What nobody touched for that long is no   *)
(* longer fresh.                                                             *)
Age(w) ==
    /\ pass = "idle" /\ w \in recent /\ ActiveOn(w) \cup ActiveOn(Checkout) = {}
    /\ recent' = recent \ {w} /\ work' = [work EXCEPT ![w] = @ \ {"ignored"}]
    /\ UNCHANGED <<tree, head, diskTime, used, events, marks, reqVars, retiring, lanes, passVars, stopping, userSteps>>
-----------------------------------------------------------------------------
(* Retirement.                                                               *)

(* A pass lists the idle worktrees.  Those it has inspected in this rotation *)
(* come last.                                                                *)
PassBegins ==
    /\ pass = "idle" /\ ~stopping /\ passes < MaxPasses /\ passes' = passes + 1
    /\ LET found == IF Checkout \in quarantined THEN {} ELSE tree \ recent
           kept == rotation \cap found IN
       /\ candidates' = found
       /\ rotation' = IF kept = found THEN {} ELSE kept
       /\ pass' = IF found = {} THEN "idle" ELSE "next"
    /\ inspected' = 0
    /\ UNCHANGED <<diskVars, useVars, marks, reqVars, retiring, lanes, cand, stopping, userSteps>>

(* Candidates not inspected in this rotation come first.                     *)
Preferred(w) == w \in candidates /\ (w \in rotation => candidates \subseteq rotation)

(* The next candidate is inspected; its times were read with the list, the   *)
(* checkout's activity now.                                                  *)
TakeCandidate(w) ==
    /\ pass = "next" /\ ~stopping /\ inspected < InspectLimit /\ Preferred(w)
    /\ cand' = [lane |-> w, used |-> used[w], disk |-> diskTime[w], checkout |-> events, head |-> head[w]]
    /\ w \notin recent /\ candidates' = candidates \ {w} /\ inspected' = inspected + 1
    /\ rotation' = rotation \cup {w} /\ pass' = "inspect"
    /\ work' = [work EXCEPT ![w] = @ \ {"ignored"}]
    /\ UNCHANGED <<tree, head, diskTime, useVars, marks, reqVars, retiring, lanes, passes, stopping, userSteps>>

(* A candidate that was used since the list was made is kept, as the times   *)
(* will not agree.                                                           *)
SkipUsed(w) ==
    /\ pass = "next" /\ ~stopping /\ inspected < InspectLimit /\ Preferred(w) /\ w \in recent
    /\ candidates' = candidates \ {w} /\ inspected' = inspected + 1 /\ rotation' = rotation \cup {w}
    /\ UNCHANGED <<diskVars, useVars, marks, reqVars, retiring, lanes, pass, cand, passes, stopping, userSteps>>

(* `inspect`: quarantine, lock, HEAD and changes, and whether a remote has   *)
(* HEAD.                                                                     *)
Inspect ==
    /\ pass = "inspect" /\ ~stopping
    /\ LET w == cand.lane IN
       IF w \notin quarantined \cup locked /\ w \in tree /\ work[w] \cap {"dirty", "unpushed"} = {}
       THEN pass' = "reserve" /\ cand' = [cand EXCEPT !.head = head[w]]
       ELSE pass' = "next" /\ cand' = NoCand
    /\ UNCHANGED <<diskVars, useVars, marks, reqVars, retiring, lanes, candidates, inspected,
                   rotation, passes, stopping, userSteps>>

(* (Looks at the lane alone.)                                                *)
LaneIdle(w) == ActiveOn(w) = {}

(* whileIdle: no request is in the lane or in its checkout.                  *)
Idle(w) == ActiveOn(w) \cup ActiveOn(Checkout) = {}

Reserve ==
    /\ pass = "reserve" /\ ~stopping
    /\ IF Idle(cand.lane)
       THEN retiring' = cand.lane /\ pass' = "recheck" /\ UNCHANGED cand
       ELSE pass' = "next" /\ cand' = NoCand /\ UNCHANGED retiring
    /\ UNCHANGED <<diskVars, useVars, marks, reqVars, lanes, candidates, inspected, rotation, passes,
                   stopping, userSteps>>

(* Nothing has moved since the inspection.                                   *)
Unchanged(w) ==
    /\ used[w] = cand.used /\ events = cand.checkout
    /\ {w, Checkout} \cap quarantined = {} /\ w \in tree /\ w \notin locked
    /\ diskTime[w] = cand.disk /\ head[w] = cand.head

Settled == pass' = "next" /\ cand' = NoCand /\ retiring' = None

Recheck ==
    /\ pass = "recheck"
    /\ IF Unchanged(cand.lane) /\ ~stopping
       THEN pass' = "remove" /\ UNCHANGED <<cand, retiring, lanes>>
       ELSE Settled /\ lanes' = lanes \ {cand.lane}
    /\ UNCHANGED <<diskVars, useVars, marks, reqVars, candidates, inspected, rotation, passes, stopping, userSteps>>

(* git worktree remove refuses a locked or changed worktree by itself; it is *)
(* not cancelled once begun.  The lane is released and the waiting requests  *)
(* go on.                                                                    *)
Remove ==
    /\ pass = "remove"
    /\ LET w == cand.lane IN
       /\ \/ "dirty" \notin work[w] /\ w \notin locked /\ tree' = tree \ {w}
          \/ UNCHANGED tree
       /\ lanes' = lanes \ {w}
    /\ Settled
    /\ UNCHANGED <<work, head, diskTime, useVars, marks, reqVars, candidates, inspected, rotation,
                   passes, stopping, userSteps>>

(* The pass ends, at its limits or when it is stopped.                       *)
PassEnds ==
    /\ pass \in {"next", "inspect", "reserve"}
    /\ stopping \/ (pass = "next" /\ (candidates = {} \/ inspected >= InspectLimit))
    /\ pass' = "idle" /\ candidates' = {} /\ cand' = NoCand
    /\ UNCHANGED <<diskVars, useVars, marks, reqVars, retiring, lanes, inspected, rotation, passes,
                   stopping, userSteps>>

(* The scheduler is stopped; it waits for the pass.                          *)
Stop ==
    /\ ~stopping /\ stopping' = TRUE
    /\ UNCHANGED <<diskVars, useVars, marks, reqVars, retiring, lanes, passVars, userSteps>>

Next ==
    \/ \E r \in Requests : Arrive(r) \/ Enter(r) \/ Works(r) \/ Leave(r)
    \/ \E w \in Lanes : User(w) \/ Age(w) \/ TakeCandidate(w) \/ SkipUsed(w)
    \/ PassBegins \/ Inspect \/ Reserve \/ Recheck \/ Remove \/ PassEnds \/ Stop

Spec == Init /\ [][Next]_vars
-----------------------------------------------------------------------------
TypeOK ==
    /\ tree \subseteq Lanes /\ work \in [Lanes -> SUBSET {"dirty", "unpushed", "ignored"}]
    /\ reqPc \in [Requests -> {"new", "wait", "inside", "done"}]
    /\ pass \in {"idle", "next", "inspect", "reserve", "recheck", "remove"}
    /\ retiring \in Lanes \cup {None} /\ lanes \subseteq Lanes /\ rotation \subseteq Lanes

(* No request is at work where a worktree is being removed.                  *)
Alone ==
    retiring # None =>
        \A r \in Requests : target[r] \in {retiring, Checkout} => reqPc[r] # "inside"

(* A lane in use is on disk.                                                 *)
InUseOnDisk == \A r \in Requests : reqPc[r] = "inside" /\ target[r] # Checkout => target[r] \in tree

(* What is removed has no uncommitted change, no commit without a remote and *)
(* no ignored file of the requests the inspection did not see.               *)
NothingLost == \A w \in tree \ tree' : work[w] = {} /\ w \notin quarantined \cup locked

(* Once the scheduler has stopped, nothing is removed.                       *)
StoppedIsStopped == stopping /\ pass = "idle" => UNCHANGED tree

(* No worktree is inspected again while another still waits for its turn.    *)
RotationFair ==
    \A w \in rotation : pass = "next" /\ cand'.lane = w => candidates \subseteq rotation

Inv == TypeOK /\ Alone /\ InUseOnDisk
StepOK == NothingLost /\ StoppedIsStopped /\ RotationFair

(* Retiring stale worktrees loses nobody's work and takes none away from a   *)
(* request, however requests, passes and users interleave; and every idle    *)
(* worktree gets its turn (whileIdle, remove, retireStaleWorktrees).         *)
RetirementSafe == []Inv /\ [][StepOK]_vars
=============================================================================
