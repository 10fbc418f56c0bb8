--------------------------- MODULE WorkspaceSlots ---------------------------
(***************************************************************************)
(* Admission of requests to one bridge worker that serves several native   *)
(* workspaces at once (bridge/admission.ts, bridge/slots.ts and the        *)
(* waiting loop of RedisBridgeStore.dispatch).                             *)
(*                                                                         *)
(* Every request names a workspace key: a checkout, or a linked-worktree   *)
(* lane whose Parent is a checkout.  It waits in a bounded FIFO queue for  *)
(* one of the worker's slots.  The slots of an incarnation share the       *)
(* worker's lock with executions that need no workspace.                   *)
(*                                                                         *)
(* Redis TTLs are remaining times, counted down together by Tick; the      *)
(* clocks of the API replicas and of Redis are taken to agree.             *)
(***************************************************************************)
EXTENDS Naturals, FiniteSets

CONSTANTS
  Requests,      \* requests for a workspace; an id is used again once its
                 \* earlier reservation is gone
  Plain,         \* executions without a workspace, which take the lock alone
  Incarnations,  \* worker processes
  None,
  Keys,          \* [Requests -> sets of the workspace keys it may name]
  Parent,        \* [workspace keys -> checkout of a lane, or None]
  Slots,         \* the slot capacity all incarnations negotiated
  MaxPending,    \* capacity of the admission queue (32)
  Budget,        \* time a request is prepared to wait
  MaxHold,       \* bound on the time a reservation is made for
  Mortal         \* requests whose API replica may die or lose Redis

ASSUME ConstantsAssumption ==
  /\ Slots \in Nat \ {0} /\ MaxPending \in Nat /\ Budget \in Nat \ {0} /\ MaxHold \in Nat \ {0}
  /\ IsFiniteSet(Requests) /\ Mortal \subseteq Requests
  /\ None \notin Requests \cup Plain \cup Incarnations
  /\ Requests \cap Plain = {} /\ Plain \cap Incarnations = {}

(* workspaceIsolationKey: a lane nests beneath a checkout, never beneath   *)
(* another lane.                                                           *)
ASSUME ParentAssumption ==
  /\ None \notin DOMAIN Parent
  /\ \A r \in Requests : Keys[r] \subseteq DOMAIN Parent
  /\ \A k \in DOMAIN Parent :
       Parent[k] # None => Parent[k] \in DOMAIN Parent /\ Parent[Parent[k]] = None

VARIABLES
  waiting,   \* the entries of the admission ZSET
  older,     \* for each of them, those with a smaller sequence number
  wait,      \* remaining admission time of each entry
  slot,      \* workspace-slots hash: the request in each slot
  slotInc,   \* ... the incarnation it was reserved for
  slotTtl,   \* ... and how much longer
  hashTtl,   \* TTL of the hash
  lock,      \* the lock: a plain execution, or the incarnation whose slots
             \* own it ("workspace-slots:<incarnation>")
  lockTtl,
  current,   \* registered incarnation
  pc,        \* control state of each dispatcher
  key,       \* the workspace its request names
  inc,       \* the incarnation it dispatches to
  granted,   \* the slot it was told, None before
  until      \* remaining time of that reservation, or of a plain lock

queue == <<waiting, older, wait>>
hash  == <<slot, slotInc, slotTtl, hashTtl>>
locks == <<lock, lockTtl>>
disp  == <<pc, key, inc, granted, until>>
vars  == <<queue, hash, locks, current, disp>>

SlotIds == 0..(Slots - 1)
Clients == Requests \cup Plain
Holds == 1..MaxHold

QueueOK ==
  /\ waiting \subseteq Requests /\ Cardinality(waiting) <= MaxPending
  /\ older \in [Requests -> SUBSET waiting] /\ \A r \in Requests \ waiting : older[r] = {}
  /\ wait \in [Requests -> 0..Budget]

HashOK ==
  /\ slot \in [SlotIds -> Requests \cup {None}]
  /\ slotInc \in [SlotIds -> Incarnations \cup {None}]
  /\ slotTtl \in [SlotIds -> 0..MaxHold] /\ hashTtl \in 0..MaxHold
  /\ lock \in Plain \cup Incarnations \cup {None} /\ lockTtl \in 0..MaxHold
  /\ current \in Incarnations \cup {None}

DispOK ==
  /\ pc \in [Clients -> {"idle", "poll", "run", "leave", "release", "retained", "dead"}]
  /\ key \in [Requests -> DOMAIN Parent \cup {None}] /\ \A r \in Requests : key[r] \in Keys[r] \cup {None}
  /\ inc \in [Requests -> Incarnations \cup {None}]
  /\ granted \in [Requests -> SlotIds \cup {None}]
  /\ until \in [Clients -> 0..MaxHold]

TypeOK == QueueOK /\ HashOK /\ DispOK

Init ==
  /\ waiting = {} /\ older = [r \in Requests |-> {}] /\ wait = [r \in Requests |-> 0]
  /\ slot = [s \in SlotIds |-> None] /\ slotInc = [s \in SlotIds |-> None]
  /\ slotTtl = [s \in SlotIds |-> 0] /\ hashTtl = 0
  /\ lock = None /\ lockTtl = 0
  /\ current = None
  /\ pc = [c \in Clients |-> "idle"]
  /\ key = [r \in Requests |-> None]
  /\ inc = [r \in Requests |-> None] /\ granted = [r \in Requests |-> None]
  /\ until = [c \in Clients |-> 0]

-----------------------------------------------------------------------------
(* Registration (store.ts register): a replacement is refused while the    *)
(* lock exists, unless the lock is its own.                                *)
Register(i) ==
  /\ current # i
  /\ lock = None \/ (current = None /\ lock = i)
  /\ current' = i
  /\ UNCHANGED <<queue, hash, locks, disp>>

RegistrationExpires ==
  /\ current # None /\ current' = None
  /\ UNCHANGED <<queue, hash, locks, disp>>

-----------------------------------------------------------------------------
(* The admission queue *)

(* Every script first drops the entries whose deadline has passed.         *)
Unexpired == {r \in waiting : wait[r] > 0}
Among(rest) == [r \in Requests |-> IF r \in rest THEN older[r] \cap rest ELSE {}]
Retain(rest) == waiting' = rest /\ older' = Among(rest)

QueueFull == Cardinality(Unexpired) >= MaxPending

(* BridgeAdmissionQueue.enter, and the wait begins; WORKER_QUEUE_FULL      *)
(* otherwise.  A lost reply ends the request.                              *)
Enter(r) ==
  /\ pc[r] = "idle" /\ current # None
  /\ wait[r] = 0 /\ \A s \in SlotIds : slot[s] # r     \* ids are fresh
  /\ IF QueueFull
       THEN /\ Retain(Unexpired)
            /\ UNCHANGED <<wait, pc, key, inc>>
       ELSE /\ waiting' = Unexpired \cup {r}
            /\ older' = [Among(Unexpired) EXCEPT ![r] = Unexpired]
            /\ wait' = [wait EXCEPT ![r] = Budget]
            /\ \E k \in Keys[r] : key' = [key EXCEPT ![r] = k]
            /\ inc' = [inc EXCEPT ![r] = current]
            /\ \E next \in {"poll", "leave"} : pc' = [pc EXCEPT ![r] = next]
  /\ UNCHANGED <<hash, locks, current, granted, until>>

(* BridgeAdmissionQueue.leave; the attempt fails when the replica cannot   *)
(* reach Redis any more.                                                   *)
Leave(r) ==
  /\ pc[r] = "leave"
  /\ pc' = [pc EXCEPT ![r] = "release"]
  /\ \/ Retain(waiting \ {r}) /\ wait' = [wait EXCEPT ![r] = 0]
     \/ r \in Mortal /\ UNCHANGED queue
  /\ UNCHANGED <<hash, locks, current, key, inc, granted, until>>

-----------------------------------------------------------------------------
(* BridgeWorkspaceSlots.reserve *)

(* The reservations that count for incarnation i; all others are dropped.  *)
Live(i) == {s \in SlotIds : slot[s] # None /\ slotInc[s] = i /\ slotTtl[s] > 0}
Busy(i) == {key[slot[s]] : s \in Live(i)}

(* A lane conflicts with itself and its checkout, a checkout with itself   *)
(* and its lanes.                                                          *)
(* (ConflictsExact compares keys only.)                                   *)
ConflictsExact(k, busy) == k \in busy
Conflicts(k, busy) ==
  \/ k \in busy
  \/ IF Parent[k] # None THEN Parent[k] \in busy ELSE \E b \in busy : Parent[b] = k

(* A waiting request is held back by a reservation, or, a lane, by an      *)
(* older request for its checkout.                                         *)
(* (HeldByBusy forgets the waiting checkouts.)                             *)
HeldByBusy(r, busy) == Conflicts(key[r], busy)
Held(r, busy) ==
  \/ Conflicts(key[r], busy)
  \/ Parent[key[r]] # None /\ \E q \in older[r] \cap Unexpired : key[q] = Parent[key[r]]

(* The oldest request that is not held back may go.                        *)
Selected(r, busy) ==
  r \in Unexpired /\ ~Held(r, busy) /\ \A q \in older[r] \cap Unexpired : Held(q, busy)

FreeSlot(i) == {s \in SlotIds \ Live(i) : \A t \in SlotIds \ Live(i) : s <= t}

(* A TTL of the hash and the lock that covers every reservation.           *)
Cover(i, h) == CHOOSE t \in {h} \cup {slotTtl[s] : s \in Live(i)} :
                 \A u \in {h} \cup {slotTtl[s] : s \in Live(i)} : t >= u

Only(keep, f, none) == [s \in SlotIds |-> IF s \in keep THEN f[s] ELSE none]

(* The script's effect when it grants a slot: stale reservations are       *)
(* dropped and the slot and the lock are taken for a time h.               *)
Grant(r, i, s, h) ==
  /\ slot' = [Only(Live(i), slot, None) EXCEPT ![s] = r]
  /\ slotInc' = [Only(Live(i), slotInc, None) EXCEPT ![s] = i]
  /\ slotTtl' = [Only(Live(i), slotTtl, 0) EXCEPT ![s] = h]
  /\ hashTtl' = Cover(i, h)
  /\ lock' = i /\ lockTtl' = Cover(i, h)
  /\ Retain(Unexpired)

Grantable(r, i) ==
  /\ current = i /\ lock \in {None, i}
  /\ \A s \in Live(i) : slot[s] # r
  /\ FreeSlot(i) # {} /\ ~Conflicts(key[r], Busy(i))
  /\ Selected(r, Busy(i))

(* The slot is the dispatcher's, or the reply is lost: then the script is  *)
(* sent again or the request fails.                                        *)
Reserve(r) ==
  /\ pc[r] = "poll" /\ wait[r] > 0
  /\ Grantable(r, inc[r])
  /\ \E s \in FreeSlot(inc[r]), h \in Holds :
       /\ Grant(r, inc[r], s, h)
       /\ \/ /\ pc' = [pc EXCEPT ![r] = "run"]
             /\ granted' = [granted EXCEPT ![r] = s] /\ until' = [until EXCEPT ![r] = h]
          \/ pc' = [pc EXCEPT ![r] = "leave"] /\ UNCHANGED <<granted, until>>
          \/ UNCHANGED <<pc, granted, until>>
  /\ UNCHANGED <<wait, current, key, inc>>

DropStale(keep) ==
  /\ slot' = Only(keep, slot, None) /\ slotInc' = Only(keep, slotInc, None)
  /\ slotTtl' = Only(keep, slotTtl, 0)
  /\ hashTtl' = (IF \A s \in keep : slot[s] = None THEN 0 ELSE hashTtl)

(* Nothing to grant (-1): the caller polls again, but what was found stale *)
(* is gone, of the queue only when the scan got that far.                  *)
ReserveLater(r) ==
  /\ pc[r] = "poll" /\ wait[r] > 0
  /\ current = inc[r] /\ lock \in {None, inc[r]}
  /\ \A s \in Live(inc[r]) : slot[s] # r
  /\ ~Grantable(r, inc[r])
  /\ DropStale(Live(inc[r]))
  /\ IF FreeSlot(inc[r]) # {} /\ ~Conflicts(key[r], Busy(inc[r]))
       THEN Retain(Unexpired) ELSE UNCHANGED <<waiting, older>>
  /\ UNCHANGED <<wait, locks, current, disp>>

(* The script sent again finds the request's own reservation.              *)
ReserveAgain(r) ==
  /\ pc[r] = "poll" /\ wait[r] > 0
  /\ current = inc[r] /\ lock = inc[r]
  /\ \E s \in Live(inc[r]) :
       /\ slot[s] = r
       /\ DropStale(Live(inc[r]) \cup s..(Slots - 1))
       /\ pc' = [pc EXCEPT ![r] = "run"]
       /\ granted' = [granted EXCEPT ![r] = s]
       /\ until' = [until EXCEPT ![r] = slotTtl[s]]
  /\ UNCHANGED <<queue, locks, current, key, inc>>

(* The worker was replaced (-2) or the deadline passed; or the caller left.*)
MustGiveUp(r) == current # inc[r] \/ wait[r] = 0
GiveUp(r) ==
  /\ pc[r] = "poll"
  /\ pc' = [pc EXCEPT ![r] = "leave"]
  /\ UNCHANGED <<queue, hash, locks, current, key, inc, granted, until>>

(* The admitted worker is validated again, the assignment runs and ends.   *)
Finish(r) ==
  /\ pc[r] = "run"
  /\ pc' = [pc EXCEPT ![r] = "leave"]
  /\ UNCHANGED <<queue, hash, locks, current, key, inc, granted, until>>

-----------------------------------------------------------------------------
(* BridgeWorkspaceSlots.release *)

Mine(r) == {s \in SlotIds : slot[s] = r /\ slotInc[s] = inc[r]}
Others(r) == {s \in SlotIds \ Mine(r) : slot[s] # None}

ReleaseScript(r) ==
  LET rest   == Others(r)
      latest == CHOOSE t \in {0} \cup {slotTtl[s] : s \in rest} :
                  \A s \in rest : t >= slotTtl[s]
      owner  == lock = inc[r]
      keep   == IF owner /\ latest = 0 THEN {} ELSE rest
  IN
  /\ slot' = Only(keep, slot, None) /\ slotInc' = Only(keep, slotInc, None)
  /\ slotTtl' = Only(keep, slotTtl, 0)
  /\ hashTtl' = (IF owner THEN latest ELSE IF rest = {} THEN 0 ELSE hashTtl)
  /\ lock' = (IF owner /\ latest = 0 THEN None ELSE lock)
  /\ lockTtl' = (IF owner THEN latest ELSE lockTtl)

Forget(r) ==
  /\ pc' = [pc EXCEPT ![r] = "idle"]
  /\ granted' = [granted EXCEPT ![r] = None] /\ until' = [until EXCEPT ![r] = 0]
  /\ inc' = [inc EXCEPT ![r] = None]

(* cleanup releases the slot, unless the workspace marker is still the     *)
(* assignment's: then it is kept for the worker's own confirmation.        *)
Release(r) ==
  /\ pc[r] = "release"
  /\ \/ ReleaseScript(r) /\ Forget(r)
     \/ /\ granted[r] # None
        /\ pc' = [pc EXCEPT ![r] = "retained"]
        /\ UNCHANGED <<hash, locks, inc, granted, until>>
  /\ UNCHANGED <<queue, current, key>>

(* quarantineSettledWorkspace, settle of a rejection: the release comes    *)
(* later from the worker's side.                                           *)
ReleaseRetained(r) ==
  /\ pc[r] = "retained"
  /\ ReleaseScript(r) /\ Forget(r)
  /\ UNCHANGED <<queue, current, key>>

Crash(r) ==
  /\ r \in Mortal /\ pc[r] \notin {"idle", "dead"}
  /\ pc' = [pc EXCEPT ![r] = "dead"]
  /\ UNCHANGED <<queue, hash, locks, current, key, inc, granted, until>>

-----------------------------------------------------------------------------
(* An execution without workspace: acquireLock, run, releaseLock; busy     *)
(* when the lock is taken.                                                 *)
TryLock(p) ==
  /\ pc[p] = "idle" /\ current # None
  /\ lock = None
  /\ \E h \in Holds : lockTtl' = h /\ until' = [until EXCEPT ![p] = h]
  /\ lock' = p
  /\ pc' = [pc EXCEPT ![p] = "run"]
  /\ UNCHANGED <<queue, hash, current, key, inc, granted>>

Unlock(p) ==
  /\ pc[p] = "run"
  /\ IF lock = p THEN lock' = None /\ lockTtl' = 0 ELSE UNCHANGED locks
  /\ pc' = [pc EXCEPT ![p] = "idle"] /\ until' = [until EXCEPT ![p] = 0]
  /\ UNCHANGED <<queue, hash, current, key, inc, granted>>

-----------------------------------------------------------------------------
Less(n) == IF n = 0 THEN 0 ELSE n - 1

(* Time passes.  A hash or a lock whose TTL runs out is gone.              *)
Tick ==
  LET kept == IF Less(hashTtl) = 0 THEN {} ELSE SlotIds IN
  /\ wait' = [r \in Requests |-> Less(wait[r])]
  /\ until' = [c \in Clients |-> Less(until[c])]
  /\ hashTtl' = Less(hashTtl) /\ lockTtl' = Less(lockTtl)
  /\ slot' = Only(kept, slot, None) /\ slotInc' = Only(kept, slotInc, None)
  /\ slotTtl' = [s \in SlotIds |-> IF s \in kept THEN Less(slotTtl[s]) ELSE 0]
  /\ lock' = (IF Less(lockTtl) = 0 THEN None ELSE lock)
  /\ UNCHANGED <<waiting, older, current, pc, key, inc, granted>>

Next ==
  \/ \E i \in Incarnations : Register(i)
  \/ \E r \in Requests :
       \/ Enter(r) \/ Leave(r) \/ Reserve(r) \/ ReserveLater(r) \/ ReserveAgain(r) \/ GiveUp(r)
       \/ Finish(r) \/ Release(r) \/ ReleaseRetained(r) \/ Crash(r)
  \/ \E p \in Plain : TryLock(p) \/ Unlock(p)
  \/ RegistrationExpires \/ Tick

Spec == Init /\ [][Next]_vars

(* A dispatcher polls while it waits; assignments end by their deadline    *)
(* and are then cleaned up.  Clients need not leave, nor time pass.        *)
Poll(r) == Reserve(r) \/ ReserveAgain(r) \/ (MustGiveUp(r) /\ GiveUp(r))
GoOn(r) == Finish(r) \/ Leave(r) \/ Release(r) \/ ReleaseRetained(r)
Fairness == \A r \in Requests : WF_vars(Poll(r)) /\ WF_vars(GoOn(r))

FairSpec == Spec /\ Fairness

-----------------------------------------------------------------------------
(* Properties *)

Holding == {c \in Clients : until[c] > 0 /\ pc[c] # "idle"}

Overlap(k, l) == k = l \/ Parent[k] = l \/ Parent[l] = k

(* No two dispatchers with a reservation that has not run out use the same *)
(* slot, the same workspace, or a checkout and one of its lanes, whatever  *)
(* incarnation they reserved it for.                                       *)
SlotExclusion ==
  \A q, r \in Requests \cap Holding :
    q # r => granted[q] # granted[r] /\ ~Overlap(key[q], key[r])

(* The shared lock covers every reservation for its whole time, so that no *)
(* plain execution and no replacement of the worker gets in between.       *)
LockCoversSlots ==
  \A r \in Requests \cap Holding :
    /\ lock = inc[r] /\ lockTtl >= until[r]
    /\ Holding \cap Plain = {}
    /\ current \in {inc[r], None}

(* A request for a checkout is not overtaken by a newer lane beneath it,   *)
(* so that root operations "cannot be starved by a steady stream of lane   *)
(* work".                                                                  *)
NotOvertaken ==
  \A q, r \in Requests :
    /\ q \in older[r] /\ Parent[key[r]] = key[q]
    /\ pc[q] = "poll" /\ wait[q] > 0
    /\ pc[r] = "poll" /\ pc'[r] = "run"
    => \E s \in SlotIds : slot[s] = r

(* The queue stays a queue: of any two entries one is older, and being     *)
(* older is transitive, although entries expire and leave in any order.    *)
FifoOrder ==
  \A q, r \in waiting :
    /\ q # r => (q \in older[r] <=> r \notin older[q])
    /\ q \in older[r] => older[q] \subseteq older[r] \ {r}

(* Reservations of workspaces on a worker with several slots exclude each  *)
(* other, the shared lock outlives each of them, and a checkout is not     *)
(* overtaken by its lanes, although dispatchers crash, replies are lost    *)
(* and reservations run out (bridge/slots.ts, bridge/admission.ts).        *)
SlotsSafe ==
  /\ [](TypeOK /\ FifoOrder /\ SlotExclusion /\ LockCoversSlots)
  /\ [][NotOvertaken]_vars

(* Every waiting request is admitted, or leaves by itself, although newer  *)
(* requests keep coming and time need not pass.  (Executions without a     *)
(* workspace do not queue and could take the lock between any two polls:   *)
(* there are none in this run.)                                            *)
NoStarvation == \A r \in Requests : pc[r] = "poll" ~> pc[r] # "poll"
=============================================================================
