------------------------ MODULE WorkspaceSlotsProofs ------------------------
(***************************************************************************)
(* Proofs about WorkspaceSlots, for every number of slots, requests,       *)
(* executions without workspace and worker processes, every layout of      *)
(* checkouts and lanes, and every duration: reservations exclude each      *)
(* other, the shared lock outlives them, and no lane overtakes an older    *)
(* request for its checkout.                                               *)
(***************************************************************************)
EXTENDS WorkspaceSlots, FiniteSetTheorems, WellFoundedInduction, TLAPS

(* A slot is live while its reservation lasts, for whichever incarnation   *)
(* it was made and whether or not its dispatcher knows of it.              *)
Alive(s) == slot[s] # None /\ slotTtl[s] > 0

(* What the Redis hash and the lock say to each other: every live slot is  *)
(* one of the lock's incarnation, and both keys outlast it.                *)
HashInv ==
  \A s \in SlotIds :
    /\ slot[s] # None => key[slot[s]] \in Keys[slot[s]]
    /\ Alive(s) => /\ slotInc[s] \in Incarnations /\ lock = slotInc[s]
                   /\ lockTtl >= slotTtl[s] /\ hashTtl >= slotTtl[s]
                   /\ current \in {slotInc[s], None}

(* Live slots are different requests, for workspaces that do not overlap.  *)
ApartInv ==
  \A s, t \in SlotIds :
    s # t /\ Alive(s) /\ Alive(t) => slot[s] # slot[t] /\ ~Overlap(key[slot[s]], key[slot[t]])

(* A dispatcher that counts on a reservation has it in the hash, for at    *)
(* least as long as it thinks.                                             *)
KnownInv ==
  /\ \A r \in Requests :
       /\ pc[r] \in {"idle", "poll"} => until[r] = 0
       /\ pc[r] = "poll" => key[r] \in Keys[r] /\ inc[r] \in Incarnations
       /\ until[r] > 0 => /\ granted[r] \in SlotIds
                          /\ slot[granted[r]] = r /\ slotInc[granted[r]] = inc[r]
                          /\ slotTtl[granted[r]] >= until[r]
  /\ \A p \in Plain : until[p] > 0 => lock = p /\ lockTtl >= until[p]

IInv == TypeOK /\ FifoOrder /\ HashInv /\ ApartInv /\ KnownInv

-----------------------------------------------------------------------------
(* Lemmas about the operators *)

(* A nonempty set of bounded naturals has a largest member.                *)
LEMMA Largest ==
  ASSUME NEW N \in Nat, NEW S, S \subseteq 0..N, S # {}
  PROVE  \E m \in S : \A x \in S : m >= x
<1> DEFINE U == {n \in Nat : \A x \in S : x <= n}
<1>1. N \in U
  OBVIOUS
<1>2. PICK m \in U : \A y \in U : ~(<<y, m>> \in OpToRel(<, Nat))
  <2>1. U \subseteq Nat /\ U # {}
    BY Zenon, <1>1
  <2> HIDE DEF U
  <2> QED
    BY Zenon, <2>1, NatLessThanWellFounded, WFMin
<1>3. \A y \in U : ~(y < m)
  BY Zenon, <1>2 DEF OpToRel
<1>4. m \in S
  <2> SUFFICES ASSUME m \notin S PROVE FALSE
    BY Zenon
  <2>1. \A x \in S : x <= m - 1 /\ x \in Nat
    OBVIOUS
  <2>2. m - 1 \in Nat
    <3>1. PICK x \in S : TRUE
      BY Zenon
    <3> QED
      BY <2>1, <3>1
  <2>3. m - 1 \in U
    BY Zenon, <2>1, <2>2
  <2> QED
    BY <2>2, <2>3, <1>3
<1> QED
  BY Zenon, <1>4

(* The TTL that reserve gives the hash and the lock covers the new         *)
(* reservation and every one it keeps.                                     *)
LEMMA CoverCovers ==
  ASSUME HashOK, NEW i \in Incarnations, NEW h \in Holds
  PROVE  /\ Cover(i, h) \in 0..MaxHold /\ Cover(i, h) >= h
         /\ \A s \in Live(i) : Cover(i, h) >= slotTtl[s]
<1> DEFINE T == {h} \cup {slotTtl[s] : s \in Live(i)}
<1>1. T \subseteq 0..MaxHold /\ T # {}
  BY ConstantsAssumption DEF HashOK, Live, Holds
<1>2. \E t \in T : \A u \in T : t >= u
  BY Zenon, <1>1, Largest, ConstantsAssumption
<1>3. Cover(i, h) = CHOOSE t \in T : \A u \in T : t >= u
  BY Zenon DEF Cover
<1>4. Cover(i, h) \in T /\ \A u \in T : Cover(i, h) >= u
  BY Zenon, <1>2, <1>3
<1> QED
  BY Zenon, <1>1, <1>4

(* Entries that leave the queue do not disturb the order of the others.    *)
LEMMA RetainKeepsOrder ==
  ASSUME QueueOK, FifoOrder, NEW rest \in SUBSET waiting, Retain(rest), wait' \in [Requests -> 0..Budget]
  PROVE  QueueOK' /\ FifoOrder'
<1>1. IsFiniteSet(waiting) /\ Cardinality(waiting) \in Nat
  BY Zenon, FS_Subset, FS_CardinalityType, ConstantsAssumption DEF QueueOK
<1>2. Cardinality(rest) <= MaxPending
  <2>1. Cardinality(rest) <= Cardinality(waiting) /\ IsFiniteSet(rest)
    BY Zenon, <1>1, FS_Subset
  <2>2. Cardinality(rest) \in Nat
    BY Zenon, <2>1, FS_CardinalityType
  <2> QED
    BY <1>1, <2>1, <2>2, ConstantsAssumption DEF QueueOK
<1>3. waiting' = rest /\ older' = [r \in Requests |-> IF r \in rest THEN older[r] \cap rest ELSE {}]
  BY Zenon DEF Retain, Among
<1>4. QueueOK'
  BY Zenon, <1>2, <1>3 DEF QueueOK
<1>5. FifoOrder'
  BY <1>3 DEF FifoOrder, QueueOK
<1> QED
  BY Zenon, <1>4, <1>5

(* A key that does not conflict with the busy ones overlaps none of them.  *)
LEMMA ConflictsSound ==
  ASSUME NEW k \in DOMAIN Parent, NEW busy \in SUBSET DOMAIN Parent, ~Conflicts(k, busy), NEW l \in busy
  PROVE  ~Overlap(k, l) /\ ~Overlap(l, k)
BY Zenon, ParentAssumption DEF Conflicts, Overlap

(* When nobody else has the lock, every live slot is one of incarnation i. *)
LEMMA AliveIsLive ==
  ASSUME HashOK, HashInv, NEW i \in Incarnations, lock \in {None, i}, NEW s \in SlotIds, Alive(s)
  PROVE  s \in Live(i) /\ lock = i
BY Zenon, ConstantsAssumption DEF HashInv, Alive, Live

(* release: whatever another dispatcher still counts on stays in the hash, *)
(* and the lock and the hash still outlast it.                             *)
LEMMA ReleaseKeeps ==
  ASSUME HashOK, DispOK, HashInv, ApartInv, KnownInv,
         NEW r \in Requests, ReleaseScript(r), Forget(r), UNCHANGED <<current, key>>
  PROVE  HashOK' /\ DispOK' /\ HashInv' /\ ApartInv' /\ KnownInv'
<1> DEFINE rest   == Others(r)
           T      == {0} \cup {slotTtl[s] : s \in rest}
           latest == CHOOSE t \in T : \A s \in rest : t >= slotTtl[s]
           owner  == lock = inc[r]
           keep   == IF owner /\ latest = 0 THEN {} ELSE rest
<1>1. latest \in 0..MaxHold /\ \A s \in rest : latest >= slotTtl[s]
  <2>1. T \subseteq 0..MaxHold /\ T # {}
    BY ConstantsAssumption DEF HashOK, Others
  <2>2. \E t \in T : \A u \in T : t >= u
    BY Zenon, <2>1, Largest, ConstantsAssumption
  <2>3. \E t \in T : \A s \in rest : t >= slotTtl[s]
    BY Zenon, <2>2
  <2>4. latest \in T /\ \A s \in rest : latest >= slotTtl[s]
    BY Zenon, <2>3
  <2> QED
    BY Zenon, <2>1, <2>4
<1>2. /\ slot' = [s \in SlotIds |-> IF s \in keep THEN slot[s] ELSE None]
      /\ slotInc' = [s \in SlotIds |-> IF s \in keep THEN slotInc[s] ELSE None]
      /\ slotTtl' = [s \in SlotIds |-> IF s \in keep THEN slotTtl[s] ELSE 0]
      /\ hashTtl' = (IF owner THEN latest ELSE IF rest = {} THEN 0 ELSE hashTtl)
      /\ lock' = (IF owner /\ latest = 0 THEN None ELSE lock)
      /\ lockTtl' = (IF owner THEN latest ELSE lockTtl)
  BY Zenon DEF ReleaseScript, Only
<1>3. \A s \in SlotIds : slot[s] # None /\ slot[s] # r => s \in rest
  BY Zenon DEF Others, Mine
<1>4. rest \subseteq SlotIds
  BY Zenon DEF Others
<1> HIDE DEF rest, latest
<1>5. HashOK'
  BY <1>1, <1>2, ConstantsAssumption DEF HashOK
<1>6. DispOK'
  BY ConstantsAssumption DEF Forget, DispOK, Clients
<1>7. \A s \in SlotIds : slot'[s] # None =>
        s \in rest /\ slot'[s] = slot[s] /\ slotInc'[s] = slotInc[s] /\ slotTtl'[s] = slotTtl[s]
  BY Zenon, <1>2
<1>8. \A s \in rest : slotTtl[s] > 0 =>
        slot'[s] = slot[s] /\ slotInc'[s] = slotInc[s] /\ slotTtl'[s] = slotTtl[s]
  BY <1>1, <1>2, <1>4 DEF HashOK
<1>9. HashInv'
  <2> SUFFICES ASSUME NEW s \in SlotIds, slot'[s] # None
               PROVE  /\ key'[slot'[s]] \in Keys[slot'[s]]
                      /\ slotTtl'[s] > 0 => /\ slotInc'[s] \in Incarnations /\ lock' = slotInc'[s]
                                            /\ lockTtl' >= slotTtl'[s] /\ hashTtl' >= slotTtl'[s]
                                            /\ current' \in {slotInc'[s], None}
    BY Zenon DEF HashInv, Alive
  <2>1. /\ slot[s] # None /\ key[slot[s]] \in Keys[slot[s]]
        /\ slotTtl[s] > 0 => /\ slotInc[s] \in Incarnations /\ lock = slotInc[s]
                             /\ lockTtl >= slotTtl[s] /\ hashTtl >= slotTtl[s]
                             /\ current \in {slotInc[s], None}
    BY Zenon, <1>7 DEF HashInv, Alive
  <2>2. slotTtl[s] > 0 => lock' = lock /\ lockTtl' >= slotTtl[s] /\ hashTtl' >= slotTtl[s]
    BY Zenon, <1>1, <1>2, <1>7, <2>1 DEF HashOK
  <2> QED
    BY Zenon, <1>7, <2>1, <2>2
<1>10. ApartInv'
  BY <1>7 DEF ApartInv, Alive, Overlap
<1>11. \A q \in Clients \ {r} : pc'[q] = pc[q] /\ until'[q] = until[q]
  BY Zenon DEF Forget, DispOK
<1>12. \A q \in Requests \ {r} : granted'[q] = granted[q] /\ inc'[q] = inc[q]
  BY Zenon DEF Forget, DispOK
<1>13. pc'[r] = "idle" /\ until'[r] = 0
  BY Zenon DEF Forget, DispOK, Clients
<1>14. ASSUME NEW q \in Requests, until'[q] > 0
       PROVE  /\ granted'[q] \in SlotIds
              /\ slot'[granted'[q]] = q /\ slotInc'[granted'[q]] = inc'[q]
              /\ slotTtl'[granted'[q]] >= until'[q]
  <2>1. q # r /\ until[q] > 0 /\ until'[q] = until[q] /\ granted'[q] = granted[q] /\ inc'[q] = inc[q]
    BY <1>11, <1>12, <1>13, <1>14 DEF Clients
  <2>2. /\ granted[q] \in SlotIds /\ slot[granted[q]] = q /\ slotInc[granted[q]] = inc[q]
        /\ slotTtl[granted[q]] >= until[q] /\ slotTtl[granted[q]] > 0
    BY <2>1 DEF KnownInv, HashOK, DispOK, Clients
  <2>3. granted[q] \in rest
    BY Zenon, <1>3, <2>1, <2>2, ConstantsAssumption
  <2> QED
    BY <1>8, <2>1, <2>2, <2>3
<1>15. ASSUME NEW p \in Plain, until'[p] > 0
       PROVE  lock' = p /\ lockTtl' >= until'[p]
  <2>1. p # r /\ until'[p] = until[p] /\ lock = p /\ lockTtl >= until[p]
    BY <1>11, <1>15, ConstantsAssumption DEF KnownInv, Clients
  <2>2. ~owner
    BY Zenon, <2>1, ConstantsAssumption DEF DispOK
  <2> QED
    BY Zenon, <1>2, <2>1, <2>2
<1>16. KnownInv'
  BY ZenonT(60), <1>11, <1>12, <1>13, <1>14, <1>15 DEF KnownInv, Clients
<1> QED
  BY Zenon, <1>5, <1>6, <1>9, <1>10, <1>16

-----------------------------------------------------------------------------
(* The steps of dispatchers, executions, registrations and time keep the   *)
(* inductive invariant.                                                    *)
THEOREM SlotInvariant == Spec => []IInv
<1>1. Init => IInv
  <2> SUFFICES ASSUME Init PROVE IInv
    BY Zenon
  <2>1. QueueOK /\ FifoOrder
    BY FS_EmptySet, ConstantsAssumption DEF Init, QueueOK, FifoOrder
  <2>2. HashOK /\ DispOK
    BY ConstantsAssumption DEF Init, HashOK, DispOK, Clients
  <2>3. HashInv /\ ApartInv /\ KnownInv
    BY ConstantsAssumption DEF Init, HashInv, ApartInv, KnownInv, Alive, Clients
  <2> QED
    BY Zenon, <2>1, <2>2, <2>3 DEF IInv, TypeOK
<1> SUFFICES IInv /\ [Next]_vars => IInv'
  BY <1>1, PTL DEF Spec
<1> SUFFICES ASSUME IInv, [Next]_vars PROVE IInv'
  BY Zenon
<1> USE DEF IInv, TypeOK
<1>2. ASSUME NEW i \in Incarnations, Register(i)
      PROVE  IInv'
  <2>1. QueueOK'
    BY Zenon, <1>2, ConstantsAssumption, ParentAssumption DEF Register, queue, hash,
       locks, disp, QueueOK
  <2>2. FifoOrder'
    BY Zenon, <1>2, ConstantsAssumption, ParentAssumption DEF Register, queue, hash,
       locks, disp, QueueOK, FifoOrder
  <2>3. HashOK'
    BY Zenon, <1>2, ConstantsAssumption, ParentAssumption DEF Register, queue, hash,
       locks, disp, HashOK, HashInv
  <2>4. DispOK'
    BY Zenon, <1>2, ConstantsAssumption, ParentAssumption DEF Register, queue, hash,
       locks, disp, DispOK, Clients
  <2>5. HashInv'
    BY <1>2, ConstantsAssumption, ParentAssumption DEF Register, queue, hash, locks,
       disp, HashOK, DispOK, HashInv, KnownInv, Alive, Clients
  <2>6. ApartInv'
    BY Zenon, <1>2, ConstantsAssumption, ParentAssumption DEF Register, queue, hash,
       locks, disp, HashOK, DispOK, HashInv, ApartInv, Alive, Clients
  <2>7. KnownInv'
    BY Zenon, <1>2, ConstantsAssumption, ParentAssumption DEF Register, queue, hash,
       locks, disp, HashOK, DispOK, HashInv, KnownInv, Alive, Clients
  <2> QED
    BY Zenon, <2>1, <2>2, <2>3, <2>4, <2>5, <2>6, <2>7
<1>3. ASSUME RegistrationExpires
      PROVE  IInv'
  <2>1. QueueOK'
    BY Zenon, <1>3, ConstantsAssumption, ParentAssumption DEF RegistrationExpires, queue,
       hash, locks, disp, QueueOK
  <2>2. FifoOrder'
    BY Zenon, <1>3, ConstantsAssumption, ParentAssumption DEF RegistrationExpires, queue,
       hash, locks, disp, QueueOK, FifoOrder
  <2>3. HashOK'
    BY Zenon, <1>3, ConstantsAssumption, ParentAssumption DEF RegistrationExpires, queue,
       hash, locks, disp, HashOK, HashInv
  <2>4. DispOK'
    BY Zenon, <1>3, ConstantsAssumption, ParentAssumption DEF RegistrationExpires, queue,
       hash, locks, disp, DispOK, Clients
  <2>5. HashInv'
    BY Zenon, <1>3, ConstantsAssumption, ParentAssumption DEF RegistrationExpires, queue,
       hash, locks, disp, HashOK, DispOK, HashInv, KnownInv, Alive, Clients
  <2>6. ApartInv'
    BY Zenon, <1>3, ConstantsAssumption, ParentAssumption DEF RegistrationExpires, queue,
       hash, locks, disp, HashOK, DispOK, HashInv, ApartInv, Alive, Clients
  <2>7. KnownInv'
    BY Zenon, <1>3, ConstantsAssumption, ParentAssumption DEF RegistrationExpires, queue,
       hash, locks, disp, HashOK, DispOK, HashInv, KnownInv, Alive, Clients
  <2> QED
    BY Zenon, <2>1, <2>2, <2>3, <2>4, <2>5, <2>6, <2>7
<1>4. ASSUME NEW r \in Requests, Enter(r)
      PROVE  IInv'
  <2>a. QueueOK' /\ FifoOrder'
    <3>1. Unexpired \in SUBSET waiting /\ r \notin Unexpired
      BY <1>4 DEF Enter, Unexpired
    <3>2. CASE QueueFull
      BY Zenon, <1>4, <3>1, <3>2, RetainKeepsOrder DEF Enter, QueueOK
    <3>3. CASE ~QueueFull
      <4>1. IsFiniteSet(Unexpired) /\ Cardinality(Unexpired) \in Nat
        BY Zenon, <3>1, FS_Subset, FS_CardinalityType, ConstantsAssumption DEF QueueOK
      <4>2. Cardinality(Unexpired \cup {r}) <= MaxPending
        <5>1. Cardinality(Unexpired \cup {r}) = Cardinality(Unexpired) + 1
          BY Zenon, <3>1, <4>1, FS_AddElement
        <5> QED
          BY <3>3, <4>1, <5>1, ConstantsAssumption DEF QueueFull
      <4>3. /\ waiting' = Unexpired \cup {r}
            /\ older' = [q \in Requests |-> IF q = r THEN Unexpired
                                            ELSE IF q \in Unexpired THEN older[q] \cap Unexpired ELSE {}]
        BY Zenon, <1>4, <3>3 DEF Enter, Among
      <4>4. wait' \in [Requests -> 0..Budget]
        BY <1>4, <3>3, ConstantsAssumption DEF Enter, QueueOK
      <4>5. QueueOK'
        BY Zenon, <3>1, <4>2, <4>3, <4>4 DEF QueueOK
      <4>6. FifoOrder'
        BY <3>1, <4>3 DEF FifoOrder, QueueOK
      <4> QED
        BY Zenon, <4>5, <4>6
    <3> QED
      BY Zenon, <3>2, <3>3
  <2>1. QueueOK'
    BY Zenon, <2>a
  <2>2. FifoOrder'
    BY Zenon, <2>a
  <2>3. HashOK'
    BY Zenon, <1>4, ConstantsAssumption, ParentAssumption DEF Enter, queue, hash, locks,
       disp, HashOK, HashInv
  <2>4. DispOK'
    <3>1. CASE QueueFull
      BY Zenon, <1>4, <3>1 DEF Enter, DispOK
    <3>2. CASE ~QueueFull
      <4>1. PICK k \in Keys[r] : key' = [key EXCEPT ![r] = k]
        BY Zenon, <1>4, <3>2 DEF Enter
      <4>2. PICK next \in {"poll", "leave"} : pc' = [pc EXCEPT ![r] = next]
        BY Zenon, <1>4, <3>2 DEF Enter
      <4>3. inc' = [inc EXCEPT ![r] = current] /\ UNCHANGED <<granted, until>>
        BY Zenon, <1>4, <3>2 DEF Enter
      <4>4. k \in DOMAIN Parent
        BY Zenon, <4>1, ParentAssumption
      <4> QED
        BY Zenon, <4>1, <4>2, <4>3, <4>4 DEF DispOK, HashOK, Clients
    <3> QED
      BY Zenon, <3>1, <3>2
  <2>5. HashInv'
    BY SMTT(30), <1>4, ConstantsAssumption, ParentAssumption DEF Enter, queue, hash, locks, disp,
       HashOK, DispOK, HashInv, KnownInv, Alive, Clients
  <2>6. ApartInv'
    BY <1>4, ConstantsAssumption, ParentAssumption DEF Enter, queue, hash, locks, disp,
       HashOK, DispOK, HashInv, ApartInv, Alive, Clients
  <2>7. KnownInv'
    BY <1>4, ConstantsAssumption, ParentAssumption DEF Enter, queue, hash, locks, disp,
       HashOK, DispOK, HashInv, KnownInv, Alive, Clients
  <2> QED
    BY Zenon, <2>1, <2>2, <2>3, <2>4, <2>5, <2>6, <2>7
<1>5. ASSUME NEW r \in Requests, Leave(r)
      PROVE  IInv'
  <2>a. QueueOK' /\ FifoOrder'
    <3>1. CASE Retain(waiting \ {r}) /\ wait' = [wait EXCEPT ![r] = 0]
      <4>1. wait' \in [Requests -> 0..Budget]
        BY <3>1, ConstantsAssumption DEF QueueOK
      <4> QED
        BY Zenon, <3>1, <4>1, RetainKeepsOrder
    <3>2. CASE UNCHANGED queue
      BY <3>2 DEF queue, QueueOK, FifoOrder
    <3> QED
      BY Zenon, <1>5, <3>1, <3>2 DEF Leave
  <2>1. QueueOK'
    BY Zenon, <2>a
  <2>2. FifoOrder'
    BY Zenon, <2>a
  <2>3. HashOK'
    BY Zenon, <1>5, ConstantsAssumption, ParentAssumption DEF Leave, queue, hash, locks,
       disp, HashOK, HashInv
  <2>4. DispOK'
    BY Zenon, <1>5, ConstantsAssumption, ParentAssumption DEF Leave, queue, hash, locks,
       disp, DispOK, Clients
  <2>5. HashInv'
    BY Zenon, <1>5, ConstantsAssumption, ParentAssumption DEF Leave, queue, hash, locks,
       disp, HashOK, DispOK, HashInv, KnownInv, Alive, Clients
  <2>6. ApartInv'
    BY Zenon, <1>5, ConstantsAssumption, ParentAssumption DEF Leave, queue, hash, locks,
       disp, HashOK, DispOK, HashInv, ApartInv, Alive, Clients
  <2>7. KnownInv'
    BY Zenon, <1>5, ConstantsAssumption, ParentAssumption DEF Leave, queue, hash, locks,
       disp, HashOK, DispOK, HashInv, KnownInv, Alive, Clients
  <2> QED
    BY Zenon, <2>1, <2>2, <2>3, <2>4, <2>5, <2>6, <2>7
<1>6. ASSUME NEW r \in Requests, Reserve(r)
      PROVE  IInv'
  <2>a. QueueOK' /\ FifoOrder'
    <3>1. wait' \in [Requests -> 0..Budget] /\ Unexpired \in SUBSET waiting
      BY Zenon, <1>6 DEF Reserve, QueueOK, Unexpired
    <3>2. Retain(Unexpired)
      BY Zenon, <1>6 DEF Reserve, Grant
    <3> QED
      BY Zenon, <3>1, <3>2, RetainKeepsOrder
  <2> DEFINE i == inc[r]
  <2>b. i \in Incarnations /\ key[r] \in Keys[r] /\ until[r] = 0 /\ pc[r] = "poll"
    BY Zenon, <1>6 DEF Reserve, KnownInv
  <2>c. PICK s \in FreeSlot(i), h \in Holds :
          /\ Grant(r, i, s, h)
          /\ \/ /\ pc' = [pc EXCEPT ![r] = "run"]
                /\ granted' = [granted EXCEPT ![r] = s] /\ until' = [until EXCEPT ![r] = h]
             \/ pc' = [pc EXCEPT ![r] = "leave"] /\ UNCHANGED <<granted, until>>
             \/ UNCHANGED <<pc, granted, until>>
    BY Zenon, <1>6 DEF Reserve
  <2>d. /\ current = i /\ lock \in {None, i} /\ UNCHANGED <<current, key, inc>>
        /\ \A t \in Live(i) : slot[t] # r
        /\ ~Conflicts(key[r], Busy(i))
    BY Zenon, <1>6 DEF Reserve, Grantable
  <2>e. h \in 1..MaxHold /\ s \in SlotIds /\ s \notin Live(i)
    BY Zenon, <2>c DEF FreeSlot, Holds
  <2>f. \A t \in SlotIds : Alive(t) => t \in Live(i)
    BY Zenon, <2>b, <2>d, AliveIsLive
  <2>g. /\ Cover(i, h) \in 0..MaxHold /\ Cover(i, h) >= h
        /\ \A t \in Live(i) : Cover(i, h) >= slotTtl[t]
    BY Zenon, <2>b, <2>c, CoverCovers
  <2>h. /\ slot' = [t \in SlotIds |-> IF t = s THEN r ELSE IF t \in Live(i) THEN slot[t] ELSE None]
        /\ slotInc' = [t \in SlotIds |-> IF t = s THEN i ELSE IF t \in Live(i) THEN slotInc[t] ELSE None]
        /\ slotTtl' = [t \in SlotIds |-> IF t = s THEN h ELSE IF t \in Live(i) THEN slotTtl[t] ELSE 0]
        /\ hashTtl' = Cover(i, h) /\ lock' = i /\ lockTtl' = Cover(i, h)
    BY Zenon, <2>c DEF Grant, Only
  <2>i. \A t \in Live(i) : /\ t \in SlotIds /\ slot[t] \in Requests /\ slotInc[t] = i /\ slotTtl[t] > 0
                           /\ Alive(t)
    BY Zenon DEF Live, Alive, HashOK
  <2>j. \A t \in Live(i) : ~Overlap(key[r], key[slot[t]]) /\ ~Overlap(key[slot[t]], key[r])
    <3>1. Busy(i) \in SUBSET DOMAIN Parent
      BY <2>i, ParentAssumption DEF Busy, HashInv, Alive
    <3>2. key[r] \in DOMAIN Parent
      BY Zenon, <2>b, ParentAssumption
    <3>3. \A t \in Live(i) : key[slot[t]] \in Busy(i)
      BY Zenon DEF Busy
    <3> QED
      BY ZenonT(60), <2>d, <3>1, <3>2, <3>3, ConflictsSound
  <2> HIDE DEF i
  <2>1. QueueOK'
    BY Zenon, <2>a
  <2>2. FifoOrder'
    BY Zenon, <2>a
  <2>3. HashOK'
    <3>1. h \in 0..MaxHold /\ 0 \in 0..MaxHold
      BY <2>e, ConstantsAssumption
    <3>2. slot' \in [SlotIds -> Requests \cup {None}] /\ slotInc' \in [SlotIds -> Incarnations \cup {None}]
      BY Zenon, <2>b, <2>h, <2>i
    <3>3. slotTtl' \in [SlotIds -> 0..MaxHold]
      BY Zenon, <2>h, <2>i, <3>1 DEF HashOK
    <3> QED
      BY Zenon, <2>b, <2>d, <2>g, <2>h, <3>2, <3>3 DEF HashOK
  <2>4. DispOK'
    BY <2>c, <2>d, <2>e DEF DispOK, Clients
  <2>5. HashInv'
    BY Zenon, <2>b, <2>d, <2>e, <2>g, <2>h, <2>i DEF HashInv, HashOK, Alive
  <2>6. ApartInv'
    BY ZenonT(60), <2>b, <2>d, <2>h, <2>i, <2>j DEF ApartInv, Alive, Overlap
  <2>7. KnownInv'
    <3>1. \A q \in Clients \ {r} : pc'[q] = pc[q] /\ until'[q] = until[q]
      BY Zenon, <2>c DEF DispOK
    <3>2. \A q \in Requests \ {r} : granted'[q] = granted[q]
      BY Zenon, <2>c DEF DispOK
    <3>3. /\ until'[r] > 0 => granted'[r] = s /\ until'[r] = h /\ pc'[r] = "run"
          /\ pc'[r] = "poll" => until'[r] = 0
          /\ pc'[r] # "idle"
      BY <2>b, <2>c DEF DispOK, Clients
    <3>4. ASSUME NEW q \in Requests \ {r}, until'[q] > 0
          PROVE  /\ granted'[q] \in SlotIds
                 /\ slot'[granted'[q]] = q /\ slotInc'[granted'[q]] = inc'[q]
                 /\ slotTtl'[granted'[q]] >= until'[q]
      <4>1. until[q] > 0 /\ until'[q] = until[q] /\ granted'[q] = granted[q] /\ inc'[q] = inc[q]
        BY Zenon, <2>d, <3>1, <3>2, <3>4 DEF Clients
      <4>2. /\ granted[q] \in SlotIds /\ slot[granted[q]] = q /\ slotInc[granted[q]] = inc[q]
            /\ slotTtl[granted[q]] >= until[q] /\ slotTtl[granted[q]] > 0
        BY <4>1 DEF KnownInv, HashOK, DispOK, Clients
      <4>3. granted[q] \in Live(i) /\ granted[q] # s
        BY Zenon, <2>e, <2>f, <4>2, ConstantsAssumption DEF Alive
      <4> QED
        BY Zenon, <2>h, <4>1, <4>2, <4>3
    <3>5. until'[r] > 0 => /\ granted'[r] \in SlotIds
                           /\ slot'[granted'[r]] = r /\ slotInc'[granted'[r]] = inc'[r]
                           /\ slotTtl'[granted'[r]] >= until'[r]
      BY <2>d, <2>e, <2>h, <3>3 DEF i
    <3>6. \A p \in Plain : until'[p] = 0
      <4>1. \A p \in Plain : until[p] = 0
        BY <2>b, <2>d, ConstantsAssumption DEF KnownInv, DispOK, Clients
      <4> QED
        BY Zenon, <3>1, <4>1, ConstantsAssumption DEF Clients
    <3>7. inc'[r] \in Incarnations /\ key'[r] \in Keys[r]
      BY Zenon, <2>b, <2>d DEF i
    <3> QED
      BY <2>d, <3>1, <3>3, <3>4, <3>5, <3>6, <3>7 DEF KnownInv, Clients
  <2> QED
    BY Zenon, <2>1, <2>2, <2>3, <2>4, <2>5, <2>6, <2>7
<1>7. ASSUME NEW r \in Requests, ReserveLater(r)
      PROVE  IInv'
  <2>a. QueueOK' /\ FifoOrder'
    <3>1. wait' \in [Requests -> 0..Budget] /\ Unexpired \in SUBSET waiting
      BY Zenon, <1>7 DEF ReserveLater, QueueOK, Unexpired
    <3>2. CASE Retain(Unexpired)
      BY Zenon, <3>1, <3>2, RetainKeepsOrder
    <3>3. CASE UNCHANGED <<waiting, older>>
      BY ZenonT(60), <1>7, <3>3 DEF ReserveLater, QueueOK, FifoOrder
    <3> QED
      BY Zenon, <1>7, <3>2, <3>3 DEF ReserveLater
  <2>b. inc[r] \in Incarnations
    BY Zenon, <1>7 DEF ReserveLater, KnownInv
  <2>c. \A s \in SlotIds : Alive(s) => s \in Live(inc[r])
    BY Zenon, <1>7, <2>b, AliveIsLive DEF ReserveLater
  <2>1. QueueOK'
    BY Zenon, <2>a
  <2>2. FifoOrder'
    BY Zenon, <2>a
  <2>3. HashOK'
    BY <1>7, ConstantsAssumption, ParentAssumption DEF ReserveLater, DropStale, Only,
       queue, hash, locks, disp, HashOK, HashInv
  <2>4. DispOK'
    BY Zenon, <1>7, ConstantsAssumption, ParentAssumption DEF ReserveLater, DropStale,
       Only, queue, hash, locks, disp, DispOK, Clients
  <2>5. HashInv'
    BY Zenon, <1>7, ConstantsAssumption, ParentAssumption DEF ReserveLater, DropStale,
       Only, queue, hash, locks, disp, HashOK, DispOK, HashInv, KnownInv, Alive, Clients
  <2>6. ApartInv'
    BY Zenon, <1>7, ConstantsAssumption, ParentAssumption DEF ReserveLater, DropStale,
       Only, queue, hash, locks, disp, HashOK, DispOK, HashInv, ApartInv, Alive, Clients
  <2>7. KnownInv'
    <3>1. ASSUME NEW q \in Requests, until[q] > 0
          PROVE  /\ granted[q] \in SlotIds /\ slot[granted[q]] = q /\ slotInc[granted[q]] = inc[q]
                 /\ slotTtl[granted[q]] >= until[q] /\ granted[q] \in Live(inc[r])
      <4>1. /\ granted[q] \in SlotIds /\ slot[granted[q]] = q /\ slotInc[granted[q]] = inc[q]
            /\ slotTtl[granted[q]] >= until[q] /\ slotTtl[granted[q]] > 0
        BY <3>1 DEF KnownInv, HashOK, DispOK, Clients
      <4> QED
        BY Zenon, <2>c, <4>1, ConstantsAssumption DEF Alive
    <3>2. \A s \in Live(inc[r]) : slot'[s] = slot[s] /\ slotInc'[s] = slotInc[s] /\ slotTtl'[s] = slotTtl[s]
      BY Zenon, <1>7 DEF ReserveLater, DropStale, Only, Live
    <3> QED
      BY ZenonT(40), <1>7, <3>1, <3>2 DEF ReserveLater, locks, disp, KnownInv
  <2> QED
    BY Zenon, <2>1, <2>2, <2>3, <2>4, <2>5, <2>6, <2>7
<1>8. ASSUME NEW r \in Requests, ReserveAgain(r)
      PROVE  IInv'
  <2>a. inc[r] \in Incarnations /\ pc[r] = "poll" /\ until[r] = 0 /\ lock = inc[r] /\ current = inc[r]
    BY Zenon, <1>8 DEF ReserveAgain, KnownInv
  <2>b. PICK s \in Live(inc[r]) :
          /\ slot[s] = r
          /\ DropStale(Live(inc[r]) \cup s..(Slots - 1))
          /\ pc' = [pc EXCEPT ![r] = "run"]
          /\ granted' = [granted EXCEPT ![r] = s]
          /\ until' = [until EXCEPT ![r] = slotTtl[s]]
    BY Zenon, <1>8 DEF ReserveAgain
  <2>c. \A t \in SlotIds : Alive(t) => t \in Live(inc[r])
    BY Zenon, <2>a, AliveIsLive
  <2>d. s \in SlotIds /\ slotInc[s] = inc[r] /\ slotTtl[s] \in 0..MaxHold
    BY Zenon, <2>b DEF Live, HashOK
  <2>1. QueueOK'
    BY Zenon, <1>8, ConstantsAssumption, ParentAssumption DEF ReserveAgain, DropStale,
       Only, queue, hash, locks, disp, QueueOK
  <2>2. FifoOrder'
    BY Zenon, <1>8, ConstantsAssumption, ParentAssumption DEF ReserveAgain, DropStale,
       Only, queue, hash, locks, disp, QueueOK, FifoOrder
  <2>3. HashOK'
    BY <1>8, ConstantsAssumption, ParentAssumption DEF ReserveAgain, DropStale, Only,
       queue, hash, locks, disp, HashOK, HashInv
  <2>4. DispOK'
    BY Zenon, <1>8, <2>b, <2>d DEF ReserveAgain, DispOK, Clients
  <2>5. HashInv'
    BY <1>8, ConstantsAssumption, ParentAssumption DEF ReserveAgain, DropStale, Only,
       queue, hash, locks, disp, HashOK, DispOK, HashInv, KnownInv, Alive, Clients
  <2>6. ApartInv'
    BY <1>8, ConstantsAssumption, ParentAssumption DEF ReserveAgain, DropStale, Only,
       queue, hash, locks, disp, HashOK, DispOK, HashInv, ApartInv, Alive, Clients
  <2>7. KnownInv'
    <3>1. ASSUME NEW q \in Requests, until[q] > 0
          PROVE  /\ granted[q] \in SlotIds /\ slot[granted[q]] = q /\ slotInc[granted[q]] = inc[q]
                 /\ slotTtl[granted[q]] >= until[q] /\ granted[q] \in Live(inc[r])
      <4>1. /\ granted[q] \in SlotIds /\ slot[granted[q]] = q /\ slotInc[granted[q]] = inc[q]
            /\ slotTtl[granted[q]] >= until[q] /\ slotTtl[granted[q]] > 0
        BY <3>1 DEF KnownInv, HashOK, DispOK, Clients
      <4> QED
        BY Zenon, <2>c, <4>1, ConstantsAssumption DEF Alive
    <3>2. \A t \in Live(inc[r]) : slot'[t] = slot[t] /\ slotInc'[t] = slotInc[t] /\ slotTtl'[t] = slotTtl[t]
      BY Zenon, <2>b DEF DropStale, Only, Live
    <3>3. /\ pc'[r] = "run" /\ granted'[r] = s /\ until'[r] = slotTtl[s]
          /\ \A q \in Clients \ {r} : pc'[q] = pc[q] /\ until'[q] = until[q]
          /\ \A q \in Requests \ {r} : granted'[q] = granted[q]
      BY Zenon, <2>b DEF DispOK, Clients
    <3>4. UNCHANGED <<lock, lockTtl, key, inc>>
      BY Zenon, <1>8 DEF ReserveAgain, locks
    <3>5. \A p \in Plain : p # r
      BY Zenon, ConstantsAssumption
    <3>6. slot'[s] = r /\ slotInc'[s] = inc'[r] /\ slotTtl'[s] >= until'[r]
      BY <2>b, <2>d, <3>2, <3>3, <3>4
    <3>7. ASSUME NEW q \in Requests, q # r
          PROVE  /\ pc'[q] \in {"idle", "poll"} => until'[q] = 0
                 /\ pc'[q] = "poll" => key'[q] \in Keys[q] /\ inc'[q] \in Incarnations
                 /\ until'[q] > 0 => /\ granted'[q] \in SlotIds
                                     /\ slot'[granted'[q]] = q /\ slotInc'[granted'[q]] = inc'[q]
                                     /\ slotTtl'[granted'[q]] >= until'[q]
      BY <3>1, <3>2, <3>3, <3>4, <3>7 DEF KnownInv, Clients
    <3>8. \A p \in Plain : until'[p] > 0 => lock' = p /\ lockTtl' >= until'[p]
      BY Zenon, <3>3, <3>4, <3>5 DEF KnownInv, Clients
    <3> QED
      BY Zenon, <2>d, <3>3, <3>6, <3>7, <3>8 DEF KnownInv
  <2> QED
    BY Zenon, <2>1, <2>2, <2>3, <2>4, <2>5, <2>6, <2>7
<1>9. ASSUME NEW r \in Requests, GiveUp(r)
      PROVE  IInv'
  <2>1. QueueOK'
    BY Zenon, <1>9, ConstantsAssumption, ParentAssumption DEF GiveUp, queue, hash, locks,
       disp, QueueOK
  <2>2. FifoOrder'
    BY Zenon, <1>9, ConstantsAssumption, ParentAssumption DEF GiveUp, queue, hash, locks,
       disp, QueueOK, FifoOrder
  <2>3. HashOK'
    BY Zenon, <1>9, ConstantsAssumption, ParentAssumption DEF GiveUp, queue, hash, locks,
       disp, HashOK, HashInv
  <2>4. DispOK'
    BY Zenon, <1>9, ConstantsAssumption, ParentAssumption DEF GiveUp, queue, hash, locks,
       disp, DispOK, Clients
  <2>5. HashInv'
    BY Zenon, <1>9, ConstantsAssumption, ParentAssumption DEF GiveUp, queue, hash, locks,
       disp, HashOK, DispOK, HashInv, KnownInv, Alive, Clients
  <2>6. ApartInv'
    BY Zenon, <1>9, ConstantsAssumption, ParentAssumption DEF GiveUp, queue, hash, locks,
       disp, HashOK, DispOK, HashInv, ApartInv, Alive, Clients
  <2>7. KnownInv'
    BY Zenon, <1>9, ConstantsAssumption, ParentAssumption DEF GiveUp, queue, hash, locks,
       disp, HashOK, DispOK, HashInv, KnownInv, Alive, Clients
  <2> QED
    BY Zenon, <2>1, <2>2, <2>3, <2>4, <2>5, <2>6, <2>7
<1>10. ASSUME NEW r \in Requests, Finish(r)
      PROVE  IInv'
  <2>1. QueueOK'
    BY Zenon, <1>10, ConstantsAssumption, ParentAssumption DEF Finish, queue, hash,
       locks, disp, QueueOK
  <2>2. FifoOrder'
    BY Zenon, <1>10, ConstantsAssumption, ParentAssumption DEF Finish, queue, hash,
       locks, disp, QueueOK, FifoOrder
  <2>3. HashOK'
    BY Zenon, <1>10, ConstantsAssumption, ParentAssumption DEF Finish, queue, hash,
       locks, disp, HashOK, HashInv
  <2>4. DispOK'
    BY Zenon, <1>10, ConstantsAssumption, ParentAssumption DEF Finish, queue, hash,
       locks, disp, DispOK, Clients
  <2>5. HashInv'
    BY Zenon, <1>10, ConstantsAssumption, ParentAssumption DEF Finish, queue, hash,
       locks, disp, HashOK, DispOK, HashInv, KnownInv, Alive, Clients
  <2>6. ApartInv'
    BY Zenon, <1>10, ConstantsAssumption, ParentAssumption DEF Finish, queue, hash,
       locks, disp, HashOK, DispOK, HashInv, ApartInv, Alive, Clients
  <2>7. KnownInv'
    BY Zenon, <1>10, ConstantsAssumption, ParentAssumption DEF Finish, queue, hash,
       locks, disp, HashOK, DispOK, HashInv, KnownInv, Alive, Clients
  <2> QED
    BY Zenon, <2>1, <2>2, <2>3, <2>4, <2>5, <2>6, <2>7
<1>11. ASSUME NEW r \in Requests, Release(r)
      PROVE  IInv'
  <2>a. HashOK' /\ DispOK' /\ HashInv' /\ ApartInv' /\ KnownInv'
    <3>1. CASE ReleaseScript(r) /\ Forget(r)
      BY Zenon, <1>11, <3>1, ReleaseKeeps DEF Release
    <3>2. CASE pc' = [pc EXCEPT ![r] = "retained"] /\ UNCHANGED <<hash, locks, inc, granted, until>>
      <4>1. UNCHANGED <<slot, slotInc, slotTtl, hashTtl, lock, lockTtl, current, key, inc, granted, until>>
        BY Zenon, <1>11, <3>2 DEF Release, hash, locks
      <4>2. pc[r] = "release"
        BY Zenon, <1>11 DEF Release
      <4>3. HashOK' /\ DispOK'
        BY Zenon, <3>2, <4>1 DEF HashOK, DispOK
      <4>4. HashInv' /\ ApartInv'
        BY Zenon, <4>1 DEF HashInv, ApartInv, Alive, Overlap
      <4>5. \A q \in Requests : pc'[q] = pc[q] \/ pc'[q] = "retained"
        BY Zenon, <3>2 DEF DispOK, Clients
      <4>6. KnownInv'
        BY Zenon, <4>1, <4>5 DEF KnownInv
      <4> QED
        BY Zenon, <4>3, <4>4, <4>6
    <3> QED
      BY Zenon, <1>11, <3>1, <3>2 DEF Release
  <2>1. QueueOK'
    BY Zenon, <1>11, ConstantsAssumption, ParentAssumption DEF Release, ReleaseScript,
       Forget, Only, queue, hash, locks, disp, QueueOK
  <2>2. FifoOrder'
    BY Zenon, <1>11, ConstantsAssumption, ParentAssumption DEF Release, ReleaseScript,
       Forget, Only, queue, hash, locks, disp, QueueOK, FifoOrder
  <2>3. HashOK'
    BY Zenon, <2>a
  <2>4. DispOK'
    BY Zenon, <2>a
  <2>5. HashInv'
    BY Zenon, <2>a
  <2>6. ApartInv'
    BY Zenon, <2>a
  <2>7. KnownInv'
    BY Zenon, <2>a
  <2> QED
    BY Zenon, <2>1, <2>2, <2>3, <2>4, <2>5, <2>6, <2>7
<1>12. ASSUME NEW r \in Requests, ReleaseRetained(r)
      PROVE  IInv'
  <2>a. HashOK' /\ DispOK' /\ HashInv' /\ ApartInv' /\ KnownInv'
    <3>1. CASE ReleaseScript(r) /\ Forget(r)
      BY Zenon, <1>12, <3>1, ReleaseKeeps DEF ReleaseRetained
    <3> QED
      BY Zenon, <1>12, <3>1 DEF ReleaseRetained
  <2>1. QueueOK'
    BY Zenon, <1>12, ConstantsAssumption, ParentAssumption DEF ReleaseRetained,
       ReleaseScript, Forget, Only, queue, hash, locks, disp, QueueOK
  <2>2. FifoOrder'
    BY Zenon, <1>12, ConstantsAssumption, ParentAssumption DEF ReleaseRetained,
       ReleaseScript, Forget, Only, queue, hash, locks, disp, QueueOK, FifoOrder
  <2>3. HashOK'
    BY Zenon, <2>a
  <2>4. DispOK'
    BY Zenon, <2>a
  <2>5. HashInv'
    BY Zenon, <2>a
  <2>6. ApartInv'
    BY Zenon, <2>a
  <2>7. KnownInv'
    BY Zenon, <2>a
  <2> QED
    BY Zenon, <2>1, <2>2, <2>3, <2>4, <2>5, <2>6, <2>7
<1>13. ASSUME NEW r \in Requests, Crash(r)
      PROVE  IInv'
  <2>1. QueueOK'
    BY Zenon, <1>13, ConstantsAssumption, ParentAssumption DEF Crash, queue, hash, locks,
       disp, QueueOK
  <2>2. FifoOrder'
    BY Zenon, <1>13, ConstantsAssumption, ParentAssumption DEF Crash, queue, hash, locks,
       disp, QueueOK, FifoOrder
  <2>3. HashOK'
    BY Zenon, <1>13, ConstantsAssumption, ParentAssumption DEF Crash, queue, hash, locks,
       disp, HashOK, HashInv
  <2>4. DispOK'
    BY Zenon, <1>13, ConstantsAssumption, ParentAssumption DEF Crash, queue, hash, locks,
       disp, DispOK, Clients
  <2>5. HashInv'
    BY Zenon, <1>13, ConstantsAssumption, ParentAssumption DEF Crash, queue, hash, locks,
       disp, HashOK, DispOK, HashInv, KnownInv, Alive, Clients
  <2>6. ApartInv'
    BY Zenon, <1>13, ConstantsAssumption, ParentAssumption DEF Crash, queue, hash, locks,
       disp, HashOK, DispOK, HashInv, ApartInv, Alive, Clients
  <2>7. KnownInv'
    BY Zenon, <1>13, ConstantsAssumption, ParentAssumption DEF Crash, queue, hash, locks,
       disp, HashOK, DispOK, HashInv, KnownInv, Alive, Clients
  <2> QED
    BY Zenon, <2>1, <2>2, <2>3, <2>4, <2>5, <2>6, <2>7
<1>14. ASSUME NEW p \in Plain, TryLock(p)
      PROVE  IInv'
  <2>a. PICK h \in Holds : lockTtl' = h /\ until' = [until EXCEPT ![p] = h]
    BY Zenon, <1>14 DEF TryLock
  <2>b. h \in 1..MaxHold
    BY Zenon DEF Holds
  <2>c. \A s \in SlotIds : ~Alive(s)
    BY Zenon, <1>14, ConstantsAssumption DEF TryLock, HashInv
  <2>d. \A c \in Clients : until[c] = 0
    <3>1. \A q \in Plain : until[q] = 0
      BY <1>14, ConstantsAssumption DEF TryLock, KnownInv, DispOK, Clients
    <3>2. \A r \in Requests : until[r] = 0
      <4> SUFFICES ASSUME NEW r \in Requests, until[r] > 0 PROVE FALSE
        BY DEF DispOK, Clients
      <4>1. granted[r] \in SlotIds /\ slot[granted[r]] = r /\ slotTtl[granted[r]] > 0
        BY DEF KnownInv, HashOK, DispOK, Clients
      <4> QED
        BY Zenon, <2>c, <4>1, ConstantsAssumption DEF Alive
    <3> QED
      BY Zenon, <3>1, <3>2 DEF Clients
  <2>1. QueueOK'
    BY Zenon, <1>14, ConstantsAssumption, ParentAssumption DEF TryLock, queue, hash,
       locks, disp, QueueOK
  <2>2. FifoOrder'
    BY Zenon, <1>14, ConstantsAssumption, ParentAssumption DEF TryLock, queue, hash,
       locks, disp, QueueOK, FifoOrder
  <2>3. HashOK'
    BY <1>14, <2>a, <2>b DEF TryLock, hash, HashOK
  <2>4. DispOK'
    BY <1>14, <2>a, <2>b DEF TryLock, DispOK, Clients
  <2>5. HashInv'
    BY Zenon, <1>14, ConstantsAssumption, ParentAssumption DEF TryLock, queue, hash,
       locks, disp, HashOK, DispOK, HashInv, KnownInv, Alive, Clients
  <2>6. ApartInv'
    BY Zenon, <1>14, ConstantsAssumption, ParentAssumption DEF TryLock, queue, hash,
       locks, disp, HashOK, DispOK, HashInv, ApartInv, Alive, Clients
  <2>7. KnownInv'
    <3>1. /\ until'[p] = h /\ lock' = p
          /\ \A c \in Clients \ {p} : pc'[c] = pc[c] /\ until'[c] = 0
      BY Zenon, <1>14, <2>a, <2>d DEF TryLock, DispOK, Clients
    <3>2. \A r \in Requests : pc'[r] = pc[r] /\ until'[r] = 0
      BY Zenon, <3>1, ConstantsAssumption DEF Clients
    <3>3. \A q \in Plain : until'[q] > 0 => lock' = q /\ lockTtl' >= until'[q]
      BY <2>a, <2>b, <3>1 DEF Clients
    <3>4. UNCHANGED <<key, inc>>
      BY Zenon, <1>14 DEF TryLock
    <3> QED
      BY <3>2, <3>3, <3>4 DEF KnownInv
  <2> QED
    BY Zenon, <2>1, <2>2, <2>3, <2>4, <2>5, <2>6, <2>7
<1>15. ASSUME NEW p \in Plain, Unlock(p)
      PROVE  IInv'
  <2>1. QueueOK'
    BY Zenon, <1>15, ConstantsAssumption, ParentAssumption DEF Unlock, queue, hash,
       locks, disp, QueueOK
  <2>2. FifoOrder'
    BY Zenon, <1>15, ConstantsAssumption, ParentAssumption DEF Unlock, queue, hash,
       locks, disp, QueueOK, FifoOrder
  <2>3. HashOK'
    BY <1>15, ConstantsAssumption, ParentAssumption DEF Unlock, queue, hash, locks, disp,
       HashOK, HashInv
  <2>4. DispOK'
    BY SMTT(30), <1>15, ConstantsAssumption, ParentAssumption DEF Unlock, queue, hash, locks, disp,
       DispOK, Clients
  <2>5. HashInv'
    BY <1>15, ConstantsAssumption, ParentAssumption DEF Unlock, queue, hash, locks, disp,
       HashOK, DispOK, HashInv, KnownInv, Alive, Clients
  <2>6. ApartInv'
    BY ZenonT(60), <1>15, ConstantsAssumption, ParentAssumption DEF Unlock, queue, hash,
       locks, disp, HashOK, DispOK, HashInv, ApartInv, Alive, Clients
  <2>7. KnownInv'
    BY SMTT(30), <1>15, ConstantsAssumption, ParentAssumption DEF Unlock, queue, hash, locks, disp,
       HashOK, DispOK, HashInv, KnownInv, Alive, Clients
  <2> QED
    BY Zenon, <2>1, <2>2, <2>3, <2>4, <2>5, <2>6, <2>7
<1>16. ASSUME Tick
      PROVE  IInv'
  <2>1. QueueOK'
    BY <1>16, ConstantsAssumption, ParentAssumption DEF Tick, Less, Only, queue, hash,
       locks, disp, QueueOK
  <2>2. FifoOrder'
    BY Zenon, <1>16, ConstantsAssumption, ParentAssumption DEF Tick, Less, Only, queue,
       hash, locks, disp, QueueOK, FifoOrder
  <2>3. HashOK'
    BY SMTT(30), <1>16, ConstantsAssumption, ParentAssumption DEF Tick, Less, Only, queue, hash,
       locks, disp, HashOK, HashInv
  <2>4. DispOK'
    BY <1>16, ConstantsAssumption, ParentAssumption DEF Tick, Less, Only, queue, hash,
       locks, disp, DispOK, Clients
  <2>5. HashInv'
    <3> SUFFICES ASSUME NEW s \in SlotIds, slot'[s] # None
                 PROVE  /\ key'[slot'[s]] \in Keys[slot'[s]]
                        /\ slotTtl'[s] > 0 => /\ slotInc'[s] \in Incarnations /\ lock' = slotInc'[s]
                                              /\ lockTtl' >= slotTtl'[s] /\ hashTtl' >= slotTtl'[s]
                                              /\ current' \in {slotInc'[s], None}
      BY Zenon DEF HashInv, Alive
    <3>1. /\ slot'[s] = slot[s] /\ slotInc'[s] = slotInc[s] /\ slotTtl'[s] = Less(slotTtl[s])
          /\ hashTtl' = Less(hashTtl) /\ lockTtl' = Less(lockTtl) /\ UNCHANGED <<key, current>>
          /\ lock' = (IF Less(lockTtl) = 0 THEN None ELSE lock)
      BY Zenon, <1>16 DEF Tick, Only
    <3>2. CASE slotTtl[s] > 0
      <4>1. /\ slotInc[s] \in Incarnations /\ lock = slotInc[s] /\ lockTtl >= slotTtl[s] /\ hashTtl >= slotTtl[s]
            /\ current \in {slotInc[s], None} /\ key[slot[s]] \in Keys[slot[s]]
        BY Zenon, <3>1, <3>2 DEF HashInv, Alive
      <4>2. slotTtl[s] \in Nat /\ lockTtl \in Nat /\ hashTtl \in Nat
        BY DEF HashOK
      <4> QED
        BY <3>1, <3>2, <4>1, <4>2 DEF Less
    <3>3. CASE ~(slotTtl[s] > 0)
      <4>1. slotTtl'[s] = 0 /\ key[slot[s]] \in Keys[slot[s]]
        BY SMTT(30), <3>1, <3>3 DEF HashInv, HashOK, Less
      <4> QED
        BY <3>1, <4>1
    <3> QED
      BY Zenon, <3>2, <3>3
  <2>6. ApartInv'
    BY SMTT(30), <1>16, ConstantsAssumption, ParentAssumption DEF Tick, Less, Only, queue, hash,
       locks, disp, HashOK, DispOK, HashInv, ApartInv, Alive, Clients
  <2>7. KnownInv'
    BY SMTT(30), <1>16, ConstantsAssumption, ParentAssumption DEF Tick, Less, Only, queue, hash,
       locks, disp, HashOK, DispOK, HashInv, KnownInv, Alive, Clients
  <2> QED
    BY Zenon, <2>1, <2>2, <2>3, <2>4, <2>5, <2>6, <2>7
<1>17. ASSUME UNCHANGED vars
      PROVE  IInv'
  <2>1. (QueueOK /\ FifoOrder)'
    BY <1>17 DEF vars, queue, QueueOK, FifoOrder
  <2>2. (HashOK /\ DispOK)'
    BY Zenon, <1>17 DEF vars, hash, locks, disp, HashOK, DispOK
  <2>3. (HashInv /\ ApartInv)'
    BY Zenon, <1>17 DEF vars, hash, locks, disp, HashInv, ApartInv, Alive, Overlap
  <2>4. KnownInv'
    BY Zenon, <1>17 DEF vars, hash, locks, disp, KnownInv
  <2> QED
    BY Zenon, <2>1, <2>2, <2>3, <2>4
<1> HIDE DEF IInv
<1> QED
  BY Zenon, <1>2, <1>3, <1>4, <1>5, <1>6, <1>7, <1>8, <1>9, <1>10, <1>11, <1>12, <1>13,
     <1>14, <1>15, <1>16, <1>17 DEF Next

(* A lane that goes from waiting to running was selected, so no older      *)
(* request for its checkout waits, or had been granted its slot before     *)
(* (slots.ts reserve, waitingCheckouts).                                   *)
LEMMA NoOvertaking == ASSUME IInv, [Next]_vars PROVE NotOvertaken
<1> SUFFICES ASSUME NEW q \in Requests, NEW r \in Requests,
                    q \in older[r], Parent[key[r]] = key[q],
                    pc[q] = "poll", wait[q] > 0, pc[r] = "poll", pc'[r] = "run",
                    \A s \in SlotIds : slot[s] # r
             PROVE  FALSE
  BY Zenon DEF NotOvertaken
<1>1. Reserve(r)
  <2>1. \A c \in Clients : c # r => \A v : [pc EXCEPT ![c] = v][r] = "poll"
    BY Zenon DEF IInv, TypeOK, DispOK, Clients
  <2>2. ~ReserveAgain(r)
    BY Zenon DEF ReserveAgain, Live
  <2>3. pc'[r] # pc[r]
    BY Zenon
  <2>4. ASSUME NEW t \in Requests,
               \/ Enter(t) \/ Leave(t) \/ Reserve(t) \/ ReserveAgain(t) \/ GiveUp(t) \/ Finish(t)
               \/ Release(t) \/ ReleaseRetained(t) \/ Crash(t)
        PROVE  t = r
    <3> SUFFICES ASSUME t # r PROVE FALSE
      BY Zenon
    <3>1. pc' = pc \/ \E v : pc' = [pc EXCEPT ![t] = v]
      BY Zenon, <2>4 DEF Enter, Leave, Reserve, ReserveAgain, GiveUp, Finish, Release,
         ReleaseRetained, Crash, Forget
    <3> QED
      BY ZenonT(60), <2>1, <2>3, <3>1 DEF Clients
  <2>5. ~\E p \in Plain : TryLock(p) \/ Unlock(p)
    <3>1. \A p \in Plain : TryLock(p) \/ Unlock(p) => \E v : pc' = [pc EXCEPT ![p] = v]
      BY Zenon DEF TryLock, Unlock
    <3> QED
      BY Zenon, <2>1, <2>3, <3>1, ConstantsAssumption DEF Clients
  <2>6. ~(UNCHANGED vars \/ RegistrationExpires \/ Tick \/ \E i \in Incarnations : Register(i))
    BY Zenon, <2>3 DEF vars, disp, RegistrationExpires, Tick, Register
  <2>7. ~\E t \in Requests : ReserveLater(t)
    BY Zenon, <2>3 DEF ReserveLater, disp
  <2>8. pc'[r] \notin {"idle", "leave", "release", "retained", "dead", "poll"}
    BY Zenon
  <2>9. ~(Enter(r) \/ Leave(r) \/ GiveUp(r) \/ Finish(r) \/ Release(r) \/ ReleaseRetained(r) \/ Crash(r))
    BY Zenon, <2>8 DEF Enter, Leave, GiveUp, Finish, Release, ReleaseRetained, Crash,
       Forget, IInv, TypeOK, DispOK, Clients
  <2> QED
    BY Zenon, <2>2, <2>4, <2>5, <2>6, <2>7, <2>9 DEF Next
<1>2. ~Held(r, Busy(inc[r]))
  BY Zenon, <1>1 DEF Reserve, Grantable, Selected
<1>3. q \in Unexpired
  BY Zenon DEF Unexpired, IInv, TypeOK, QueueOK
<1>4. key[q] # None
  BY Zenon, ParentAssumption DEF IInv, KnownInv
<1> QED
  BY Zenon, <1>2, <1>3, <1>4 DEF Held

(* Slots of a worker: reservations that have not run out exclude each      *)
(* other, whatever incarnation they were made for; the lock they share     *)
(* outlives each of them; the queue stays in order and lanes do not        *)
(* overtake their checkout (bridge/slots.ts, bridge/admission.ts).         *)
THEOREM SlotsKept == Spec => SlotsSafe
<1>1. IInv => SlotExclusion
  <2> SUFFICES ASSUME IInv, NEW q \in Requests \cap Holding, NEW r \in Requests \cap Holding, q # r
               PROVE  granted[q] # granted[r] /\ ~Overlap(key[q], key[r])
    BY Zenon DEF SlotExclusion
  <2>1. \A x \in {q, r} : /\ granted[x] \in SlotIds /\ slot[granted[x]] = x /\ Alive(granted[x])
    BY ConstantsAssumption DEF IInv, TypeOK, KnownInv, HashOK, DispOK, Holding, Clients,
       Alive
  <2>2. granted[q] # granted[r]
    BY Zenon, <2>1
  <2> QED
    BY Zenon, <2>1, <2>2 DEF IInv, ApartInv
<1>2. IInv => LockCoversSlots
  <2> SUFFICES ASSUME IInv, NEW r \in Requests \cap Holding
               PROVE  /\ lock = inc[r] /\ lockTtl >= until[r]
                      /\ Holding \cap Plain = {}
                      /\ current \in {inc[r], None}
    BY Zenon DEF LockCoversSlots
  <2> DEFINE s == granted[r]
  <2>1. /\ s \in SlotIds /\ slot[s] = r /\ Alive(s) /\ slotInc[s] = inc[r] /\ slotTtl[s] >= until[r]
        /\ slotTtl[s] \in Nat /\ until[r] \in Nat /\ lockTtl \in Nat
    BY ConstantsAssumption DEF IInv, TypeOK, KnownInv, HashOK, DispOK, Holding, Clients,
       Alive
  <2>2. inc[r] \in Incarnations /\ lock = inc[r] /\ lockTtl >= slotTtl[s] /\ current \in {inc[r], None}
    BY Zenon, <2>1 DEF IInv, HashInv
  <2>3. Holding \cap Plain = {}
    BY <2>2, ConstantsAssumption DEF IInv, KnownInv, Holding
  <2> HIDE DEF s
  <2> QED
    BY <2>1, <2>2, <2>3
<1>3. IInv => TypeOK /\ FifoOrder /\ SlotExclusion /\ LockCoversSlots
  BY Zenon, <1>1, <1>2 DEF IInv
<1> QED
  BY <1>3, SlotInvariant, NoOvertaking, PTL DEF Spec, SlotsSafe
=============================================================================
