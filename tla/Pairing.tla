------------------------------ MODULE Pairing ------------------------------
(***************************************************************************)
(* How a worker gets, renews, recovers and loses its credential            *)
(* (RedisBridgePairingStore, service/src/bridge/pairing.ts, called from    *)
(* bridge/router.ts).  An administrator issues a pairing code or approves  *)
(* an enrolment in the browser; a machine redeems one of them and receives *)
(* a credential, which it rotates, and with durable enrolment recovers     *)
(* after it expired.  A revocation ends all of it.  One worker id; every   *)
(* request is a call that may be overtaken by others between its reads and *)
(* its Lua script.                                                         *)
(*                                                                         *)
(* Codes, credentials and challenges are named by the call that made them. *)
(* A redemption draws one random identity and one enrolment generation:    *)
(* both are named by the redeeming call, the "root" of the credentials     *)
(* that descend from it.                                                   *)
(***************************************************************************)
EXTENDS Integers, FiniteSets

CONSTANTS
    Calls,      \* requests to the router
    Uses,       \* call -> what it may ask for
    Seed,       \* the call that paired the worker before the model begins
    Machines,   \* holders of an Ed25519 key
    Buried,     \* a browser enrolment that only its tombstone remembers
    None

VARIABLES
    recovery,   \* durable enrolment is configured; never changes
    gen,        \* pairing-generation; Absent when there is no key
    index,      \* pairing-index: a code, "fence", or None
    code,       \* generation of each pairing code; Absent when it is gone
    cred,       \* credential:<digest>: [root, machine], or None
    active,     \* identity: the credential in use
    stable,     \* stable-identity: a root
    enrolled,   \* enrollment: [root, machine, gen]
    required,   \* enrollment-required: a root
    challenge,  \* root each recovery challenge is for
    browser,    \* browser enrolment: [root, machine], Buried (its tombstone) or None
    fence,      \* its fence, TRUE while it may be redeemed
    result,     \* its stored reply: a credential
    worker,     \* root of the registered incarnation
    pc, kind, arg, seen,  \* each call: where it is, what it does, to what, what it read
    got,        \* the credential each call returned
    trust       \* history: the last redemption, None after a revocation
keys == <<gen, index, code, cred, active, stable, enrolled, required, challenge,
          browser, fence, result, worker, trust>>
local == <<pc, kind, arg, seen, got>>
vars == <<recovery, keys, local>>

Absent == -1
All == Calls \cup {Seed}

\* Nobody has paired yet, or Seed's machine has.
Init ==
    /\ recovery \in BOOLEAN
    /\ gen = Absent /\ index = None
    /\ code = [c \in All |-> Absent]
    /\ \E paired \in BOOLEAN : \E m \in Machines :
          /\ cred = [c \in All |-> IF paired /\ c = Seed
                                   THEN [root |-> Seed, machine |-> m] ELSE None]
          /\ active = IF paired THEN Seed ELSE None
          /\ stable = IF paired THEN Seed ELSE None
          /\ enrolled = IF paired /\ recovery
                        THEN [root |-> Seed, machine |-> m, gen |-> 0] ELSE None
          /\ required = IF paired /\ recovery THEN Seed ELSE None
          /\ trust = IF paired THEN Seed ELSE None
    /\ challenge = [c \in All |-> None]
    /\ browser = None /\ fence = FALSE /\ result = None /\ worker = None
    /\ pc = [p \in Calls |-> "idle"] /\ kind = [p \in Calls |-> None]
    /\ arg = [p \in Calls |-> None] /\ seen = [p \in Calls |-> None]
    /\ got = [p \in Calls |-> None]

Number == IF gen = Absent THEN 0 ELSE gen

Begin(p, k, a, s, l) ==
    /\ pc[p] = "idle" /\ k \in Uses[p] /\ pc' = [pc EXCEPT ![p] = l]
    /\ kind' = [kind EXCEPT ![p] = k] /\ arg' = [arg EXCEPT ![p] = a]
    /\ seen' = [seen EXCEPT ![p] = s]
    /\ UNCHANGED got
Goto(p, l) == pc' = [pc EXCEPT ![p] = l] /\ UNCHANGED <<kind, arg, seen, got>>
Return(p, c) ==
    /\ pc' = [pc EXCEPT ![p] = "over"] /\ got' = [got EXCEPT ![p] = c]
    /\ UNCHANGED <<kind, arg, seen>>
Refuse(p) == Return(p, None)

\* Deleting what the index points at.
WithoutIndexed == [c \in All |-> IF c = index THEN Absent ELSE code[c]]
FenceLeft == fence /\ index # "fence"

----------------------------------------------------------------------------
\* Pairing codes.

\* issue: the generation is read first; the script replaces the indexed offer.
IssueReads(p) ==
    /\ Begin(p, "issue", None, [gen |-> Number], "issue")
    /\ UNCHANGED keys

ReplaceIndexed(p) ==
    /\ code' = [WithoutIndexed EXCEPT ![p] = seen[p].gen]
    /\ fence' = FenceLeft /\ index' = p
IssueScript(p) ==
    /\ pc[p] = "issue" /\ Refuse(p)
    /\ ReplaceIndexed(p)
    /\ UNCHANGED <<gen, cred, active, stable, enrolled, required, challenge,
                   browser, result, worker, trust>>

\* redeem: a machine draws a key and presents a code for this worker, which is
\* there when it is looked up.
PairBridgeWorker(p, c, m) == Begin(p, "redeem", c, m, "redeem")
RedeemReads(p) ==
    /\ \E c \in Calls, m \in Machines : code[c] # Absent /\ PairBridgeWorker(p, c, m)
    /\ UNCHANGED keys

\* A code presented for another worker is consumed.
Misdirected(p) ==
    /\ \E c \in Calls : /\ code[c] # Absent /\ Begin(p, "redeem", c, None, "over")
                        /\ code' = [code EXCEPT ![c] = Absent]
    /\ UNCHANGED <<gen, index, cred, active, stable, enrolled, required, challenge,
                   browser, fence, result, worker, trust>>

\* What a successful redemption writes.
Credential(p, r, m) ==
    /\ cred' = [cred EXCEPT ![p] = [root |-> r, machine |-> m]]
    /\ active' = p /\ stable' = r
Enroll(r, m, g) ==
    IF recovery THEN enrolled' = [root |-> r, machine |-> m, gen |-> g] /\ required' = r
    ELSE enrolled' = None /\ required' = None

RedeemScript(p) ==
    /\ pc[p] = "redeem"
    /\ LET c == arg[p] IN
       IF code[c] # Number
       THEN /\ Refuse(p) /\ code' = [code EXCEPT ![c] = Absent]
            /\ UNCHANGED <<index, cred, active, stable, enrolled, required, trust>>
       ELSE /\ Return(p, p) /\ code' = [code EXCEPT ![c] = Absent]
            /\ index' = IF index = c THEN None ELSE index
            /\ Credential(p, p, seen[p]) /\ Enroll(p, seen[p], code[c])
            /\ trust' = p
    /\ UNCHANGED <<gen, challenge, browser, fence, result, worker>>

\* revoke: the generation, the offer, the credential in use, the enrolment and
\* the registration, in one script.
RevokeScript(p) ==
    /\ Begin(p, "revoke", None, None, "over")
    /\ gen' = Number + 1
    /\ code' = WithoutIndexed /\ fence' = FenceLeft /\ index' = None
    /\ cred' = [c \in All |-> IF c = active THEN None ELSE cred[c]]
    /\ active' = None /\ stable' = None /\ enrolled' = None /\ worker' = None
    /\ trust' = None
    /\ UNCHANGED <<required, challenge, browser, result>>

----------------------------------------------------------------------------
\* Using a credential: the two reads of authorize, then a rotation or a
\* registration.

\* checkedEnrollment and checkEnrolledCredential.
EnrollmentCurrent ==
    enrolled # None /\ recovery /\ enrolled.root = required /\ enrolled.gen = Number
Enrolled(c) ==
    \/ EnrollmentCurrent /\ cred[c].root = enrolled.root
    \/ ~recovery /\ required = None /\ enrolled = None

AuthorizeReads(p) ==
    /\ \E c \in All, k \in {"rotate", "register"} :
          /\ cred[c] # None /\ active # None /\ Enrolled(c)
          /\ Begin(p, k, c, [active |-> active, gen |-> Number, root |-> cred[c].root],
                   IF active = c THEN k ELSE "compare")
    /\ UNCHANGED keys

AuthorizeCompares(p) ==
    /\ pc[p] = "compare"
    /\ LET a == cred[seen[p].active] IN
       IF a # None /\ a.root = seen[p].root THEN Goto(p, kind[p]) ELSE Refuse(p)
    /\ UNCHANGED keys

\* store.register: the script compares the generation and the identity again
\* (RegisterTrusting relies on the authorization).
RegisterTrusting(p) == TRUE
RegisterChecks(p) == seen[p].gen = Number /\ stable = seen[p].root
Register(p) ==
    /\ pc[p] = "register" /\ Refuse(p)
    /\ worker' = IF RegisterChecks(p) THEN seen[p].root ELSE worker
    /\ UNCHANGED <<gen, index, code, cred, active, stable, enrolled, required,
                   challenge, browser, fence, result, trust>>

\* rotate reads the credential and the enrolment again, then runs its script.
RotateReads(p) ==
    /\ pc[p] = "rotate"
    /\ IF cred[arg[p]] # None /\ Enrolled(arg[p]) THEN Goto(p, "rotateScript")
       ELSE Refuse(p)
    /\ UNCHANGED keys

RotateChecks(p) ==
    /\ active # None /\ cred[arg[p]] # None
    /\ active = arg[p] \/ stable = seen[p].root
    /\ IF recovery THEN EnrollmentCurrent /\ enrolled.root = seen[p].root
       ELSE required = None
RotateScript(p) ==
    /\ pc[p] = "rotateScript"
    /\ IF RotateChecks(p)
       THEN Return(p, p) /\ Credential(p, seen[p].root, cred[arg[p]].machine)
       ELSE Refuse(p) /\ UNCHANGED <<cred, active, stable>>
    /\ UNCHANGED <<gen, index, code, enrolled, required, challenge, browser, fence,
                   result, worker, trust>>

----------------------------------------------------------------------------
\* Recovery of an enrolled machine.

\* createRecoveryChallenge: the script repeats every check of the reads, and
\* may refuse a machine that asks too often or repeats its nonce.
ChallengeScript(p) ==
    EnrollmentCurrent /\ challenge' = [challenge EXCEPT ![p] = enrolled.root]
CreateRecoveryChallenge(p) ==
    /\ Begin(p, "challenge", None, None, "over") /\ ChallengeScript(p)
    /\ UNCHANGED <<gen, index, code, cred, active, stable, enrolled, required,
                   browser, fence, result, worker, trust>>

\* recoverCredential: the enrolment and the challenge are read, the signature
\* is that of the enrolled machine ...
RecoverWorkerCredential(p, c) == Begin(p, "recover", c, enrolled, "recover")
RecoverReads(p) ==
    /\ \E c \in Calls : /\ EnrollmentCurrent /\ challenge[c] = enrolled.root
                        /\ RecoverWorkerCredential(p, c)
    /\ UNCHANGED keys

\* ... and the script checks them again, uses up the challenge,
\* or refuses a machine that recovers too often.
RecoverChecks(p) ==
    /\ EnrollmentCurrent /\ enrolled = seen[p]
    /\ challenge[arg[p]] # None
    /\ stable \in {None, enrolled.root}
ChallengeUsed(c) == [challenge EXCEPT ![c] = None]
RecoverScript(p) ==
    /\ pc[p] = "recover"
    /\ \/ /\ RecoverChecks(p)
          /\ Return(p, p) /\ Credential(p, seen[p].root, seen[p].machine)
          /\ challenge' = ChallengeUsed(arg[p])
       \/ Refuse(p) /\ UNCHANGED <<cred, active, stable, challenge>>
    /\ UNCHANGED <<gen, index, code, enrolled, required, browser, fence, result,
                   worker, trust>>

----------------------------------------------------------------------------
\* Enrolment in the browser: one attempt, approved for one machine.

Approved == browser \notin {None, Buried}

\* issueBrowserEnrollment: only for a worker id without a past, or again while
\* the same approval stands.
ApproveScript(p) ==
    \/ /\ browser = None /\ index = None /\ active = None /\ stable = None
       /\ enrolled = None /\ required = None /\ worker = None
       /\ \E m \in Machines : browser' = [root |-> p, machine |-> m]
       /\ gen' = 0 /\ fence' = TRUE /\ index' = "fence"
    \/ /\ Approved /\ index = "fence" /\ fence
       /\ IF enrolled # None THEN enrolled.root = browser.root
          ELSE active = None /\ stable = None /\ required = None /\ worker = None
       /\ gen' = 0 /\ UNCHANGED <<browser, fence, index>>
Approve(p) ==
    /\ recovery /\ Number = 0
    /\ Begin(p, "approve", None, None, "over")
    /\ ApproveScript(p)
    /\ UNCHANGED <<code, cred, active, stable, enrolled, required, challenge, result,
                   worker, trust>>

\* redeemBrowserEnrollment: the approval is read and the proof verified ...
EnrollReads(p) ==
    /\ recovery /\ Approved
    /\ Begin(p, "enroll", None, browser, "enroll")
    /\ UNCHANGED keys

\* ... the script returns the stored reply or redeems.
Offered(p) == browser = seen[p] /\ fence /\ index = "fence" /\ Number = 0
Unclaimed ==
    active = None /\ stable = None /\ enrolled = None /\ required = None /\ worker = None
ReplyStored(p) == result
EnrollScript(p) ==
    /\ pc[p] = "enroll"
    /\ \/ /\ Offered(p) /\ result = None /\ Unclaimed
          /\ Return(p, p) /\ Credential(p, browser.root, browser.machine)
          /\ Enroll(browser.root, browser.machine, 0)
          /\ result' = p /\ trust' = browser.root
       \/ /\ IF /\ Offered(p) /\ result # None /\ enrolled # None
                /\ enrolled.root = browser.root /\ required = browser.root
             THEN Return(p, ReplyStored(p)) ELSE Refuse(p)
          /\ UNCHANGED <<cred, active, stable, enrolled, required, result, trust>>
    /\ UNCHANGED <<gen, index, code, challenge, browser, fence, worker>>

----------------------------------------------------------------------------
\* Times to live.

\* A code and its index entry are written together and expire together.
CodeExpires(c) ==
    /\ code[c] # Absent \/ index = c
    /\ code' = [code EXCEPT ![c] = Absent]
    /\ index' = IF index = c THEN None ELSE index
    /\ UNCHANGED <<gen, cred, active, stable, enrolled, required, challenge, browser,
                   fence, result, worker, trust, local>>

\* The credential in use is the youngest; its identity keys, and the reply of an
\* enrolment, go with it.
CredentialExpires(c) ==
    /\ cred[c] # None /\ (c = active => \A d \in All \ {c} : cred[d] = None)
    /\ cred' = [cred EXCEPT ![c] = None]
    /\ IF c = active THEN active' = None /\ stable' = None ELSE UNCHANGED <<active, stable>>
    /\ IF result = c
       THEN /\ result' = None /\ browser' = Buried /\ fence' = FALSE
            /\ index' = IF index = "fence" THEN None ELSE index
       ELSE UNCHANGED <<result, browser, fence, index>>
    /\ UNCHANGED <<gen, code, enrolled, required, challenge, worker, trust, local>>

\* An approval that nobody redeemed.
ApprovalExpires ==
    /\ Approved /\ result = None
    /\ browser' = Buried /\ fence' = FALSE
    /\ index' = IF index = "fence" THEN None ELSE index
    /\ UNCHANGED <<gen, code, cred, active, stable, enrolled, required, challenge,
                   result, worker, trust, local>>

\* A registration that is not renewed, and an enrolment with a configured life.
OthersExpire ==
    /\ \/ worker # None /\ worker' = None /\ UNCHANGED enrolled
       \/ enrolled # None /\ enrolled' = None /\ UNCHANGED worker
    /\ UNCHANGED <<gen, index, code, cred, active, stable, required, challenge,
                   browser, fence, result, trust, local>>

Step ==
    \/ \E p \in Calls :
        \/ IssueReads(p) \/ IssueScript(p) \/ RedeemReads(p) \/ Misdirected(p)
        \/ RedeemScript(p) \/ RevokeScript(p) \/ AuthorizeReads(p)
        \/ AuthorizeCompares(p) \/ Register(p) \/ RotateReads(p) \/ RotateScript(p)
        \/ CreateRecoveryChallenge(p) \/ RecoverReads(p) \/ RecoverScript(p)
        \/ Approve(p) \/ EnrollReads(p) \/ EnrollScript(p)
    \/ \E c \in All : CodeExpires(c) \/ CredentialExpires(c)
    \/ ApprovalExpires \/ OthersExpire

Next == Step /\ UNCHANGED recovery

Spec == Init /\ [][Next]_vars

----------------------------------------------------------------------------
\* Keys and calls stay within their values.
TypeOK ==
    /\ gen \in Int /\ gen >= Absent /\ index \in All \cup {"fence", None}
    /\ \A c \in All : code[c] \in Int /\ code[c] >= Absent
    /\ \A c \in All : cred[c] = None \/ cred[c] \in [root : All, machine : Machines]
    /\ {active, stable, required, result, worker, trust} \subseteq All \cup {None}
    /\ enrolled = None \/ enrolled \in [root : All, machine : Machines, gen : Nat]
    /\ pc \in [Calls -> {"idle", "issue", "redeem", "compare", "register", "rotate",
                         "rotateScript", "recover", "enroll", "over"}]
    /\ got \in [Calls -> All \cup {None}]

\* What authorize would accept now.
Accepted(c) ==
    /\ cred[c] # None /\ active # None /\ Enrolled(c)
    /\ active = c \/ (cred[active] # None /\ cred[active].root = cred[c].root)

\* Every credential the router accepts descends from the last redemption, and
\* none from before the last revocation is accepted: no rotation, recovery or
\* redemption that was under way recreates trust.
TrustFollowsPairing == \A c \in All : Accepted(c) => cred[c].root = trust

\* A worker is registered only under the pairing that holds the trust at that
\* moment, whatever its request was authorized by before.
RegistrationCurrent ==
    worker' \notin {worker, None} => worker' = trust

\* At most one offer, code or browser approval, can still be redeemed: issuing
\* one replaces the other.
OneOffer ==
    Cardinality({c \in All : code[c] = Number}
                \cup {x \in {"fence"} : /\ Approved /\ fence /\ index = x /\ Number = 0
                                        /\ result = None}) <= 1

\* The keys that a recovery compares agree: a current enrolment is never locked
\* out by the identity or the credential of another one.
EnrollmentUsable ==
    EnrollmentCurrent =>
        /\ stable \in {None, enrolled.root}
        /\ active # None /\ cred[active] # None => cred[active].root = enrolled.root

\* A recovery challenge yields one credential, whoever repeats the request.
ChallengeOnce ==
    \A p, q \in Calls :
        kind[p] = "recover" /\ kind[q] = "recover" /\ got[p] # None /\ got[q] # None
        /\ arg[p] = arg[q] => p = q

\* Repeating the redemption of a browser enrolment returns the same credential.
EnrollOnce ==
    \A p, q \in Calls :
        kind[p] = "enroll" /\ kind[q] = "enroll" /\ got[p] # None /\ got[q] # None
        => got[p] = got[q]

Inv ==
    TypeOK /\ TrustFollowsPairing /\ OneOffer /\ EnrollmentUsable /\ ChallengeOnce /\ EnrollOnce

\* What pairing promises: trust comes from one redemption and ends with its
\* revocation, offers and challenges are good for one use, and a current
\* enrolment can be recovered.
PairingSafe == []Inv /\ [][RegistrationCurrent]_vars
=============================================================================
