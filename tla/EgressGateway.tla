--------------------------- MODULE EgressGateway ---------------------------
(***************************************************************************)
(* The egress gateway (service/src/egress-gateway.ts) and the ledger of    *)
(* one grant.  The sandbox reads inputs, stores outputs and calls tools    *)
(* through the gateway; every such request is admitted by one Lua script   *)
(* (egress-ledger-script.ts) that checks the grant's status and budgets.   *)
(* Uploads reserve their bytes first and give them back when the file      *)
(* server does not take the file.  The worker that asked for the grant     *)
(* revokes it when the run is over.                                        *)
(***************************************************************************)
EXTENDS Integers, FiniteSets, FiniteSetsExt

CONSTANTS
    Requests,       \* what the sandbox sends through the gateway
    Kinds,          \* request -> the routes it may be sent to
    File, Size,     \* upload -> its file id and its content length
    MaxRequests,    \* budgets of the grant
    MaxFiles,
    MaxBytes,       \* the largest file
    Lossy,          \* ledger operations whose answer may be lost
    None

VARIABLES
    compact,    \* representation of the record: a hash or one JSON string
    legacy,     \* the token has no grant id: whoever meets it makes the record
    ledger,     \* the record: "none", "active" or "revoked"
    time,       \* "valid", "late" (exp passed, token still opens), "over"
    counts,     \* request_count, read_count, tool_call_count, upload_count
    bytes,      \* uploaded_bytes
    outputs,    \* file id -> its reserved bytes or None
    pc,         \* where each request is
    kind,       \* its route: "list", "read", "manifest", "tool" or "upload"
    revoke,     \* the worker: "running", "restored", "ensured", "revoked"
    lost,       \* history: files whose reservation nobody may give back
    refunded    \* history: requests whose reservation another one released

vars == <<compact, legacy, ledger, time, counts, bytes, outputs, pc, kind,
          revoke, lost, refunded>>
record == <<ledger, counts, bytes, outputs>>

Uploads == {r \in Requests : Kinds[r] = {"upload"}}
Files == {File[r] : r \in Uploads}
Zero == [request |-> 0, read |-> 0, tool |-> 0, upload |-> 0]

\* POST /internal/egress-grants makes the record with the token; a token of an
\* earlier release has none yet.
Init ==
    /\ compact \in BOOLEAN /\ legacy \in BOOLEAN
    /\ ledger = IF legacy THEN "none" ELSE "active"
    /\ time = "valid"
    /\ counts = Zero /\ bytes = 0
    /\ outputs = [f \in Files |-> None]
    /\ pc = [r \in Requests |-> "idle"]
    /\ kind \in [Requests -> UNION {Kinds[r] : r \in Requests}]
    /\ \A r \in Requests : kind[r] \in Kinds[r]
    /\ revoke = "running"
    /\ lost = {} /\ refunded = {}

Goto(r, l) == pc' = [pc EXCEPT ![r] = l]
others == <<compact, legacy, kind, time, revoke, lost, refunded>>

----------------------------------------------------------------------------
\* The script.

\* create: admission is idempotent.
EnsureEgressLedger ==
    /\ ledger' = IF ledger = "none" THEN "active" ELSE ledger
    /\ UNCHANGED <<counts, bytes, outputs>>

\* Status and expiry, checked by every operation.
Active == ledger = "active" /\ time = "valid"

\* read, tool and reserve are admitted within the budgets (AdmittedAgain does
\* not notice that the file id is in use).  A callback token has a record of its
\* own, with requests only, that nobody revokes: counts.tool is its counter.
Aggregate(r) == bytes + Size[r] <= MaxBytes * MaxFiles
Fits(r) == Size[r] <= MaxBytes /\ counts.upload < MaxFiles /\ Aggregate(r)
Budget(r) ==
    IF kind[r] = "tool" THEN time = "valid" /\ counts.tool < MaxRequests
                        ELSE Active /\ counts.request < MaxRequests
AdmittedAgain(r) == Budget(r) /\ (kind[r] = "upload" => Fits(r))
Admitted(r) ==
    Budget(r) /\ (kind[r] = "upload" => Fits(r) /\ outputs[File[r]] = None)

Counters(r) ==
    CASE kind[r] = "tool" -> {"tool"}
      [] kind[r] = "upload" -> {"request", "upload"}
      [] OTHER -> {"request", "read"}
Account(r) ==
    /\ counts' = [c \in DOMAIN counts |-> counts[c] + IF c \in Counters(r) THEN 1 ELSE 0]
    /\ IF kind[r] = "upload"
       THEN /\ bytes' = bytes + Size[r]
            /\ outputs' = [outputs EXCEPT ![File[r]] = Size[r]]
       ELSE UNCHANGED <<bytes, outputs>>
    /\ UNCHANGED ledger

\* release: nothing when the file has no reservation; the hash knows the
\* reserved bytes and refuses others.
Mismatch(r) == compact /\ outputs[File[r]] \notin {None, Size[r]}
Refund(r) ==
    /\ bytes' = bytes - Min({bytes, Size[r]})
    /\ counts' = [counts EXCEPT !.request = @ - 1, !.upload = @ - 1]
    /\ outputs' = [outputs EXCEPT ![File[r]] = None]
    /\ UNCHANGED ledger
RefundOnce(r) == IF outputs[File[r]] = None THEN UNCHANGED record ELSE Refund(r)

----------------------------------------------------------------------------
\* A request.

\* openEgressGrant, openEgressHandle: a token opens until 30 s after its exp.
Opens == time # "over"

\* getGrant: a legacy token ensures its record before checkEgressGrantActive.
GetGrant == IF legacy THEN EnsureEgressLedger ELSE UNCHANGED record

\* A route starts: the grant, then the handles against the grant's scope.
Enter(r) ==
    /\ pc[r] = "idle" /\ Opens /\ kind[r] # "tool"
    /\ UNCHANGED others
    /\ GetGrant
    /\ \E inScope \in BOOLEAN :
        Goto(r, IF Active' /\ inScope THEN "admit" ELSE "refused")

\* /tool-call: the callback token names the execution and its tools; the ledger
\* is asked only when the call is counted.
EnterToolCall(r) ==
    /\ pc[r] = "idle" /\ Opens /\ kind[r] = "tool"
    /\ \E l \in {"admit", "refused"} : Goto(r, l)
    /\ UNCHANGED record /\ UNCHANGED others

\* recordEgressRead, recordEgressToolCall, reserveEgressUpload.
Admit(r) ==
    /\ pc[r] = "admit"
    /\ IF Admitted(r) THEN Account(r) /\ Goto(r, "sent")
       ELSE UNCHANGED record /\ Goto(r, "refused")
    /\ UNCHANGED others

\* Its answer is lost: never replayed, and not released either.
AdmitLost(r) ==
    /\ pc[r] = "admit" /\ "admit" \in Lossy /\ Admitted(r)
    /\ Account(r) /\ Goto(r, "refused")
    /\ lost' = lost \cup (IF kind[r] = "upload" THEN {File[r]} ELSE {})
    /\ UNCHANGED <<compact, legacy, kind, time, revoke, refunded>>

\* The upstream server answers.
Served(r, k) ==
    /\ pc[r] = "sent" /\ kind[r] = k
    /\ Goto(r, "served") /\ UNCHANGED record /\ UNCHANGED others
ListObjects(r) == Served(r, "list")
ReadObject(r) == Served(r, "read")
ToolCall(r) == Served(r, "tool")
PutObject(r) == Served(r, "upload")

\* A manifest is checked again before it is published.
Publish == Active
InputManifest(r) ==
    /\ pc[r] = "sent" /\ kind[r] = "manifest"
    /\ Goto(r, IF Publish THEN "served" ELSE "refused")
    /\ UNCHANGED record /\ UNCHANGED others

\* The file server refuses (release in the try block), or its answer never
\* comes (release in the catch block).
UploadFails(r) ==
    /\ pc[r] = "sent" /\ kind[r] = "upload"
    /\ \E l \in {"release", "catch"} : Goto(r, l)
    /\ UNCHANGED record /\ UNCHANGED others

\* releaseEgressUpload; an error in the try block is answered by the catch
\* block, which releases again and only logs its own failure.
ReleaseOk(r) == Active /\ ~Mismatch(r)
Release(r) ==
    /\ pc[r] \in {"release", "catch"}
    /\ IF ReleaseOk(r)
       THEN /\ RefundOnce(r)
            /\ \/ Goto(r, "failed")
               \/ /\ "release" \in Lossy
                  /\ Goto(r, IF pc[r] = "release" THEN "catch" ELSE "failed")
            /\ refunded' = refunded \cup
                 {q \in Uploads \ {r} : /\ File[q] = File[r] /\ outputs[File[r]] # None
                                        /\ pc[q] \in {"sent", "served"}}
            /\ UNCHANGED lost
       ELSE /\ UNCHANGED <<record, refunded>>
            /\ Goto(r, IF pc[r] = "release" THEN "catch" ELSE "failed")
            /\ lost' = lost \cup {File[r]}
    /\ UNCHANGED <<compact, legacy, kind, time, revoke>>

----------------------------------------------------------------------------
\* The worker has the sandbox's result restored: every opaque handle in it is
\* opened under the grant, which must still be active.
RestoreResult ==
    /\ revoke = "running" /\ Opens
    /\ GetGrant /\ revoke' = "restored"
    /\ UNCHANGED <<compact, legacy, kind, time, pc, lost, refunded>>

\* It revokes when the run is over, restored or not: by id, or by token, which
\* ensures a legacy record first.
RevokeEnsure ==
    /\ revoke \in {"running", "restored"} /\ legacy /\ Opens
    /\ EnsureEgressLedger /\ revoke' = "ensured"
    /\ UNCHANGED <<compact, legacy, kind, time, pc, lost, refunded>>

RevokeEgressLedger ==
    /\ revoke \in IF legacy THEN {"ensured"} ELSE {"running", "restored"}
    /\ ledger' = IF ledger = "none" THEN "none" ELSE "revoked"
    /\ revoke' = "revoked"
    /\ UNCHANGED <<compact, legacy, kind, time, counts, bytes, outputs, pc, lost, refunded>>

\* exp passes; the record outlives it by EGRESS_LEDGER_TTL_GRACE_SECONDS, the
\* token by 30 s, and either may be the longer.
Expire ==
    /\ time' = CASE time = "valid" -> "late" [] time = "late" -> "over"
                 [] OTHER -> "over"
    /\ time # "over"
    /\ UNCHANGED <<compact, legacy, kind, record, pc, revoke, lost, refunded>>

RecordExpires ==
    /\ time # "valid" /\ ledger # "none"
    /\ ledger' = "none" /\ bytes' = 0
    /\ counts' = [Zero EXCEPT !.tool = counts.tool]
    /\ outputs' = [f \in Files |-> None]
    /\ UNCHANGED <<compact, legacy, kind, time, pc, revoke, lost, refunded>>

Next ==
    \/ \E r \in Requests : \/ Enter(r) \/ EnterToolCall(r) \/ Admit(r)
                           \/ AdmitLost(r) \/ ListObjects(r) \/ ReadObject(r)
                           \/ InputManifest(r) \/ ToolCall(r) \/ PutObject(r)
                           \/ UploadFails(r) \/ Release(r)
    \/ RestoreResult \/ RevokeEnsure \/ RevokeEgressLedger \/ Expire \/ RecordExpires

Spec == Init /\ [][Next]_vars

----------------------------------------------------------------------------
\* Counters, phases and reservations stay within their types.
TypeOK ==
    /\ compact \in BOOLEAN /\ legacy \in BOOLEAN
    /\ ledger \in {"none", "active", "revoked"} /\ time \in {"valid", "late", "over"}
    /\ counts \in [{"request", "read", "tool", "upload"} -> 0..MaxRequests]
    /\ bytes \in 0..(MaxBytes * MaxFiles)
    /\ outputs \in [Files -> {None} \cup {Size[r] : r \in Uploads}]
    /\ pc \in [Requests -> {"idle", "admit", "sent", "release", "catch",
                            "served", "failed", "refused"}]
    /\ \A r \in Requests : kind[r] \in Kinds[r]
    /\ revoke \in {"running", "restored", "ensured", "revoked"}
    /\ lost \subseteq Files /\ refunded \subseteq Requests

\* The ledger script keeps its counters equal to what was admitted and not
\* given back: requests by kind, files and bytes by reservation.
LedgerBalanced ==
    LET held == {f \in Files : outputs[f] # None} IN
    /\ counts.request = counts.read + counts.upload
    /\ counts.upload = Cardinality(held)
    /\ bytes = MapThenSumSet(LAMBDA f : outputs[f], held)

\* Once the worker's revocation went through, the gateway admits no read or
\* upload any more and publishes no manifest, whatever requests, ensured records and
\* expiries are still to come.
RevocationFinal ==
    revoke = "revoked" => \A r \in Requests :
     /\ kind[r] # "tool" /\ pc'[r] = "sent" => pc[r] = "sent"
     /\ kind[r] = "manifest" /\ pc'[r] = "served" => pc[r] = "served"

\* While the grant lasts, an upload that is under way or was stored has its
\* reservation, and no other request has the same file id.
UploadsReserved ==
    time = "valid" =>
        \A r \in Uploads : pc[r] \in {"sent", "served"} =>
            /\ outputs[File[r]] = Size[r]
            /\ \A q \in Uploads : File[q] = File[r] /\ pc[q] \in {"sent", "served"} => q = r

\* Nobody's budget is given back by the release of another request ("A retried
\* release must not refund another operation's request or byte budget").
RefundsOwn == refunded = {}

\* A reservation without an upload under way or stored exists only where an
\* answer was lost or a release refused: failed uploads give their budget back.
BudgetReturned ==
    \A f \in Files : outputs[f] # None /\ f \notin lost =>
        \E r \in Uploads : File[r] = f /\ pc[r] \in {"sent", "served", "release", "catch"}

Inv == TypeOK /\ LedgerBalanced /\ UploadsReserved /\ BudgetReturned

\* What the gateway owes the grant: its budgets are exact, an upload that is
\* stored was reserved and one that failed costs nothing, and a revocation is
\* final.
GrantHonoured == []Inv /\ [][RevocationFinal]_vars
=============================================================================
