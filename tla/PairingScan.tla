---------------------------- MODULE PairingScan ----------------------------
(***************************************************************************)
(* Pairing codes of earlier releases carry no generation and no index, so  *)
(* that a revocation cannot find them by key.  Before it issues, approves  *)
(* or revokes, RedisBridgePairingStore scans the key space for the codes   *)
(* of the worker (removeLegacyPairings, service/src/bridge/pairing.ts):    *)
(* one replica at a time under a claim that expires, within a migration    *)
(* window.  A code that survives would be valid again after a rollback.    *)
(***************************************************************************)
EXTENDS FiniteSets

CONSTANTS Calls, Codes, None

VARIABLES
    left,     \* codes without generation that are still stored
    index,    \* pairing-index, if it points at one of them (an intermediate release)
    window,   \* the migration window is open
    state,    \* legacy-pairing-scanned: None, "token", "pending" or "done"
    claim,    \* the call that holds the scan claim
    pc,       \* where each call is
    todo,     \* the codes its scan has not reached
    rolled    \* calls that found the index pointing at such a code
vars == <<left, index, window, state, claim, pc, todo, rolled>>

\* Codes of a predecessor, and possibly the random token its scan left behind.
Init ==
    /\ left = Codes /\ index \in Codes \cup {None} /\ window = TRUE
    /\ state \in {None, "token"} /\ claim = None
    /\ pc = [p \in Calls |-> "idle"] /\ todo = [p \in Calls |-> {}] /\ rolled = {}

Goto(p, l) == pc' = [pc EXCEPT ![p] = l]
Unclaim(p) == claim' = IF claim = p THEN None ELSE claim

\* The index is looked at before the state.
LookAtIndex(p) ==
    /\ pc[p] = "idle" /\ Goto(p, "state")
    /\ rolled' = IF index \in left THEN rolled \cup {p} ELSE rolled
    /\ UNCHANGED <<left, index, window, state, claim, todo>>

\* A complete scan is enough, unless a code was indexed by a rolled back release;
\* outside the window there is nothing to do; any other state becomes pending
\* (TokenIsDone takes the token of a predecessor for a completed scan).
TokenIsDone(p) == state \in {"done", "token"} /\ p \notin rolled
NothingToDo(p) ==
    \/ state = "done" /\ p \notin rolled
    \/ state = None /\ p \notin rolled /\ ~window
ReadState(p) ==
    /\ pc[p] = "state"
    /\ IF NothingToDo(p) THEN Goto(p, "after") /\ UNCHANGED state
       ELSE Goto(p, "claim") /\ state' = "pending"
    /\ UNCHANGED <<left, index, window, claim, todo, rolled>>

\* Wait for the claim, or for the scan of the one who holds it.
Claim(p) ==
    /\ pc[p] = "claim"
    /\ \/ state \in {"done", None} /\ Goto(p, "after") /\ UNCHANGED <<claim, todo>>
       \/ /\ state = "pending" /\ claim = None /\ claim' = p
          /\ Goto(p, "scan") /\ todo' = [todo EXCEPT ![p] = left]
    /\ UNCHANGED <<left, index, window, state, rolled>>

\* SCAN returns what was there from beginning to end, in batches.
Scan(p) ==
    /\ pc[p] = "scan"
    /\ \E c \in todo[p] :
          left' = left \ {c} /\ todo' = [todo EXCEPT ![p] = @ \ {c}]
    /\ UNCHANGED <<index, window, state, claim, pc, rolled>>

\* The claim is renewed and the state completed only by its holder, within the
\* window; whoever lost it starts again or fails.
Scanned(p) == todo[p] = {}
Complete(p) ==
    /\ pc[p] = "scan" /\ Scanned(p)
    /\ IF claim = p
       THEN /\ Goto(p, "after") /\ claim' = None
            /\ state' = IF window THEN "done" ELSE None
       ELSE /\ pc' \in {[pc EXCEPT ![p] = "idle"], [pc EXCEPT ![p] = "failed"]}
            /\ UNCHANGED <<claim, state>>
    /\ rolled' = rolled \ {p}
    /\ UNCHANGED <<left, index, window, todo>>

\* An error: the claim is given back.
Fail(p) ==
    /\ pc[p] = "scan" /\ Goto(p, "failed")
    /\ Unclaim(p)
    /\ UNCHANGED <<left, index, window, state, todo, rolled>>

\* The replica dies, or it stalls and its claim expires.
Crash(p) ==
    /\ pc[p] \in {"state", "claim", "scan"} /\ Goto(p, "failed")
    /\ UNCHANGED <<left, index, window, state, claim, todo, rolled>>

ClaimExpires ==
    /\ claim # None /\ claim' = None
    /\ UNCHANGED <<left, index, window, state, pc, todo, rolled>>

\* The operation itself replaces or clears the index.
Operate(p) ==
    /\ pc[p] = "after" /\ Goto(p, "over") /\ index' = None
    /\ left' = left \ {index}
    /\ UNCHANGED <<window, state, claim, todo, rolled>>

\* A completed state lives as long as the window.
WindowCloses ==
    /\ window /\ window' = FALSE
    /\ state' = IF state = "done" THEN None ELSE state
    /\ UNCHANGED <<left, index, claim, pc, todo, rolled>>

Next ==
    \/ \E p \in Calls : LookAtIndex(p) \/ ReadState(p) \/ Claim(p) \/ Scan(p)
                        \/ Complete(p) \/ Fail(p) \/ Crash(p) \/ Operate(p)
    \/ ClaimExpires \/ WindowCloses

Spec == Init /\ [][Next]_vars

----------------------------------------------------------------------------
\* Keys and calls stay within their values.
TypeOK ==
    /\ left \subseteq Codes /\ index \in Codes \cup {None} /\ window \in BOOLEAN
    /\ state \in {None, "token", "pending", "done"} /\ claim \in Calls \cup {None}
    /\ pc \in [Calls -> {"idle", "state", "claim", "scan", "after", "over", "failed"}]

\* Within the window no operation goes on while a code of an earlier release is
\* left, whoever scanned, crashed or lost its claim before.
LegacyGone ==
    window /\ (\E p \in Calls : pc[p] \in {"after", "over"}) => left = {}

\* The migration as its callers see it.
MigrationSafe ==
    TypeOK /\ LegacyGone
=============================================================================
