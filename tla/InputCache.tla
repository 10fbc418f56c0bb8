----------------------------- MODULE InputCache -----------------------------
(* The cache of input objects in a runner (api/src/session-inputs.ts) and    *)
(* the shared downloads that fill it (http-input-cache.ts).  An entry is a   *)
(* data file and a sidecar; batches are stored one at a time; pruning also   *)
(* runs beside them, at the end of the push route.  Every object has size 1. *)
(* Keys determine contents; pushed and downloaded objects have other keys.   *)
EXTENDS Integers, FiniteSets, Sequences

CONSTANTS
    Calls,      \* fetches of inputs by running jobs (fetchInputObject)
    Pushes,     \* pushes by the control plane
    HttpKeys, PushKeys,
    MaxBytes,   \* input_cache_max_bytes
    MaxInflight \* http_input_cache_max_inflight

Keys == HttpKeys \cup PushKeys

VARIABLES
    data,       \* data files in the cache
    sidecar,    \* metadata files in the cache
    line,       \* storeTail: batches in line, the one being stored first
    staged,     \* the files of the staging tree not yet committed
    fills,      \* [k -> None or the shared download]
    pushPc, pushKey,
    snapshot,   \* the names read by the prune of each push
    callPc, callKey,
    joined,     \* calls waiting for a download begun by another
    gaveUp,     \* callers that have disconnected
    late        \* calls that joined a download already aborted

vars == <<data, sidecar, line, staged, fills, pushPc, pushKey, snapshot, callPc, callKey,
          joined, gaveUp, late>>
cacheVars == <<data, sidecar>>
pushVars == <<pushPc, pushKey, snapshot>>
callVars == <<callPc, callKey, joined, gaveUp, late>>

NoFill == [state |-> "none", users |-> {}, aborted |-> FALSE]

Init ==
    /\ data = {} /\ sidecar = {} /\ line = <<>> /\ staged = {}
    /\ fills = [k \in HttpKeys |-> NoFill]
    /\ pushPc = [p \in Pushes |-> "new"] /\ pushKey \in [Pushes -> PushKeys]
    /\ snapshot = [p \in Pushes |-> [data |-> {}, sidecar |-> {}]]
    /\ callPc = [c \in Calls |-> "new"] /\ callKey \in [Calls -> HttpKeys]
    /\ joined = {} /\ gaveUp = {} /\ late = {}

Inflight == {k \in HttpKeys : fills[k].state # "none"}
SetFill(k, f) == fills' = [fills EXCEPT ![k] = f]
KeyOf(b) == IF b \in Pushes THEN pushKey[b] ELSE b

(* pruneInputCache(room): single files go, then entries until the rest fits. *)
(* Which entry was used last is not told apart.                              *)
Prune(seen, room) ==
    LET pairs == {k \in seen.data : k \in data /\ k \in seen.sidecar /\ k \in sidecar}
        orphans == (seen.data \cup seen.sidecar) \ pairs IN
    \E evicted \in SUBSET pairs :
        /\ Cardinality(pairs \ evicted) <= room
        /\ evicted # {} => Cardinality(pairs \ evicted) = room
        /\ data' = data \ (evicted \cup (orphans \cap seen.data))
        /\ sidecar' = sidecar \ (evicted \cup orphans)

Now == [data |-> data, sidecar |-> sidecar]
-----------------------------------------------------------------------------
(* A push arrives and queues for the store.                                  *)
Push(p) ==
    /\ pushPc[p] = "new" /\ pushPc' = [pushPc EXCEPT ![p] = "store"] /\ line' = Append(line, p)
    /\ UNCHANGED <<cacheVars, staged, fills, pushKey, snapshot, callVars>>

(* The download of key k is answered: it queues for the store, or it was     *)
(* refused, is of another version, or broke.                                 *)
Downloaded(k) ==
    /\ fills[k].state = "download"
    /\ \/ SetFill(k, [fills[k] EXCEPT !.state = "store"]) /\ line' = Append(line, k)
       \/ /\ \E s \in {"refused", "unusable", "failed"} : SetFill(k, [fills[k] EXCEPT !.state = s])
          /\ UNCHANGED line
    /\ UNCHANGED <<cacheVars, staged, pushVars, callVars>>

(* Room is made before a byte is written.                                    *)
ReserveAndStage == staged' = {"data", "sidecar"} /\ Prune(Now, MaxBytes - 1)

(* storeCachedInputsOnce stages the batch at the head of the line ...        *)
Stage ==
    /\ line # <<>> /\ staged = {}
    /\ IF Head(line) \in Pushes THEN TRUE ELSE ~fills[Head(line)].aborted
    /\ ReserveAndStage
    /\ UNCHANGED <<line, fills, pushVars, callVars>>

(* ... commits the sidecar ...                                               *)
CommitSidecar ==
    /\ "sidecar" \in staged /\ staged' = {"data"}
    /\ sidecar' = sidecar \cup {KeyOf(Head(line))}
    /\ UNCHANGED <<data, line, fills, pushVars, callVars>>

StoreEnds(b, ok) ==
    /\ line' = Tail(line) /\ staged' = {}
    /\ IF b \in Pushes
       THEN /\ pushPc' = [pushPc EXCEPT ![b] = IF ok THEN "prune" ELSE "done"]
            /\ UNCHANGED <<pushKey, snapshot, fills>>
       ELSE SetFill(b, [fills[b] EXCEPT !.state = IF ok THEN "stored" ELSE "failed"])
            /\ UNCHANGED pushVars

(* ... and then the data; the next batch is admitted.                        *)
CommitData ==
    /\ staged = {"data"}
    /\ data' = data \cup {KeyOf(Head(line))} /\ StoreEnds(Head(line), TRUE)
    /\ UNCHANGED <<sidecar, callVars>>

(* The archive is malformed, its stream breaks, or its fill was aborted: the *)
(* staging tree is removed.  What was committed stays for a prune.           *)
StoreFails ==
    /\ line # <<>> /\ StoreEnds(Head(line), FALSE)
    /\ UNCHANGED <<cacheVars, callVars>>

(* The route prunes once more, outside the line: it reads the directory ...  *)
PruneReads(p) ==
    /\ pushPc[p] = "prune" /\ pushPc' = [pushPc EXCEPT ![p] = "pruning"]
    /\ snapshot' = [snapshot EXCEPT ![p] = Now]
    /\ UNCHANGED <<cacheVars, line, staged, fills, pushKey, callVars>>

(* ... and removes what it takes for left over.                              *)
PruneRemoves(p) ==
    /\ pushPc[p] = "pruning" /\ pushPc' = [pushPc EXCEPT ![p] = "done"]
    /\ Prune(snapshot[p], MaxBytes)
    /\ snapshot' = [snapshot EXCEPT ![p] = [data |-> {}, sidecar |-> {}]]
    /\ UNCHANGED <<line, staged, fills, pushKey, callVars>>
-----------------------------------------------------------------------------
Call(c, where) == callPc' = [callPc EXCEPT ![c] = where]

(* fetchCachedHttpInput after its preflight: a hit, a download to share, a   *)
(* new one, or none when too many are under way.                             *)
Fetch(c) ==
    LET k == callKey[c] IN
    /\ callPc[c] = "new"
    /\ \/ k \in data \cap sidecar /\ Call(c, "hit") /\ UNCHANGED <<fills, joined, late>>
       \/ /\ k \notin data \cap sidecar /\ fills[k].state # "none"
          /\ SetFill(k, [fills[k] EXCEPT !.users = @ \cup {c}])
          /\ joined' = joined \cup {c} /\ Call(c, "wait")
          /\ late' = IF fills[k].aborted THEN late \cup {c} ELSE late
       \/ /\ k \notin data \cap sidecar /\ fills[k].state = "none"
          /\ IF Cardinality(Inflight) >= MaxInflight
             THEN Call(c, "bypass") /\ UNCHANGED fills
             ELSE SetFill(k, [state |-> "download", users |-> {c}, aborted |-> FALSE]) /\ Call(c, "wait")
          /\ UNCHANGED <<joined, late>>
    /\ UNCHANGED <<cacheVars, line, staged, pushVars, callKey, gaveUp>>

(* (Aborts the download as soon as one of its users leaves.)                 *)
LeaveAborts(f, c) == [f EXCEPT !.users = @ \ {c}, !.aborted = TRUE]

(* waitForFill: the last user to leave aborts the download.                  *)
Leave(f, c) == [f EXCEPT !.users = @ \ {c}, !.aborted = @ \/ f.users = {c}]

(* The caller disconnects while it waits.                                    *)
GiveUp(c) ==
    /\ callPc[c] = "wait" /\ SetFill(callKey[c], Leave(fills[callKey[c]], c))
    /\ gaveUp' = gaveUp \cup {c} /\ Call(c, "cancelled")
    /\ UNCHANGED <<cacheVars, line, staged, pushVars, callKey, joined, late>>

(* An aborted download fails.                                                *)
AbortFill(k) ==
    /\ fills[k].state = "download" /\ fills[k].aborted
    /\ SetFill(k, [fills[k] EXCEPT !.state = "failed"])
    /\ UNCHANGED <<cacheVars, line, staged, pushVars, callVars>>

(* The creator's denial does not bind the calls that joined: they fetch for  *)
(* themselves.                                                               *)
Answer(c, state) == IF state = "refused" /\ c \notin joined THEN "denied" ELSE "bypass"

(* The download has settled: its entry goes, and every user sees the result. *)
(* It opens the object, fetches it without the cache, or tries again.        *)
Settle(k) ==
    /\ fills[k].state \in {"stored", "refused", "unusable", "failed"} /\ SetFill(k, NoFill)
    /\ callPc' = [c \in Calls |->
            IF c \notin fills[k].users THEN callPc[c]
            ELSE CASE fills[k].state = "failed" -> "retry"
                   [] fills[k].state = "stored" /\ k \in data \cap sidecar -> "hit"
                   [] OTHER -> Answer(c, fills[k].state)]
    /\ UNCHANGED <<cacheVars, line, staged, pushVars, callKey, joined, gaveUp, late>>

Next ==
    \/ Stage \/ CommitSidecar \/ CommitData \/ StoreFails
    \/ \E p \in Pushes : Push(p) \/ PruneReads(p) \/ PruneRemoves(p)
    \/ \E k \in HttpKeys : Downloaded(k) \/ AbortFill(k) \/ Settle(k)
    \/ \E c \in Calls : Fetch(c) \/ GiveUp(c)

Spec == Init /\ [][Next]_vars
-----------------------------------------------------------------------------
TypeOK ==
    /\ data \subseteq Keys /\ sidecar \subseteq Keys /\ staged \subseteq {"data", "sidecar"}
    /\ callPc \in [Calls -> {"new", "wait", "hit", "bypass", "denied", "retry", "cancelled"}]
    /\ pushPc \in [Pushes -> {"new", "store", "prune", "pruning", "done"}]

(* Entries and the batch being staged share one budget.                      *)
WithinBudget == Cardinality(data) + Cardinality(staged \cap {"data"}) <= MaxBytes

(* A shared download is given up only when nobody waits for it; who comes    *)
(* after that will have to try again.                                        *)
OthersDoNotCancel == \A k \in HttpKeys : fills[k].aborted => fills[k].users \subseteq late

(* A call is refused only by its own grant.                                  *)
OwnDenial == \A c \in Calls : callPc[c] = "denied" => c \notin joined

(* Every waiting call is known to a download that is under way.              *)
NobodyStranded ==
    \A c \in Calls : callPc[c] = "wait" =>
        LET f == fills[callKey[c]] IN
        /\ c \in f.users
        /\ f.state = "store" => \E i \in DOMAIN line : line[i] = callKey[c]

(* At most MaxInflight downloads are under way.                              *)
InflightBounded == Cardinality(Inflight) <= MaxInflight

(* Sharing the cache and its downloads does not make one caller suffer from  *)
(* another: nobody's cancellation or refusal reaches those who wait with     *)
(* them, and batches and entries together stay within the budget             *)
(* (waitForFill, fetchCachedHttpInput, storeCachedInputsOnce).               *)
CacheSafe ==
    TypeOK /\ WithinBudget /\ OthersDoNotCancel /\ OwnDenial /\ NobodyStranded /\ InflightBounded
=============================================================================
