--------------------------- MODULE NativeExecutor ---------------------------
(* Commands on a worker run in executor processes, one per workspace root:   *)
(* the pool (packages/code/src/native-pool.ts), the parent's side of an      *)
(* executor (native-process.ts) and the process itself                       *)
(* (native-process-child.ts), which talk over a channel.  What the answer of *)
(* a failed call says of its effects decides whether the workspace is        *)
(* quarantined.                                                              *)
EXTENDS Integers, Sequences, FiniteSets

CONSTANTS
    Calls,          \* 1..n, in the order in which they arrive
    Roots,
    RootOf,         \* the root of each call
    Programmatic,   \* the calls that ask before they commit
    Capacity,       \* executors in the pool
    MaxFaults,
    Close,          \* the request that closes an executor
    None

VARIABLES
    pc, aborted, outcome,           \* calls
    entry, busy, chain,             \* the pool; chain is the call whose
                                    \* allocation is closing an idle executor
    child,      \* live: "none", "up", "dying", "dead"
    at, cur,    \* what the process is doing, and for which call
    toChild, toParent,
    failed, pending, mayMutate,     \* the parent's side
    closed,     \* executors that are being closed
    ran,        \* calls whose command had an effect
    quarantined, faults

vars == <<pc, aborted, outcome, entry, busy, chain, child, at, cur, toChild, toParent, failed,
          pending, mayMutate, closed, ran, quarantined, faults>>
callVars == <<pc, aborted, outcome, quarantined>>
pool == <<entry, busy, chain>>
proc == <<child, at, cur>>
channel == <<toChild, toParent>>
side == <<failed, pending, mayMutate, closed>>

(* An executor is named after the call it was made for.                      *)
Init ==
    /\ pc = [c \in Calls |-> "new"] /\ aborted = {} /\ outcome = [c \in Calls |-> "none"]
    /\ entry = [r \in Roots |-> None] /\ busy = {} /\ chain = None
    /\ child = [k \in Calls |-> "none"] /\ at = [k \in Calls |-> "idle"] /\ cur = [k \in Calls |-> None]
    /\ toChild = [k \in Calls |-> <<>>] /\ toParent = [k \in Calls |-> <<>>]
    /\ failed = {} /\ pending = [k \in Calls |-> None] /\ mayMutate = {} /\ closed = {}
    /\ ran = {} /\ quarantined = {} /\ faults = 0

Go(c, l) == pc' = [pc EXCEPT ![c] = l]
Entries == {r \in Roots : entry[r] # None}
Idle == {r \in Entries : r \notin busy}
Kill(k) == child' = IF child[k] = "up" THEN [child EXCEPT ![k] = "dying"] ELSE child

(* How a call ends; a clean failure inside an executor retires it first.     *)
Ends(c, o) ==
    /\ outcome' = [outcome EXCEPT ![c] = o]
    /\ Go(c, IF o = "clean" THEN "retire" ELSE "leave")
    /\ quarantined' = IF o = "unknown" THEN quarantined \cup {RootOf[c]} ELSE quarantined
-----------------------------------------------------------------------------
(* The pool.  A quarantined workspace gets no more calls.                    *)
Arrive(c) ==
    /\ pc[c] = "new" /\ RootOf[c] \notin quarantined
    /\ \A d \in Calls : d < c => pc[d] # "new" \/ RootOf[d] \in quarantined
    /\ Go(c, "allocate")
    /\ UNCHANGED <<aborted, outcome, quarantined, pool, proc, channel, side, ran, faults>>

Abort(c) ==
    /\ pc[c] \notin {"new", "done"} /\ c \notin aborted /\ faults < MaxFaults
    /\ faults' = faults + 1 /\ aborted' = aborted \cup {c}
    /\ toChild' = [k \in Calls |-> IF pending[k] = c THEN Append(toChild[k], "cancel") ELSE toChild[k]]
    /\ UNCHANGED <<pc, outcome, quarantined, pool, proc, toParent, side, ran>>

Refused(c) == /\ outcome' = [outcome EXCEPT ![c] = "clean"] /\ Go(c, "done") /\ UNCHANGED quarantined

(* Only an idle executor makes room.                                         *)
Evictable == Idle

(* allocate.                                                                 *)
Allocate(c) ==
    LET r == RootOf[c] IN
    /\ pc[c] = "allocate" /\ chain = None
    /\ \/ /\ r \in busy \/ (entry[r] = None /\ Cardinality(Entries) >= Capacity /\ Evictable = {})
          /\ Refused(c) /\ UNCHANGED <<pool, closed>>
       \/ /\ r \notin busy /\ entry[r] # None
          /\ busy' = busy \cup {r} /\ Go(c, "prepare") /\ UNCHANGED <<outcome, quarantined, entry, chain, closed>>
       \/ /\ entry[r] = None /\ Cardinality(Entries) < Capacity
          /\ entry' = [entry EXCEPT ![r] = c] /\ busy' = busy \cup {r}
          /\ Go(c, "prepare") /\ UNCHANGED <<outcome, quarantined, chain, closed>>
       \/ /\ entry[r] = None /\ Cardinality(Entries) >= Capacity
          /\ \E v \in Evictable : closed' = closed \cup {entry[v]}
          /\ chain' = c /\ Go(c, "evict") /\ UNCHANGED <<outcome, quarantined, entry, busy>>
    /\ UNCHANGED <<aborted, proc, channel, failed, pending, mayMutate, ran, faults>>

(* stop: the executor is told to close, unless it is lost; whatever it says, *)
(* it is terminated.  Only a failure it reports itself is an error.          *)
CloseBegins(k) ==
    /\ k \in closed /\ pending[k] = None /\ k \notin failed
    /\ IF child[k] = "up"
       THEN pending' = [pending EXCEPT ![k] = Close] /\ toChild' = [toChild EXCEPT ![k] = Append(@, "close")]
            /\ UNCHANGED failed
       ELSE failed' = failed \cup {k} /\ UNCHANGED <<pending, toChild>>
    /\ UNCHANGED <<callVars, pool, proc, toParent, mayMutate, closed, ran, faults>>

(* The eviction is over.                                                     *)
Evicted(c) ==
    /\ pc[c] = "evict" /\ chain = c
    /\ \E v \in Entries :
        /\ entry[v] \in closed \cap failed /\ pending[entry[v]] = None
        /\ entry' = [entry EXCEPT ![v] = None, ![RootOf[c]] = c]
    /\ busy' = busy \cup {RootOf[c]} /\ chain' = None /\ Go(c, "prepare")
    /\ UNCHANGED <<aborted, outcome, quarantined, proc, channel, side, ran, faults>>

(* prepare: the process is started once.  Failures before the request is     *)
(* sent are clean.                                                           *)
Prepare(c) ==
    LET k == entry[RootOf[c]] IN
    /\ pc[c] = "prepare"
    /\ \/ /\ k \in failed \cup closed \/ c \in aborted
          /\ Ends(c, "clean") /\ UNCHANGED <<child, failed>>
       \/ /\ k \notin failed \cup closed /\ c \notin aborted
          /\ child[k] \in {"none", "up"} /\ child' = [child EXCEPT ![k] = "up"]
          /\ Go(c, "send") /\ UNCHANGED <<outcome, quarantined, failed>>
       \/ /\ k \notin failed \cup closed /\ child[k] = "none"
          /\ child' = [child EXCEPT ![k] = "dying"] /\ failed' = failed \cup {k} /\ Ends(c, "clean")
    /\ UNCHANGED <<aborted, pool, at, cur, channel, pending, mayMutate, closed, ran, faults>>

(* rpc: from here on a command may have had effects; a programmatic run only *)
(* once it has asked.                                                        *)
Send(c) ==
    LET k == entry[RootOf[c]] IN
    /\ pc[c] = "send"
    /\ IF k \in failed \/ child[k] # "up" THEN Ends(c, "clean") /\ UNCHANGED <<toChild, pending, mayMutate>>
       ELSE /\ pending' = [pending EXCEPT ![k] = c] /\ Go(c, "rpc") /\ UNCHANGED <<outcome, quarantined>>
            /\ toChild' = [toChild EXCEPT ![k] = Append(@, "run")
                              \o (IF c \in aborted THEN <<"cancel">> ELSE <<>>)]
            /\ mayMutate' = IF c \in Programmatic THEN mayMutate \ {k} ELSE mayMutate \cup {k}
    /\ UNCHANGED <<aborted, pool, proc, toParent, failed, closed, ran, faults>>

(* A clean failure closes the executor before its place is given up; other   *)
(* ends leave it in the pool.                                                *)
Retire(c) ==
    /\ pc[c] = "retire" /\ closed' = closed \cup {entry[RootOf[c]]} /\ Go(c, "closing")
    /\ UNCHANGED <<aborted, outcome, quarantined, pool, proc, channel, failed, pending, mayMutate, ran, faults>>

Leave(c) ==
    LET r == RootOf[c] IN
    /\ \/ pc[c] = "leave" /\ UNCHANGED entry
       \/ /\ pc[c] = "closing" /\ entry[r] \in failed /\ pending[entry[r]] = None
          /\ entry' = [entry EXCEPT ![r] = None]
    /\ busy' = busy \ {r} /\ Go(c, "done")
    /\ UNCHANGED <<aborted, outcome, quarantined, chain, proc, channel, side, ran, faults>>
-----------------------------------------------------------------------------
(* The executor process.                                                     *)
Reply(k, m) == toParent' = [toParent EXCEPT ![k] = Append(@, m)]
Become(k, a) == at' = [at EXCEPT ![k] = a]

(* It takes a message.  A cancellation ends a run, or stops it from          *)
(* starting; once it shuts down it takes no more.                            *)
Takes(k) ==
    /\ child[k] = "up" /\ toChild[k] # <<>> /\ toChild' = [toChild EXCEPT ![k] = Tail(@)]
    /\ LET m == Head(toChild[k]) IN
       \/ /\ m = "run" /\ at[k] = "idle" /\ Become(k, "staging")
          /\ cur' = [cur EXCEPT ![k] = pending[k]] /\ UNCHANGED <<toParent, ran>>
       \/ /\ m = "close" /\ at[k] = "idle" /\ Reply(k, "closed") /\ UNCHANGED <<at, cur, ran>>
       \/ m = "ack" /\ at[k] = "asking" /\ Become(k, "running") /\ UNCHANGED <<cur, toParent, ran>>
       \/ /\ m = "cancel" /\ at[k] \in {"staging", "asking"} /\ Become(k, "idle")
          /\ Reply(k, "rejected") /\ UNCHANGED <<cur, ran>>
       \/ /\ m = "cancel" /\ at[k] = "running" /\ Become(k, "idle") /\ Reply(k, "killed")
          /\ UNCHANGED <<cur, ran>>
       \/ /\ (m = "cancel" /\ at[k] = "idle") \/ (m = "ack" /\ at[k] # "asking")
          /\ UNCHANGED <<at, cur, toParent, ran>>
    /\ UNCHANGED <<callVars, pool, child, side, faults>>

(* A command starts; a programmatic run asks to be counted as one that may   *)
(* have had effects, and waits for the answer.                               *)
Starts(k) ==
    /\ at[k] = "staging"
    /\ IF cur[k] \in Programmatic THEN Become(k, "asking") /\ Reply(k, "commit")
       ELSE Become(k, "running") /\ UNCHANGED toParent

ChildSteps(k) ==
    /\ child[k] \in {"up", "dying"}
    /\ \/ child[k] = "up" /\ Starts(k) /\ UNCHANGED ran
       \/ child[k] = "up" /\ at[k] = "staging" /\ Become(k, "idle") /\ Reply(k, "rejected") /\ UNCHANGED ran
       \/ at[k] = "running" /\ ran' = ran \cup {cur[k]} /\ UNCHANGED <<at, toParent>>
       \/ at[k] = "running" /\ Become(k, "idle") /\ (Reply(k, "done") \/ Reply(k, "broken")) /\ UNCHANGED ran
    /\ UNCHANGED <<callVars, pool, child, cur, toChild, side, faults>>

(* It dies, because it was told to or by itself.                             *)
Dies(k) ==
    /\ \/ child[k] = "dying" /\ UNCHANGED faults
       \/ child[k] = "up" /\ faults < MaxFaults /\ faults' = faults + 1
    /\ child' = [child EXCEPT ![k] = "dead"] /\ Become(k, "idle")
    /\ UNCHANGED <<callVars, pool, cur, channel, side, ran>>
-----------------------------------------------------------------------------
(* The parent's side.                                                        *)
Verdict(k) == IF k \in mayMutate THEN "unknown" ELSE "clean"

Settles(k, o) ==
    /\ pending' = [pending EXCEPT ![k] = None]
    /\ IF pending[k] \in Calls THEN Ends(pending[k], o) ELSE UNCHANGED <<pc, outcome, quarantined>>

(* (Answers first, remembers later.)                                         *)
NoteCommitLate(k) == UNCHANGED mayMutate

NoteCommit(k) == mayMutate' = mayMutate \cup {k}

(* A message of the process.  What belongs to no pending request is ignored. *)
Receives(k) ==
    /\ toParent[k] # <<>> /\ toParent' = [toParent EXCEPT ![k] = Tail(@)]
    /\ LET m == Head(toParent[k])
           o == CASE m = "done" -> IF pending[k] \in aborted THEN "stopped" ELSE "ok"
                  [] m = "killed" -> "stopped"
                  [] m = "rejected" -> "clean"
                  [] OTHER -> Verdict(k) IN
       \/ /\ pending[k] = None \/ (pending[k] \in Calls /\ m = "closed")
          /\ UNCHANGED <<pc, outcome, quarantined, pending, mayMutate, toChild, failed, child>>
       \/ /\ pending[k] \in Calls /\ m = "commit" /\ NoteCommit(k)
          /\ toChild' = [toChild EXCEPT ![k] = Append(@, "ack")]
          /\ UNCHANGED <<pc, outcome, quarantined, pending, failed, child>>
       \/ /\ pending[k] \in Calls /\ m \notin {"commit", "closed"} /\ Settles(k, o)
          /\ UNCHANGED <<mayMutate, toChild, failed, child>>
       \/ /\ pending[k] = Close
          /\ IF m = "closed" THEN Settles(k, "ok") /\ failed' = failed \cup {k} /\ Kill(k)
             ELSE UNCHANGED <<pc, outcome, quarantined, pending, failed, child>>
          /\ UNCHANGED <<mayMutate, toChild>>
    /\ UNCHANGED <<aborted, pool, at, cur, closed, ran, faults>>

(* The watchdog, or the loss of the process, ends a request.                 *)
Watchdog(k) ==
    /\ pending[k] # None
    /\ \/ child[k] = "dead" /\ UNCHANGED faults
       \/ child[k] # "dead" /\ faults < MaxFaults /\ faults' = faults + 1
    /\ failed' = failed \cup {k} /\ Kill(k) /\ Settles(k, Verdict(k))
    /\ UNCHANGED <<aborted, pool, at, cur, channel, mayMutate, closed, ran>>

(* A process that dies between two requests is noticed too.                  *)
Lost(k) ==
    /\ child[k] = "dead" /\ k \notin failed /\ pending[k] = None /\ failed' = failed \cup {k}
    /\ UNCHANGED <<callVars, pool, proc, channel, pending, mayMutate, closed, ran, faults>>

Next ==
    \/ \E c \in Calls : Arrive(c) \/ Abort(c) \/ Allocate(c) \/ Evicted(c) \/ Prepare(c) \/ Send(c)
                            \/ Retire(c) \/ Leave(c)
    \/ \E k \in Calls : CloseBegins(k) \/ Takes(k) \/ ChildSteps(k) \/ Dies(k) \/ Receives(k)
                            \/ Watchdog(k) \/ Lost(k)

Spec == Init /\ [][Next]_vars
-----------------------------------------------------------------------------
TypeOK ==
    /\ outcome \in [Calls -> {"none", "clean", "unknown", "stopped", "ok"}]
    /\ entry \in [Roots -> Calls \cup {None}] /\ busy \subseteq Roots
    /\ child \in [Calls -> {"none", "up", "dying", "dead"}]
    /\ at \in [Calls -> {"idle", "staging", "asking", "running"}]

(* A failure that is said to have had no effect had none, and has none       *)
(* afterwards.                                                               *)
CleanIsTrue == \A c \in Calls : outcome[c] = "clean" => c \notin ran

(* No two processes run commands in one root, unless it is quarantined.      *)
OneRunner ==
    \A j, k \in Calls :
        j # k /\ at[j] = "running" /\ at[k] = "running" /\ RootOf[cur[j]] = RootOf[cur[k]]
            => RootOf[cur[j]] \in quarantined

(* The pool keeps to its capacity, and a process at work is in the pool.     *)
Bounded == Cardinality(Entries) <= Capacity
WorkingKept ==
    \A k \in Calls : pending[k] \in Calls => entry[RootOf[pending[k]]] = k /\ RootOf[pending[k]] \in busy

(* What a failed command reports of its effects is true, whatever is lost,   *)
(* cancelled or late on either side of the channel (rpc, beforeCommit,       *)
(* allocate).                                                                *)
ExecutorSafe == TypeOK /\ CleanIsTrue /\ OneRunner /\ Bounded /\ WorkingKept
=============================================================================
