-------------------------- MODULE ReplayExecution --------------------------
(***************************************************************************)
(* One programmatic execution in replay mode: service/replay-state.ts and  *)
(* the replay handlers of service/programmatic-router.ts.                  *)
(*                                                                         *)
(* The user's program is run from its beginning in every iteration.  The   *)
(* results of its tool calls so far are in the history; at a call without  *)
(* one it stops, and the client is asked for it.  A continuation brings    *)
(* results, adds them to the history under the lock of the execution and   *)
(* starts the next iteration.  Any number of requests of one client may    *)
(* overlap: retries, duplicates, answers that differ.                      *)
(*                                                                         *)
(* The sandbox job of an iteration (JobExecution) is one that is awaited;  *)
(* serialized sizes are left out, except that a batch or a state may be    *)
(* refused as too large.                                                   *)
(***************************************************************************)
EXTENDS Naturals, FiniteSets

CONSTANTS
  First,          \* the request that starts the execution
  Continuations,  \* the continuation requests of the client
  Calls,          \* the tool calls of the program
  Reached(_),     \* the calls it gets to when it is run with a given history
  Values,         \* tool results
  Batches,        \* the results a request may bring
  MaxCalls,       \* MAX_REPLAY_CALLS
  None

VARIABLES
  state,     \* exec_state is "stored" or "none", with
  issued,    \* ... the calls the client was asked for
  count,     \* ... and the number of recorded results
  history,   \* tool_history: the result of each call, or None
  lock,      \* exec_lock: the request that took it, or None
  age,       \* of the keys: "old" when nothing was written for their TTL,
             \* "renewed" when something was in the end
  janitor,   \* "reap": it has read the state and found it stale
  pc,        \* control state of each request
  myIssued,  \* its copy of issued
  myCount,   \* its copy of count
  batch,     \* the results it brings
  seen,      \* the history its run was given
  token,     \* "given": the client has a continuation token
  recorded,  \* calls whose result was ever recorded
  fate       \* "closed": the execution was cleaned up

blob    == <<state, issued, count>>
keys    == <<blob, history>>
mine    == <<myIssued, myCount>>
request == <<pc, mine, batch, seen>>
vars    == <<keys, lock, age, janitor, request, token, recorded, fate>>

Requests == Continuations \cup {First}
Results  == [Calls -> Values \cup {None}]
Nothing  == [c \in Calls |-> None]
Given(h) == {c \in Calls : h[c] # None}

TypeOK ==
  /\ state \in {"none", "stored"} /\ issued \subseteq Calls /\ count \in 0..MaxCalls
  /\ history \in Results
  /\ lock \in Continuations \cup {None}
  /\ age \in {"recent", "old", "renewed"} /\ janitor \in {"asleep", "reap"}
  /\ pc \in [Requests -> {"idle", "lock", "read", "delta", "commit", "load", "running", "answer",
                          "cleanup", "release", "legacy", "rewrite", "forget", "orphan",
                          "done"}]
  /\ myIssued \in [Requests -> SUBSET Calls] /\ myCount \in [Requests -> 0..MaxCalls]
  /\ batch \in [Requests -> Results] /\ seen \in [Requests -> Results]
  /\ token \in {"none", "given"} /\ recorded \subseteq Calls /\ fate \in {"open", "closed"}

Init ==
  /\ state = "none" /\ issued = {} /\ count = 0 /\ history = Nothing
  /\ lock = None /\ age = "recent" /\ janitor = "asleep"
  /\ pc = [r \in Requests |-> "idle"]
  /\ myIssued = [r \in Requests |-> {}] /\ myCount = [r \in Requests |-> 0]
  /\ batch = [r \in Requests |-> Nothing] /\ seen = [r \in Requests |-> Nothing]
  /\ token = "none" /\ recorded = {} /\ fate = "open"

Goto(r, l) == pc' = [pc EXCEPT ![r] = l]

(* The request is over: what it knew no longer matters.                    *)
Over(r) ==
  /\ Goto(r, "done")
  /\ myIssued' = [myIssued EXCEPT ![r] = {}] /\ myCount' = [myCount EXCEPT ![r] = 0]
  /\ batch' = [batch EXCEPT ![r] = Nothing] /\ seen' = [seen EXCEPT ![r] = Nothing]

(* The end of a handler: only continuations have a lock to release.        *)
After(r) ==
  \/ r = First /\ Over(r)
  \/ r # First /\ Goto(r, "release") /\ UNCHANGED <<mine, batch, seen>>

(* getExecutionState and setExecutionState; the TTL starts anew.           *)
Copy(r) == myIssued' = [myIssued EXCEPT ![r] = issued] /\ myCount' = [myCount EXCEPT ![r] = count]
Renew == age' = IF age = "recent" THEN "recent" ELSE "renewed"
Store(r) ==
  /\ state' = "stored" /\ issued' = myIssued[r] /\ count' = myCount[r]
  /\ Renew

DropState == state' = "none" /\ issued' = {} /\ count' = 0
DropHistory == history' = Nothing

(* cleanupExecution sends its deletions in this order.  A failure after    *)
(* some of them is only logged.                                            *)
CleanupExecution ==
  \/ DropState /\ (DropHistory \/ UNCHANGED history) /\ fate' = "closed"
  \/ UNCHANGED <<keys, fate>>

-----------------------------------------------------------------------------
(* handleReplayInitial: the state is stored; a lost reply ends the request.*)
Start ==
  /\ pc[First] = "idle"
  /\ Store(First)
  /\ \E l \in {"load", "done"} : Goto(First, l)
  /\ UNCHANGED <<history, lock, janitor, mine, batch, seen, token, recorded, fate>>

-----------------------------------------------------------------------------
(* handleReplayContinuation *)

(* The router looks at the mode of the execution.  One that is not there   *)
(* is taken for a blocking one.                                            *)
Arrive(k) ==
  /\ pc[k] = "idle" /\ token = "given"
  /\ \E b \in Batches \ {Nothing} : batch' = [batch EXCEPT ![k] = b]
  /\ Goto(k, IF state = "stored" THEN "lock" ELSE "legacy")
  /\ UNCHANGED <<keys, lock, age, janitor, mine, seen, token, recorded, fate>>

(* acquireExecutionLock; 409 when it is taken.  When the reply is lost the *)
(* lock stays until it expires.                                            *)
LockFree == lock = None
Lock(k) ==
  /\ pc[k] = "lock"
  /\ \/ LockFree /\ lock' = k /\ Goto(k, "read") /\ UNCHANGED <<mine, batch, seen>>
     \/ LockFree /\ lock' = k /\ Over(k)
     \/ ~LockFree /\ Over(k) /\ UNCHANGED lock
  /\ UNCHANGED <<keys, age, janitor, token, recorded, fate>>

(* getExecutionState: 404, or the copy the handler works with; a request   *)
(* that was cancelled takes the execution down.                            *)
Read(k) ==
  /\ pc[k] = "read"
  /\ \/ state = "none" /\ Goto(k, "release") /\ UNCHANGED mine
     \/ state = "stored" /\ Copy(k) /\ \E l \in {"delta", "cleanup"} : Goto(k, l)
  /\ UNCHANGED <<keys, lock, age, janitor, batch, seen, token, recorded, fate>>

(* computeToolHistoryDelta and checkContinuationPreconditions: what is     *)
(* recorded cannot change, and results may be refused as too large.        *)
Conflicting(b) == \E c \in Given(b) : history[c] \notin {None, b[c]}
Issued(k) == Given(batch[k]) \subseteq myIssued[k]
Fresh(b) == [c \in Calls |-> IF history[c] = None THEN b[c] ELSE None]
CountWith(k) == myCount[k] + Cardinality(Given(Fresh(batch[k])))
OverCap(k) == CountWith(k) > MaxCalls

Delta(k) ==
  /\ pc[k] = "delta"
  /\ \/ Goto(k, "release") /\ UNCHANGED <<myCount, batch>>
     \/ /\ ~Conflicting(batch[k]) /\ Issued(k) /\ OverCap(k)
        /\ Goto(k, "cleanup") /\ UNCHANGED <<myCount, batch>>
     \/ /\ ~Conflicting(batch[k]) /\ Issued(k) /\ ~OverCap(k)
        /\ Goto(k, "commit")
        /\ myCount' = [myCount EXCEPT ![k] = CountWith(k)]
        /\ batch' = [batch EXCEPT ![k] = Fresh(@)]
  /\ UNCHANGED <<keys, lock, age, janitor, myIssued, seen, token, recorded, fate>>

(* commitToolHistoryAndState: one transaction.  When it fails, or its      *)
(* reply is lost, the client is asked to retry; a state that is too large  *)
(* takes the execution down.                                               *)
(* (CommitHistory leaves the state behind.)                                *)
Record(k) ==
  /\ history' = [c \in Calls |-> IF batch[k][c] # None THEN batch[k][c] ELSE history[c]]
  /\ recorded' = recorded \cup Given(batch[k])
CommitHistory(k) == Record(k) /\ Renew /\ UNCHANGED blob
CommitScript(k) == Record(k) /\ Store(k)

Commit(k) ==
  /\ pc[k] = "commit"
  /\ \/ CommitScript(k) /\ \E l \in {"load", "release"} : Goto(k, l)
     \/ (\E l \in {"release", "cleanup"} : Goto(k, l)) /\ UNCHANGED <<keys, age, recorded>>
  /\ UNCHANGED <<lock, janitor, mine, batch, seen, token, fate>>

-----------------------------------------------------------------------------
(* runAndRespond *)

(* runReplayIteration: the history goes to the sandbox with the program;   *)
(* the job may be refused or cancelled before it starts.                   *)
Load(r) ==
  /\ pc[r] = "load"
  /\ \/ Goto(r, "running") /\ seen' = [seen EXCEPT ![r] = history]
     \/ Goto(r, "cleanup") /\ UNCHANGED seen
  /\ UNCHANGED <<keys, lock, age, janitor, mine, batch, token, recorded, fate>>

Pending(h) == Reached(h) \ Given(h)

(* The run ends: completed, failed, cancelled or given up by a client that *)
(* has gone; or at calls that need results.                                *)
RunEnds(r) ==
  /\ pc[r] = "running"
  /\ \/ Goto(r, "cleanup") /\ UNCHANGED myIssued
     \/ /\ Pending(seen[r]) # {} /\ Goto(r, "answer")
        /\ myIssued' = [myIssued EXCEPT ![r] = @ \cup Pending(seen[r])]
  /\ UNCHANGED <<keys, lock, age, janitor, myCount, batch, seen, token, recorded, fate>>

(* The state is stored, with the calls, before the client is asked; the    *)
(* execution is taken down when that fails.                                *)
Answer(r) ==
  /\ pc[r] = "answer"
  /\ Store(r)
  /\ \/ token' = "given" /\ After(r)
     \/ Goto(r, "cleanup") /\ UNCHANGED <<mine, batch, seen, token>>
  /\ UNCHANGED <<history, lock, janitor, recorded, fate>>

(* The execution is over, before the client is told how it ended.          *)
Cleanup(r) ==
  /\ pc[r] = "cleanup"
  /\ CleanupExecution /\ After(r)
  /\ UNCHANGED <<lock, age, janitor, token, recorded>>

(* releaseExecutionLock; a failure is only logged.                         *)
Release(k) ==
  /\ pc[k] = "release"
  /\ \/ lock = k /\ lock' = None
     \/ UNCHANGED lock
  /\ Over(k)
  /\ UNCHANGED <<keys, age, janitor, token, recorded, fate>>

-----------------------------------------------------------------------------
(* handleBlocking, for an execution that was not there a moment ago: 404   *)
(* again, or a state that another request has written meanwhile.  That is  *)
(* written back, the tool call server does not know the execution, and it  *)
(* is taken down.                                                          *)
Legacy(k) ==
  /\ pc[k] = "legacy"
  /\ \/ state = "none" /\ Over(k)
     \/ state = "stored" /\ Copy(k) /\ Goto(k, "rewrite") /\ UNCHANGED <<batch, seen>>
  /\ UNCHANGED <<keys, lock, age, janitor, token, recorded, fate>>

LegacyWrite(k) ==
  /\ pc[k] = "rewrite"
  /\ Store(k) /\ Goto(k, "forget")
  /\ UNCHANGED <<history, lock, janitor, mine, batch, seen, token, recorded, fate>>

LegacyFails(k) ==
  /\ pc[k] = "forget"
  /\ CleanupExecution /\ Over(k)
  /\ UNCHANGED <<lock, age, janitor, token, recorded>>

-----------------------------------------------------------------------------
(* Time and failures *)

(* REPLAY_LOCK_TTL_MS is longer than any holder, or the job it left.       *)
LockExpires ==
  /\ lock # None /\ pc[lock] = "done"
  /\ lock' = None
  /\ UNCHANGED <<keys, age, janitor, request, token, recorded, fate>>

(* Ten minutes without a write.  A run is shorter than that.               *)
GrowOld ==
  /\ age # "old" /\ (state = "stored" \/ history # Nothing)
  /\ \A r \in Requests : pc[r] \notin {"load", "running", "answer", "orphan"}
  /\ age' = "old"
  /\ UNCHANGED <<keys, lock, janitor, request, token, recorded, fate>>

(* Redis drops the keys one by one.                                        *)
StateExpires ==
  /\ age = "old" /\ state = "stored"
  /\ DropState
  /\ UNCHANGED <<history, lock, age, janitor, request, token, recorded, fate>>
HistoryExpires ==
  /\ age = "old" /\ history # Nothing
  /\ DropHistory
  /\ UNCHANGED <<blob, lock, age, janitor, request, token, recorded, fate>>

(* cleanupStaleExecutions reads the state, and deletes the keys later,     *)
(* the history first, without the lock; it gives up at a failure.          *)
JanitorReads ==
  /\ janitor = "asleep" /\ age = "old" /\ state = "stored"
  /\ janitor' = "reap"
  /\ UNCHANGED <<keys, lock, age, request, token, recorded, fate>>
JanitorReaps ==
  /\ janitor = "reap" /\ janitor' = "asleep"
  /\ \/ DropHistory /\ (DropState \/ UNCHANGED blob)
     \/ UNCHANGED keys
  /\ UNCHANGED <<lock, age, request, token, recorded, fate>>

(* A replica dies; the job it waits for ends by its deadline.              *)
Crash(r) ==
  /\ \/ pc[r] = "running" /\ Goto(r, "orphan") /\ UNCHANGED <<mine, batch, seen>>
     \/ pc[r] \notin {"idle", "running", "orphan", "done"} /\ Over(r)
  /\ UNCHANGED <<keys, lock, age, janitor, token, recorded, fate>>
OrphanEnds(r) ==
  /\ pc[r] = "orphan" /\ Over(r)
  /\ UNCHANGED <<keys, lock, age, janitor, token, recorded, fate>>

Next ==
  \/ Start
  \/ \E k \in Continuations :
       \/ Arrive(k) \/ Lock(k) \/ Read(k) \/ Delta(k) \/ Commit(k) \/ Release(k)
       \/ Legacy(k) \/ LegacyWrite(k) \/ LegacyFails(k)
  \/ \E r \in Requests :
       Load(r) \/ RunEnds(r) \/ Answer(r) \/ Cleanup(r) \/ Crash(r) \/ OrphanEnds(r)
  \/ LockExpires \/ GrowOld \/ StateExpires \/ HistoryExpires \/ JanitorReads \/ JanitorReaps

Spec == Init /\ [][Next]_vars

-----------------------------------------------------------------------------
(* Properties *)

(* The program never runs twice at the same time, although the first run   *)
(* holds no lock and a replica may die and leave its job behind.           *)
OneRun ==
  \A q, r \in Requests :
    pc[q] \in {"running", "orphan"} /\ pc[r] \in {"running", "orphan"} => q = r

(* "replay history is immutable": a recorded result is never replaced,     *)
(* also when a retry brings another one.                                   *)
HistoryImmutable ==
  \A c \in Given(history) : history'[c] \in {history[c], None}

(* The keys have not come to the end of their TTL yet.                     *)
InTime == age = "recent"

(* The state and the history do not drift apart, whatever fails: every     *)
(* result that was accepted is there, was asked for, and is counted.       *)
InStep ==
  state = "stored" /\ InTime =>
    /\ Given(history) = recorded /\ recorded \subseteq issued
    /\ count = Cardinality(recorded)

(* The client is not asked again for a result it has brought.              *)
NotAskedAgain ==
  InTime => \A r \in Requests : pc[r] = "answer" => Pending(seen[r]) \cap recorded = {}

(* An execution that was cleaned up (completed, failed, cancelled or over  *)
(* its cap) does not come back, and nothing goes on with it, although      *)
(* other continuations of it may be waiting or under way.                  *)
ClosedIsFinal ==
  fate = "closed" /\ InTime =>
    /\ state = "none"
    /\ \A r \in Requests : pc[r] \notin {"delta", "commit", "load", "running", "answer"}

Inv == TypeOK /\ OneRun /\ InStep /\ NotAskedAgain /\ ClosedIsFinal

(* All that a replayed execution promises its client: it is run one at a   *)
(* time, nothing it was given is lost, replaced or asked for again, and it *)
(* ends once (OneRun, InStep, NotAskedAgain, ClosedIsFinal and             *)
(* HistoryImmutable above).                                                *)
ReplaySafe == []Inv /\ [][HistoryImmutable]_vars
=============================================================================
