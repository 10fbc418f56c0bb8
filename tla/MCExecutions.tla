---------------------------- MODULE MCExecutions ----------------------------
(* Executions and the sandboxes they run in, on small instances: a         *)
(* replayed execution (a program whose first result decides how many calls *)
(* it makes after it) and a blocking one; the egress gateway of one grant; *)
(* the supervisor of hosted applications in the guest; an assignment to a  *)
(* bridge worker of any kind, with late lease returns; jobs of a sandbox   *)
(* runner, the files of a session, the cache of inputs, and the walk that  *)
(* collects outputs.                                                       *)
EXTENDS BridgeAssignment, Sequences, TLC

CONSTANTS c1, c2, c3, k1, k2, v, w, u1, u2, x1, f1, f2, ra, rb, n1, n2, one,
          two, First, i1, i2, d1

VARIABLES
    which,  \* the component this behaviour is about
    y1, y2, y3, y4, y5, y6, y7, y8, y9, y10, y11, y12, y13, y14, y15, y16,
    y17, y18  \* its variables

shared == <<y1, y2, y3, y4, y5, y6, y7, y8, y9, y10, y11, y12, y13, y14, y15,
            y16, y17, y18>>

MCReached(h) == {c1} \cup (IF h[c1] = None THEN {} ELSE IF h[c1] = v THEN {c2} ELSE {c2, c3})

(* Only the result of the first call differs between answers.              *)
MCBatches == {b \in [{c1, c2, c3} -> {v, w, None}] : \A c \in {c2, c3} : b[c] # w}

(* Two uploads of one file, and a request of any other kind.               *)
MCKinds == u1 :> {"upload"} @@ u2 :> {"upload"} @@ x1 :> {"list", "read", "manifest", "tool"}

(* A file by reference, the same one read-only, and a file sent inline.    *)
MCInputs ==
    {[id |-> "x", hash |-> one, ro |-> FALSE], [id |-> "x", hash |-> one, ro |-> TRUE],
     [id |-> "", hash |-> two, ro |-> FALSE]}

(* Workspaces after a program has ended: a directory or a file at place 1,  *)
(* a file beside it, two places in the directory and one below those; some  *)
(* of the files only where the third place is empty.                       *)
Place(is, called, as) ==
    [kind |-> is, name |-> called, input |-> as, changed |-> FALSE, known |-> "no", big |-> FALSE]
Absent == Place("absent", "plain", "no")
Fresh == Place("file", "plain", "no")
Changed(p) == [p EXCEPT !.changed = TRUE]
Known(p, how) == [p EXCEPT !.known = how]
Big(p) == [p EXCEPT !.big = TRUE]
MCWorkspaces ==
    {z \in {<<a, b, c, d, e>> :
        a \in {Place("dir", x, "no") : x \in {"plain", "hidden", "long", "edge"}} \cup {Fresh},
        b \in {Fresh, Big(Fresh), Known(Fresh, "primedReadOnly"), Place("file", "long", "no"),
               Place("absent", "plain", "ref"), Changed(Place("file", "plain", "ref")),
               Place("file", "plain", "entry"), Big(Place("file", "plain", "entry")),
               Changed(Place("file", "plain", "readonly"))},
        c \in {Absent, Place("dir", "plain", "no"), Place("dir", "hidden", "no"),
               Place("link", "plain", "no"), Place("file", "unsupported", "no"), Known(Fresh, "surfaced")},
        d \in {Absent, Place("absent", "keep", "inline"), Known(Place("file", "keep", "no"), "surfaced"),
               Place("absent", "keep", "ref"), Known(Changed(Place("file", "keep", "ref")), "surfaced"),
               Place("file", "keep", "inline"), Big(Place("file", "keep", "inline")),
               Known(Fresh, "primed"), Place("file", "history", "no")},
        e \in {Absent, Fresh, Place("absent", "plain", "ref")}} :
        /\ z[1].kind = "dir" \/ (z[3] = Absent /\ z[4] = Absent)
        /\ z[3].kind = "dir" \/ z[5] = Absent
        /\ z[3] = Absent \/ z[2] \in {Fresh, Place("absent", "plain", "ref"), Place("file", "plain", "entry")}}

R == INSTANCE ReplayExecution WITH
    Continuations <- {k1, k2}, Calls <- {c1, c2, c3}, Reached <- MCReached,
    Values <- {v, w}, Batches <- MCBatches, MaxCalls <- 2, state <- y1,
    issued <- y2, count <- y3, history <- y4, lock <- y5, age <- y6,
    janitor <- y7, pc <- y8, myIssued <- y9, myCount <- y10, batch <- y11,
    seen <- y12, token <- y13, recorded <- y14, fate <- y15

B == INSTANCE BlockingExecution WITH
    Continuations <- {k1, k2}, Calls <- {c1, c2}, exec <- y1, blob <- y2,
    session <- y3, pending <- y4, results <- y5, call <- y6, job <- y7,
    notify <- y8, pc <- y9, mine <- y10, answer <- y11, told <- y12

E == INSTANCE EgressGateway WITH
    Requests <- {u1, u2, x1}, Kinds <- MCKinds, File <- u1 :> f1 @@ u2 :> f1,
    Size <- u1 :> 1 @@ u2 :> 2, MaxRequests <- 2, MaxFiles <- 2,
    MaxBytes <- 2, Lossy <- {"admit"}, compact <- y1, legacy <- y2,
    ledger <- y3, time <- y4, counts <- y5, bytes <- y6, outputs <- y7,
    pc <- y8, kind <- y9, revoke <- y10, lost <- y11, refunded <- y12

G == INSTANCE HostedRunner WITH
    Calls <- {c1, c2, c3}, Specs <- {<<1, 1>>, <<1, 2>>, <<2, 1>>},
    MaxFaults <- 1, chain <- y1, call <- y2, step <- y3, after <- y4,
    active <- y5, state <- y6, process <- y7, drained <- y8, specs <- y9,
    group <- y10, exits <- y11, runnerFaults <- y12

J == INSTANCE SandboxJob WITH
    Jobs <- {1, 2, 3}, Slots <- {0}, Files <- 2, Retries <- {ra, rb},
    MaxFaults <- 1, pc <- y1, aborted <- y2, uid <- y3, active <- y4,
    queue <- y5, dir <- y6, ids <- y7, left <- y8, busy <- y9, failed <- y10,
    calls <- y11, gate <- y12, child <- y13, timedOut <- y14,
    retained <- y15, timer <- y16, todo <- y17, jobFaults <- y18

F == INSTANCE SessionFiles WITH
    Names <- {n1, n2}, Contents <- {one, two}, Inputs <- MCInputs,
    MaxOut <- 1, MaxTurns <- 2, disk <- y1, primed <- y2, surfaced <- y3,
    dirty <- y4, phase <- y5, request <- y6, info <- y7, todo <- y8,
    entry <- y9, generated <- y10, inherited <- y11, seen <- y12,
    truncated <- y13, response <- y14, saved <- y15, view <- y16,
    turns <- y17

I == INSTANCE InputCache WITH
    Calls <- {c1, c2, c3}, Pushes <- {x1}, HttpKeys <- {f1, f2},
    PushKeys <- {u1}, MaxBytes <- 1, MaxInflight <- 1, data <- y1,
    sidecar <- y2, line <- y3, staged <- y4, fills <- y5, pushPc <- y6,
    pushKey <- y7, snapshot <- y8, callPc <- y9, callKey <- y10,
    joined <- y11, gaveUp <- y12, late <- y13

W == INSTANCE ArtifactWalk WITH
    Root <- 0, Nodes <- 1..5, Up <- <<0, 0, 1, 1, 3>>,
    Workspaces <- MCWorkspaces, MaxOut <- 1, MaxDepth <- 2, MaxProbe <- 2,
    Concurrency <- 1, MaxFaults <- 1, what <- y1, stack <- y2,
    generated <- y3, markers <- y4, inherited <- y5, present <- y6,
    reasons <- y7, budget <- y8, deleted <- y9, phase <- y10, aborted <- y11,
    faults <- y12, blind <- y13, unwritten <- y14, uploading <- y15,
    uploaded <- y16, failed <- y17, marked <- y18

(* Each behaviour is one of one component; variables it has no use for     *)
(* stay None.                                                              *)
Rests == Init /\ kind = "plain"

UnionInit ==
    \/ /\ which = "assignment" /\ Init
       /\ y1 = None /\ y2 = None /\ y3 = None /\ y4 = None /\ y5 = None
       /\ y6 = None /\ y7 = None /\ y8 = None /\ y9 = None /\ y10 = None
       /\ y11 = None /\ y12 = None /\ y13 = None /\ y14 = None /\ y15 = None
       /\ y16 = None /\ y17 = None /\ y18 = None
    \/ /\ which = "replay" /\ R!Init /\ Rests
       /\ y16 = None /\ y17 = None /\ y18 = None
    \/ /\ which = "blocking" /\ B!Init /\ Rests
       /\ y13 = None /\ y14 = None /\ y15 = None /\ y16 = None /\ y17 = None
       /\ y18 = None
    \/ /\ which = "egress" /\ E!Init /\ Rests
       /\ y13 = None /\ y14 = None /\ y15 = None /\ y16 = None /\ y17 = None
       /\ y18 = None
    \/ /\ which = "guest" /\ G!Init /\ Rests
       /\ y13 = None /\ y14 = None /\ y15 = None /\ y16 = None /\ y17 = None
       /\ y18 = None
    \/ /\ which = "job" /\ J!Init /\ Rests
    \/ /\ which = "files" /\ F!Init /\ Rests
       /\ y18 = None
    \/ /\ which = "cache" /\ I!Init /\ Rests
       /\ y14 = None /\ y15 = None /\ y16 = None /\ y17 = None /\ y18 = None
    \/ /\ which = "artifacts" /\ W!Init /\ Rests

UnionNext ==
    \/ which = "assignment" /\ Next /\ UNCHANGED <<which, shared>>
    \/ /\ which = "replay" /\ R!Next
       /\ UNCHANGED <<which, vars, y16, y17, y18>>
    \/ /\ which = "blocking" /\ B!Next
       /\ UNCHANGED <<which, vars, y13, y14, y15, y16, y17, y18>>
    \/ /\ which = "egress" /\ E!Next
       /\ UNCHANGED <<which, vars, y13, y14, y15, y16, y17, y18>>
    \/ /\ which = "guest" /\ G!Next
       /\ UNCHANGED <<which, vars, y13, y14, y15, y16, y17, y18>>
    \/ /\ which = "job" /\ J!Next
       /\ UNCHANGED <<which, vars>>
    \/ /\ which = "files" /\ F!Next
       /\ UNCHANGED <<which, vars, y18>>
    \/ /\ which = "cache" /\ I!Next
       /\ UNCHANGED <<which, vars, y14, y15, y16, y17, y18>>
    \/ /\ which = "artifacts" /\ W!Next
       /\ UNCHANGED <<which, vars>>

UnionSpec == UnionInit /\ [][UnionNext]_<<which, vars, shared>>

(* All that a replayed execution promises its client: it is run one at a   *)
(* time, nothing it was given is lost, replaced or asked for again, and it *)
(* ends once (OneRun, InStep, NotAskedAgain, ClosedIsFinal and             *)
(* HistoryImmutable above).                                                *)
ReplaySafe ==
    /\ [](which = "replay" => R!Inv)
    /\ [][which = "replay" => R!HistoryImmutable]_shared

(* What a blocking execution promises its client: results are final, calls *)
(* are asked for once, and nothing comes back after it was torn down.      *)
BlockingSafe ==
    /\ [](which = "blocking" => B!Inv)
    /\ [][which = "blocking" => B!NotResurrected]_shared

(* What the gateway owes the grant: its budgets are exact, an upload that  *)
(* is stored was reserved and one that failed costs nothing, and a         *)
(* revocation is final.                                                    *)
GrantHonoured ==
    /\ [](which = "egress" => E!Inv)
    /\ [][which = "egress" => E!RevocationFinal]_shared

(* What the rest of the guest may rely on: the workspace is quiet when it  *)
(* is archived or replaced, one application runs, and the supervisor       *)
(* neither reports nor kills the wrong one.                                *)
SupervisorSafe ==
    /\ [](which = "guest" => G!Inv)
    /\ [][which = "guest" => G!SweepSparesSuccessor]_shared

(* Executions of one runner do not meet: a user id is one job's until its  *)
(* process, its writes and its workspace are gone, whatever fails and      *)
(* whoever disconnects; no slot is lost, and no waiting job forgotten      *)
(* (acquireJobIdentity, cleanup and retryRetainedWorkspaceCleanups).       *)
SandboxSafe == which = "job" => J!SandboxSafe

(* A session's client and workspace do not drift apart: after a complete   *)
(* response the client knows every file, nothing is suppressed that it     *)
(* does not know, no deletion is reported that did not happen, and a       *)
(* checkpoint is taken only between turns that went well                   *)
(* (handleRegularFile, handleSessionFiles, uploadGeneratedFiles,           *)
(* loadMeta).                                                              *)
SessionSafe == which = "files" => F!SessionSafe

(* Sharing the cache and its downloads does not make one caller suffer     *)
(* from another: nobody's cancellation or refusal reaches those who wait   *)
(* with them, and batches and entries together stay within the budget      *)
(* (waitForFill, fetchCachedHttpInput, storeCachedInputsOnce).             *)
CacheSafe == which = "cache" => I!CacheSafe

(* The response does not lie about the workspace: unless it says that      *)
(* something was left out, every output is in it, every empty directory is *)
(* kept, and exactly the missing inputs are deleted; what it calls deleted *)
(* is so in any case. The limits hold, and only what was uploaded is named *)
(* (walkDir, findTruncatedArtifact, handleEmptyDirectory,                  *)
(* handleSessionFiles, uploadGeneratedFiles).                              *)
ArtifactsSafe == which = "artifacts" => W!ArtifactsSafe

=============================================================================
