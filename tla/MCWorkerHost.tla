---------------------------- MODULE MCWorkerHost ----------------------------
(* A worker and what it keeps on its host, on small instances: three       *)
(* commands for two roots on a pool of one native executor; two lanes and  *)
(* their retirement; dependency snapshots of two keys and the provisioning *)
(* of two instances, each by two processes; the lanes of a worker process; *)
(* edits of a file and pages of a listing beside a local user; programs in *)
(* a sandbox; texts of edits; the pairing of two machines on the server,   *)
(* and the migration of old pairings; three commands that set up one       *)
(* machine; two callers that share the refreshes of a credential.          *)
EXTENDS WorkerProcess, Sequences, TLC

CONSTANTS ra, rb, w1, w2, r1, p1, p2, k1, k2, i1, i2, q1, q2, a1, a2, a3, p3,
          p4, s1, s2, c1, c2, Seed, Buried, Close, Checkout

VARIABLES
    which,  \* the component this behaviour is about
    y1, y2, y3, y4, y5, y6, y7, y8, y9, y10, y11, y12, y13, y14, y15, y16,
    y17, y18, y19, y20, y21, y22, y23, y24  \* its variables

shared == <<y1, y2, y3, y4, y5, y6, y7, y8, y9, y10, y11, y12, y13, y14, y15,
            y16, y17, y18, y19, y20, y21, y22, y23, y24>>

(* The characters "-", "/", "a" and "b" are 2 to 5: the files a/b, a/-, a-, *)
(* and b.                                                                  *)
MCPaths == {<<<<4>>, <<5>>>>, <<<<4>>, <<2>>>>, <<<<4, 2>>>>, <<<<5>>>>}
MCTexts == UNION {[1..n -> {0, 1}] : n \in 0..5}

(* Lines of characters of one and of two units.                            *)
MCLines ==
    {l \in UNION {[1..n -> {"c", "d", "high", "low"}] : n \in 1..6} :
        /\ l[1] # "low" /\ l[Len(l)] # "high"
        /\ \A i \in 2..Len(l) : l[i] = "low" <=> l[i - 1] = "high"}
MCQueries ==
    {<<"c">>, <<"d">>, <<"high", "low">>, <<"c", "high", "low">>, <<"high", "low", "c">>, <<"c", "d">>}

(* Files of four characters, some with the other line ending; two edits, of *)
(* which the second replaces what the first may have put in.               *)
MCDocuments ==
    [1..4 -> {"x", " ", "n"}]
    \cup {<<"x">> \o u \o <<"r", "n">> \o v : u \in {<<>>, <<" ">>},
            v \in {<<>>, <<"x">>, <<" ", "x">>, <<"x", "x">>}}
MCOld ==
    {<<"x">>} \cup {<<"x", c>> : c \in {"x", " ", "n"}}
    \cup {<<"x", c, "x">> : c \in {"x", " ", "n"}} \cup {<<c, "x", "n">> : c \in {"x", " ", "n"}}
    \cup {<<c, "x", d, "x">> : c, d \in {" ", "n"}}
MCBatch ==
    <<[old : MCOld, new : {<<"y">>, <<"n", "y">>, <<" ", "y", "n">>}, all : BOOLEAN],
      {[old |-> <<"y">>, new |-> <<"x">>, all |-> FALSE]}>>

(* Commands of one kind, a machine paired beside a setup, and both setups.  *)
MCMixes ==
    {<<"browser", "browser", "browser">>, <<"setup", "setup", "setup">>, <<"setup", "setup", "pair">>,
     <<"browser", "browser", "pair">>, <<"browser", "setup", "browser">>}

(* Enough for a credential in use or being recovered, a revocation, and    *)
(* another pairing meanwhile.                                              *)
MCUses ==
    p1 :> {"issue", "approve", "challenge"} @@ p2 :> {"redeem", "enroll", "recover"}
    @@ p3 :> {"rotate", "register", "redeem", "enroll", "recover"}
    @@ p4 :> {"revoke", "issue", "rotate"}

MCKeyOf == a1 :> k1 @@ a2 :> k2 @@ a3 :> k1
MCParent == k1 :> None @@ k2 :> k1

MCRootOf == 1 :> ra @@ 2 :> rb @@ 3 :> ra

N == INSTANCE NativeExecutor WITH
    Calls <- {1, 2, 3}, Roots <- {ra, rb}, RootOf <- MCRootOf,
    Programmatic <- {1}, Capacity <- 1, MaxFaults <- 1, pc <- y1,
    aborted <- y2, outcome <- y3, entry <- y4, busy <- y5, chain <- y6,
    child <- y7, at <- y8, cur <- y9, toChild <- y10, toParent <- y11,
    failed <- y12, pending <- y13, mayMutate <- y14, closed <- y15,
    ran <- y16, quarantined <- y17, faults <- y18

L == INSTANCE LaneRetirement WITH
    Lanes <- {w1, w2}, Requests <- {r1}, InspectLimit <- 1, MaxPasses <- 2,
    MaxUser <- 1, tree <- y1, work <- y2, head <- y3, diskTime <- y4,
    used <- y5, events <- y6, recent <- y7, locked <- y8, quarantined <- y9,
    target <- y10, reqPc <- y11, retiring <- y12, lanes <- y13, pass <- y14,
    candidates <- y15, inspected <- y16, rotation <- y17, cand <- y18,
    stopping <- y19, passes <- y20, userSteps <- y21

S == INSTANCE Snapshots WITH
    Procs <- {p1, p2}, Keys <- {k1, k2}, MaxEntries <- 1, MaxRuns <- 2,
    MaxFaults <- 1, pc <- y1, key <- y2, keyLock <- y3, maint <- y4,
    entry <- y5, lastUsed <- y6, expired <- y7, staging <- y8, listed <- y9,
    retained <- y10, installed <- y11, receipt <- y12, runs <- y13,
    faults <- y14

V == INSTANCE Provisioning WITH
    Procs <- {p1, p2}, Instances <- {i1, i2}, MaxCount <- 1, MaxCommits <- 3,
    MaxFaults <- 2, pc <- y1, inst <- y2, lock <- y3, dir <- y4,
    marker <- y5, orphan <- y6, cached <- y7, objects <- y8, ref <- y9,
    copy <- y10, replaced <- y11, faults <- y12

E == INSTANCE WorkspaceEdits WITH
    MaxUser <- 1, MaxFaults <- 1, MaxOps <- 2, dir <- y1, file <- y2,
    temp <- y3, litter <- y4, clock <- y5, preview <- y6, kind <- y7,
    pc <- y8, ops <- y9, seen <- y10, base <- y11, parent <- y12,
    made <- y13, ident <- y14, staged <- y15, installed <- y16, over <- y17,
    touched <- y18, aborted <- y19, verdict <- y20, result <- y21,
    anchored <- y22, user <- y23, faults <- y24

X == INSTANCE NativeSandbox WITH
    Files <- {q1, q2}, MaxTools <- 2, MaxRequests <- 5, MaxFaults <- 2,
    kind <- y1, pc <- y2, requests <- y3, aborted <- y4, outcome <- y5,
    ready <- y6, manager <- y7, scratch <- y8, resetFailed <- y9,
    execution <- y10, closing <- y11, awaited <- y12, shutting <- y13,
    child <- y14, edir <- y15, transfers <- y16, broken <- y17, tools <- y18,
    resolved <- y19, dispatched <- y20, effects <- y21, faults <- y22

R == INSTANCE WorkspaceReads WITH
    Paths <- MCPaths, Slash <- 3, MaxResults <- 1, Window <- 1,
    Texts <- MCTexts, MaxLines <- 2, MaxBytes <- 3, Lines <- MCLines,
    Queries <- MCQueries, MaxText <- 3, MaxUser <- 2, mode <- y1, pc <- y2,
    files <- y3, always <- y4, after <- y5, cursor <- y6, candidates <- y7,
    found <- y8, truncated <- y9, answers <- y10, hits <- y11, text <- y12,
    start <- y13, size <- y14, position <- y15, reading <- y16, user <- y17

T == INSTANCE TextEdits WITH
    Texts <- MCDocuments, Batch <- MCBatch, MaxChars <- 4, text <- y1,
    matching <- y2, working <- y3, done <- y4, failures <- y5, matches <- y6,
    last <- y7, result <- y8

P == INSTANCE Pairing WITH
    Calls <- {p1, p2, p3, p4}, Uses <- MCUses, Machines <- {k1, k2},
    recovery <- y1, gen <- y2, index <- y3, code <- y4, cred <- y5,
    active <- y6, stable <- y7, enrolled <- y8, required <- y9,
    challenge <- y10, browser <- y11, fence <- y12, result <- y13,
    worker <- y14, pc <- y15, kind <- y16, arg <- y17, seen <- y18,
    got <- y19, trust <- y20

M == INSTANCE PairingScan WITH
    Calls <- {s1, s2}, Codes <- {c1, c2}, left <- y1, index <- y2,
    window <- y3, state <- y4, claim <- y5, pc <- y6, todo <- y7,
    rolled <- y8

C == INSTANCE WorkerCredential WITH
    Callers <- {c1, c2}, MaxRefreshes <- 2, MaxIssued <- 3, MaxFaults <- 1,
    issued <- y1, file <- y2, mem <- y3, registered <- y4, refreshes <- y5,
    current <- y6, call <- y7, saved <- y8, stale <- y9, faults <- y10

U == INSTANCE MachineSetup WITH
    Runs <- {1, 2, 3}, Mixes <- MCMixes, MaxFaults <- 1, kind <- y1,
    file <- y2, pc <- y3, made <- y4, attempt <- y5, status <- y6,
    session <- y7, sent <- y8, enrolled <- y9, saved <- y10, raced <- y11,
    faults <- y12

(* Each behaviour is one of one component; variables it has no use for     *)
(* stay None.                                                              *)
Rests == Init

UnionInit ==
    \/ /\ which = "worker" /\ Init
       /\ y1 = None /\ y2 = None /\ y3 = None /\ y4 = None /\ y5 = None
       /\ y6 = None /\ y7 = None /\ y8 = None /\ y9 = None /\ y10 = None
       /\ y11 = None /\ y12 = None /\ y13 = None /\ y14 = None /\ y15 = None
       /\ y16 = None /\ y17 = None /\ y18 = None /\ y19 = None /\ y20 = None
       /\ y21 = None /\ y22 = None /\ y23 = None /\ y24 = None
    \/ /\ which = "native" /\ N!Init /\ Rests
       /\ y19 = None /\ y20 = None /\ y21 = None /\ y22 = None /\ y23 = None
       /\ y24 = None
    \/ /\ which = "lanes" /\ L!Init /\ Rests
       /\ y22 = None /\ y23 = None /\ y24 = None
    \/ /\ which = "snapshots" /\ S!Init /\ Rests
       /\ y15 = None /\ y16 = None /\ y17 = None /\ y18 = None /\ y19 = None
       /\ y20 = None /\ y21 = None /\ y22 = None /\ y23 = None /\ y24 = None
    \/ /\ which = "provisioning" /\ V!Init /\ Rests
       /\ y13 = None /\ y14 = None /\ y15 = None /\ y16 = None /\ y17 = None
       /\ y18 = None /\ y19 = None /\ y20 = None /\ y21 = None /\ y22 = None
       /\ y23 = None /\ y24 = None
    \/ /\ which = "edits" /\ E!Init /\ Rests
    \/ /\ which = "sandbox" /\ X!Init /\ Rests
       /\ y23 = None /\ y24 = None
    \/ /\ which = "reads" /\ R!Init /\ Rests
       /\ y18 = None /\ y19 = None /\ y20 = None /\ y21 = None /\ y22 = None
       /\ y23 = None /\ y24 = None
    \/ /\ which = "text" /\ T!Init /\ Rests
       /\ y9 = None /\ y10 = None /\ y11 = None /\ y12 = None /\ y13 = None
       /\ y14 = None /\ y15 = None /\ y16 = None /\ y17 = None /\ y18 = None
       /\ y19 = None /\ y20 = None /\ y21 = None /\ y22 = None /\ y23 = None
       /\ y24 = None
    \/ /\ which = "pairing" /\ P!Init /\ Rests
       /\ y21 = None /\ y22 = None /\ y23 = None /\ y24 = None
    \/ /\ which = "scan" /\ M!Init /\ Rests
       /\ y9 = None /\ y10 = None /\ y11 = None /\ y12 = None /\ y13 = None
       /\ y14 = None /\ y15 = None /\ y16 = None /\ y17 = None /\ y18 = None
       /\ y19 = None /\ y20 = None /\ y21 = None /\ y22 = None /\ y23 = None
       /\ y24 = None
    \/ /\ which = "credential" /\ C!Init /\ Rests
       /\ y11 = None /\ y12 = None /\ y13 = None /\ y14 = None /\ y15 = None
       /\ y16 = None /\ y17 = None /\ y18 = None /\ y19 = None /\ y20 = None
       /\ y21 = None /\ y22 = None /\ y23 = None /\ y24 = None
    \/ /\ which = "setup" /\ U!Init /\ Rests
       /\ y13 = None /\ y14 = None /\ y15 = None /\ y16 = None /\ y17 = None
       /\ y18 = None /\ y19 = None /\ y20 = None /\ y21 = None /\ y22 = None
       /\ y23 = None /\ y24 = None

UnionNext ==
    \/ which = "worker" /\ Next /\ UNCHANGED <<which, shared>>
    \/ /\ which = "native" /\ N!Next
       /\ UNCHANGED <<which, vars, y19, y20, y21, y22, y23, y24>>
    \/ /\ which = "lanes" /\ L!Next
       /\ UNCHANGED <<which, vars, y22, y23, y24>>
    \/ /\ which = "snapshots" /\ S!Next
       /\ UNCHANGED <<which, vars, y15, y16, y17, y18, y19, y20, y21, y22,
                      y23, y24>>
    \/ /\ which = "provisioning" /\ V!Next
       /\ UNCHANGED <<which, vars, y13, y14, y15, y16, y17, y18, y19, y20,
                      y21, y22, y23, y24>>
    \/ /\ which = "edits" /\ E!Next
       /\ UNCHANGED <<which, vars>>
    \/ /\ which = "sandbox" /\ X!Next
       /\ UNCHANGED <<which, vars, y23, y24>>
    \/ /\ which = "reads" /\ R!Next
       /\ UNCHANGED <<which, vars, y18, y19, y20, y21, y22, y23, y24>>
    \/ /\ which = "text" /\ T!Next
       /\ UNCHANGED <<which, vars, y9, y10, y11, y12, y13, y14, y15, y16,
                      y17, y18, y19, y20, y21, y22, y23, y24>>
    \/ /\ which = "pairing" /\ P!Next
       /\ UNCHANGED <<which, vars, y21, y22, y23, y24>>
    \/ /\ which = "scan" /\ M!Next
       /\ UNCHANGED <<which, vars, y9, y10, y11, y12, y13, y14, y15, y16,
                      y17, y18, y19, y20, y21, y22, y23, y24>>
    \/ /\ which = "credential" /\ C!Next
       /\ UNCHANGED <<which, vars, y11, y12, y13, y14, y15, y16, y17, y18,
                      y19, y20, y21, y22, y23, y24>>
    \/ /\ which = "setup" /\ U!Next
       /\ UNCHANGED <<which, vars, y13, y14, y15, y16, y17, y18, y19, y20,
                      y21, y22, y23, y24>>

UnionSpec == UnionInit /\ [][UnionNext]_<<which, vars, shared>>

(* What a failed command reports of its effects is true, whatever is lost, *)
(* cancelled or late on either side of the channel (rpc, beforeCommit,     *)
(* allocate).                                                              *)
ExecutorSafe == which = "native" => N!ExecutorSafe

(* Retiring stale worktrees loses nobody's work and takes none away from a *)
(* request, however requests, passes and users interleave; and every idle  *)
(* worktree gets its turn (whileIdle, remove, retireStaleWorktrees).       *)
RetirementSafe ==
    /\ [](which = "lanes" => L!Inv)
    /\ [][which = "lanes" => L!StepOK]_shared

(* The store of snapshots stays within its budget without ever taking away *)
(* what a preparation uses, and never publishes or stamps a part           *)
(* (pruneDependencySnapshots, publishDependencySnapshot).                  *)
SnapshotSafe ==
    /\ [](which = "snapshots" => S!Inv)
    /\ [][which = "snapshots" => S!ReaderUndisturbed]_shared

(* Provisioning never reuses or sweeps a checkout that somebody may still  *)
(* write to, whatever dies when, and keeps finished ones and the quota     *)
(* (createLocked, countInstances).                                         *)
ProvisioningSafe ==
    /\ [](which = "provisioning" => V!Inv)
    /\ [][which = "provisioning" => V!FinishedKept]_shared

(* A workspace mutation is all or nothing, or says that it is not: clean   *)
(* failures left nothing behind, a user's work is not overwritten unseen,  *)
(* and a cancellation alone never leads to a quarantine (workspace.ts:     *)
(* atomicWriteConfinedFile, importWorkspaceFile, afterCreatedDirectories). *)
EditsSafe == which = "edits" => E!EditsSafe

(* Replaying a program is invisible until its one real run: probes change  *)
(* nothing and reach nothing, a failure says truthfully whether there was  *)
(* an effect, and closing never pulls a directory or a session from under  *)
(* a running process (native-programmatic.ts execute, native-sandbox.ts    *)
(* withProbeNetwork, closeExclusive).                                      *)
ProgramSafe == which = "sandbox" => X!ProgramSafe

(* Paging through a workspace that changes meanwhile loses nothing that    *)
(* was there all along, repeats nothing and always goes on, and each       *)
(* answer is accepted by its validation (listWorkspaceFiles,               *)
(* readConfinedFile, searchWorkspace; isWorkspaceToolResult).              *)
ReadsSafe == which = "reads" => R!ReadsSafe

(* An edit applies only where it can mean one place: every place is found, *)
(* none of them with less tolerance, and no other text is touched; the     *)
(* lines put in end like those of the file; nothing is returned unless     *)
(* every edit of the batch applied, and an edit is refused for its length  *)
(* only if the result would be too long (findExact, findLineWindows,       *)
(* findWhitespaceNormalized, resolve, collectMatch).                       *)
EditOK == which = "text" => T!EditOK

(* What pairing promises: trust comes from one redemption and ends with    *)
(* its revocation, offers and challenges are good for one use, and a       *)
(* current enrolment can be recovered.                                     *)
PairingSafe ==
    /\ [](which = "pairing" => P!Inv)
    /\ [][which = "pairing" => P!RegistrationCurrent]_shared

(* The migration as its callers see it.                                    *)
MigrationSafe == which = "scan" => M!MigrationSafe

(* Callers share one refresh without being able to cancel it for each      *)
(* other, go on only with a credential that lasts, and a worker that       *)
(* crashes finds the one it used or a later one, except after a refresh    *)
(* that was abandoned while it was saved, which still takes effect         *)
(* (refreshCredential, waitForCredentialRefresh, refreshCredentialOwned,   *)
(* savePrivateJson).                                                       *)
CredentialSafe == which = "credential" => C!CredentialSafe

(* Every request of a browser setup is made with a key that is on disk and *)
(* stays the only one. Browser setups, or setups with a code, do not touch *)
(* an identity another has saved, and whatever crashes, an enrolled key    *)
(* can be found again (setupBrowserWorker, setupWorker, pair,              *)
(* assertIdentityPathIsPrivate, savePrivateJson).                          *)
SetupSafe == which = "setup" => U!SetupSafe

=============================================================================
