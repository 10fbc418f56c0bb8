---------------------------- MODULE SessionFiles ----------------------------
(* The files of a stateful session over several turns in one runner: which   *)
(* inputs are downloaded again, which outputs are reported, what is kept     *)
(* about them (api/src/job.ts, session-workspace.ts), and the checkpoints    *)
(* that carry files and records to the next runner (session-checkpoint.ts).  *)
(* Executions of a session are serialized by the control plane's lock.  A    *)
(* content stands for its hash.                                              *)
EXTENDS Integers, FiniteSets

CONSTANTS
    Names,      \* paths in the workspace
    Contents,
    Inputs,     \* records [id, hash, ro]; inline files have id ""
    MaxOut,     \* max_output_files
    MaxTurns,   \* bound on the turns
    None

VARIABLES
    disk,       \* what is in the workspace
    primed,     \* SessionWorkspace.primed
    surfaced,   \* SessionWorkspace.surfaced
    dirty,      \* SessionWorkspace.dirty is set
    phase,
    request,    \* the inputs of the turn
    info,       \* inputFileHashes
    todo,       \* names still to prime or to scan
    entry,      \* entryPointName
    generated,  \* generatedFiles, with the hash of pendingSurfaced
    inherited,  \* inheritedRefs
    seen,       \* presentInputFiles
    truncated,  \* artifactTruncation is set
    response,   \* what the last response said: names deleted, names not
                \* delivered, and that nothing was truncated
    saved,      \* the checkpoint
    view,       \* what the client was last told each file contains
    turns

vars == <<disk, primed, surfaced, dirty, phase, request, info, todo, entry, generated,
          inherited, seen, truncated, response, saved, view, turns>>
meta == <<primed, surfaced>>
turnVars == <<request, info, entry>>
found == <<generated, inherited, truncated>>
scanVars == <<found, seen>>

Nothing == [n \in Names |-> None]
NoResponse == [deleted |-> {}, undelivered |-> {}, complete |-> FALSE]

Init ==
    /\ disk = Nothing /\ primed = Nothing /\ surfaced = Nothing /\ dirty = FALSE
    /\ phase = "idle" /\ request = Nothing /\ info = Nothing /\ todo = {} /\ entry = None
    /\ generated = Nothing /\ inherited = {} /\ seen = {} /\ truncated = FALSE /\ response = NoResponse
    /\ saved = None /\ view = Nothing /\ turns = 0

Requested == {n \in Names : request[n] # None}
PrimedReadOnly(n) == primed[n] # None /\ primed[n].ro

(* A request names its inputs, one of them the program.  A dirty session     *)
(* answers 409.                                                              *)
Request ==
    /\ phase = "idle" /\ ~dirty /\ turns < MaxTurns
    /\ \E r \in [Names -> Inputs \cup {None}] :
        /\ r # Nothing /\ request' = r
        /\ todo' = {n \in Names : r[n] # None}
        /\ entry' \in todo'
    /\ phase' = "prime" /\ turns' = turns + 1
    /\ info' = Nothing /\ generated' = Nothing /\ inherited' = {} /\ seen' = {} /\ truncated' = FALSE
    /\ response' = NoResponse
    /\ UNCHANGED <<disk, meta, dirty, saved, view>>

(* The job is over; what it kept for itself goes.                            *)
JobEnds ==
    /\ phase' = "idle" /\ request' = Nothing /\ info' = Nothing /\ entry' = None
    /\ generated' = Nothing /\ inherited' = {} /\ seen' = {} /\ todo' = {}

(* reusePrimedInput: the same object is on disk already.  A read-only one is *)
(* always fetched again.                                                     *)
Reusable(n) ==
    /\ request[n].id # "" /\ primed[n] # None /\ ~primed[n].ro
    /\ primed[n].id = request[n].id /\ disk[n] # None

(* What a reused input is compared with is its original content.             *)
BaselineInfo(n) == [hash |-> primed[n].hash, ro |-> FALSE, ref |-> TRUE]

(* primeInputFile and writeFile: reuse, or replace the file and its records. *)
Prime(n) ==
    /\ phase = "prime" /\ n \in todo /\ todo' = todo \ {n}
    /\ IF Reusable(n)
       THEN info' = [info EXCEPT ![n] = BaselineInfo(n)] /\ UNCHANGED <<disk, meta, view>>
       ELSE LET f == request[n] IN
            /\ disk' = [disk EXCEPT ![n] = f.hash] /\ view' = [view EXCEPT ![n] = f.hash]
            /\ info' = [info EXCEPT ![n] = [hash |-> f.hash, ro |-> f.ro, ref |-> f.id # ""]]
            /\ primed' = [primed EXCEPT ![n] = f] /\ surfaced' = [surfaced EXCEPT ![n] = None]
    /\ UNCHANGED <<dirty, phase, request, entry, scanVars, response, saved, turns>>

(* prime fails before its file operations, or in them.                       *)
PrimeFails ==
    /\ phase = "prime" /\ todo # {} /\ JobEnds
    /\ dirty' \in (IF todo = Requested THEN BOOLEAN ELSE {TRUE})
    /\ UNCHANGED <<disk, meta, truncated, response, saved, view, turns>>

(* The program runs: it may write, replace or delete any file.  Permissions  *)
(* keep it from writing a read-only file, not from replacing it.             *)
Run ==
    /\ phase = "prime" /\ todo = {} /\ phase' = "scan"
    /\ \E n \in Names, c \in Contents \cup {None} :
        /\ disk' = [disk EXCEPT ![n] = c] /\ todo' = {m \in Names : disk'[m] # None}
    /\ UNCHANGED <<meta, dirty, turnVars, scanVars, response, saved, view, turns>>

(* The execution fails, or its caller is gone, once the inputs are in place. *)
Fails ==
    /\ phase \in {"scan", "upload"} /\ JobEnds /\ dirty' = TRUE
    /\ UNCHANGED <<disk, meta, truncated, response, saved, view, turns>>

Emit(n) ==
    IF Cardinality({m \in Names : generated[m] # None}) >= MaxOut
    THEN truncated' = TRUE /\ todo' = {} /\ UNCHANGED <<generated, inherited>>
    ELSE /\ generated' = [generated EXCEPT ![n] = disk[n]] /\ todo' = todo \ {n}
         /\ UNCHANGED <<inherited, truncated>>

EchoInherited(n) ==
    /\ todo' = todo \ {n} /\ UNCHANGED generated
    /\ IF Cardinality(inherited) >= MaxOut
       THEN truncated' = TRUE /\ UNCHANGED inherited
       ELSE inherited' = inherited \cup {n} /\ UNCHANGED truncated

Suppress(n) == todo' = todo \ {n} /\ UNCHANGED found

(* An input of an earlier turn, not sent again, is reported only when it is  *)
(* writable and was modified.                                                *)
PrimedUnchanged(n) ==
    info[n] = None /\ primed[n] # None /\ (primed[n].hash = disk[n] \/ primed[n].ro)

(* handleRegularFile, in any order of the directory.                         *)
ScanFile(n) ==
    /\ phase = "scan" /\ n \in todo /\ seen' = seen \cup {n}
    /\ \/ surfaced[n] = disk[n] /\ Suppress(n)
       \/ /\ surfaced[n] # disk[n] /\ PrimedUnchanged(n) /\ Suppress(n)
       \/ /\ surfaced[n] # disk[n] /\ ~PrimedUnchanged(n)
          /\ LET unchanged == info[n] # None /\ (info[n].hash = disk[n] \/ info[n].ro) IN
             CASE unchanged /\ info[n].ref -> EchoInherited(n)
               [] unchanged /\ ~info[n].ref /\ n = entry -> Suppress(n)
               [] OTHER -> Emit(n)
    /\ UNCHANGED <<disk, meta, dirty, phase, turnVars, response, saved, view, turns>>

(* The file is too large or cannot be read: it is left out, and this said.   *)
ScanTruncates(n) ==
    /\ phase = "scan" /\ n \in todo /\ todo' = todo \ {n} /\ truncated' = TRUE /\ seen' = seen \cup {n}
    /\ UNCHANGED <<disk, meta, dirty, phase, turnVars, generated, inherited, response, saved, view, turns>>

(* Only a complete scan proves a deletion.                                   *)
DeletedInputs ==
    IF truncated THEN {} ELSE {n \in Requested : n \notin seen /\ info[n].ref /\ ~info[n].ro}

(* The end of handleSessionFiles: deletions, and the inherited references    *)
(* that still fit.                                                           *)
ScanEnds ==
    /\ phase = "scan" /\ todo = {} /\ phase' = "upload"
    /\ LET gone == DeletedInputs
           room == MaxOut - Cardinality({n \in Names : generated[n] # None}) IN
       /\ primed' = [n \in Names |-> IF n \in gone THEN None ELSE primed[n]]
       /\ surfaced' = [n \in Names |-> IF n \in gone THEN None ELSE surfaced[n]]
       /\ response' = [response EXCEPT !.deleted = gone]
       /\ \E kept \in SUBSET inherited :
            /\ Cardinality(kept) = (IF room < Cardinality(inherited) THEN room ELSE Cardinality(inherited))
            /\ inherited' = kept /\ truncated' = (truncated \/ kept # inherited)
    /\ UNCHANGED <<disk, dirty, turnVars, todo, generated, seen, saved, view, turns>>

(* (Marks every generated file.)                                             *)
SurfaceAll(sent) == [n \in Names |-> IF generated[n] # None THEN generated[n] ELSE surfaced[n]]

(* Only what was uploaded counts as surfaced.                                *)
SurfaceUploaded(sent) == [n \in Names |-> IF n \in sent THEN generated[n] ELSE surfaced[n]]

(* uploadGeneratedFiles and the response: some uploads fail, and the         *)
(* response says so.                                                         *)
Respond ==
    /\ phase = "upload" /\ JobEnds
    /\ \E sent \in SUBSET {n \in Names : generated[n] # None} :
        /\ surfaced' = SurfaceUploaded(sent)
        /\ response' = [response EXCEPT !.complete = ~truncated,
                            !.undelivered = {n \in Names : generated[n] # None} \ sent]
        /\ view' = [n \in Names |->
                        CASE n \in sent -> generated[n]
                          [] n \in inherited -> request[n].hash
                          [] n \in response.deleted -> None
                          [] OTHER -> view[n]]
    /\ UNCHANGED <<disk, primed, dirty, truncated, saved, turns>>

(* A checkpoint holds the files and the records; when these are too large,   *)
(* the surfaced ones are left out.                                           *)
Checkpoint ==
    /\ phase = "idle" /\ ~dirty
    /\ \E s \in {surfaced, Nothing} :
        saved' = [disk |-> disk, primed |-> primed, surfaced |-> s, view |-> view]
    /\ UNCHANGED <<disk, meta, dirty, phase, turnVars, todo, scanVars, response, view, turns>>

Install(from) ==
    /\ disk' = from.disk /\ primed' = from.primed /\ surfaced' = from.surfaced
    /\ dirty' = FALSE /\ view' = from.view

(* restoreSessionCheckpoint: the staged tree replaces the live one together  *)
(* with the records.  A failure leaves everything as it was, unless the live *)
(* tree was moved away and could not be moved back.                          *)
Restore ==
    /\ phase = "idle" /\ saved # None
    /\ \/ Install(saved)
       \/ disk' = Nothing /\ dirty' = TRUE /\ UNCHANGED <<meta, view>>
    /\ response' = NoResponse
    /\ UNCHANGED <<phase, turnVars, todo, scanVars, saved, turns>>

(* The runner is lost, between turns or after its turn has failed; a new one *)
(* begins with the checkpoint, or with nothing.                              *)
Relaunch ==
    /\ phase = "idle"
    /\ Install(IF saved # None THEN saved
               ELSE [disk |-> Nothing, primed |-> Nothing, surfaced |-> Nothing, view |-> Nothing])
    /\ response' = NoResponse
    /\ UNCHANGED <<phase, turnVars, todo, scanVars, saved, turns>>

Next ==
    \/ Request \/ PrimeFails \/ Run \/ Fails \/ ScanEnds \/ Respond
    \/ Checkpoint \/ Restore \/ Relaunch
    \/ \E n \in Names : Prime(n) \/ ScanFile(n) \/ ScanTruncates(n)

Spec == Init /\ [][Next]_vars
-----------------------------------------------------------------------------
TypeOK ==
    /\ disk \in [Names -> Contents \cup {None}] /\ view \in [Names -> Contents \cup {None}]
    /\ primed \in [Names -> Inputs \cup {None}] /\ surfaced \in [Names -> Contents \cup {None}]
    /\ phase \in {"idle", "prime", "scan", "upload"} /\ dirty \in BOOLEAN
    /\ todo \subseteq Names /\ inherited \subseteq Names /\ truncated \in BOOLEAN

(* After a response that says nothing was left out, the client has been told *)
(* the content of every file.  Excepted are what the program did to          *)
(* read-only inputs, and inputs of an earlier turn that go back to their     *)
(* original content after a change was surfaced, or from there to it again:  *)
(* handleRegularFile takes them for unchanged.                               *)
Told ==
    response.complete => \A n \in Names :
        \/ disk[n] \in {None, view[n]} \/ n \in response.undelivered \/ PrimedReadOnly(n)
        \/ primed[n] # None /\ disk[n] \in {primed[n].hash, surfaced[n]}

(* What is suppressed as already surfaced is what the client was last told,  *)
(* or it was told since that the input has its original content.             *)
SurfacedKnown ==
    phase # "upload" =>
        \A n \in Names :
            surfaced[n] \in {None, view[n]} \/ (primed[n] # None /\ view[n] = primed[n].hash)

(* The program's changes to read-only inputs are never reported.             *)
ReadOnlyKept == \A n \in Names : generated[n] # None /\ phase = "upload" => ~PrimedReadOnly(n)

(* A file reported as deleted is not there.                                  *)
DeletionTrue == phase = "upload" => \A n \in response.deleted : disk[n] = None

(* A checkpoint is a state between turns: the records belong to the files.   *)
CheckpointWhole ==
    saved # None =>
        \A n \in Names :
            \/ saved.surfaced[n] \in {None, saved.view[n]}
            \/ saved.primed[n] # None /\ saved.view[n] = saved.primed[n].hash

(* The response stays within its limit.                                      *)
Bounded ==
    phase = "upload" => Cardinality({n \in Names : generated[n] # None}) + Cardinality(inherited) <= MaxOut

(* A session's client and workspace do not drift apart: after a complete     *)
(* response the client knows every file, nothing is suppressed that it does  *)
(* not know, no deletion is reported that did not happen, and a checkpoint   *)
(* is taken only between turns that went well (handleRegularFile,            *)
(* handleSessionFiles, uploadGeneratedFiles, loadMeta).                      *)
SessionSafe ==
    TypeOK /\ Told /\ SurfacedKnown /\ ReadOnlyKept /\ DeletionTrue /\ CheckpointWhole /\ Bounded
=============================================================================
