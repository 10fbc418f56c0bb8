---------------------------- MODULE ArtifactWalk ----------------------------
(* The collection of a job's outputs (api/src/job.ts): the scan of the       *)
(* workspace under limits of depth, number and size, the markers that keep   *)
(* empty directories, what is said about outputs left out, and the uploads   *)
(* (api/src/api/v2.ts, delivery.ts).  The program has ended; a directory is  *)
(* read in any order.                                                        *)
EXTENDS Integers, Sequences, FiniteSets

CONSTANTS
    Root, Nodes,    \* the workspace and the places in it
    Up,             \* the directory of each place
    Workspaces,     \* what may be at each place, see below
    MaxOut,         \* max_output_files
    MaxDepth,       \* max_nesting_depth
    MaxProbe,       \* TRUNCATION_PROBE_MAX_ENTRIES
    Concurrency,    \* upload_concurrency
    MaxFaults,      \* bound on failures of file operations
    None

VARIABLES
    what,       \* the workspace
    stack,      \* the directories being scanned, the innermost last
    generated,  \* generatedFiles
    markers,    \* directories that get a new .dirkeep, also generatedFiles
    inherited,  \* inheritedRefs
    present,    \* presentInputFiles
    reasons,    \* of artifactTruncation; {} if it is not set
    budget,     \* remainingEntries
    deleted,    \* deletedFiles
    phase, aborted, faults,
    blind,      \* files whose content could not be hashed
    unwritten,  \* directories whose marker could not be written
    uploading, uploaded,
    failed,     \* generated files not delivered, and said to be so
    marked      \* outputs the session takes for surfaced

vars == <<what, stack, generated, markers, inherited, present, reasons, budget, deleted, phase,
          aborted, faults, blind, unwritten, uploading, uploaded, failed, marked>>
outputs == <<generated, markers, inherited>>
uploads == <<uploading, uploaded, failed, marked>>
rest == <<what, deleted, phase, aborted, uploads>>

(* At a place: "kind" is absent, dir, file or link; "name" is plain, keep    *)
(* for .dirkeep, hidden, history, unsupported, long for a path over the      *)
(* limits, or edge for a directory whose marker would be over them; "input"  *)
(* is no, entry for the inline program, inline, ref, or readonly; "changed"  *)
(* tells whether it differs from what was primed; "known" is what a session  *)
(* remembers: no, surfaced, primed or primedReadOnly.                        *)
Child(n) == {m \in Nodes : Up[m] = n /\ what[m].kind # "absent"}
Above[n \in Nodes] == IF Up[n] = Root THEN {Root} ELSE {Up[n]} \cup Above[Up[n]]
Depth(d) == IF d = Root THEN 0 ELSE Cardinality(Above[d])
IsInput(n) == what[n].input # "no"
ByRef(n) == what[n].input \in {"ref", "readonly"}
Supported(n) == what[n].name \in {"plain", "keep", "long"}

(* A hidden directory is passed over unless an input lives in it.            *)
PassedOver(d) == what[d].name = "hidden" /\ ~\E m \in Nodes : IsInput(m) /\ d \in Above[m]

Init ==
    /\ what \in Workspaces
    /\ \A n \in Nodes : Up[n] # Root /\ what[Up[n]].kind # "dir" => what[n].kind = "absent"
    /\ \A n, m \in Nodes : what[n].name = "keep" /\ what[m].name = "keep" /\ Up[n] = Up[m] => n = m
    /\ Cardinality({n \in Nodes : what[n].input = "entry"}) <= 1
    /\ stack = <<[dir |-> Root, todo |-> Child(Root), collected |-> FALSE, truncated |-> FALSE, hidden |-> 0]>>
    /\ generated = {} /\ markers = {} /\ inherited = {} /\ present = {} /\ reasons = {}
    /\ budget = MaxProbe /\ deleted = {} /\ phase = "walk" /\ aborted = FALSE /\ faults = 0
    /\ blind = {} /\ unwritten = {} /\ uploading = {} /\ uploaded = {} /\ failed = {} /\ marked = {}

Count == Cardinality(generated) + Cardinality(markers)
isOutputCapFull == Count >= MaxOut
Top == stack[Len(stack)]
Truncate(reason) == reasons' = reasons \cup {reason}
Fault == faults < MaxFaults /\ faults' = faults + 1

(* The directory being scanned goes on with what an entry has given.         *)
Took(f, n, res) ==
    [f EXCEPT !.todo = IF res.stop THEN {} ELSE @ \ {n},
              !.collected = @ \/ res.collected, !.truncated = @ \/ res.truncated]
Nothing == [collected |-> FALSE, truncated |-> FALSE, stop |-> FALSE]
Collected == [Nothing EXCEPT !.collected = TRUE]
Cut == [Nothing EXCEPT !.truncated = TRUE]
Go(n, res) == stack' = [stack EXCEPT ![Len(stack)] = Took(Top, n, res)]
Observe(n) == present' = IF IsInput(n) THEN present \cup {n} ELSE present
-----------------------------------------------------------------------------
(* findTruncatedArtifact looks below a directory that is not scanned.        *)
Below(d) ==
    {n \in Nodes : /\ d = Root \/ d \in Above[n]
                   /\ what[n].kind # "absent"
                   /\ \A a \in Above[n] \ (Above[n] \cap (IF d = Root THEN {} ELSE Above[d])) :
                        a \in {d, Root} \/ ~PassedOver(a)}
Visible(d) == {n \in Below(d) : ~(what[n].kind = "file" /\ what[n].name = "history")}
Opened(d) == {n \in Below(d) : what[n].kind = "dir" /\ ~PassedOver(n)}
SeemsEmpty(d) ==
    \A n \in Child(d) : \/ what[n].kind = "file" /\ what[n].name = "history"
                        \/ what[n].kind = "dir" /\ PassedOver(n)

(* A file the ordinary scan would have suppressed ...                        *)
Suppressed(n) ==
    \/ what[n].input = "entry" /\ ~what[n].changed
    \/ what[n].known = "surfaced"
    \/ ~IsInput(n) /\ (what[n].known = "primedReadOnly" \/ (what[n].known = "primed" /\ ~what[n].changed))

(* ... or left out with a word.                                              *)
Oversized(n) == what[n].big /\ ~(what[n].input = "entry" /\ ~what[n].changed)

ProbeSuppressed(n) == Suppressed(n) /\ (what[n].input = "entry" \/ ~IsInput(n))
Artifact(n, cap) ==
    /\ what[n].kind = "file" /\ Supported(n)
    /\ cap => what[n].name # "long" /\ ~Oversized(n) /\ ~ProbeSuppressed(n)

(* The probe finds an artifact, an empty directory, or that its budget is    *)
(* used up; it may be so when the last entry is a directory to open.         *)
Outcomes(d, cap) ==
    IF \/ \E n \in Below(d) : Artifact(n, cap)
       \/ \E e \in Opened(d) \cup {d} : SeemsEmpty(e)
       \/ budget <= 0 \/ Cardinality(Visible(d)) > budget
    THEN {TRUE}
    ELSE IF Cardinality(Visible(d)) = budget /\ Opened(d) # {} THEN BOOLEAN ELSE {FALSE}

Inputs(d) == {n \in Below(d) : what[n].kind = "file" /\ IsInput(n)}
Looks(d, cap, reason, found) ==
    /\ found \in Outcomes(d, cap)
    /\ reasons' = reasons \cup (IF found THEN {reason} ELSE {})
                          \cup (IF cap /\ \E n \in Below(d) : what[n].kind = "file" /\ Supported(n)
                                            /\ (what[n].name = "long" \/ Oversized(n)) THEN {"other"} ELSE {})
    /\ present' = present \cup Inputs(d)
    /\ \E k \in (IF found THEN 0..Cardinality(Visible(d)) ELSE {Cardinality(Visible(d))}) :
        budget' = IF k > budget THEN 0 ELSE budget - k
    /\ UNCHANGED faults

(* A directory or a file of the probe cannot be read.                        *)
ProbeFails(d, reason, found) ==
    /\ Fault /\ reasons' = reasons \cup {"other"} \cup (IF found THEN {reason} ELSE {})
    /\ \E seen \in SUBSET Inputs(d) : present' = present \cup seen
    /\ \E b \in 0..budget : budget' = b

Probe(d, cap, reason, found) == Looks(d, cap, reason, found) \/ ProbeFails(d, reason, found)
-----------------------------------------------------------------------------
(* handleRegularFile; a file that cannot be hashed counts as unchanged, or   *)
(* as new.                                                                   *)
Regular(n, hashed) ==
    LET d == what[n]
        same == ~hashed \/ ~d.changed IN
    IF d.big
    THEN /\ IF hashed /\ ~Oversized(n) THEN Go(n, Collected) /\ UNCHANGED reasons
            ELSE Go(n, Nothing) /\ Truncate("other")
         /\ UNCHANGED outputs
    ELSE IF \/ hashed /\ d.known = "surfaced"
            \/ ~IsInput(n) /\ (d.known = "primedReadOnly" \/ (hashed /\ d.known = "primed" /\ ~d.changed))
    THEN Go(n, Nothing) /\ UNCHANGED <<outputs, reasons>>
    ELSE IF d.input = "entry" /\ same THEN Go(n, Collected) /\ UNCHANGED <<outputs, reasons>>
    ELSE IF ByRef(n) /\ (same \/ d.input = "readonly")
    THEN IF Cardinality(inherited) >= MaxOut
         THEN Go(n, Cut) /\ Truncate("max_files") /\ UNCHANGED outputs
         ELSE Go(n, Collected) /\ inherited' = inherited \cup {n} /\ UNCHANGED <<generated, markers, reasons>>
    ELSE IF isOutputCapFull
    THEN Go(n, [Cut EXCEPT !.stop = TRUE]) /\ Truncate("max_files") /\ UNCHANGED outputs
    ELSE Go(n, Collected) /\ generated' = generated \cup {n} /\ UNCHANGED <<inherited, markers, reasons>>

(* walkDir looks at an entry that is not a directory.                        *)
VisitFile(n) ==
    /\ phase = "walk" /\ stack # <<>> /\ n \in Top.todo /\ what[n].kind # "dir"
    /\ IF what[n].kind = "link"
       THEN Go(n, Nothing) /\ UNCHANGED <<outputs, present, reasons, faults, blind>>
       ELSE /\ Observe(n)
            /\ \/ /\ what[n].name = "history" \/ ~Supported(n)
                  /\ Go(n, Nothing) /\ UNCHANGED <<outputs, reasons, faults, blind>>
               \/ /\ what[n].name = "long" /\ Go(n, Cut) /\ Truncate("other")
                  /\ UNCHANGED <<outputs, faults, blind>>
               \/ /\ Supported(n) /\ what[n].name # "long"
                  /\ \/ Regular(n, TRUE) /\ UNCHANGED <<faults, blind>>
                     \/ Fault /\ blind' = blind \cup {n} /\ Regular(n, FALSE)
                     \/ Fault /\ Go(n, Nothing) /\ Truncate("other") /\ UNCHANGED <<outputs, blind>>
    /\ UNCHANGED <<budget, unwritten, rest>>

(* The scan ends where every output is taken and one was left out.           *)
Ended(f, full, why) == IF full /\ "max_files" \in why THEN [f EXCEPT !.todo = {}] ELSE f

(* walkDir meets a directory: it is passed over, only probed because its     *)
(* path, its depth or the number of outputs is over a limit, unreadable, or  *)
(* scanned next.                                                             *)
VisitDir(n) ==
    /\ phase = "walk" /\ stack # <<>> /\ n \in Top.todo /\ what[n].kind = "dir"
    /\ \/ /\ PassedOver(n) /\ stack' = [stack EXCEPT ![Len(stack)] = [Took(Top, n, Nothing) EXCEPT !.hidden = @ + 1]]
          /\ UNCHANGED <<present, reasons, budget, faults>>
       \/ /\ ~PassedOver(n) /\ what[n].name = "long"
          /\ \E found \in BOOLEAN : Probe(n, FALSE, "other", found) /\ Go(n, IF found THEN Cut ELSE Nothing)
       \/ /\ ~PassedOver(n) /\ what[n].name # "long" /\ (Depth(n) >= MaxDepth \/ isOutputCapFull)
          /\ LET deep == Depth(n) >= MaxDepth IN
             \E found \in BOOLEAN : Probe(n, ~deep, IF deep THEN "other" ELSE "max_files", found)
          /\ stack' = [stack EXCEPT ![Len(stack)] = Ended(Took(Top, n, Cut), isOutputCapFull, reasons')]
       \/ /\ ~PassedOver(n) /\ what[n].name # "long" /\ Depth(n) < MaxDepth /\ ~isOutputCapFull
          /\ \/ /\ Fault /\ Truncate("other") /\ Go(n, Cut)
             \/ /\ stack' = Append([stack EXCEPT ![Len(stack)] = Took(Top, n, Nothing)],
                        [dir |-> n, todo |-> Child(n), collected |-> FALSE, truncated |-> FALSE, hidden |-> 0])
                /\ UNCHANGED <<reasons, faults>>
          /\ UNCHANGED <<present, budget>>
    /\ UNCHANGED <<outputs, blind, unwritten, rest>>

(* (Counts hidden directories as contents.)                                  *)
EmptyStrict(f) == {n \in Child(f.dir) : what[n].name \notin {"keep", "history"}} = {}

(* Nothing but markers, the replay history and hidden directories.           *)
Empty(f) == Cardinality({n \in Child(f.dir) : what[n].name \notin {"keep", "history"}}) - f.hidden <= 0

Status(f) == IF f.collected THEN "collected" ELSE IF f.truncated \/ ~Empty(f) THEN "skipped" ELSE "empty"
KeepOf(d) == {k \in Nodes : Up[k] = d /\ what[k].name = "keep" /\ (IsInput(k) \/ what[k].kind # "absent")}

(* createDirkeepMarker.  (A directory is scanned only while outputs are left *)
(* and an empty one adds none: the limit is not met here.)                   *)
CreateMarker(d, res) ==
    IF isOutputCapFull THEN Truncate("max_files") /\ res = Cut /\ UNCHANGED <<outputs, faults, unwritten>>
    ELSE /\ UNCHANGED reasons
         /\ \/ /\ \A k \in KeepOf(d) : what[k].kind = "absent"
               /\ markers' = markers \cup {d} /\ res = Collected
               /\ UNCHANGED <<generated, inherited, faults, unwritten>>
            \/ /\ \E k \in KeepOf(d) : what[k].kind # "absent"
               /\ res = Nothing /\ UNCHANGED <<outputs, faults, unwritten>>
            \/ Fault /\ res = Nothing /\ unwritten' = unwritten \cup {d} /\ UNCHANGED outputs

(* handleInlineUserDirkeep and a changed marker of handleInheritedDirkeep    *)
EmitKeep(k, res) ==
    /\ IF isOutputCapFull THEN Truncate("max_files") /\ res = Cut /\ UNCHANGED outputs
       ELSE generated' = generated \cup {k} /\ res = Collected /\ UNCHANGED <<inherited, markers, reasons>>
    /\ UNCHANGED <<faults, unwritten>>

(* echoInheritedKeep                                                         *)
EchoKeep(k, res) ==
    /\ IF Cardinality(inherited) >= MaxOut THEN Truncate("max_files") /\ res = Cut /\ UNCHANGED outputs
       ELSE inherited' = inherited \cup {k} /\ res = Collected /\ UNCHANGED <<generated, markers, reasons>>
    /\ UNCHANGED <<faults, unwritten>>

(* handleEmptyDirectory                                                      *)
Vanished(k) == ~ByRef(k) /\ what[k].kind = "absent"
Modified(k) == what[k].input = "ref" /\ what[k].kind = "file" /\ what[k].changed
Keep(d, res) ==
    \/ /\ what[d].name = "edge" /\ Truncate("other") /\ res = Cut
       /\ UNCHANGED <<outputs, faults, unwritten>>
    \/ /\ what[d].name # "edge" /\ (\A k \in KeepOf(d) : ~IsInput(k) \/ Vanished(k))
       /\ CreateMarker(d, res)
    \/ \E k \in KeepOf(d) :
        /\ what[d].name # "edge" /\ IsInput(k) /\ ~Vanished(k)
        /\ IF ~ByRef(k) \/ Modified(k) THEN EmitKeep(k, res) ELSE EchoKeep(k, res)

(* A directory is done: its parent takes what it gave (walkSubdirectory).    *)
Leave ==
    /\ phase = "walk" /\ Len(stack) > 1 /\ Top.todo = {}
    /\ LET i == Len(stack) - 1
           Up1(res) == Took([stack[i] EXCEPT !.todo = @ \cup {Top.dir}], Top.dir, res)
           Done(res) == stack' = [SubSeq(stack, 1, i) EXCEPT ![i] =
                Ended(Up1(res), Cardinality(generated') + Cardinality(markers') >= MaxOut, reasons')] IN
       \E res \in {Nothing, Collected, Cut} :
        /\ IF Status(Top) = "empty" THEN Keep(Top.dir, res)
           ELSE /\ res = (IF Status(Top) = "collected" THEN Collected ELSE Cut)
                /\ UNCHANGED <<outputs, reasons, faults, unwritten>>
        /\ Done(res)
    /\ UNCHANGED <<present, budget, blind, rest>>

(* The workspace is unreadable or a directory cannot be secured: no scan.    *)
WalkFails ==
    /\ phase = "walk" /\ stack # <<>> /\ Fault /\ Truncate("other") /\ stack' = <<>>
    /\ UNCHANGED <<outputs, present, budget, blind, unwritten, rest>>

Least(a, b) == IF a < b THEN a ELSE b

(* The end of handleSessionFiles: deletions, and the inherited references    *)
(* that still fit.                                                           *)
Deletions ==
    IF reasons # {} THEN {}
    ELSE {n \in Nodes : what[n].input = "ref" /\ n \notin present /\ n \notin inherited \cup generated}
Finish ==
    /\ phase = "walk" /\ (stack = <<>> \/ (Len(stack) = 1 /\ Top.todo = {}))
    /\ phase' = "upload" /\ stack' = <<>> /\ deleted' = Deletions
    /\ \E kept \in SUBSET inherited :
        /\ Cardinality(kept) = Least(MaxOut - Count, Cardinality(inherited))
        /\ inherited' = kept /\ reasons' = reasons \cup (IF kept # inherited THEN {"max_files"} ELSE {})
    /\ UNCHANGED <<what, generated, markers, present, budget, aborted, faults, blind, unwritten, uploads>>
-----------------------------------------------------------------------------
(* A new marker is told from a marker found in the directory.                *)
Produced == {<<"file", n>> : n \in generated} \cup {<<"marker", d>> : d \in markers}
uploadVars == <<what, stack, outputs, present, reasons, budget, deleted, blind, unwritten>>

(* uploadGeneratedFiles: a few at a time (mapWithConcurrency).               *)
StartUpload(p) ==
    /\ phase = "upload" /\ ~aborted /\ p \notin uploading \cup uploaded \cup failed
    /\ Cardinality(uploading) < Concurrency /\ uploading' = uploading \cup {p}
    /\ UNCHANGED <<uploadVars, phase, aborted, faults, uploaded, failed, marked>>

(* uploadOneFile: a link is refused, and the transfer may fail.              *)
EndUpload(p) ==
    /\ phase = "upload" /\ p \in uploading /\ uploading' = uploading \ {p}
    /\ \/ ~(p[1] = "file" /\ what[p[2]].kind # "file") /\ uploaded' = uploaded \cup {p} /\ UNCHANGED failed
       \/ failed' = failed \cup {p} /\ UNCHANGED uploaded
    /\ UNCHANGED <<uploadVars, phase, aborted, faults, marked>>

(* The caller disconnects.                                                   *)
Disconnect ==
    /\ phase = "upload" /\ ~aborted /\ aborted' = TRUE
    /\ UNCHANGED <<uploadVars, phase, faults, uploads>>

(* The response: what was uploaded counts as surfaced, the rest is pruned    *)
(* and counted (reconcileArtifactDelivery).  Nobody hears an aborted one.    *)
Respond ==
    /\ phase = "upload" /\ uploading = {} /\ UNCHANGED <<uploadVars, aborted, faults, uploading, uploaded>>
    /\ \/ aborted /\ phase' = "aborted" /\ UNCHANGED <<marked, failed>>
       \/ /\ ~aborted /\ Produced \subseteq uploaded \cup failed /\ phase' = "done"
          /\ marked' = uploaded /\ failed' = Produced \ uploaded

Next ==
    \/ \E n \in Nodes : VisitFile(n) \/ VisitDir(n)
    \/ Leave \/ WalkFails \/ Finish
    \/ \E p \in Produced : StartUpload(p) \/ EndUpload(p)
    \/ Disconnect \/ Respond

Spec == Init /\ [][Next]_vars
-----------------------------------------------------------------------------
TypeOK ==
    /\ generated \subseteq Nodes /\ inherited \subseteq Nodes /\ present \subseteq Nodes
    /\ reasons \subseteq {"max_files", "other"} /\ budget \in 0..MaxProbe
    /\ phase \in {"walk", "upload", "done", "aborted"}

InSight(n) == \A a \in Above[n] \ {Root} : ~PassedOver(a)

(* If nothing is said to be left out, every output is reported, or known to  *)
(* the client already; and every directory that would be lost is kept.       *)
FilesReported ==
    \A n \in Nodes :
        what[n].kind = "file" /\ Supported(n) /\ InSight(n) =>
            n \in generated \cup inherited \/ Suppressed(n) \/ n \in blind
DirectoriesKept ==
    \A d \in Nodes :
        what[d].kind = "dir" /\ InSight(d) /\ ~PassedOver(d) /\ SeemsEmpty(d) =>
            d \in markers \/ d \in unwritten \/ \E k \in KeepOf(d) : k \in inherited \cup generated

(* Deletions are told only of inputs that are gone, and then of all.         *)
Missing == {n \in Nodes : what[n].input = "ref" /\ what[n].kind # "file"}
DeletedRight == deleted = Missing \ (generated \cup inherited)

(* A marker stands for a directory without contents.                         *)
MarkersTrue == \A d \in markers : \A n \in Child(d) : what[n].name = "history" \/ PassedOver(n)

(* What the response names can be fetched, and what it does not is counted.  *)
Delivered ==
    /\ phase = "done" => uploaded \cup failed = Produced /\ uploaded \cap failed = {}
    /\ marked \subseteq uploaded /\ Cardinality(uploading) <= Concurrency

(* The response does not lie about the workspace: unless it says that        *)
(* something was left out, every output is in it, every empty directory is   *)
(* kept, and exactly the missing inputs are deleted; what it calls deleted   *)
(* is so in any case.  The limits hold, and only what was uploaded is named  *)
(* (walkDir, findTruncatedArtifact, handleEmptyDirectory,                    *)
(* handleSessionFiles, uploadGeneratedFiles).                                *)
ArtifactsSafe ==
    /\ TypeOK /\ MarkersTrue /\ Delivered
    /\ phase # "walk" =>
        /\ Count + Cardinality(inherited) <= MaxOut
        /\ reasons = {} => FilesReported /\ DirectoriesKept /\ DeletedRight
        /\ deleted \subseteq Missing
=============================================================================
