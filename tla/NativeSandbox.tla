--------------------------- MODULE NativeSandbox ----------------------------
(* Inside an executor process: the sandbox of one workspace                  *)
(* (packages/code/src/native-sandbox.ts), the commands it runs, and the      *)
(* replayed programs (native-programmatic.ts).  A program that calls tools   *)
(* is first run as a probe, on a clone of the workspace and without network, *)
(* until it asks for no more tool results; only then it runs for real.  The  *)
(* process takes one request at a time (native-process-child.ts), but it may *)
(* be told to shut down in the middle of one.                                *)
EXTENDS Integers, FiniteSets

CONSTANTS
    Files,          \* the input files of a program, and its output files
    MaxTools,       \* tool calls a program may make
    MaxRequests, MaxFaults,
    None

VARIABLES
    kind, pc,       \* the request at work: "command", "program" or "close"
    requests,
    aborted,
    outcome,        \* of the last request
    ready,          \* initialized
    manager,        \* the sandbox runtime: "off", "real" or "probe" network
    scratch,        \* the private scratch directory exists
    resetFailed, execution, closing,    \* of the sandbox object
    awaited,        \* close() waits for the running command
    shutting,
    child,          \* the live process: None, "command", "probe" or "real"
    edir,           \* the execution directory of the program exists
    transfers, broken,  \* transfers under way; one has failed
    tools, resolved,    \* calls the program makes, and those already answered
    dispatched,     \* the real run was announced
    effects,        \* times the program has run for real
    faults

vars == <<kind, pc, requests, aborted, outcome, ready, manager, scratch, resetFailed, execution,
          closing, awaited, shutting, child, edir, transfers, broken, tools, resolved, dispatched,
          effects, faults>>
object == <<ready, manager, scratch, resetFailed>>
shut == <<closing, awaited, shutting>>
replay == <<tools, resolved, effects>>
moving == <<transfers, broken>>
other == <<requests, shut, replay>>

Init ==
    /\ kind = None /\ pc = "idle" /\ requests = 0 /\ aborted = FALSE /\ outcome = "none"
    /\ ready = FALSE /\ manager = "off" /\ scratch = FALSE /\ resetFailed = FALSE
    /\ execution = FALSE /\ closing = "no" /\ awaited = FALSE /\ shutting = FALSE
    /\ child = None /\ edir = FALSE /\ transfers = {} /\ broken = FALSE
    /\ tools \in 0..MaxTools /\ resolved = 0 /\ dispatched = FALSE /\ effects = 0 /\ faults = 0

Fault == faults < MaxFaults /\ faults' = faults + 1
Goes(l) == pc' = l /\ UNCHANGED outcome

(* A request fails: "clean" when nothing can have happened, "stopped" when a *)
(* command was killed, and "unknown" otherwise.  Before the real run of a    *)
(* program every failure is clean, after it none.                            *)
Classify(o) ==
    IF kind # "program" THEN o
    ELSE IF ~dispatched THEN "clean" ELSE IF o = "clean" THEN "unknown" ELSE o
Ends(o) == outcome' = o /\ pc' = IF kind = "program" /\ edir THEN "cleanup" ELSE "reply"
Fails(o) == Ends(Classify(o))
-----------------------------------------------------------------------------
(* A request arrives; a program comes back with the answers to its calls.    *)
Arrive ==
    /\ pc = "idle" /\ ~shutting /\ requests < MaxRequests /\ requests' = requests + 1
    /\ kind' \in {"command", "program", "close"}
    /\ outcome # "unknown" \/ kind' = "close"
    /\ kind' = "program" => effects = 0
    /\ kind' = "close" => closing = "no"
    /\ pc' = IF kind' = "close" THEN "closing" ELSE "init"
    /\ aborted' = FALSE /\ dispatched' = FALSE /\ broken' = FALSE /\ outcome' = "none"
    /\ resolved' = IF kind' = "program" /\ outcome = "pending" THEN resolved + 1 ELSE resolved
    /\ execution' = (kind' = "command")
    /\ IF kind' = "close" THEN closing' = "wait" /\ awaited' = FALSE ELSE UNCHANGED <<closing, awaited>>
    /\ UNCHANGED <<object, shutting, child, edir, transfers, tools, effects, faults>>

Abort ==
    /\ pc \notin {"idle", "gone"} /\ kind # "close" /\ ~aborted /\ aborted' = TRUE
    /\ UNCHANGED <<kind, pc, requests, outcome, object, execution, shut, child, edir, moving, replay,
                   dispatched, faults>>

(* initializeOnce takes over the manager and makes a scratch directory; what *)
(* fails is undone, and a manager that cannot be reset is not used again.    *)
MakesScratch == ~scratch /\ scratch' = TRUE
TakesManager == ready' = TRUE /\ manager' = "real"
Initialized ==
    \/ ready /\ UNCHANGED <<object, faults>>
    \/ ~ready /\ MakesScratch /\ TakesManager /\ UNCHANGED <<resetFailed, faults>>
Refused == closing # "no" \/ resetFailed

(* initialize                                                                *)
Initialize ==
    /\ pc = "init"
    /\ \/ ~Refused /\ ~aborted /\ Initialized /\ Goes(IF kind = "program" THEN "mkdir" ELSE "wrap")
       \/ ~Refused /\ ~aborted /\ ~ready /\ Fault /\ Fails("clean") /\ resetFailed' \in BOOLEAN
          /\ UNCHANGED <<ready, manager, scratch>>
       \/ (Refused \/ aborted \/ (~ready /\ scratch)) /\ Fails("clean") /\ UNCHANGED <<object, faults>>
    /\ UNCHANGED <<kind, aborted, execution, child, edir, moving, dispatched, other>>

(* createExecutionDirectory, and the downloads begin.                        *)
MakeDirectory ==
    /\ pc = "mkdir"
    /\ IF scratch THEN edir' = TRUE /\ transfers' = Files /\ Goes("inputs")
       ELSE Fails("clean") /\ UNCHANGED <<edir, transfers>>
    /\ UNCHANGED <<kind, aborted, object, execution, child, broken, dispatched, other, faults>>

(* A transfer ends.  A download that fails fails the program, an upload only *)
(* when the program was cancelled.                                           *)
Transfer(f) ==
    /\ f \in transfers /\ transfers' = transfers \ {f}
    /\ \/ UNCHANGED <<broken, faults>>
       \/ aborted /\ broken' = TRUE /\ UNCHANGED faults
       \/ Fault /\ broken' = (broken \/ pc = "inputs")
    /\ UNCHANGED <<kind, pc, aborted, outcome, object, execution, child, edir, dispatched, other>>

(* mapConcurrent waits for every transfer.                                   *)
Settled == transfers = {}

Gathered ==
    /\ pc = "inputs" /\ Settled
    /\ IF broken \/ ~scratch THEN Fails("clean")
       ELSE Goes("clone") \/ (tools = 0 /\ Goes("ack"))
    /\ UNCHANGED <<kind, aborted, object, execution, child, edir, moving, dispatched, other, faults>>

(* createProgrammaticProbeWorkspace                                          *)
Clone ==
    /\ pc = "clone"
    /\ \/ ~aborted /\ scratch /\ ~Refused /\ Goes("enter") /\ UNCHANGED faults
       \/ (aborted \/ ~scratch \/ Refused) /\ Fails("clean") /\ UNCHANGED faults
       \/ Fault /\ Fails("clean")
    /\ UNCHANGED <<kind, aborted, object, execution, child, edir, moving, dispatched, other>>

(* The real run is announced, and acknowledged unless it is cancelled.       *)
BeforeCommit ==
    /\ pc = "ack"
    /\ IF aborted THEN Fails("clean") /\ UNCHANGED dispatched ELSE Goes("enter") /\ dispatched' = TRUE
    /\ UNCHANGED <<kind, aborted, object, execution, child, edir, moving, other, faults>>

(* executeProgrammatic checks that the sandbox is free ...                   *)
Enter ==
    /\ pc = "enter"
    /\ IF execution \/ Refused \/ ~scratch THEN Fails("clean") ELSE Goes("occupy")
    /\ UNCHANGED <<kind, aborted, object, execution, child, edir, moving, dispatched, other, faults>>

(* ... waits, and then occupies it; a probe switches the network off.        *)
Occupy ==
    /\ pc = "occupy" /\ execution' = TRUE /\ Goes("wrap")
    /\ manager' = IF ~dispatched THEN "probe" ELSE manager
    /\ UNCHANGED <<kind, aborted, ready, scratch, resetFailed, child, edir, moving, dispatched, other, faults>>

Probing == kind = "program" /\ ~dispatched
Role == IF kind = "command" THEN "command" ELSE IF dispatched THEN "real" ELSE "probe"

(* Every way out of executeExclusive frees the sandbox, that of a probe      *)
(* after the network was reset.                                              *)
Leaves(o) ==
    IF Probing THEN outcome' = o /\ pc' = "restore" /\ UNCHANGED execution
    ELSE Fails(o) /\ execution' = FALSE

(* executeBound: the sandbox must still be open; then the command is wrapped *)
(* ...                                                                       *)
Wrap ==
    /\ pc = "wrap"
    /\ \/ ~aborted /\ ~Refused /\ ready /\ Goes("start") /\ UNCHANGED <<execution, faults>>
       \/ (aborted \/ Refused \/ ~ready) /\ Leaves("clean") /\ UNCHANGED faults
       \/ Fault /\ Leaves("clean")
    /\ UNCHANGED <<kind, aborted, object, child, edir, moving, dispatched, other>>

(* ... and started, unless it was cancelled meanwhile.                       *)
Start ==
    /\ pc = "start"
    /\ IF aborted THEN Leaves("clean") /\ UNCHANGED <<child, effects>>
       ELSE /\ child' = Role /\ Goes("running") /\ UNCHANGED execution
            /\ effects' = IF Role = "real" THEN effects + 1 ELSE effects
    /\ UNCHANGED <<kind, aborted, object, edir, moving, dispatched, requests, shut, tools, resolved,
                   faults>>

(* runWrapped: the command ends or times out, or it is killed.  A command    *)
(* that could not be started after all may have been.                        *)
Exits ==
    /\ pc = "running" /\ child' = None
    /\ \/ ~aborted /\ UNCHANGED faults
          /\ IF Probing THEN Goes("restore") /\ UNCHANGED execution
             ELSE /\ execution' = FALSE
                  /\ IF kind = "command" THEN Ends("done") ELSE Goes("collect")
       \/ aborted /\ Leaves("stopped") /\ UNCHANGED faults
       \/ Fault /\ Leaves("unknown")
    /\ UNCHANGED <<kind, aborted, object, edir, moving, dispatched, other>>

(* withProbeNetwork ends: a new session of the manager replaces the probe's. *)
Restore ==
    /\ pc = "restore"
    /\ \/ /\ manager' = "real" /\ UNCHANGED <<resetFailed, faults>>
          /\ IF outcome = "none" THEN Goes("read") ELSE Fails(outcome)
       \/ Fault /\ manager' = "off" /\ resetFailed' = TRUE /\ Fails("clean")
    /\ execution' = FALSE
    /\ UNCHANGED <<kind, aborted, ready, scratch, child, edir, moving, dispatched, other>>

(* The probe has asked for another tool result.                              *)
AsksForTool == resolved < tools

(* Pending calls are reported; a probe that timed out is the result.         *)
ReadProbe ==
    /\ pc = "read"
    /\ \/ AsksForTool /\ Ends("pending")
       \/ ~AsksForTool /\ (Goes("ack") \/ Ends("done") \/ Fails("clean"))
    /\ UNCHANGED <<kind, aborted, object, execution, child, edir, moving, dispatched, other, faults>>

(* The real run may still ask for a tool, or exceed a limit.                 *)
Collect ==
    /\ pc = "collect"
    /\ \/ scratch /\ Goes("outputs") /\ transfers' = Files
       \/ Fails("unknown") /\ UNCHANGED transfers
    /\ UNCHANGED <<kind, aborted, object, execution, child, edir, broken, dispatched, other, faults>>

Delivered ==
    /\ pc = "outputs" /\ Settled
    /\ IF broken THEN Fails("unknown") ELSE Ends("done")
    /\ UNCHANGED <<kind, aborted, object, execution, child, edir, moving, dispatched, other, faults>>

(* The execution directory is removed, whatever happened; what cannot be     *)
(* removed stays in the scratch directory.                                   *)
Cleanup ==
    /\ pc = "cleanup" /\ pc' = "reply"
    /\ \/ edir' = FALSE /\ UNCHANGED <<outcome, faults>>
       \/ Fault /\ edir' = FALSE /\ outcome' = Classify("clean")
    /\ UNCHANGED <<kind, aborted, object, execution, child, moving, dispatched, other>>

Reply ==
    /\ pc = "reply" /\ pc' = "idle" /\ execution' = (kind # "command" /\ execution)
    /\ UNCHANGED <<kind, aborted, outcome, object, child, edir, moving, dispatched, other, faults>>
-----------------------------------------------------------------------------
(* (Does not wait for a command.)                                            *)
AwaitsNothing == FALSE

(* What close() waits for.                                                   *)
Awaits == execution

(* The parent is gone or tells the process to stop: the request is cancelled *)
(* and the sandbox closed.                                                   *)
Shutdown ==
    /\ ~shutting /\ shutting' = TRUE /\ pc # "gone"
    /\ aborted' = TRUE
    /\ IF closing = "no" THEN closing' = "wait" /\ awaited' = Awaits
       ELSE UNCHANGED <<closing, awaited>>
    /\ UNCHANGED <<kind, pc, requests, outcome, object, execution, child, edir, moving, replay,
                   dispatched, faults>>

(* closeExclusive: after the command that ran when it was called ...         *)
CloseResets ==
    /\ closing = "wait" /\ (awaited => ~execution)
    /\ \/ closing' = "remove" /\ manager' = "off" /\ ready' = FALSE /\ resetFailed' = FALSE /\ UNCHANGED faults
       \/ Fault /\ closing' = "failed" /\ resetFailed' = TRUE /\ UNCHANGED <<manager, ready>>
    /\ UNCHANGED <<kind, pc, requests, aborted, outcome, scratch, execution, awaited, shutting, child,
                   edir, moving, replay, dispatched>>

RemovesScratch == scratch' = FALSE /\ edir' = FALSE

(* ... and the manager's reset the scratch directory goes.                   *)
CloseRemoves ==
    /\ closing = "remove"
    /\ \/ RemovesScratch /\ closing' = "closed" /\ UNCHANGED faults
       \/ Fault /\ closing' = "failed" /\ UNCHANGED <<scratch, edir>>
    /\ UNCHANGED <<kind, pc, requests, aborted, outcome, ready, manager, resetFailed, execution, awaited,
                   shutting, child, moving, replay, dispatched>>

(* The process exits, or the close request is answered.                      *)
Closed ==
    /\ closing \in {"closed", "failed"}
    /\ IF shutting THEN pc' = "gone" /\ child' = None /\ UNCHANGED <<closing, outcome>>
       ELSE /\ closing' = "no" /\ pc' = "reply" /\ UNCHANGED child
            /\ outcome' = IF closing = "closed" THEN "done" ELSE "clean"
    /\ pc # "gone"
    /\ UNCHANGED <<kind, requests, aborted, object, execution, awaited, shutting, edir, moving, replay,
                   dispatched, faults>>

Next ==
    \/ Arrive \/ Abort \/ Initialize \/ MakeDirectory \/ Gathered \/ Clone \/ BeforeCommit \/ Enter
    \/ Occupy \/ Wrap \/ Start \/ Exits \/ Restore \/ ReadProbe \/ Collect \/ Delivered \/ Cleanup \/ Reply
    \/ Shutdown \/ CloseResets \/ CloseRemoves \/ Closed
    \/ \E f \in Files : pc # "gone" /\ Transfer(f)

Spec == Init /\ [][Next]_vars
-----------------------------------------------------------------------------
TypeOK ==
    /\ manager \in {"off", "real", "probe"} /\ child \in {None, "command", "probe", "real"}
    /\ outcome \in {"none", "done", "pending", "clean", "stopped", "unknown"}

(* A probe runs without network and everything else with it, and nothing is  *)
(* taken away from under a live process.                                     *)
ChildSheltered ==
    child # None =>
        /\ manager = IF child = "probe" THEN "probe" ELSE "real"
        /\ scratch /\ ~resetFailed /\ (child # "command" => edir)

(* The directory of a program is not removed while a transfer uses it.       *)
TransfersSheltered == transfers # {} /\ closing = "no" => edir

(* However often a program is replayed, it runs for real at most once, and   *)
(* not before its calls were answered.                                       *)
CommitsOnce == effects <= 1 /\ (effects = 1 => resolved >= tools)

(* What is reported as clean, or as waiting for tools, has had no effect.    *)
CleanHasNoEffect ==
    kind = "program" /\ outcome \in {"clean", "pending"} => effects = 0

(* Replaying a program is invisible until its one real run: probes change    *)
(* nothing and reach nothing, a failure says truthfully whether there was an *)
(* effect, and closing never pulls a directory or a session from under a     *)
(* running process (native-programmatic.ts execute, native-sandbox.ts        *)
(* withProbeNetwork, closeExclusive).                                        *)
ProgramSafe ==
    TypeOK /\ ChildSheltered /\ TransfersSheltered /\ CommitsOnce /\ CleanHasNoEffect
=============================================================================
