---------------------------- MODULE HostedRunner ----------------------------
(* The supervisor of the resident application in its machine                 *)
(* (api/src/hosted-app.ts).  Starting, stopping and access to the workspace  *)
(* (checkpoint, restore) form a chain of promises, in which one operation    *)
(* runs at a time.  The exit of a process, and the sweep it calls for, come  *)
(* whenever they come.  All processes of applications share one cgroup.      *)
EXTENDS Integers, FiniteSets, Sequences

CONSTANTS
    Calls,      \* requests; a start also names the ActiveHostedApp it creates
    Specs,      \* <<revision, settings>> that may be asked for
    MaxFaults,  \* bound on failing sweeps and setups
    None

VARIABLES
    chain,      \* the operations queued, the first one running
    call,       \* what each request asks for
    step,       \* where the running operation is
    after,      \* where stopImpl returns to
    active,     \* this.active
    state,      \* status.state of each ActiveHostedApp
    process,    \* whether its process field is set
    drained,    \* its cgroupDrained
    specs,      \* revisionSpecs: revision -> settings
    group,      \* processes in the cgroup: <<app, "main">> and <<app, "other">>
    exits,      \* exit events not yet handled
    runnerFaults

vars == <<chain, call, step, after, active, state, process, drained, specs,
          group, exits, runnerFaults>>

Revisions == {s[1] : s \in Specs}
Live == {"starting", "running", "stopping"}

Init ==
    /\ chain = <<>> /\ call = [c \in Calls |-> None]
    /\ step = "take" /\ after = None /\ active = None
    /\ state = [c \in Calls |-> "none"] /\ process = [c \in Calls |-> FALSE]
    /\ drained = [c \in Calls |-> FALSE]
    /\ specs = [r \in Revisions |-> None]
    /\ group = {} /\ exits = {} /\ runnerFaults = 0

Fault == runnerFaults < MaxFaults /\ runnerFaults' = runnerFaults + 1
SetState(a, s) == state' = [state EXCEPT ![a] = s]

(* (Does not wait until the group is empty.)                                 *)
KillUnseen(ok) ==
    /\ ok /\ group' \in SUBSET group /\ UNCHANGED runnerFaults
    /\ exits' = exits \cup {a \in Calls : <<a, "main">> \in group \ group'}

(* killCgroup: the kernel kills every member; TRUE once the group is seen    *)
(* empty.  The exit of a tracked process is reported later.                  *)
KillCgroup(ok) ==
    /\ IF ok THEN group' = {} /\ UNCHANGED runnerFaults
       ELSE group' \in SUBSET group /\ Fault
    /\ exits' = exits \cup {a \in Calls : <<a, "main">> \in group \ group'}

(* serialize: a request, or a sweep, joins the chain.  Requests are named in *)
(* the order of their arrival.                                               *)
Request(c) ==
    /\ call[c] = None /\ c = CHOOSE d \in Calls : call[d] = None
    /\ \E k \in {<<"stop", None>>, <<"access", None>>} \cup ({"start"} \X Specs) :
        call' = [call EXCEPT ![c] = k]
    /\ chain' = Append(chain, <<"call", c>>)
    /\ UNCHANGED <<step, after, active, state, process, drained, specs, group,
                   exits, runnerFaults>>

Running(c) == chain # <<>> /\ Head(chain) = <<"call", c>>
Finish == chain' = Tail(chain) /\ step' = "take" /\ after' = None

-----------------------------------------------------------------------------
(* startImpl up to the first stop: the revision must keep its settings, the  *)
(* same application is already running, or the revision is remembered and    *)
(* the predecessor ended.  Before that, a session, a runtime or a path may   *)
(* be found missing.                                                         *)
StartChecks(c) ==
    LET s == call[c][2] IN
    /\ Running(c) /\ step = "take" /\ call[c][1] = "start"
    /\ \/ specs[s[1]] \notin {None, s[2]} /\ Finish /\ UNCHANGED specs
       \/ /\ active # None /\ state[active] = "running" /\ call[active] = call[c]
          /\ Finish /\ UNCHANGED specs
       \/ /\ specs[s[1]] \in {None, s[2]}
          /\ ~(active # None /\ state[active] = "running" /\ call[active] = call[c])
          /\ specs' = [specs EXCEPT ![s[1]] = s[2]]
          /\ step' = "stop" /\ after' = "prepare" /\ UNCHANGED chain
    /\ UNCHANGED <<call, active, state, process, drained, group, exits, runnerFaults>>

StartRefused(c) ==
    /\ Running(c) /\ step = "take" /\ call[c][1] = "start" /\ Finish
    /\ UNCHANGED <<call, active, state, process, drained, specs, group, exits, runnerFaults>>

(* The workspace is prepared and resolved again, the cgroup swept and        *)
(* limited, the network guarded; any of these may fail.                      *)
Prepare(c) ==
    /\ Running(c) /\ step = "prepare"
    /\ KillCgroup(TRUE) /\ step' = "spawn"
    /\ UNCHANGED <<chain, call, after, active, state, process, drained, specs>>

NotIsolated(c) ==
    /\ Running(c) /\ step = "prepare"
    /\ KillCgroup(FALSE) /\ Finish
    /\ UNCHANGED <<call, active, state, process, drained, specs>>

Spawn(c) ==
    /\ Running(c) /\ step = "spawn"
    /\ active' = c
    /\ \/ /\ SetState(c, "starting") /\ process' = [process EXCEPT ![c] = TRUE]
          /\ group' = group \cup {<<c, "main">>} /\ step' = "probe"
          /\ UNCHANGED <<chain, after, runnerFaults>>
       \/ /\ SetState(c, "failed") /\ UNCHANGED <<process, group>> /\ Finish /\ Fault
    /\ UNCHANGED <<call, drained, specs, exits>>

(* (Trusts the probe.)                                                       *)

(* One round of the wait for the port.  The answer of the probe arrives      *)
(* later than the probe: what became of the process meanwhile is looked at   *)
(* again.                                                                    *)
StillThere(a) == process[a] /\ state[a] # "failed"

Probe(c) ==
    /\ Running(c) /\ step = "probe"
    /\ IF state[c] = "failed" THEN step' = "stop" /\ after' = "failed"
       ELSE step' = "probing" /\ after' = after
    /\ UNCHANGED <<chain, call, active, state, process, drained, specs, group,
                   exits, runnerFaults>>

ProbeAnswers(c) ==
    /\ Running(c) /\ step = "probing"
    /\ \/ ~StillThere(c) /\ step' = "stop" /\ after' = "failed" /\ UNCHANGED <<chain, state>>
       \/ StillThere(c) /\ SetState(c, "running") /\ Finish
       \/ StillThere(c) /\ step' = "probe" /\ UNCHANGED <<chain, after, state>>
       \/ StillThere(c) /\ step' = "stop" /\ after' = "failed" /\ UNCHANGED <<chain, state>>
    /\ UNCHANGED <<call, active, process, drained, specs, group, exits, runnerFaults>>

(* The failed start keeps its record, for the status.                        *)
StartFailed(c) ==
    /\ Running(c) /\ step = "failed"
    /\ SetState(c, "failed") /\ Finish
    /\ UNCHANGED <<call, active, process, drained, specs, group, exits, runnerFaults>>

-----------------------------------------------------------------------------
(* stopImpl.  Without a process only the sweep remains; otherwise SIGTERM,   *)
(* a wait, if need be a kill, and in any case a sweep for descendants.       *)
StopBegins ==
    /\ step = "stop"
    /\ IF active = None THEN step' = after /\ UNCHANGED state
       ELSE IF ~process[active] THEN step' = "sweep" /\ UNCHANGED state
       ELSE SetState(active, "stopping") /\ step' = "term"
    /\ UNCHANGED <<chain, call, after, active, process, drained, specs, group,
                   exits, runnerFaults>>

(* The process exits on SIGTERM and its exit is handled, or the wait ends.   *)
StopWaits ==
    /\ step = "term"
    /\ \/ step' = "sweep" /\ ~process[active] /\ UNCHANGED <<group, exits, runnerFaults>>
       \/ step' = "sweep" /\ process[active] /\ KillCgroup(TRUE)
       \/ step' = "cleanup" /\ process[active] /\ KillCgroup(FALSE)
    /\ UNCHANGED <<chain, call, after, active, state, process, drained, specs>>

(* The last sweep, and the end of stopImpl: the record is dropped unless a   *)
(* failed start keeps it.                                                    *)
StopSweeps ==
    /\ step = "sweep"
    /\ \E ok \in BOOLEAN :
        /\ KillCgroup(ok)
        /\ IF ok
           THEN /\ drained' = [drained EXCEPT ![active] = TRUE]
                /\ SetState(active, "stopped")
                /\ active' = IF after = "failed" THEN active ELSE None
                /\ step' = after
           ELSE step' = "cleanup" /\ UNCHANGED <<drained, state, active>>
    /\ UNCHANGED <<chain, call, after, process, specs>>

StopFails ==
    /\ step = "cleanup"
    /\ drained' = [drained EXCEPT ![active] = FALSE]
    /\ SetState(active, "failed") /\ Finish
    /\ UNCHANGED <<call, active, process, specs, group, exits, runnerFaults>>

StopRequest(c) ==
    /\ Running(c) /\ step = "take" /\ call[c][1] = "stop"
    /\ step' = "stop" /\ after' = "end"
    /\ UNCHANGED <<chain, call, active, state, process, drained, specs, group,
                   exits, runnerFaults>>

End(c) ==
    /\ Running(c) /\ step = "end" /\ Finish
    /\ UNCHANGED <<call, active, state, process, drained, specs, group, exits, runnerFaults>>

-----------------------------------------------------------------------------
(* withQuiescedWorkspace: refused while an application lives; what a failed  *)
(* one may have left is swept first.                                         *)
Access(c) ==
    /\ Running(c) /\ step = "take" /\ call[c][1] = "access"
    /\ IF active = None
       THEN step' = "access" /\ UNCHANGED <<chain, after, drained, group, exits, runnerFaults>>
       ELSE IF state[active] \in Live
       THEN Finish /\ UNCHANGED <<drained, group, exits, runnerFaults>>
       ELSE IF drained[active]
       THEN step' = "access" /\ UNCHANGED <<chain, after, drained, group, exits, runnerFaults>>
       ELSE \E ok \in BOOLEAN :
             /\ KillCgroup(ok)
             /\ IF ok THEN /\ drained' = [drained EXCEPT ![active] = TRUE]
                           /\ step' = "access" /\ UNCHANGED <<chain, after>>
                ELSE Finish /\ UNCHANGED drained
    /\ UNCHANGED <<call, active, state, process, specs>>

AccessEnds(c) ==
    /\ Running(c) /\ step = "access" /\ Finish
    /\ UNCHANGED <<call, active, state, process, drained, specs, group, exits, runnerFaults>>

-----------------------------------------------------------------------------
(* The exit event of a process.  Unless a stop expected it, it queues a      *)
(* sweep of what the process left behind.                                    *)
Exited(a) ==
    /\ a \in exits
    /\ exits' = exits \ {a}
    /\ process' = [process EXCEPT ![a] = FALSE]
    /\ SetState(a, CASE state[a] = "stopping" -> "stopped"
                     [] state[a] = "stopped" -> "stopped"
                     [] OTHER -> "failed")
    /\ chain' = IF state'[a] = "stopped" THEN chain ELSE Append(chain, <<"sweep", a>>)
    /\ UNCHANGED <<call, step, after, active, drained, specs, group, runnerFaults>>

(* (Whatever runs now.)                                                      *)

(* The queued sweep; it must not hit a successor.                            *)
SweepIsDue(a) == active = a /\ state[a] # "stopped"

Sweep ==
    /\ chain # <<>> /\ Head(chain)[1] = "sweep" /\ step = "take"
    /\ LET a == Head(chain)[2] IN
        IF ~SweepIsDue(a) THEN UNCHANGED <<drained, group, exits, runnerFaults>>
        ELSE \E ok \in BOOLEAN :
             /\ KillCgroup(ok)
             /\ drained' = [drained EXCEPT ![a] = @ \/ ok]
    /\ Finish
    /\ UNCHANGED <<call, active, state, process, specs>>

-----------------------------------------------------------------------------
(* The processes: a descendant leaves the process group, a process ends.     *)
Daemonize(a) ==
    /\ <<a, "main">> \in group
    /\ group' = group \cup {<<a, "other">>}
    /\ UNCHANGED <<chain, call, step, after, active, state, process, drained, specs,
                   exits, runnerFaults>>

ProcessEnds(p) ==
    /\ p \in group
    /\ group' = group \ {p}
    /\ exits' = IF p[2] = "main" THEN exits \cup {p[1]} ELSE exits
    /\ UNCHANGED <<chain, call, step, after, active, state, process, drained, specs,
                   runnerFaults>>

Next ==
    \/ \E c \in Calls :
        \/ Request(c) \/ StartChecks(c) \/ StartRefused(c) \/ Prepare(c)
        \/ NotIsolated(c) \/ Spawn(c) \/ Probe(c) \/ ProbeAnswers(c)
        \/ StartFailed(c) \/ StopRequest(c) \/ End(c)
        \/ Access(c) \/ AccessEnds(c) \/ Exited(c) \/ Daemonize(c)
    \/ StopBegins \/ StopWaits \/ StopSweeps \/ StopFails \/ Sweep
    \/ \E p \in group : ProcessEnds(p)

Spec == Init /\ [][Next]_vars

-----------------------------------------------------------------------------
(* The types of the supervisor's state.                                      *)
TypeOK ==
    /\ active \in Calls \cup {None}
    /\ state \in [Calls -> {"none", "starting", "running", "stopping", "stopped", "failed"}]
    /\ process \in [Calls -> BOOLEAN] /\ drained \in [Calls -> BOOLEAN]
    /\ group \subseteq Calls \X {"main", "other"} /\ exits \subseteq Calls
    /\ runnerFaults \in 0 .. MaxFaults

(* While a checkpoint or a restore works on the workspace, no process of an  *)
(* application exists, not even a descendant of one that failed or whose     *)
(* stop failed.                                                              *)
WorkspaceQuiet == step = "access" => group = {}

(* Only one application at a time has processes, so a new revision never     *)
(* shares the workspace and the port with its predecessor.                   *)
OneApplication == \A p, q \in group : p[1] = q[1]

(* The sweep that the exit of an earlier process queued never kills the      *)
(* process of an application that is starting or running.                    *)
SweepSparesSuccessor ==
    chain # <<>> /\ Head(chain)[1] = "sweep" /\ chain' = Tail(chain) =>
     \A a \in Calls : process[a] /\ state[a] \in {"starting", "running"} /\ a \notin exits
                      => a \notin exits'

(* An application is reported as running only as long as its exit has not    *)
(* been seen, although it may exit between a probe and its answer.           *)
RunningIsTrue == \A a \in Calls : state[a] = "running" => process[a]

Inv == TypeOK /\ WorkspaceQuiet /\ OneApplication /\ RunningIsTrue

(* What the rest of the guest may rely on: the workspace is quiet when it is *)
(* archived or replaced, one application runs, and the supervisor neither    *)
(* reports nor kills the wrong one.                                          *)
SupervisorSafe == []Inv /\ [][SweepSparesSuccessor]_vars
=============================================================================
