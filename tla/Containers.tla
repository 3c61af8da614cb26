----------------------------- MODULE Containers -----------------------------
(***************************************************************************)
(* The three containers of one session, the processes in them, and the     *)
(* docker broker that alone may create, stop and remove them.              *)
(*                                                                         *)
(* The broker serialises its mutations with one FIFO mutex and runs each   *)
(* request to its end, whether or not the client is still connected; reads *)
(* take no lock.  Docker itself is external: a command succeeds, or fails  *)
(* with or without having had its effect.                                  *)
(***************************************************************************)
EXTENDS Naturals, Sequences

CONSTANTS
    FaultModes, \* the combinations of faults that behaviours may meet
    MaxEvents   \* bound on the events the agent writes

\* A docker command or a local I/O fails, a broker call is given up at its
\* deadline, the execution task panics, the service crashes, the broker gets
\* SIGTERM.
FaultKinds == {"docker", "deadline", "panic", "crash", "signal"}

ASSUME FaultModesAssumption == FaultModes \subseteq SUBSET FaultKinds
ASSUME MaxEventsAssumption == MaxEvents \in Nat

VARIABLES
    faults,     \* the faults this behaviour may meet
    cont,       \* docker's view of each container
    agent,      \* the process of the agent container
    cap,        \* the process of the capture container
    ready,      \* AGENT_READY is in the agent's log
    written,    \* events the agent wrote to its stdout
    captured,   \* events the capture copied to events.jsonl
    gate,       \* the advisory lock on start-gate.lock, held by the service
    broker,     \* the broker process
    queue,      \* mutation requests in lock order; the head holds the lock
    bstep,      \* next step of the request that holds the lock
    clean,      \* that request has no diagnostics so far
    reply       \* the answer to the request the service is waiting for

processes == <<agent, cap, ready, written, captured>>
containers == <<cont, processes>>
brokerState == <<broker, queue, bstep, clean, reply>>

Components == {"agent", "relay", "capture"}

\* run_agent.sh and agent_exec: waiting at the start gate, checking the model
\* through the relay, attached to the capture sockets, running the task, with
\* its streams closed.
AgentPhases == {"none", "gate", "preflight", "attached", "task", "closed"}
CapturePhases == {"none", "starting", "listening", "copying", "complete", "aborted", "failed"}
Requests == {"create", "stop", "remove", "sweep", "shutdown"}
CreateSteps == {"c_check", "c_agent", "c_verify", "c_capture", "c_ready", "c_relay", "c_bound"}
RemoveSteps == {"stop_agent", "stop_relay", "stop_capture", "rm_relay", "rm_capture", "rm_agent"}

ContainersType ==
    /\ faults \in FaultModes
    /\ cont \in [Components -> {"absent", "stopped", "running"}]
    /\ agent \in AgentPhases
    /\ cap \in CapturePhases
    /\ ready \in BOOLEAN
    /\ written \in 0..MaxEvents /\ captured \in 0..MaxEvents
    /\ gate \in {"free", "held"}
    /\ broker \in {"up", "stopped", "failed"}
    /\ queue \in Seq([op : Requests, live : BOOLEAN])
    /\ bstep \in {"idle", "s_stop"} \cup CreateSteps \cup RemoveSteps
    /\ clean \in BOOLEAN
    /\ reply \in {"none", "ok", "err"}

ContainersInit ==
    /\ faults \in FaultModes
    /\ cont = [c \in Components |-> "absent"]
    /\ agent = "none" /\ cap = "none" /\ ready = FALSE
    /\ written = 0 /\ captured = 0
    /\ gate = "free"
    /\ broker = "up" /\ queue = <<>> /\ bstep = "idle" /\ clean = TRUE /\ reply = "none"

DockerFails == "docker" \in faults
Up(c) == cont[c] = "running"
Quiet == \A c \in Components : ~Up(c)

-----------------------------------------------------------------------------
(* Docker's effects on a container and the process in it.                  *)

Started(c) ==
    /\ cont' = [cont EXCEPT ![c] = "running"]
    /\ agent' = IF c = "agent" THEN "gate" ELSE agent
    /\ cap' = IF c = "capture" THEN "starting" ELSE cap
    /\ UNCHANGED <<ready, written, captured>>

\* Both streams are at their end and copied.
Drained == agent \notin {"attached", "task"} /\ captured = written

\* SIGTERM, then SIGKILL: the capture finishes if its copies are done,
\* otherwise it aborts without declaring completion.
CaptureSignalled ==
    IF cap \in {"starting", "listening"} THEN {"aborted"}
    ELSE IF cap = "copying" THEN IF Drained THEN {"complete", "aborted"} ELSE {"aborted"}
    ELSE {cap}

Halted(c) ==
    /\ cont' = [cont EXCEPT ![c] = IF @ = "running" THEN "stopped" ELSE @]
    /\ agent' = IF c = "agent" THEN "none" ELSE agent
    /\ cap' \in IF c = "capture" /\ Up(c) THEN CaptureSignalled ELSE {cap}
    /\ UNCHANGED <<ready, written, captured>>

Discarded(c) ==
    /\ cont' = [cont EXCEPT ![c] = "absent"]
    /\ cap' = IF c = "capture" THEN "none" ELSE cap
    /\ ready' = (ready /\ c # "agent")
    /\ UNCHANGED <<agent, written, captured>>

\* A container's process ends by itself.
Exits(c) == cont' = [cont EXCEPT ![c] = "stopped"]

-----------------------------------------------------------------------------
(* The processes in the containers.                                        *)

\* flock on the start gate, then the two requests through the relay.
AgentPassesGate ==
    /\ agent = "gate" /\ gate = "free"
    /\ agent' = "preflight"
    /\ UNCHANGED <<cont, cap, ready, written, captured>>

\* agent_exec connects to both capture sockets and attests its sandbox; it
\* exits when nobody listens there.
AgentAttaches ==
    /\ agent = "preflight" /\ Up("relay")
    /\ IF cap = "listening"
       THEN agent' = "attached" /\ cap' = "copying" /\ UNCHANGED cont
       ELSE agent' = "none" /\ Exits("agent") /\ UNCHANGED cap
    /\ UNCHANGED <<ready, written, captured>>

\* The wrapper logs AGENT_READY and releases agent_exec into the task.
AgentReleased ==
    /\ agent = "attached"
    /\ agent' = "task" /\ ready' = TRUE
    /\ UNCHANGED <<cont, cap, written, captured>>

AgentWrites ==
    /\ agent = "task" /\ written < MaxEvents
    /\ written' = written + 1
    /\ UNCHANGED <<cont, agent, cap, ready, captured>>

AgentCloses ==
    /\ agent = "task"
    /\ agent' = "closed"
    /\ UNCHANGED <<cont, cap, ready, written, captured>>

\* The process ends, by itself or at a failed check, in any phase.
AgentExits ==
    /\ Up("agent")
    /\ agent' = "none" /\ Exits("agent")
    /\ UNCHANGED <<cap, ready, written, captured>>

\* session_capture: binds its sockets and logs CAPTURE_READY, ...
CaptureListens ==
    /\ cap = "starting"
    /\ cap' = "listening"
    /\ UNCHANGED <<cont, agent, ready, written, captured>>

\* Fault: the counter moves by two.
CaptureCopiesTwice ==
    /\ cap = "copying" /\ captured < written
    /\ captured' = captured + 2
    /\ UNCHANGED <<cont, agent, cap, ready, written>>

\* ... copies, ...
CaptureCopies ==
    /\ cap = "copying" /\ captured < written
    /\ captured' = captured + 1
    /\ UNCHANGED <<cont, agent, cap, ready, written>>

\* Fault: completion is declared before the stream has ended.
CaptureCompletesEarly ==
    /\ cap = "copying" /\ captured = written
    /\ cap' = "complete"
    /\ UNCHANGED <<cont, agent, ready, written, captured>>

\* ... and, at the end of both streams and after syncing both files, logs
\* CAPTURE_COMPLETE.
CaptureCompletes ==
    /\ cap = "copying" /\ Drained
    /\ cap' = "complete"
    /\ UNCHANGED <<cont, agent, ready, written, captured>>

\* fixed_relay stops forwarding.
RelayExits ==
    /\ DockerFails
    /\ Up("relay")
    /\ Exits("relay")
    /\ UNCHANGED processes

\* A copy or a sync fails: the capture exits.
CaptureFails ==
    /\ DockerFails
    /\ cap \in {"starting", "listening", "copying"}
    /\ cap' = "failed" /\ Exits("capture")
    /\ UNCHANGED <<agent, ready, written, captured>>

ProcessStep ==
    /\ \/ AgentPassesGate \/ AgentAttaches \/ AgentReleased \/ AgentWrites \/ AgentCloses
       \/ AgentExits \/ CaptureListens \/ CaptureCopies \/ CaptureCompletes \/ CaptureFails \/ RelayExits
    /\ UNCHANGED <<gate, brokerState>>
=============================================================================
