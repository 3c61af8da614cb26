------------------------------ MODULE Topology ------------------------------
(***************************************************************************)
(* One session's containers, the broker and the service together.          *)
(***************************************************************************)
EXTENDS SessionRun

Init == ContainersInit /\ SessionInit

\* The agent has gone past the gate.
RanAfter == ran' = (ran \/ agent' \notin {"none", "gate"})

Next ==
    /\ \/ ProcessStep /\ UNCHANGED session
       \/ BrokerStep /\ UNCHANGED session
       \/ ServiceStep \/ Cancel \/ DeadlinePasses \/ ExecutionPanics \/ ServiceCrashes
    /\ RanAfter /\ UNCHANGED faults

BrokerProgress ==
    BrokerWork /\ RanAfter /\ UNCHANGED <<session, faults>>
ServiceProgress == ServiceStep /\ RanAfter /\ UNCHANGED faults
CaptureProgress ==
    /\ CaptureListens \/ CaptureCopies \/ CaptureCompletes
    /\ RanAfter /\ UNCHANGED <<gate, brokerState, session, faults>>

\* The broker and the service are running tasks, the capture a running
\* process; the agent owes nobody progress.
Fairness == WF_vars(BrokerProgress) /\ WF_vars(ServiceProgress) /\ WF_vars(CaptureProgress)

Spec == Init /\ [][Next]_vars
FairSpec == Spec /\ Fairness

-----------------------------------------------------------------------------
\* Every variable holds a value of the kind the code gives it.
TopologyType == ContainersType /\ SessionType

Gone == \A c \in Components : cont[c] = "absent"

\* A tree whose quiescence was proved is never written to again: no container
\* of the session runs while it is bundled or afterwards.  The proof is three
\* separate unlocked observations, and creations and removals of abandoned
\* requests may still be queued at the broker (remove_and_prove_quiescent).
BundledTreeQuiet == spc \in {"bundle", "end"} /\ proof.quiescent /\ ~timedOut => Quiet

\* When the raw tree is given up, no container of the session exists or can
\* still be created, whatever calls timed out (raw_retention_decision).
RemovedTreeUnused == spc = "end" /\ ~MustRetain(proof, bundled) => Gone

\* A task that ran although it was cancelled before the gate was released is
\* reported as a process error (launch_decision, the start gate held through
\* setup-failure removal).
EarlyCancelReported == early /\ ran /\ spc = "end" => perror

\* A session reported without a process error left no container and has its
\* bundle and, if it ended by itself, its whole transcript (process_outcome).
SuccessIsReal ==
    spc = "end" /\ ~perror => /\ Gone /\ bundled
                              /\ status = "Ended" => launched /\ captured = written

\* A stream is certified only when all that the agent wrote was copied and it
\* can write no more (settle_running_agent, wait_capture_complete).
CertifiedComplete == certified => captured = written /\ agent \notin {"attached", "task"}

\* A broker that reported a complete shutdown sweep left nothing behind, even
\* with requests still queued at the time (docker_broker main).
StoppedBrokerLeavesNothing == broker = "stopped" => Gone

\* A cancelled session comes to its end, unless the service is down, its task
\* panicked, or neither stop nor removal could end the agent.
CancelSettles ==
    cancelled ~> (spc \in {"end", "down"} \/ panicked \/ (spc = "rewait" /\ Up("agent")))

\* No task code runs before the service releases the gate, because removal
\* comes after creation and the gate is held until then (run_one).
TaskWaitsForLaunch == ran => launched

\* The recovery of a panicked execution comes to its end.
PanicRecoveryEnds == panicked ~> spc = "end"

-----------------------------------------------------------------------------
(* The inductive invariant the safety properties rest on.                  *)

NoCreate == \A i \in DOMAIN queue : queue[i].op # "create"
Proving == {"prove_agent", "prove_relay", "prove_capture"}
Closing == {"teardown", "removing", "bundle", "end"} \cup Proving
Recovering == {"panic", "panic_stop", "panic_drain", "down", "sweeping"}
LaunchedSteps ==
    {"await", "settle", "wait_stop", "capture_stop", "cancel_stop", "cancel_remove", "rewait",
     "drain"}

\* What the service waits for at each of its steps.
Awaits(op) ==
    \/ op = "create" /\ spc = "creating"
    \/ op = "stop" /\ spc \in {"wait_stop", "capture_stop", "cancel_stop", "panic_stop"}
    \/ op = "remove" /\ spc \in {"cancel_remove", "removing"}
    \/ op = "sweep" /\ spc = "sweeping"

\* A process lives in a running container; a complete capture has all there
\* is and will ever be.
ProcessInv ==
    /\ agent # "none" => Up("agent")
    /\ cap \in {"starting", "listening", "copying"} => Up("capture")
    /\ cap = "complete" => captured = written /\ agent \notin {"attached", "task"}
    /\ agent \notin {"none", "gate"} => ran

\* The step the lock's holder is at fits its request, and what a removal
\* without diagnostics has passed is absent.
LockInv ==
    /\ broker # "up" => queue = <<>>
    /\ queue = <<>> => bstep = "idle"
    /\ bstep = "idle" => clean
    /\ bstep \in CreateSteps => Head1.op = "create"
    /\ bstep = "s_stop" => Head1.op = "stop"
    /\ bstep \in RemoveSteps => Head1.op # "stop" /\ (Sweeping => clean)
    /\ bstep = "c_agent" => Gone
    /\ bstep \in {"c_verify", "c_capture"} => cont["capture"] = "absent"
    /\ clean /\ bstep \in {"rm_capture", "rm_agent"} => cont["relay"] = "absent"
    /\ clean /\ bstep = "rm_agent" => cont["capture"] = "absent"
    /\ broker = "stopped" => Gone

\* Only a shutdown is queued ahead of a creation, and at most one request has
\* somebody waiting for it.
QueueInv ==
    /\ \A i, j \in DOMAIN queue :
          i < j /\ queue[j].op = "create" => queue[i].op = "shutdown"
    /\ \A i \in DOMAIN queue :
          queue[i].live =>
              /\ Awaits(queue[i].op) /\ reply = "none"
              /\ \A j \in DOMAIN queue : queue[j].live => j = i

\* The session's containers are created once, after "gate", and when the
\* removal has been answered no creation is left.
CreationInv ==
    /\ spc \in {"stage", "gate"} =>
          Gone /\ \A i \in DOMAIN queue : queue[i].op = "shutdown"
    /\ spc = "creating" /\ reply = "ok" => NoCreate
    /\ spc \in {"created", "launch"} \cup LaunchedSteps => NoCreate
    /\ spc = "removing" /\ reply = "ok" => Gone /\ NoCreate
    /\ removal => spc \in Proving /\ Gone /\ NoCreate
    /\ spc \in {"bundle", "end"} /\ proof.complete => Gone /\ NoCreate
    /\ certified => /\ spc \in Closing /\ NoCreate
                   /\ captured = written /\ agent \notin {"attached", "task"}
                   /\ cap \notin {"starting", "listening"}

\* Without a call given up at its deadline, the observations of the
\* quiescence proof remain true while it goes on.
SightInv ==
    ~timedOut =>
        /\ spc = "removing" /\ reply # "none" => NoCreate
        /\ spc \in Proving \cup {"bundle", "end"} => NoCreate
        /\ spc \in {"prove_relay", "prove_capture"} /\ seen.quiet => ~Up("agent")
        /\ spc = "prove_capture" /\ seen.quiet => ~Up("relay")
        /\ spc \in {"bundle", "end"} /\ proof.quiescent => Quiet

\* Who may have released the start gate, and how a session that was launched,
\* was cancelled early or was recovered is finalised.
EndingInv ==
    /\ early => cancelled /\ ~launched
    /\ spc \in LaunchedSteps => launched
    /\ spc \in Closing /\ phase = "Normal" => launched
    /\ panicked \/ crashed =>
          \/ spc \in Recovering
          \/ spc \in Closing /\ phase \in {"PanicRecovery", "ServiceRestart"}
    /\ gate = "free" => launched \/ panicked \/ crashed \/ spc \in {"stage", "bundle", "end"}
    /\ ran => \/ launched \/ panicked \/ crashed
              \/ spc \in {"bundle", "end"} /\ ~proof.complete
    /\ spc \in Proving /\ ~diag => removal
    /\ spc \in {"bundle", "end"} /\ ~diag => proof.complete
    /\ spc = "end" /\ ~perror => ~ProcessError /\ bundled

\* What holds between the service's step, the broker's queue and the
\* containers in every state, and implies each of the invariants above.
TopologyInv ==
    /\ TopologyType /\ ProcessInv /\ LockInv /\ QueueInv
    /\ CreationInv /\ SightInv /\ EndingInv
=============================================================================
