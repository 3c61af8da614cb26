----------------------------- MODULE SessionRun -----------------------------
(***************************************************************************)
(* The service's side of one session: run_one, its finalisations and the   *)
(* recoveries after a panic of the execution task and after a restart of   *)
(* the service.  Every broker call is two steps, the request and what the  *)
(* service does with the answer, so the broker, the containers, a          *)
(* cancellation and a deadline can come between.                           *)
(***************************************************************************)
EXTENDS Broker

VARIABLES
    spc,        \* where the session's execution is
    cancelled,  \* the cancellation token
    phase,      \* the FinalizationPhase it ends in
    status,     \* the SessionStatus it ends with
    producer,   \* producer_stopped
    certified,  \* the capture's byte count was proved
    removal,    \* remove_session succeeded
    seen,       \* what the quiescence proof has observed so far
    proof,      \* the TeardownProof
    diag,       \* teardown_diagnostics is not empty
    bundled,    \* accepted_bundle
    perror,     \* is_process_error
    launched,   \* the service released the start gate
    early,      \* the cancellation came before the release
    timedOut,   \* a broker call was given up at its deadline
    panicked, crashed,
    ran         \* the agent went past the start gate

ending == <<phase, status, bundled, perror>>
evidence == <<producer, certified, removal, seen, proof, diag>>
history == <<launched, early, timedOut, panicked, crashed>>
session == <<spc, cancelled, evidence, ending, history>>
vars == <<containers, gate, brokerState, session, ran, faults>>

Proofs == [complete : BOOLEAN, quiescent : BOOLEAN]
Sightings == [absent : BOOLEAN, quiet : BOOLEAN]
Unseen == [absent |-> TRUE, quiet |-> TRUE]

ServiceSteps ==
    {"stage", "gate", "creating", "created", "launch", "await", "settle", "wait_stop",
     "capture_stop", "cancel_stop", "cancel_remove", "rewait", "drain", "teardown", "removing",
     "prove_agent", "prove_relay", "prove_capture", "bundle", "end", "panic", "panic_stop",
     "panic_drain", "down", "sweeping"}

SessionType ==
    /\ spc \in ServiceSteps
    /\ phase \in {"Normal", "SetupFailure", "PanicRecovery", "ServiceRestart"}
    /\ status \in {"Ended", "Cancelled"}
    /\ {cancelled, launched, early, ran, producer, certified, removal, diag, bundled, perror,
        timedOut, panicked, crashed} \subseteq BOOLEAN
    /\ proof \in Proofs /\ seen \in Sightings

SessionInit ==
    /\ spc = "stage" /\ cancelled = FALSE
    /\ phase = "Normal" /\ status = "Ended" /\ bundled = FALSE /\ perror = FALSE
    /\ producer = FALSE /\ certified = FALSE /\ removal = FALSE /\ diag = FALSE
    /\ proof = [complete |-> FALSE, quiescent |-> FALSE] /\ seen = Unseen
    /\ launched = FALSE /\ early = FALSE /\ ran = FALSE
    /\ timedOut = FALSE /\ panicked = FALSE /\ crashed = FALSE

At(step) == spc = step
To(step) == spc' = step
NoDocker == UNCHANGED <<containers, gate, brokerState>>
KeepHistory == UNCHANGED <<cancelled, history>>
KeepResult == UNCHANGED <<ending, evidence>>

Token == IF cancelled THEN "Cancelled" ELSE "Ended"

\* The session ends in this phase with this status, after the step given.
Ends(p, s, step) ==
    phase' = p /\ status' = s /\ To(step) /\ UNCHANGED <<bundled, perror>>

\* finalize_started_setup_failure: the containers go first.
SetupFails(s) == Ends("SetupFailure", s, "teardown") /\ UNCHANGED evidence

\* docker_ops::call: without a broker the connection fails at once.
Call(op, step) ==
    /\ To(step)
    /\ IF broker = "up" THEN Submitted(op)
       ELSE reply' = "err" /\ UNCHANGED <<broker, queue, bstep, clean>>

\* The answer has been read.
Reply(result) == reply = result /\ reply' = "none" /\ UNCHANGED <<broker, queue, bstep, clean>>

\* A read-only request fails when docker does or the broker has exited.
ReadFails == DockerFails \/ broker # "up"

-----------------------------------------------------------------------------
(* Setting the topology up.                                                *)

\* finalize_pre_agent_exit: nothing was submitted, so nothing is removed.
PreAgentExit ==
    /\ At("stage") \/ At("gate")
    /\ DockerFails \/ cancelled
    /\ Ends("SetupFailure", Token, "bundle")
    /\ gate' = "free"
    /\ proof' = [complete |-> TRUE, quiescent |-> TRUE]
    /\ KeepHistory
    /\ UNCHANGED <<containers, brokerState, producer, certified, removal, seen, diag>>

\* The archive is extracted and removed, then the start gate locked.
Stage ==
    /\ At("stage")
    /\ gate' = "held" /\ To("gate")
    /\ KeepHistory /\ KeepResult /\ UNCHANGED <<containers, brokerState>>

CreateTopology ==
    /\ At("gate") /\ ~cancelled
    /\ Call("create", "creating")
    /\ KeepHistory /\ KeepResult /\ UNCHANGED <<containers, gate>>

CreateAnswered ==
    /\ At("creating")
    /\ \/ Reply("ok") /\ To("created") /\ KeepResult
       \/ Reply("err") /\ SetupFails("Ended")
    /\ KeepHistory /\ UNCHANGED <<containers, gate>>

\* Cancellation wins the select: the connection is dropped, not the request.
CreateCancelled ==
    /\ At("creating") /\ cancelled
    /\ Abandoned /\ SetupFails("Cancelled")
    /\ KeepHistory /\ UNCHANGED <<containers, gate, broker, bstep, clean, reply>>

\* The token is looked at and progress published.
TopologyCreated ==
    /\ At("created")
    /\ \/ cancelled /\ SetupFails("Cancelled")
       \/ ~cancelled /\ DockerFails /\ SetupFails("Ended")
       \/ ~cancelled /\ To("launch") /\ KeepResult
    /\ NoDocker /\ KeepHistory

\* Fault: the gate is released on the strength of the earlier look at the token.
LaunchUnfenced ==
    /\ At("launch")
    /\ gate' = "free" /\ launched' = TRUE /\ To("await") /\ KeepResult
    /\ UNCHANGED <<containers, brokerState, cancelled, early, timedOut, panicked, crashed>>

\* Under launch_decision: the token decides whether the gate is released.
LaunchDecision ==
    /\ At("launch")
    /\ \/ cancelled /\ SetupFails("Cancelled") /\ UNCHANGED <<gate, launched>>
       \/ /\ ~cancelled
          /\ gate' = "free" /\ launched' = TRUE
          /\ (To("await") /\ KeepResult) \/ (DockerFails /\ SetupFails("Ended"))
    /\ UNCHANGED <<containers, brokerState, cancelled, early, timedOut, panicked, crashed>>

\* AGENT_READY, or the log's end, a deadline or a cancellation.
AgentReady ==
    /\ At("await")
    /\ \/ ready /\ broker = "up" /\ To("settle") /\ KeepResult
       \/ (cancelled \/ ReadFails \/ "deadline" \in faults \/ ~Up("agent")) /\ SetupFails(Token)
    /\ NoDocker /\ KeepHistory

-----------------------------------------------------------------------------
(* settle_running_agent: the agent's exit, its capture's exit or the token, *)
(* whichever is seen first.                                                *)

Settling == UNCHANGED <<containers, gate, certified, removal, seen, proof, ending>> /\ KeepHistory

WaitReturns ==
    /\ At("settle") /\ cont["agent"] = "stopped" /\ broker = "up"
    /\ producer' = TRUE /\ To("drain")
    /\ Settling /\ UNCHANGED <<brokerState, diag>>

WaitFails ==
    /\ At("settle") /\ (ReadFails \/ cont["agent"] = "absent")
    /\ Call("stop", "wait_stop") /\ diag' = TRUE
    /\ Settling /\ UNCHANGED producer

\* The capture exited before the agent did.
CaptureExitSeen ==
    /\ At("settle") /\ (ReadFails \/ cap \in {"failed", "aborted", "none"})
    /\ Call("stop", "capture_stop") /\ diag' = TRUE
    /\ Settling /\ UNCHANGED producer

\* Fault: the wait on a running agent does not look at the token.
CancelUnseen ==
    /\ At("settle") /\ cancelled /\ ~Up("agent")
    /\ Call("stop", "cancel_stop")
    /\ status' = "Cancelled"
    /\ KeepHistory /\ UNCHANGED <<containers, gate, evidence, phase, bundled, perror>>

CancelSeen ==
    /\ At("settle") /\ cancelled
    /\ Call("stop", "cancel_stop")
    /\ status' = "Cancelled"
    /\ KeepHistory /\ UNCHANGED <<containers, gate, evidence, phase, bundled, perror>>

\* What follows the stop in each of the three branches.
StopAnswered ==
    /\ \/ \E answer \in {"ok", "err"} :
             /\ At("wait_stop") \/ At("capture_stop")
             /\ Reply(answer)
             /\ producer' = (answer = "ok")
             /\ To(IF At("wait_stop") THEN "drain" ELSE "rewait")
       \/ At("cancel_stop") /\ Reply("ok") /\ producer' = TRUE /\ To("rewait")
    /\ Settling /\ UNCHANGED diag

CancelStopFails ==
    /\ At("cancel_stop") /\ reply = "err"
    /\ Call("remove", "cancel_remove") /\ diag' = TRUE
    /\ Settling /\ UNCHANGED producer

CancelRemoveAnswered ==
    /\ At("cancel_remove")
    /\ \E answer \in {"ok", "err"} : Reply(answer) /\ producer' = (answer = "ok")
    /\ To("rewait")
    /\ Settling /\ UNCHANGED diag

\* The docker wait has no deadline.
WaitEnds ==
    /\ At("rewait")
    /\ \/ ~Up("agent") /\ UNCHANGED diag
       \/ (ReadFails \/ cont["agent"] = "absent") /\ diag' = TRUE
    /\ To("drain")
    /\ Settling /\ UNCHANGED <<brokerState, producer>>

-----------------------------------------------------------------------------
(* Draining the capture, removing the containers, proving quiescence.      *)

\* wait_capture_complete, without a deadline, then validate_completed_capture.
CaptureProved == broker = "up" /\ cap = "complete"
CaptureFailed == ReadFails \/ cap \in {"failed", "aborted", "none"}

\* A cancellation during the drain only changes the status.
CaptureDrained ==
    /\ At("drain")
    /\ \/ producer /\ CaptureProved /\ certified' = TRUE /\ UNCHANGED diag
       \/ (~producer \/ CaptureFailed) /\ diag' = TRUE /\ UNCHANGED certified
    /\ status' \in {status, Token} /\ producer' = FALSE
    /\ To("teardown")
    /\ NoDocker /\ KeepHistory /\ UNCHANGED <<removal, seen, proof, phase, bundled, perror>>

\* remove_and_prove_quiescent: the removal, ...
Teardown ==
    /\ At("teardown")
    /\ Call("remove", "removing")
    /\ KeepHistory /\ KeepResult /\ UNCHANGED <<containers, gate>>

RemoveAnswered ==
    /\ At("removing")
    /\ \E answer \in {"ok", "err"} :
          Reply(answer) /\ removal' = (answer = "ok") /\ diag' = (diag \/ answer = "err")
    /\ seen' = Unseen /\ To("prove_agent")
    /\ KeepHistory /\ UNCHANGED <<containers, gate, producer, certified, proof, ending>>

\* ... and three observations, at three moments and without the lock.
Sighted(c) ==
    [absent |-> seen.absent /\ cont[c] = "absent", quiet |-> seen.quiet /\ ~Up(c)]

ProveStep(c, step) ==
    /\ broker = "up" /\ ~Stopping
    /\ seen' = Sighted(c) /\ To(step)
    /\ UNCHANGED <<gate, proof, removal, diag>>

\* The gate, if it is still held, is released after the last one.
Proved(p, noted) ==
    /\ proof' = p /\ diag' = noted
    /\ gate' = "free" /\ removal' = FALSE /\ seen' = Unseen
    /\ To("bundle")

ProveLast ==
    LET s == Sighted("capture")
    IN  /\ broker = "up" /\ ~Stopping
        /\ Proved([complete |-> removal /\ s.absent /\ s.quiet, quiescent |-> s.quiet],
                  diag \/ ~s.quiet \/ (removal /\ ~s.absent))

ProveFails ==
    /\ At("prove_agent") \/ At("prove_relay") \/ At("prove_capture")
    /\ ReadFails \/ "deadline" \in faults
    /\ Proved([complete |-> FALSE, quiescent |-> FALSE], TRUE)

ProveQuiescent ==
    /\ \/ At("prove_agent") /\ ProveStep("agent", "prove_relay")
       \/ At("prove_relay") /\ ProveStep("relay", "prove_capture")
       \/ At("prove_capture") /\ ProveLast
       \/ ProveFails
    /\ KeepHistory
    /\ UNCHANGED <<containers, brokerState, producer, certified, ending>>

\* Fault: an accepted bundle is enough.
MustRetainUnbundled(p, archive) == ~p.quiescent \/ ~archive

\* raw_retention_decision: the raw tree goes only after a complete teardown
\* and an accepted bundle.
MustRetain(p, archive) == ~p.quiescent \/ ~archive \/ ~p.complete

\* Fault: diagnostics do not make a process error of a certified result.
ProcessErrorUndiagnosed ==
    CASE phase = "Normal" -> ~certified
      [] phase = "SetupFailure" -> status # "Cancelled"
      [] OTHER -> TRUE

\* process_outcome and the diagnostics, by phase.
ProcessError ==
    CASE phase = "Normal" -> ~certified \/ diag
      [] phase = "SetupFailure" -> status # "Cancelled" \/ ~proof.complete
      [] OTHER -> TRUE

\* The bundle, of a tree proved quiescent, may fail, and a recovery leaves an
\* earlier one alone; exits that disagree and unwritable sidecars also count.
Bundle ==
    /\ At("bundle")
    /\ bundled' \in {proof.quiescent,
                     proof.quiescent /\ ~DockerFails /\ phase \in {"Normal", "SetupFailure"}}
    /\ perror' \in {ProcessError \/ ~bundled', TRUE}
    /\ To("end")
    /\ NoDocker /\ KeepHistory /\ UNCHANGED <<evidence, phase, status>>

-----------------------------------------------------------------------------
(* Cancellation, deadlines, panics and restarts.                           *)

\* cancel() and shutdown() set the token under launch_decision.
Cancel ==
    /\ ~cancelled /\ spc \notin {"end", "down"}
    /\ cancelled' = TRUE /\ early' = ~launched
    /\ NoDocker /\ KeepResult /\ UNCHANGED <<spc, launched, timedOut, panicked, crashed>>

\* The service stops waiting; the broker does not stop working.
DeadlinePasses ==
    /\ "deadline" \in faults
    /\ \E i \in DOMAIN queue : queue[i].live
    /\ Abandoned /\ reply' = "err" /\ timedOut' = TRUE
    /\ KeepResult /\ UNCHANGED <<containers, gate, broker, bstep, clean, spc, cancelled>>
    /\ UNCHANGED <<launched, early, panicked, crashed>>

\* The execution stops where it is: its descriptors, the gate and the broker
\* connection among them, are closed.
ExecutionLost(step) ==
    /\ To(step)
    /\ gate' = "free" /\ Abandoned /\ reply' = "none"
    /\ certified' = FALSE /\ producer' = FALSE /\ removal' = FALSE /\ seen' = Unseen
    /\ UNCHANGED <<containers, broker, bstep, clean, cancelled, proof, diag, ending>>

ExecutionPanics ==
    /\ "panic" \in faults /\ ~panicked
    /\ spc \notin {"end", "down", "sweeping"} /\ phase # "ServiceRestart"
    /\ panicked' = TRUE /\ ExecutionLost("panic")
    /\ UNCHANGED <<launched, early, timedOut, crashed>>

\* recover_after_execution_panic: stop the agent, drain if that succeeded.
PanicRecovery ==
    /\ \/ At("panic") /\ Call("stop", "panic_stop") /\ KeepResult
       \/ At("panic_stop") /\ Reply("ok") /\ To("panic_drain") /\ KeepResult
       \/ /\ At("panic_stop") /\ Reply("err")
          /\ Ends("PanicRecovery", Token, "teardown") /\ UNCHANGED evidence
       \/ /\ At("panic_drain") /\ (CaptureProved \/ CaptureFailed)
          /\ Ends("PanicRecovery", Token, "teardown") /\ UNCHANGED <<evidence, brokerState>>
    /\ KeepHistory /\ UNCHANGED <<containers, gate>>

ServiceCrashes ==
    /\ "crash" \in faults /\ ~crashed /\ spc # "end"
    /\ crashed' = TRUE /\ ExecutionLost("down")
    /\ UNCHANGED <<launched, early, timedOut, panicked>>

\* Startup sweeps before it recovers the session; a failed sweep ends it.
RestartRecovery ==
    /\ \/ At("down") /\ broker = "up" /\ Call("sweep", "sweeping") /\ KeepResult
       \/ /\ At("sweeping") /\ Reply("ok")
          /\ Ends("ServiceRestart", Token, "teardown") /\ UNCHANGED evidence
       \/ At("sweeping") /\ Reply("err") /\ To("down") /\ KeepResult
    /\ KeepHistory /\ UNCHANGED <<containers, gate>>

\* The service's own steps, each of which it takes when it can.
ServiceStep ==
    \/ PreAgentExit \/ Stage \/ CreateTopology \/ CreateAnswered \/ CreateCancelled
    \/ TopologyCreated \/ LaunchDecision \/ AgentReady
    \/ WaitReturns \/ WaitFails \/ CaptureExitSeen \/ CancelSeen
    \/ StopAnswered \/ CancelStopFails \/ CancelRemoveAnswered \/ WaitEnds
    \/ CaptureDrained \/ Teardown \/ RemoveAnswered \/ ProveQuiescent \/ Bundle
    \/ PanicRecovery \/ RestartRecovery
=============================================================================
