------------------------------- MODULE Broker -------------------------------
(***************************************************************************)
(* The docker broker: the requests that change containers, one step per    *)
(* docker command, and the shutdown sweep.                                 *)
(***************************************************************************)
EXTENDS Containers

Head1 == Head(queue)
Stopping == \E i \in DOMAIN queue : queue[i].op = "shutdown"

\* serve_connection: one request, answered when its turn has come and gone.
\* Its place in the lock order is fixed here; in the code it is fixed when the
\* connection's task first asks for the lock, shortly after the submission.
Submitted(op) ==
    /\ queue' = Append(queue, [op |-> op, live |-> TRUE])
    /\ reply' = "none"
    /\ UNCHANGED <<broker, bstep, clean>>

\* The client hangs up; the request keeps its place.
Abandoned == queue' = [i \in DOMAIN queue |-> [queue[i] EXCEPT !.live = FALSE]]

GoTo(step) == bstep' = step /\ UNCHANGED <<broker, queue, clean, reply>>

\* The request ends and the next one gets the lock.
Answered(result) ==
    /\ queue' = Tail(queue) /\ bstep' = "idle" /\ clean' = TRUE
    /\ reply' = IF Head1.live THEN result ELSE reply
    /\ UNCHANGED broker

\* The process exits: connections still open are reset.
BrokerGone(state) ==
    /\ broker' = state
    /\ queue' = <<>> /\ bstep' = "idle" /\ clean' = TRUE
    /\ reply' = IF \E i \in DOMAIN queue : queue[i].live THEN "err" ELSE reply

FirstStep(op) ==
    CASE op = "create" -> "c_check" [] op = "stop" -> "s_stop" [] OTHER -> "stop_agent"

\* Fault: the next request starts before its predecessor has finished.
TakeLockEarly ==
    /\ queue # <<>> /\ bstep \in {"idle"} \cup CreateSteps
    /\ IF Len(queue) > 1 /\ bstep # "idle"
       THEN /\ queue' = Append(Tail(queue), Head1)
            /\ bstep' = FirstStep(queue[2].op)
            /\ UNCHANGED <<broker, clean, reply>>
       ELSE bstep = "idle" /\ GoTo(FirstStep(Head1.op))
    /\ UNCHANGED containers

\* mutation_lock.lock(): requests are served first come, first served.
TakeLock ==
    /\ bstep = "idle" /\ queue # <<>>
    /\ GoTo(FirstStep(Head1.op))
    /\ UNCHANGED containers

-----------------------------------------------------------------------------
(* create_session.                                                         *)

Cleanup == bstep' = "stop_agent" /\ clean' = FALSE /\ UNCHANGED <<broker, queue, reply>>

\* A docker run that fails may have created or even started the container.
RunMaybe(c) ==
    \/ UNCHANGED containers
    \/ cont' = [cont EXCEPT ![c] = "stopped"] /\ UNCHANGED processes
    \/ Started(c)

CreateCheck ==
    /\ bstep = "c_check"
    /\ \/ (\A c \in Components : cont[c] = "absent") /\ GoTo("c_agent")
       \/ (DockerFails \/ \E c \in Components : cont[c] # "absent") /\ Answered("err")
    /\ UNCHANGED containers

CreateAgent ==
    /\ bstep = "c_agent"
    /\ \/ Started("agent") /\ GoTo("c_verify")
       \/ DockerFails /\ RunMaybe("agent") /\ Answered("err")

\* verify_agent: any deviation from the policy removes what was created; a
\* failing inspect for the container's id does not.
VerifyAgent ==
    /\ bstep = "c_verify"
    /\ \/ Up("agent") /\ GoTo("c_capture")
       \/ (DockerFails \/ ~Up("agent")) /\ Cleanup
       \/ DockerFails /\ Answered("err")
    /\ UNCHANGED containers

CreateCapture ==
    /\ bstep = "c_capture"
    /\ \/ Up("agent") /\ Started("capture") /\ GoTo("c_ready")
       \/ DockerFails /\ RunMaybe("capture") /\ Answered("err")
       \/ ~Up("agent") /\ UNCHANGED containers /\ Answered("err")

\* verify_capture, then CAPTURE_READY on the log.
CaptureReady ==
    /\ bstep = "c_ready"
    /\ \/ cap \notin {"none", "starting"} /\ GoTo("c_relay")
       \/ (DockerFails \/ ~Up("capture")) /\ Cleanup
    /\ UNCHANGED containers

CreateRelay ==
    /\ bstep = "c_relay"
    /\ \/ Up("agent") /\ Started("relay") /\ GoTo("c_bound")
       \/ DockerFails /\ RunMaybe("relay") /\ Cleanup
       \/ ~Up("agent") /\ UNCHANGED containers /\ Cleanup

\* verify_relay, then RELAY_READY on the log.
RelayBound ==
    /\ bstep = "c_bound"
    /\ \/ Up("relay") /\ Answered("ok")
       \/ (DockerFails \/ ~Up("relay")) /\ Cleanup
    /\ UNCHANGED containers

-----------------------------------------------------------------------------
(* Stopping and removing.                                                  *)

\* stop_session: only the agent.
StopSession ==
    /\ bstep = "s_stop"
    /\ \/ cont["agent"] # "absent" /\ Halted("agent") /\ Answered("ok")
       \/ DockerFails /\ (Halted("agent") \/ UNCHANGED containers) /\ Answered("err")
       \/ cont["agent"] = "absent" /\ UNCHANGED containers /\ Answered("err")

\* remove_session and sweep_orphans go through the same steps in this order.
Following ==
    [stop_agent |-> "stop_relay", stop_relay |-> "stop_capture", stop_capture |-> "rm_relay",
     rm_relay |-> "rm_capture", rm_capture |-> "rm_agent"]

StopStep == [agent |-> "stop_agent", relay |-> "stop_relay", capture |-> "stop_capture"]
RemoveStep == [agent |-> "rm_agent", relay |-> "rm_relay", capture |-> "rm_capture"]

Sweeping == Head1.op \in {"sweep", "shutdown"}

\* A removal goes on after a failed command and answers with its diagnostics; ...
RemovalGoesOn(ok) ==
    /\ ~Sweeping
    /\ IF bstep = "rm_agent"
       THEN Answered(IF clean /\ ok THEN "ok" ELSE "err")
       ELSE /\ bstep' = Following[bstep] /\ clean' = (clean /\ ok)
            /\ UNCHANGED <<broker, queue, reply>>

\* Fault: a failed command does not end the sweep.
SweepIgnoresFailure(ok) ==
    /\ Sweeping
    /\ IF bstep # "rm_agent" THEN GoTo(Following[bstep])
       ELSE IF Head1.op = "shutdown" THEN BrokerGone("stopped")
       ELSE Answered("ok")

\* ... a sweep ends at the first failed command, and with it, at a shutdown,
\* the broker.
SweepGoesOn(ok) ==
    /\ Sweeping
    /\ IF ok /\ bstep # "rm_agent" THEN GoTo(Following[bstep])
       ELSE IF Head1.op = "shutdown" THEN BrokerGone(IF ok THEN "stopped" ELSE "failed")
       ELSE Answered(IF ok THEN "ok" ELSE "err")

TeardownGoesOn(ok) == RemovalGoesOn(ok) \/ SweepGoesOn(ok)

StopOwnedIfRunning(c) ==
    /\ bstep = StopStep[c]
    /\ \/ Halted(c) /\ TeardownGoesOn(TRUE)
       \/ DockerFails /\ (Halted(c) \/ UNCHANGED containers) /\ TeardownGoesOn(FALSE)

RemoveStoppedOwned(c) ==
    /\ bstep = RemoveStep[c]
    /\ \/ ~Up(c) /\ Discarded(c) /\ TeardownGoesOn(TRUE)
       \/ Up(c) /\ UNCHANGED containers /\ TeardownGoesOn(FALSE)
       \/ DockerFails /\ ~Up(c) /\ (Discarded(c) \/ UNCHANGED containers) /\ TeardownGoesOn(FALSE)

\* SIGTERM: the broker stops accepting and queues for the lock like a request.
BrokerSignalled ==
    /\ "signal" \in faults /\ broker = "up" /\ ~Stopping
    /\ queue' = Append(queue, [op |-> "shutdown", live |-> FALSE])
    /\ UNCHANGED <<broker, bstep, clean, reply, containers>>

\* The steps of the request that holds the lock.
BrokerWork ==
    /\ \/ TakeLock
       \/ CreateCheck \/ CreateAgent \/ VerifyAgent \/ CreateCapture
       \/ CaptureReady \/ CreateRelay \/ RelayBound \/ StopSession
       \/ \E c \in Components : StopOwnedIfRunning(c) \/ RemoveStoppedOwned(c)
    /\ UNCHANGED gate

BrokerStep == BrokerWork \/ (BrokerSignalled /\ UNCHANGED gate)
=============================================================================
