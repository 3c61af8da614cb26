--------------------------- MODULE TopologyProofs ---------------------------
(***************************************************************************)
(* The invariants of one session's containers, broker and service, for     *)
(* every combination of faults and every number of events.                 *)
(*                                                                         *)
(* TopologyInv is preserved by every step.  The proof separates what the   *)
(* service cannot touch from what the containers and the broker cannot: a  *)
(* step of the environment (a process or the broker) leaves the session    *)
(* alone, a step of the service leaves the containers alone, and the queue *)
(* changes in four ways only.                                              *)
(***************************************************************************)
EXTENDS Topology, TLAPS

Request == [op : Requests, live : BOOLEAN]

-----------------------------------------------------------------------------
(* The queue of requests.                                                  *)

\* A request goes to the end of the queue,
LEMMA AppendFacts ==
    ASSUME NEW q \in Seq(Request), NEW e \in Request
    PROVE  /\ Append(q, e) \in Seq(Request)
           /\ Append(q, e) # <<>>
           /\ \A i \in DOMAIN q : i \in DOMAIN Append(q, e) /\ Append(q, e)[i] = q[i]
           /\ \A i \in DOMAIN Append(q, e) :
                 \/ i \in DOMAIN q /\ Append(q, e)[i] = q[i]
                 \/ i = Len(q) + 1 /\ Append(q, e)[i] = e
           /\ \A i \in DOMAIN q : i \in Nat /\ i < Len(q) + 1
           /\ q # <<>> => Head(Append(q, e)) = Head(q)
           /\ q = <<>> => Head(Append(q, e)) = e
OBVIOUS

\* is served at its head,
LEMMA TailFacts ==
    ASSUME NEW q \in Seq(Request), q # <<>>
    PROVE  /\ Tail(q) \in Seq(Request)
           /\ 1 \in DOMAIN q /\ Head(q) = q[1] /\ Head(q) \in Request
           /\ \A i \in DOMAIN Tail(q) :
                 i \in Nat /\ 1 < i + 1 /\ i + 1 \in DOMAIN q /\ Tail(q)[i] = q[i + 1]
OBVIOUS

\* and stays where it is when the client hangs up.
LEMMA AbandonFacts ==
    ASSUME queue \in Seq(Request), Abandoned
    PROVE  /\ queue' \in Seq(Request)
           /\ DOMAIN queue' = DOMAIN queue
           /\ \A i \in DOMAIN queue : queue'[i].op = queue[i].op /\ ~queue'[i].live
           /\ queue' = <<>> <=> queue = <<>>
           /\ queue # <<>> => Head(queue').op = Head(queue).op
<1>1. DOMAIN queue = 1..Len(queue) /\ Len(queue) \in Nat
  OBVIOUS
<1>2. \A i \in DOMAIN queue : queue[i] \in Request
  OBVIOUS
<1>3. \A i \in DOMAIN queue :
         queue'[i] \in Request /\ queue'[i].op = queue[i].op /\ ~queue'[i].live
  BY <1>2 DEF Request, Abandoned
<1>4. queue' \in [1..Len(queue) -> Request]
  BY <1>1, <1>3 DEF Abandoned
<1>5. queue' \in Seq(Request) /\ Len(queue') = Len(queue)
  BY <1>1, <1>4
<1>. QED BY <1>1, <1>3, <1>5

-----------------------------------------------------------------------------
(* Types.                                                                  *)

\* What docker does to a container keeps the types of the containers' state.
ContainerType ==
    /\ cont \in [Components -> {"absent", "stopped", "running"}]
    /\ agent \in AgentPhases /\ cap \in CapturePhases /\ ready \in BOOLEAN
    /\ written \in 0..MaxEvents /\ captured \in 0..MaxEvents

BrokerType ==
    /\ broker \in {"up", "stopped", "failed"}
    /\ queue \in Seq(Request)
    /\ bstep \in {"idle", "s_stop"} \cup CreateSteps \cup RemoveSteps
    /\ clean \in BOOLEAN
    /\ reply \in {"none", "ok", "err"}

LEMMA TypeParts ==
    /\ TopologyType <=>
          ContainerType /\ BrokerType /\ SessionType /\ faults \in FaultModes
          /\ gate \in {"free", "held"}
    /\ TopologyType' <=>
          ContainerType' /\ BrokerType' /\ SessionType' /\ faults' \in FaultModes
          /\ gate' \in {"free", "held"}
BY DEF TopologyType, ContainersType, ContainerType, BrokerType, Request

LEMMA EffectTypes ==
    ASSUME ContainerType, NEW c \in Components,
           \/ Started(c) \/ Halted(c) \/ Discarded(c) \/ RunMaybe(c)
           \/ UNCHANGED containers
    PROVE  ContainerType'
<1>1. CASE Started(c)
  BY <1>1 DEF ContainerType, Started, Components, AgentPhases, CapturePhases
<1>2. CASE Halted(c)
  BY <1>2 DEF ContainerType, Halted, CaptureSignalled, Components, AgentPhases, CapturePhases
<1>3. CASE Discarded(c)
  BY <1>3 DEF ContainerType, Discarded, Components, CapturePhases
<1>4. CASE UNCHANGED containers
  BY <1>4 DEF ContainerType, containers, processes
<1>5. CASE cont' = [cont EXCEPT ![c] = "stopped"] /\ UNCHANGED processes
  BY <1>5 DEF ContainerType, processes
<1>. QED BY <1>1, <1>2, <1>3, <1>4, <1>5 DEF RunMaybe

LEMMA ProcessTypes ==
    ASSUME ContainerType, ProcessStep
    PROVE  ContainerType'
<1>1. CASE AgentPassesGate \/ AgentAttaches \/ AgentReleased \/ AgentCloses \/ AgentExits
  BY <1>1 DEF AgentPassesGate, AgentAttaches, AgentReleased, AgentCloses,
     AgentExits, Exits, ContainerType, Components, AgentPhases, CapturePhases
<1>2. CASE AgentWrites \/ CaptureCopies
  BY <1>2, MaxEventsAssumption DEF AgentWrites, CaptureCopies, ContainerType
<1>3. CASE CaptureListens \/ CaptureCompletes \/ CaptureFails
  BY <1>3 DEF CaptureListens, CaptureCompletes, CaptureFails, Exits, ContainerType,
     Components, CapturePhases
<1>4. CASE RelayExits
  BY <1>4 DEF RelayExits, Exits, processes, ContainerType, Components
<1>. QED BY <1>1, <1>2, <1>3, <1>4 DEF ProcessStep

\* The ways a request's step moves the broker.
LEMMA BrokerMoveTypes ==
    ASSUME BrokerType, queue # <<>>,
           \/ \E s \in {"s_stop"} \cup CreateSteps \cup RemoveSteps : GoTo(s)
           \/ \E r \in {"ok", "err"} : Answered(r)
           \/ \E ok \in BOOLEAN : bstep \in RemoveSteps /\ TeardownGoesOn(ok)
           \/ Cleanup
    PROVE  BrokerType'
<1>1. CASE \E s \in {"s_stop"} \cup CreateSteps \cup RemoveSteps : GoTo(s)
  BY <1>1 DEF GoTo, BrokerType
<1>2. ASSUME NEW r \in {"ok", "err"}, Answered(r) PROVE BrokerType'
  BY <1>2, TailFacts DEF Answered, BrokerType
<1>3. CASE Cleanup
  BY <1>3 DEF Cleanup, BrokerType, RemoveSteps
<1>4. ASSUME NEW ok \in BOOLEAN, bstep \in RemoveSteps, TeardownGoesOn(ok)
      PROVE BrokerType'
  <2>1. bstep # "rm_agent" => Following[bstep] \in RemoveSteps
    BY <1>4 DEF Following, RemoveSteps
  <2>2. CASE bstep # "rm_agent" /\ GoTo(Following[bstep])
    BY <2>1, <2>2 DEF GoTo, BrokerType
  <2>3. CASE bstep # "rm_agent" /\ bstep' = Following[bstep] /\ clean' = (clean /\ ok)
             /\ UNCHANGED <<broker, queue, reply>>
    BY <2>1, <2>3 DEF BrokerType
  <2>4. ASSUME NEW s \in {"stopped", "failed"}, BrokerGone(s) PROVE BrokerType'
    BY <2>4 DEF BrokerGone, BrokerType
  <2>. QED BY <1>2, <1>4, <2>2, <2>3, <2>4 DEF TeardownGoesOn, RemovalGoesOn, SweepGoesOn
<1>. QED BY <1>1, <1>2, <1>3, <1>4

\* The steps of a teardown, by name.
LEMMA TeardownSteps ==
    /\ StopStep["agent"] = "stop_agent" /\ StopStep["relay"] = "stop_relay"
    /\ StopStep["capture"] = "stop_capture"
    /\ RemoveStep["agent"] = "rm_agent" /\ RemoveStep["relay"] = "rm_relay"
    /\ RemoveStep["capture"] = "rm_capture"
    /\ Following["stop_agent"] = "stop_relay" /\ Following["stop_relay"] = "stop_capture"
    /\ Following["stop_capture"] = "rm_relay" /\ Following["rm_relay"] = "rm_capture"
    /\ Following["rm_capture"] = "rm_agent"
BY DEF StopStep, RemoveStep, Following

LEMMA BrokerTypes ==
    ASSUME ContainerType, BrokerType, queue = <<>> => bstep = "idle", BrokerStep
    PROVE  ContainerType' /\ BrokerType'
<1>1. CASE TakeLock
  <2>1. FirstStep(Head1.op) \in {"s_stop"} \cup CreateSteps \cup RemoveSteps
    BY DEF FirstStep, CreateSteps, RemoveSteps
  <2>. QED BY <1>1, <2>1, BrokerMoveTypes DEF TakeLock, ContainerType, containers, processes
<1>2. CASE CreateCheck \/ CreateAgent \/ VerifyAgent \/ CreateCapture \/ CaptureReady
           \/ CreateRelay \/ RelayBound
  <2>1. ContainerType'
    BY <1>2, EffectTypes DEF CreateCheck, CreateAgent, VerifyAgent, CreateCapture,
       CaptureReady, CreateRelay, RelayBound, Components
  <2>2. queue # <<>>
    BY <1>2 DEF CreateCheck, CreateAgent, VerifyAgent, CreateCapture,
       CaptureReady, CreateRelay, RelayBound
  <2>. QED BY <1>2, <2>1, <2>2, BrokerMoveTypes DEF CreateCheck, CreateAgent,
       VerifyAgent, CreateCapture, CaptureReady, CreateRelay, RelayBound, CreateSteps
<1>3. CASE StopSession
  BY <1>3, EffectTypes, BrokerMoveTypes DEF StopSession, Components
<1>4. ASSUME NEW c \in Components, StopOwnedIfRunning(c) \/ RemoveStoppedOwned(c)
      PROVE  ContainerType' /\ BrokerType'
  <2>1. bstep \in RemoveSteps
    BY <1>4, TeardownSteps DEF StopOwnedIfRunning, RemoveStoppedOwned, RemoveSteps, Components
  <2>2. ContainerType'
    BY <1>4, EffectTypes DEF StopOwnedIfRunning, RemoveStoppedOwned
  <2>3. \E ok \in BOOLEAN : TeardownGoesOn(ok)
    BY <1>4 DEF StopOwnedIfRunning, RemoveStoppedOwned
  <2>. QED BY <2>1, <2>2, <2>3, BrokerMoveTypes DEF RemoveSteps
<1>5. CASE BrokerSignalled
  <2>1. [op |-> "shutdown", live |-> FALSE] \in Request
    BY DEF Request, Requests
  <2>. QED BY <1>5, <2>1, AppendFacts DEF BrokerSignalled, BrokerType, ContainerType,
       containers, processes
<1>. QED BY <1>1, <1>2, <1>3, <1>4, <1>5 DEF BrokerStep, BrokerWork

\* What a step of the service does to the broker.
ServiceMove ==
    \/ UNCHANGED brokerState
    \/ \E op \in {"create", "stop", "remove", "sweep"} : broker = "up" /\ Submitted(op)
    \/ broker # "up" /\ reply' = "err" /\ UNCHANGED <<broker, queue, bstep, clean>>
    \/ \E r \in {"ok", "err"} : Reply(r)
    \/ Abandoned /\ reply' \in {"none", "err", reply} /\ UNCHANGED <<broker, bstep, clean>>

LEMMA ServiceMoves ==
    ASSUME ServiceStep \/ Cancel \/ DeadlinePasses \/ ExecutionPanics \/ ServiceCrashes
    PROVE  ServiceMove /\ UNCHANGED containers
<1>1. ASSUME NEW op \in {"create", "stop", "remove", "sweep"}, NEW s, Call(op, s)
      PROVE  ServiceMove
  BY <1>1 DEF Call, ServiceMove
<1>2. CASE PreAgentExit \/ Stage \/ TopologyCreated \/ LaunchDecision \/ AgentReady
           \/ WaitReturns \/ WaitEnds \/ CaptureDrained \/ ProveQuiescent \/ Bundle \/ Cancel
  BY <1>2 DEF PreAgentExit, Stage, TopologyCreated, LaunchDecision, AgentReady,
     WaitReturns, WaitEnds, CaptureDrained, ProveQuiescent, Bundle, Cancel, Settling,
     NoDocker, ServiceMove
<1>3. CASE CreateTopology \/ WaitFails \/ CaptureExitSeen \/ CancelSeen \/ CancelStopFails
           \/ Teardown
  BY <1>1, <1>3 DEF CreateTopology, WaitFails, CaptureExitSeen, CancelSeen,
     CancelStopFails, Teardown, Settling
<1>4. CASE CreateAnswered \/ StopAnswered \/ CancelRemoveAnswered \/ RemoveAnswered
  BY <1>4 DEF CreateAnswered, StopAnswered, CancelRemoveAnswered, RemoveAnswered,
     Settling, ServiceMove
<1>5. CASE CreateCancelled \/ DeadlinePasses \/ ExecutionPanics \/ ServiceCrashes
  BY <1>5 DEF CreateCancelled, DeadlinePasses, ExecutionPanics, ServiceCrashes,
     ExecutionLost, ServiceMove
<1>6. CASE PanicRecovery \/ RestartRecovery
  BY <1>1, <1>6 DEF PanicRecovery, RestartRecovery, ServiceMove
<1>. QED BY <1>2, <1>3, <1>4, <1>5, <1>6 DEF ServiceStep

LEMMA ServiceMoveTypes ==
    ASSUME BrokerType, ServiceMove
    PROVE  BrokerType'
<1>1. ASSUME NEW op \in {"create", "stop", "remove", "sweep"}, Submitted(op)
      PROVE  BrokerType'
  <2>1. [op |-> op, live |-> TRUE] \in Request
    BY DEF Request, Requests
  <2>. QED BY <1>1, <2>1, AppendFacts DEF Submitted, BrokerType
<1>2. CASE Abandoned /\ reply' \in {"none", "err", reply} /\ UNCHANGED <<broker, bstep, clean>>
  BY <1>2, AbandonFacts DEF BrokerType
<1>3. CASE UNCHANGED brokerState
  BY <1>3 DEF brokerState, BrokerType
<1>4. CASE broker # "up" /\ reply' = "err" /\ UNCHANGED <<broker, queue, bstep, clean>>
  BY <1>4 DEF BrokerType
<1>5. ASSUME NEW r \in {"ok", "err"}, Reply(r) PROVE BrokerType'
  BY <1>5 DEF Reply, BrokerType
<1>. QED BY <1>1, <1>2, <1>3, <1>4, <1>5 DEF ServiceMove

LEMMA ServiceTypes ==
    ASSUME SessionType, gate \in {"free", "held"}, ran' \in BOOLEAN,
           ServiceStep \/ Cancel \/ DeadlinePasses \/ ExecutionPanics \/ ServiceCrashes
    PROVE  SessionType' /\ gate' \in {"free", "held"}
<1>1. Unseen \in Sightings /\ \A a, b \in BOOLEAN : [complete |-> a, quiescent |-> b] \in Proofs
  BY DEF Unseen, Sightings, Proofs
<1>2. Token \in {"Ended", "Cancelled"}
  BY DEF Token
<1>3. CASE PreAgentExit \/ Stage \/ CreateTopology \/ CreateAnswered \/ CreateCancelled
           \/ TopologyCreated \/ LaunchDecision \/ AgentReady
  BY <1>1, <1>2, <1>3 DEF PreAgentExit, Stage, CreateTopology, CreateAnswered,
     CreateCancelled, TopologyCreated, LaunchDecision, AgentReady, KeepHistory, KeepResult,
     NoDocker, Ends, SetupFails, Call, To, history, ending, evidence, ServiceSteps, SessionType
<1>4. CASE WaitReturns \/ WaitFails \/ CaptureExitSeen \/ CancelSeen
           \/ StopAnswered \/ CancelStopFails \/ CancelRemoveAnswered \/ WaitEnds
  BY <1>4 DEF WaitReturns, WaitFails, CaptureExitSeen, CancelSeen, StopAnswered,
     CancelStopFails, CancelRemoveAnswered, WaitEnds, Settling, KeepHistory, Call, To,
     history, ending, evidence, ServiceSteps, SessionType
<1>5. CASE CaptureDrained \/ Teardown \/ RemoveAnswered
  BY <1>1, <1>2, <1>5 DEF CaptureDrained, Teardown, RemoveAnswered, NoDocker, KeepHistory,
     KeepResult, Call, To, history, ending, evidence, ServiceSteps, SessionType
<1>6. CASE ProveQuiescent
  <2>1. \A c \in Components : Sighted(c) \in Sightings
    BY DEF Sighted, Sightings, SessionType
  <2>2. Sighted("capture").absent \in BOOLEAN /\ Sighted("capture").quiet \in BOOLEAN
    BY DEF Sighted, Sightings, SessionType
  <2>3. UNCHANGED <<cancelled, history, producer, certified, ending>>
    BY <1>6 DEF ProveQuiescent, KeepHistory
  <2>4. ASSUME NEW p \in Proofs, NEW noted \in BOOLEAN, Proved(p, noted)
        PROVE  SessionType' /\ gate' \in {"free", "held"}
    BY <1>1, <2>3, <2>4 DEF Proved, To, history, ending, ServiceSteps, SessionType
  <2>5. CASE ProveFails
    BY <1>1, <2>5, <2>4 DEF ProveFails
  <2>6. CASE At("prove_capture") /\ ProveLast
    <3> DEFINE p == [complete |-> removal /\ Sighted("capture").absent /\ Sighted("capture").quiet,
                     quiescent |-> Sighted("capture").quiet]
               noted == \/ diag \/ ~Sighted("capture").quiet
                        \/ removal /\ ~Sighted("capture").absent
    <3>1. Proved(p, noted) BY <2>6 DEF ProveLast
    <3>2. p \in Proofs BY <2>2 DEF Proofs, SessionType
    <3>3. noted \in BOOLEAN BY <2>2 DEF SessionType
    <3> HIDE DEF p, noted
    <3> QED BY <2>4, <3>1, <3>2, <3>3
  <2>7. ASSUME NEW c \in Components, NEW s \in {"prove_relay", "prove_capture"},
               ProveStep(c, s)
        PROVE  SessionType' /\ gate' \in {"free", "held"}
    BY <1>6, <2>1, <2>7 DEF ProveStep, ProveQuiescent, KeepHistory, To, history, ending,
       ServiceSteps, SessionType
  <2>. QED BY <1>6, <2>5, <2>6, <2>7 DEF ProveQuiescent, Components
<1>7. CASE Bundle
  <2>1. ProcessError \in BOOLEAN
    BY DEF ProcessError, Proofs, SessionType
  <2>2. bundled' \in BOOLEAN
    BY <1>7 DEF Bundle, Proofs, SessionType
  <2>3. perror' \in BOOLEAN
    BY <1>7, <2>1, <2>2 DEF Bundle
  <2>4. /\ spc' = "end" /\ gate' = gate
        /\ UNCHANGED <<cancelled, history, evidence, phase, status>>
    BY <1>7 DEF Bundle, NoDocker, KeepHistory, To
  <2>. QED BY <2>2, <2>3, <2>4 DEF history, evidence, ServiceSteps, SessionType
<1>8. CASE Cancel \/ DeadlinePasses
  BY <1>8 DEF Cancel, DeadlinePasses, NoDocker, KeepResult, ending, evidence, SessionType
<1>9. CASE ExecutionPanics \/ ServiceCrashes
  BY <1>1, <1>9 DEF ExecutionPanics, ServiceCrashes, ExecutionLost, To, ending, ServiceSteps,
     SessionType
<1>10. CASE PanicRecovery \/ RestartRecovery
  BY <1>2, <1>10 DEF PanicRecovery, RestartRecovery, Call, Ends, To, KeepResult, KeepHistory,
     history, ending, evidence, ServiceSteps, SessionType
<1>. QED BY <1>3, <1>4, <1>5, <1>6, <1>7, <1>8, <1>9, <1>10 DEF ServiceStep

-----------------------------------------------------------------------------
(* The lock's holder.                                                      *)

\* No container appears and none starts.
OnlyDown ==
    \A c \in Components : /\ cont[c] = "absent" => cont'[c] = "absent"
                          /\ cont'[c] = "running" => cont[c] = "running"

\* A queue that keeps its head keeps the lock with it.
LEMMA SameHolder ==
    ASSUME LockInv, BrokerType, OnlyDown, UNCHANGED <<broker, bstep, clean>>,
           queue # <<>> => queue' # <<>> /\ Head(queue').op = Head(queue).op,
           queue = <<>> => queue' = <<>> \/ broker = "up"
    PROVE  LockInv'
<1>1. bstep # "idle" => queue # <<>> /\ Head1'.op = Head1.op
  BY DEF LockInv, Head1
<1>2. (Sweeping' <=> Sweeping) \/ bstep = "idle"
  BY <1>1 DEF Sweeping, Head1
<1>3. Gone => Gone'
  BY DEF Gone, OnlyDown
<1>4. bstep' # "idle" => queue' # <<>>
  BY <1>1
<1>5. broker' # "up" => queue' = <<>>
  BY DEF LockInv
<1>. QED BY <1>1, <1>2, <1>3, <1>4, <1>5
     DEF LockInv, CreateSteps, RemoveSteps, OnlyDown, Components

\* The service's steps leave the lock with its holder.
LEMMA ServiceHolder ==
    ASSUME LockInv, BrokerType, ServiceMove, UNCHANGED containers
    PROVE  LockInv'
<1>. OnlyDown
  BY DEF containers, OnlyDown
<1>1. ASSUME NEW op \in {"create", "stop", "remove", "sweep"}, broker = "up", Submitted(op)
      PROVE  LockInv'
  <2>1. [op |-> op, live |-> TRUE] \in Request
    BY DEF Request, Requests
  <2>. QED BY <1>1, <2>1, AppendFacts, SameHolder DEF Submitted, BrokerType
<1>2. CASE Abandoned /\ reply' \in {"none", "err", reply} /\ UNCHANGED <<broker, bstep, clean>>
  BY <1>2, AbandonFacts, SameHolder DEF BrokerType
<1>3. CASE UNCHANGED <<broker, queue, bstep, clean>>
  BY <1>3, SameHolder
<1>. QED BY <1>1, <1>2, <1>3 DEF ServiceMove, brokerState, Reply

\* The processes stay as they are.
LEMMA SameProcesses ==
    ASSUME ProcessInv, UNCHANGED containers, RanAfter
    PROVE  ProcessInv'
BY DEF ProcessInv, containers, processes, RanAfter, Up

-----------------------------------------------------------------------------
(* Who waits for which request.                                            *)

Waiting ==
    {"creating", "wait_stop", "capture_stop", "cancel_stop", "panic_stop", "cancel_remove",
     "removing", "sweeping"}

NoLive == \A i \in DOMAIN queue : ~queue[i].live
OnlyShutdown == \A i \in DOMAIN queue : queue[i].op = "shutdown"

\* Nobody waits for a request when the service does not wait or has its answer.
LEMMA Unwatched ==
    ASSUME QueueInv, spc \notin Waiting \/ reply # "none"
    PROVE  NoLive
BY DEF QueueInv, NoLive, Awaits, Waiting

\* The order of the queue, when nobody waits for any of it.
LEMMA QuietQueue ==
    ASSUME QueueInv, NoLive, UNCHANGED queue
    PROVE  QueueInv'
BY DEF QueueInv, NoLive

LEMMA AbandonedQueue ==
    ASSUME QueueInv, BrokerType, Abandoned
    PROVE  QueueInv' /\ NoLive' /\ (NoCreate' <=> NoCreate) /\ (OnlyShutdown' <=> OnlyShutdown)
<1>1. /\ DOMAIN queue' = DOMAIN queue
      /\ \A i \in DOMAIN queue : queue'[i].op = queue[i].op /\ ~queue'[i].live
  BY AbandonFacts DEF BrokerType
<1>. QED BY <1>1 DEF QueueInv, NoLive, NoCreate, OnlyShutdown

LEMMA SubmittedQueue ==
    ASSUME QueueInv, BrokerType, NoLive, NEW op \in {"create", "stop", "remove", "sweep"},
           Submitted(op), Awaits(op)', op = "create" => OnlyShutdown
    PROVE  QueueInv' /\ (NoCreate /\ op # "create" => NoCreate')
<1>1. [op |-> op, live |-> TRUE] \in Request
  BY DEF Request, Requests
<1>2. /\ \A i \in DOMAIN queue : i < Len(queue) + 1
      /\ \A i \in DOMAIN queue' :
            \/ i \in DOMAIN queue /\ queue'[i] = queue[i]
            \/ i = Len(queue) + 1 /\ queue'[i] = [op |-> op, live |-> TRUE]
  BY <1>1, AppendFacts DEF Submitted, BrokerType
<1>3. NoCreate /\ op # "create" => NoCreate'
  BY <1>2 DEF NoCreate
<1>4. \A i, j \in DOMAIN queue' :
         i < j /\ queue'[j].op = "create" => queue'[i].op = "shutdown"
  <2>. SUFFICES ASSUME NEW i \in DOMAIN queue', NEW j \in DOMAIN queue',
                       i < j, queue'[j].op = "create"
                PROVE  queue'[i].op = "shutdown"
    OBVIOUS
  <2>1. DOMAIN queue' \subseteq Nat /\ Len(queue) \in Nat
    BY ServiceMoveTypes DEF Submitted, BrokerType, ServiceMove
  <2>2. CASE j \in DOMAIN queue /\ queue'[j] = queue[j]
    <3>1. i \in DOMAIN queue /\ queue'[i] = queue[i]
      BY <1>2, <2>1, <2>2
    <3>. QED BY <2>2, <3>1 DEF QueueInv
  <2>3. CASE j = Len(queue) + 1 /\ queue'[j] = [op |-> op, live |-> TRUE]
    <3>1. i \in DOMAIN queue /\ queue'[i] = queue[i] /\ op = "create"
      BY <1>2, <2>1, <2>3
    <3>. QED BY <3>1 DEF OnlyShutdown
  <2>. QED BY <1>2, <2>2, <2>3
<1>5. \A i \in DOMAIN queue' : queue'[i].live => i = Len(queue) + 1 /\ queue'[i].op = op
  BY <1>2 DEF NoLive
<1>. QED BY <1>3, <1>4, <1>5 DEF QueueInv, Submitted

-----------------------------------------------------------------------------
(* The service's steps.                                                    *)

\* They leave the containers, and so what is known of them, alone.
LEMMA ServiceFrame ==
    ASSUME TopologyInv, RanAfter, UNCHANGED containers
    PROVE  /\ ran' = ran
           /\ UNCHANGED <<cont, agent, cap, written, captured>>
           /\ Gone' <=> Gone
           /\ Quiet' <=> Quiet
<1>1. UNCHANGED <<cont, agent, cap, written, captured>>
  BY DEF containers, processes
<1>2. ran' = ran
  BY <1>1 DEF TopologyInv, TopologyType, SessionType, ProcessInv, RanAfter
<1>. QED BY <1>1, <1>2 DEF Gone, Quiet, Up

\* A step that leaves the queue alone, taken when nobody waits for an answer.
LEMMA QueueFrame ==
    ASSUME TopologyInv, UNCHANGED queue, spc \notin Waiting \/ reply # "none"
    PROVE  QueueInv' /\ (NoCreate' <=> NoCreate) /\ (OnlyShutdown' <=> OnlyShutdown)
BY Unwatched, QuietQueue DEF TopologyInv, NoCreate, OnlyShutdown

LEMMA SetupSteps ==
    ASSUME TopologyInv, RanAfter,
           PreAgentExit \/ Stage \/ TopologyCreated \/ LaunchDecision \/ AgentReady
    PROVE  QueueInv' /\ CreationInv' /\ SightInv' /\ EndingInv'
<1>1. UNCHANGED containers /\ UNCHANGED brokerState
  BY DEF PreAgentExit, Stage, TopologyCreated, LaunchDecision, AgentReady, NoDocker
<1>2. spc \in {"stage", "gate", "created", "launch", "await"}
  BY DEF PreAgentExit, Stage, TopologyCreated, LaunchDecision, AgentReady, At
<1>3. /\ QueueInv' /\ (NoCreate' <=> NoCreate) /\ (OnlyShutdown' <=> OnlyShutdown)
      /\ reply' = reply
  BY <1>1, <1>2, QueueFrame DEF brokerState, Waiting
<1>4. /\ ran' = ran /\ (Gone' <=> Gone) /\ (Quiet' <=> Quiet)
      /\ UNCHANGED <<cont, agent, cap, written, captured>>
  BY <1>1, ServiceFrame
<1>5. spc \in {"stage", "gate"} => Gone /\ OnlyShutdown /\ NoCreate
  BY DEF TopologyInv, CreationInv, OnlyShutdown, NoCreate
<1>6. ~removal /\ ~certified
  BY <1>2 DEF TopologyInv, CreationInv, Proving, Closing
<1>7. CreationInv'
  BY <1>2, <1>3, <1>4, <1>5, <1>6 DEF PreAgentExit, Stage, TopologyCreated, LaunchDecision,
     AgentReady, At, To, Ends, SetupFails, KeepResult, ending, evidence, TopologyInv,
     CreationInv, OnlyShutdown, LaunchedSteps
<1>8. SightInv'
  BY <1>2, <1>3, <1>4, <1>5 DEF PreAgentExit, Stage, TopologyCreated, LaunchDecision,
     AgentReady, At, To, Ends, SetupFails, KeepResult, ending, evidence, TopologyInv,
     SightInv, Proving, Gone, Quiet, Up
<1>9. EndingInv'
  BY <1>2, <1>3, <1>4, <1>5 DEF PreAgentExit, Stage, TopologyCreated, LaunchDecision,
     AgentReady, At, To, Ends, SetupFails, NoDocker, KeepResult, KeepHistory, history, ending,
     evidence,
     TopologyInv, TopologyType, SessionType, EndingInv, Proving, Closing, Recovering, LaunchedSteps
<1>. QED BY <1>3, <1>7, <1>8, <1>9

\* A call is queued, or fails at once because there is no broker any more.
LEMMA CallFrame ==
    ASSUME TopologyInv, spc \notin Waiting \/ reply # "none",
           NEW op \in {"create", "stop", "remove", "sweep"}, NEW step, Call(op, step),
           Awaits(op)', op = "create" => OnlyShutdown
    PROVE  /\ QueueInv'
           /\ NoCreate /\ op # "create" => NoCreate'
           /\ reply' \in {"none", "err"}
           /\ reply' # "none" => NoCreate'
<1>1. NoLive
  BY Unwatched DEF TopologyInv
<1>2. BrokerType
  BY TypeParts DEF TopologyInv
<1>3. CASE broker = "up"
  BY <1>1, <1>2, <1>3, SubmittedQueue DEF TopologyInv, Call, Submitted
<1>4. CASE broker # "up"
  <2>1. queue = <<>> /\ queue' = <<>> /\ reply' = "err"
    BY <1>4 DEF TopologyInv, LockInv, Call
  <2>2. DOMAIN queue' = {}
    BY <2>1
  <2>. QED BY <2>1, <2>2 DEF QueueInv, NoCreate
<1>. QED BY <1>3, <1>4

\* The reading of an answer.
LEMMA ReplyFrame ==
    ASSUME TopologyInv, NEW r \in {"ok", "err"}, Reply(r)
    PROVE  /\ QueueInv' /\ (NoCreate' <=> NoCreate) /\ (OnlyShutdown' <=> OnlyShutdown)
           /\ reply = r /\ reply' = "none"
<1>1. reply # "none" /\ UNCHANGED queue /\ reply = r /\ reply' = "none"
  BY DEF Reply
<1>. QED BY <1>1, QueueFrame

LEMMA CreationSteps ==
    ASSUME TopologyInv, RanAfter, CreateTopology \/ CreateAnswered \/ CreateCancelled
    PROVE  QueueInv' /\ CreationInv' /\ SightInv' /\ EndingInv'
<1>1. UNCHANGED <<containers, gate>>
  BY DEF CreateTopology, CreateAnswered, CreateCancelled
<1>2. /\ ran' = ran /\ (Gone' <=> Gone) /\ (Quiet' <=> Quiet)
      /\ UNCHANGED <<cont, agent, cap, written, captured>>
  BY <1>1, ServiceFrame
<1>3. spc \in {"gate", "creating"} /\ spc' \in {"creating", "created", "teardown"}
  BY DEF CreateTopology, CreateAnswered, CreateCancelled, At, To, SetupFails, Ends, Call
<1>4. ~removal /\ ~certified
  BY <1>3 DEF TopologyInv, CreationInv, Proving, Closing
<1>5. ~removal' /\ ~certified'
  BY <1>4 DEF CreateTopology, CreateAnswered, CreateCancelled, SetupFails, KeepResult, evidence
<1>6. SightInv'
  BY <1>3 DEF SightInv, Proving
<1>7. EndingInv'
  BY <1>1, <1>2, <1>3 DEF CreateTopology, CreateAnswered, CreateCancelled, SetupFails, Ends,
     To, Call, KeepResult, KeepHistory, history, ending, evidence, TopologyInv, TopologyType,
     SessionType,
     EndingInv, Proving, Closing, Recovering, LaunchedSteps
<1>8. QueueInv' /\ CreationInv'
  <2>1. CASE CreateTopology
    <3>1. OnlyShutdown
      BY <2>1 DEF TopologyInv, CreationInv, OnlyShutdown, CreateTopology, At
    <3>2. Awaits("create")' /\ spc \notin Waiting
      BY <2>1 DEF CreateTopology, Call, To, At, Awaits, Waiting
    <3>3. QueueInv' /\ reply' \in {"none", "err"}
      BY <2>1, <3>1, <3>2, CallFrame DEF CreateTopology
    <3>. QED BY <1>5, <2>1, <3>3 DEF CreationInv, CreateTopology, Call, To, LaunchedSteps
  <2>2. CASE CreateAnswered
    <3>1. QueueInv' /\ (NoCreate' <=> NoCreate) /\ (To("created") => reply = "ok")
      BY <2>2, ReplyFrame DEF CreateAnswered, SetupFails, Ends, To
    <3>2. To("created") => NoCreate
      BY <2>2, <3>1 DEF CreateAnswered, At, TopologyInv, CreationInv
    <3>. QED BY <1>3, <1>5, <2>2, <3>1, <3>2 DEF CreationInv, CreateAnswered, SetupFails,
         Ends, To, LaunchedSteps
  <2>3. CASE CreateCancelled
    <3>1. QueueInv'
      BY <2>3, AbandonedQueue, TypeParts DEF CreateCancelled, TopologyInv
    <3>. QED BY <1>5, <2>3, <3>1 DEF CreationInv, CreateCancelled, SetupFails, Ends, To,
         LaunchedSteps
  <2>. QED BY <2>1, <2>2, <2>3
<1>. QED BY <1>6, <1>7, <1>8

\* Settling keeps the service among the steps of a launched session.
LEMMA SettleSteps ==
    ASSUME TopologyInv, RanAfter,
           \/ WaitReturns \/ WaitFails \/ CaptureExitSeen \/ CancelSeen
           \/ StopAnswered \/ CancelStopFails \/ CancelRemoveAnswered \/ WaitEnds
    PROVE  QueueInv' /\ CreationInv' /\ SightInv' /\ EndingInv'
<1>1. UNCHANGED <<containers, gate, removal, certified>>
  BY DEF WaitReturns, WaitFails, CaptureExitSeen, CancelSeen, StopAnswered, CancelStopFails,
     CancelRemoveAnswered, WaitEnds, Settling, evidence
<1>2. /\ ran' = ran /\ (Gone' <=> Gone) /\ (Quiet' <=> Quiet)
      /\ UNCHANGED <<cont, agent, cap, written, captured>>
  BY <1>1, ServiceFrame
<1>3. spc \in LaunchedSteps \ {"await", "drain"} /\ spc' \in LaunchedSteps \ {"await", "settle"}
  BY DEF WaitReturns, WaitFails, CaptureExitSeen, CancelSeen, StopAnswered, CancelStopFails,
     CancelRemoveAnswered, WaitEnds, At, To, Call, LaunchedSteps
<1>4. NoCreate /\ ~removal /\ ~certified
  BY <1>3 DEF TopologyInv, CreationInv, Proving, Closing, LaunchedSteps
<1>5. QueueInv' /\ NoCreate'
  <2>1. CASE WaitReturns \/ WaitEnds
    BY <1>4, <2>1, QueueFrame DEF WaitReturns, WaitEnds, At, Waiting, brokerState
  <2>2. CASE WaitFails \/ CaptureExitSeen \/ CancelSeen
    <3>1. PICK s \in {"wait_stop", "capture_stop", "cancel_stop"} :
             Call("stop", s) /\ spc = "settle"
      BY <2>2 DEF WaitFails, CaptureExitSeen, CancelSeen, At
    <3>2. Awaits("stop")' /\ spc \notin Waiting
      BY <3>1 DEF Awaits, Call, To, Waiting
    <3>. QED BY <1>4, <3>1, <3>2, CallFrame
  <2>3. CASE CancelStopFails
    <3>1. Awaits("remove")' /\ reply # "none"
      BY <2>3 DEF CancelStopFails, Awaits, Call, To
    <3>. QED BY <1>4, <2>3, <3>1, CallFrame DEF CancelStopFails
  <2>4. CASE StopAnswered \/ CancelRemoveAnswered
    <3>1. \E r \in {"ok", "err"} : Reply(r)
      BY <2>4 DEF StopAnswered, CancelRemoveAnswered
    <3>. QED BY <1>4, <3>1, ReplyFrame
  <2>. QED BY <2>1, <2>2, <2>3, <2>4
<1>6. CreationInv'
  BY <1>1, <1>3, <1>4, <1>5 DEF CreationInv, LaunchedSteps
<1>7. SightInv'
  BY <1>3 DEF SightInv, LaunchedSteps, Proving
<1>8. UNCHANGED <<cancelled, history>>
  BY DEF WaitReturns, WaitFails, CaptureExitSeen, CancelSeen, StopAnswered, CancelStopFails,
     CancelRemoveAnswered, WaitEnds, Settling, KeepHistory
<1>9. EndingInv'
  BY <1>1, <1>2, <1>3, <1>8 DEF TopologyInv, TopologyType, SessionType, EndingInv, history,
     Proving, Closing, Recovering, LaunchedSteps
<1>. QED BY <1>5, <1>6, <1>7, <1>9

\* The capture is certified only when it is complete, and from then on no
\* creation can start another one.
LEMMA DrainSteps ==
    ASSUME TopologyInv, RanAfter, CaptureDrained \/ Teardown \/ RemoveAnswered
    PROVE  QueueInv' /\ CreationInv' /\ SightInv' /\ EndingInv'
<1>1. UNCHANGED <<containers, gate>> /\ UNCHANGED <<cancelled, history, phase>>
  BY DEF CaptureDrained, Teardown, RemoveAnswered, NoDocker, KeepHistory, KeepResult, ending
<1>2. /\ ran' = ran /\ (Gone' <=> Gone) /\ (Quiet' <=> Quiet)
      /\ UNCHANGED <<cont, agent, cap, written, captured>>
  BY <1>1, ServiceFrame
<1>3. ~removal
  BY DEF TopologyInv, CreationInv, CaptureDrained, Teardown, RemoveAnswered, At, Proving
<1>4. CASE CaptureDrained
  <2>1. QueueInv' /\ (NoCreate' <=> NoCreate)
    BY <1>4, QueueFrame DEF CaptureDrained, At, Waiting, NoDocker, brokerState
  <2>2. NoCreate
    BY <1>4 DEF CaptureDrained, At, TopologyInv, CreationInv, LaunchedSteps
  <2>3. ~certified
    BY <1>4 DEF CaptureDrained, At, TopologyInv, CreationInv, Closing, Proving
  <2>4. spc' = "teardown" /\ ~removal' /\ (certified' => cap = "complete")
    BY <1>3, <1>4, <2>3 DEF CaptureDrained, To, CaptureProved
  <2>5. CreationInv'
    BY <1>2, <2>1, <2>2, <2>4 DEF CreationInv, Closing, LaunchedSteps, TopologyInv, ProcessInv
  <2>6. SightInv'
    BY <2>4 DEF SightInv, Proving
  <2>7. EndingInv'
    BY <1>1, <1>2, <1>4, <2>4 DEF CaptureDrained, At, TopologyInv, TopologyType, SessionType,
       EndingInv, history, Proving, Closing, Recovering, LaunchedSteps
  <2>. QED BY <2>1, <2>5, <2>6, <2>7
<1>5. CASE Teardown
  <2>1. spc = "teardown" /\ spc' = "removing" /\ UNCHANGED evidence /\ Awaits("remove")'
    BY <1>5 DEF Teardown, At, Call, To, KeepResult, Awaits
  <2>2. /\ QueueInv' /\ (NoCreate => NoCreate') /\ reply' \in {"none", "err"}
        /\ reply' # "none" => NoCreate'
    BY <1>5, <2>1, CallFrame DEF Teardown, Waiting
  <2>3. CreationInv'
    BY <1>2, <1>3, <2>1, <2>2 DEF CreationInv, evidence, Closing, LaunchedSteps, TopologyInv
  <2>4. SightInv'
    BY <2>1, <2>2 DEF SightInv, Proving
  <2>5. EndingInv'
    BY <1>1, <1>2, <2>1 DEF TopologyInv, TopologyType, SessionType, EndingInv, history,
       Proving, Closing, Recovering, LaunchedSteps
  <2>. QED BY <2>2, <2>3, <2>4, <2>5
<1>6. CASE RemoveAnswered
  <2>1. PICK answer \in {"ok", "err"} :
           Reply(answer) /\ removal' = (answer = "ok") /\ diag' = (diag \/ answer = "err")
    BY <1>6 DEF RemoveAnswered
  <2>2. spc = "removing" /\ spc' = "prove_agent" /\ certified' = certified
    BY <1>6 DEF RemoveAnswered, At, To
  <2>3. QueueInv' /\ (NoCreate' <=> NoCreate) /\ reply = answer
    BY <2>1, ReplyFrame
  <2>4. CreationInv'
    BY <1>2, <2>1, <2>2, <2>3 DEF CreationInv, Closing, Proving, LaunchedSteps, TopologyInv
  <2>5. SightInv'
    BY <1>1, <2>2, <2>3 DEF SightInv, Proving, TopologyInv, history
  <2>6. EndingInv'
    BY <1>1, <1>2, <2>1, <2>2 DEF TopologyInv, TopologyType, SessionType, EndingInv, history,
       Proving, Closing, Recovering, LaunchedSteps
  <2>. QED BY <2>3, <2>4, <2>5, <2>6
<1>. QED BY <1>4, <1>5, <1>6

\* The three observations add up: what was seen stopped is still stopped when
\* the last one is made.
LEMMA ProofSteps ==
    ASSUME TopologyInv, RanAfter, ProveQuiescent
    PROVE  QueueInv' /\ CreationInv' /\ SightInv' /\ EndingInv'
<1>1. /\ UNCHANGED containers /\ UNCHANGED brokerState
      /\ UNCHANGED <<cancelled, history, certified, ending>>
  BY DEF ProveQuiescent, KeepHistory
<1>2. /\ ran' = ran /\ (Gone' <=> Gone) /\ (Quiet' <=> Quiet)
      /\ UNCHANGED <<cont, agent, cap, written, captured>>
  BY <1>1, ServiceFrame
<1>3. spc \in Proving /\ spc' \in {"prove_relay", "prove_capture", "bundle"}
  BY DEF ProveQuiescent, ProveFails, ProveStep, ProveLast, Proved, At, To, Proving
<1>4. QueueInv' /\ (NoCreate' <=> NoCreate) /\ reply' = reply
  BY <1>1, <1>3, QueueFrame DEF brokerState, Proving, Waiting
<1>5. /\ removal => Gone /\ NoCreate
      /\ ~diag => removal
      /\ ~timedOut => NoCreate
  BY <1>3 DEF TopologyInv, CreationInv, SightInv, EndingInv
<1>6. removal \in BOOLEAN /\ diag \in BOOLEAN
  BY DEF TopologyInv, TopologyType, SessionType
<1>7. CASE spc' # "bundle"
  <2>1. UNCHANGED <<gate, proof, removal, diag>> /\ spc' \in {"prove_relay", "prove_capture"}
    BY <1>3, <1>7 DEF ProveQuiescent, ProveFails, ProveStep, ProveLast, Proved, To
  <2>2. CreationInv'
    BY <1>1, <1>2, <1>3, <1>4, <2>1 DEF CreationInv, TopologyInv, Closing, Proving, LaunchedSteps
  <2>3. /\ spc' = "prove_relay" => seen' = Sighted("agent")
        /\ spc' = "prove_capture" => spc = "prove_relay" /\ seen' = Sighted("relay")
    BY <1>7 DEF ProveQuiescent, ProveFails, ProveStep, ProveLast, Proved, At, To
  <2>4. SightInv'
    <3>1. /\ spc' = "prove_relay" /\ seen'.quiet => ~Up("agent")
          /\ spc' = "prove_capture" /\ seen'.quiet => seen.quiet /\ ~Up("relay")
      <4>1. /\ Sighted("agent").quiet <=> seen.quiet /\ ~Up("agent")
            /\ Sighted("relay").quiet <=> seen.quiet /\ ~Up("relay")
        BY DEF Sighted
      <4>. QED BY <2>3, <4>1
    <3>2. ~timedOut /\ seen'.quiet =>
             ~Up("agent") /\ (spc' = "prove_capture" => ~Up("relay"))
      BY <2>1, <2>3, <3>1 DEF SightInv, TopologyInv
    <3>. QED BY <1>1, <1>2, <1>4, <1>5, <2>1, <3>2 DEF SightInv, Up, history
  <2>5. EndingInv'
    BY <1>1, <1>2, <1>3, <1>5, <2>1 DEF TopologyInv, TopologyType, SessionType, EndingInv,
       history, ending, Proving, Closing, Recovering, LaunchedSteps
  <2>. QED BY <1>4, <2>2, <2>4, <2>5
<1>8. CASE spc' = "bundle"
  <2>1. /\ ~removal'
        /\ proof'.complete => removal
        /\ ~diag' => ~diag /\ proof'.complete
        /\ proof'.quiescent => spc = "prove_capture" /\ seen.quiet /\ ~Up("capture")
    <3>1. CASE ProveFails
      BY <3>1 DEF ProveFails, Proved
    <3>2. CASE At("prove_capture") /\ ProveLast
      <4>1. Sighted("capture").quiet <=> seen.quiet /\ ~Up("capture")
        BY DEF Sighted
      <4>. QED BY <1>5, <1>6, <3>2, <4>1 DEF ProveLast, Proved, At
    <3>. QED BY <1>8, <3>1, <3>2 DEF ProveQuiescent, ProveStep, To
  <2>2. CreationInv'
    BY <1>1, <1>2, <1>3, <1>4, <1>5, <1>8, <2>1 DEF CreationInv, TopologyInv, Closing, Proving,
       LaunchedSteps
  <2>3. SightInv'
    <3>1. ~timedOut /\ proof'.quiescent => Quiet
      BY <2>1 DEF TopologyInv, SightInv, Quiet, Up, Components
    <3>. QED BY <1>1, <1>2, <1>4, <1>5, <1>8, <3>1 DEF SightInv, history
  <2>4. EndingInv'
    BY <1>1, <1>2, <1>3, <1>5, <1>8, <2>1 DEF TopologyInv, TopologyType, SessionType, EndingInv,
       history, ending, Proving, Closing, Recovering, LaunchedSteps
  <2>. QED BY <1>4, <2>2, <2>3, <2>4
<1>. QED BY <1>7, <1>8

LEMMA BundleStep ==
    ASSUME TopologyInv, RanAfter, Bundle
    PROVE  QueueInv' /\ CreationInv' /\ SightInv' /\ EndingInv'
<1>1. /\ UNCHANGED <<containers, gate, brokerState>>
      /\ UNCHANGED <<cancelled, history, evidence, phase, status>>
      /\ spc = "bundle" /\ spc' = "end"
  BY DEF Bundle, NoDocker, KeepHistory, At, To
<1>2. /\ ran' = ran /\ (Gone' <=> Gone) /\ (Quiet' <=> Quiet)
      /\ UNCHANGED <<cont, agent, cap, written, captured>>
  BY <1>1, ServiceFrame
<1>3. QueueInv' /\ (NoCreate' <=> NoCreate)
  BY <1>1, QueueFrame DEF brokerState, Waiting
<1>4. CreationInv'
  BY <1>1, <1>2, <1>3 DEF CreationInv, TopologyInv, Closing, Proving, LaunchedSteps, evidence
<1>5. SightInv'
  BY <1>1, <1>2, <1>3 DEF SightInv, TopologyInv, Proving, evidence, history
<1>6. ProcessError' <=> ProcessError
  BY <1>1 DEF ProcessError, evidence
<1>7. ~perror' => ~ProcessError /\ bundled'
  BY DEF Bundle
<1>8. EndingInv'
  BY <1>1, <1>2, <1>6, <1>7 DEF TopologyInv, TopologyType, SessionType, EndingInv, history,
     evidence, Proving, Closing, Recovering, LaunchedSteps
<1>. QED BY <1>3, <1>4, <1>5, <1>8

\* The token and a deadline change what is known, not where the session is.
LEMMA TokenSteps ==
    ASSUME TopologyInv, RanAfter, Cancel \/ DeadlinePasses
    PROVE  QueueInv' /\ CreationInv' /\ SightInv' /\ EndingInv'
<1>1. /\ UNCHANGED <<containers, gate, ending, evidence>>
      /\ UNCHANGED <<spc, launched, panicked, crashed>>
  BY DEF Cancel, DeadlinePasses, NoDocker, KeepResult
<1>2. /\ ran' = ran /\ (Gone' <=> Gone) /\ (Quiet' <=> Quiet)
      /\ UNCHANGED <<cont, agent, cap, written, captured>>
  BY <1>1, ServiceFrame
<1>3. ProcessError' <=> ProcessError
  BY <1>1 DEF ProcessError, ending, evidence
<1>4. EndingInv'
  <2>1. early' => cancelled' /\ ~launched
    BY DEF Cancel, DeadlinePasses, TopologyInv, EndingInv
  <2>. QED BY <1>1, <1>2, <1>3, <2>1 DEF TopologyInv, TopologyType, SessionType, EndingInv,
       ending, evidence
<1>5. CASE Cancel
  <2>1. UNCHANGED <<queue, reply, timedOut>>
    BY <1>5 DEF Cancel, NoDocker, brokerState
  <2>2. QueueInv' /\ (NoCreate' <=> NoCreate) /\ (OnlyShutdown' <=> OnlyShutdown)
    BY <1>1, <2>1 DEF TopologyInv, QueueInv, Awaits, NoCreate, OnlyShutdown
  <2>3. CreationInv'
    BY <1>1, <1>2, <2>1, <2>2 DEF TopologyInv, CreationInv, OnlyShutdown, evidence
  <2>4. SightInv'
    BY <1>1, <1>2, <2>1, <2>2 DEF TopologyInv, SightInv, Up, evidence
  <2>. QED BY <1>4, <2>2, <2>3, <2>4
<1>6. CASE DeadlinePasses
  <2>1. QueueInv' /\ (NoCreate' <=> NoCreate) /\ (OnlyShutdown' <=> OnlyShutdown)
    BY <1>6, AbandonedQueue, TypeParts DEF TopologyInv, DeadlinePasses
  <2>2. reply' = "err" /\ timedOut'
    BY <1>6 DEF DeadlinePasses
  <2>3. CreationInv'
    BY <1>1, <1>2, <2>1, <2>2 DEF TopologyInv, CreationInv, OnlyShutdown, evidence
  <2>4. SightInv'
    BY <2>2 DEF SightInv
  <2>. QED BY <1>4, <2>1, <2>3, <2>4
<1>. QED BY <1>5, <1>6

\* A panic or a crash forgets what the execution knew and frees the gate.
LEMMA LossSteps ==
    ASSUME TopologyInv, RanAfter, ExecutionPanics \/ ServiceCrashes
    PROVE  QueueInv' /\ CreationInv' /\ SightInv' /\ EndingInv'
<1>1. /\ UNCHANGED <<containers, cancelled, launched, early>> /\ Abandoned
      /\ ~certified' /\ ~removal' /\ spc' \in {"panic", "down"}
      /\ panicked' \/ crashed'
  BY DEF ExecutionPanics, ServiceCrashes, ExecutionLost, To
<1>2. ran' = ran
  BY <1>1, ServiceFrame
<1>3. QueueInv'
  BY <1>1, AbandonedQueue, TypeParts DEF TopologyInv
<1>4. CreationInv' /\ SightInv'
  BY <1>1 DEF CreationInv, SightInv, Proving, LaunchedSteps
<1>5. EndingInv'
  BY <1>1, <1>2 DEF TopologyInv, EndingInv, Proving, Closing, Recovering, LaunchedSteps
<1>. QED BY <1>3, <1>4, <1>5

LEMMA RecoverySteps ==
    ASSUME TopologyInv, RanAfter, PanicRecovery \/ RestartRecovery
    PROVE  QueueInv' /\ CreationInv' /\ SightInv' /\ EndingInv'
<1>1. /\ UNCHANGED <<containers, gate, cancelled, history, evidence>>
      /\ spc \in Recovering /\ spc' \in Recovering \cup {"teardown"}
      /\ spc' = "teardown" => phase' \in {"PanicRecovery", "ServiceRestart"}
  BY DEF PanicRecovery, RestartRecovery, KeepHistory, KeepResult, At, To, Ends, Call, Recovering
<1>2. ran' = ran
  BY <1>1, ServiceFrame
<1>3. ~removal /\ ~certified
  BY <1>1 DEF TopologyInv, CreationInv, Proving, Closing, Recovering
<1>4. QueueInv'
  <2>1. CASE At("panic") /\ Call("stop", "panic_stop")
    <3>1. Awaits("stop")' /\ spc \notin Waiting
      BY <2>1 DEF At, Call, To, Awaits, Waiting
    <3>. QED BY <2>1, <3>1, CallFrame
  <2>2. CASE At("down") /\ Call("sweep", "sweeping")
    <3>1. Awaits("sweep")' /\ spc \notin Waiting
      BY <2>2 DEF At, Call, To, Awaits, Waiting
    <3>. QED BY <2>2, <3>1, CallFrame
  <2>3. CASE At("panic_drain") /\ UNCHANGED brokerState
    BY <2>3, QueueFrame DEF At, Waiting, brokerState
  <2>4. CASE \E r \in {"ok", "err"} : Reply(r)
    BY <2>4, ReplyFrame
  <2>. QED BY <2>1, <2>2, <2>3, <2>4 DEF PanicRecovery, RestartRecovery
<1>5. CreationInv' /\ SightInv'
  BY <1>1, <1>3 DEF CreationInv, SightInv, Proving, LaunchedSteps, Recovering, evidence
<1>6. EndingInv'
  BY <1>1, <1>2 DEF TopologyInv, TopologyType, SessionType, EndingInv, history, Proving,
     Closing, Recovering, LaunchedSteps
<1>. QED BY <1>4, <1>5, <1>6

-----------------------------------------------------------------------------
(* The environment's steps: the processes and the broker.                  *)

\* The stream is over and no capture is open to another one.
Settled ==
    /\ captured = written /\ agent \notin {"attached", "task"}
    /\ cap \notin {"starting", "listening"}

\* Without a creation at the broker, what the session knows of its containers
\* stays true.
LEMMA EnvironmentFrame ==
    ASSUME TopologyInv, UNCHANGED session,
           NoCreate => NoCreate' /\ OnlyDown /\ (Settled => Settled'),
           OnlyShutdown => OnlyShutdown',
           reply' # reply => NoCreate' /\ (spc = "removing" /\ reply' = "ok" => Gone')
    PROVE  CreationInv' /\ SightInv'
<1>1. UNCHANGED <<spc, removal, certified, proof, seen, timedOut>>
  BY DEF session, evidence, history
<1>2. NoCreate /\ Gone => Gone'
  BY DEF Gone, OnlyDown
<1>3. NoCreate /\ Quiet => Quiet'
  BY DEF Quiet, Up, OnlyDown
<1>4. NoCreate => (~Up("agent") => ~Up("agent")') /\ (~Up("relay") => ~Up("relay")')
  BY DEF Up, OnlyDown, Components
<1>5. OnlyShutdown => NoCreate
  BY DEF OnlyShutdown, NoCreate
<1>6. CreationInv'
  BY <1>1, <1>2, <1>5 DEF TopologyInv, CreationInv, OnlyShutdown, Settled
<1>7. SightInv'
  BY <1>1, <1>3, <1>4 DEF TopologyInv, SightInv, Proving
<1>. QED BY <1>6, <1>7

\* The agent goes past the gate only when it is free.
LEMMA GateFrame ==
    ASSUME TopologyInv, UNCHANGED <<session, gate>>, RanAfter,
           agent' \notin {"none", "gate"} =>
               agent \notin {"none", "gate"} \/ (agent = "gate" /\ gate = "free")
    PROVE  EndingInv'
<1>1. /\ UNCHANGED <<spc, cancelled, removal, certified, proof, diag, launched, early, panicked>>
      /\ UNCHANGED <<crashed, phase, status, bundled, perror>>
  BY DEF session, evidence, history, ending
<1>2. ProcessError' <=> ProcessError
  BY <1>1 DEF ProcessError
<1>3. ran' => ran \/ (agent = "gate" /\ gate = "free")
  BY DEF RanAfter, TopologyInv, ProcessInv
<1>4. Gone => agent = "none"
  BY DEF TopologyInv, ProcessInv, Gone, Up, Components
<1>5. ran' => \/ launched \/ panicked \/ crashed
              \/ spc \in {"bundle", "end"} /\ ~proof.complete
  <2>1. CASE ran
    BY <2>1 DEF TopologyInv, EndingInv
  <2>2. CASE agent = "gate" /\ gate = "free"
    BY <1>4, <2>2 DEF TopologyInv, EndingInv, CreationInv
  <2>. QED BY <1>3, <2>1, <2>2
<1>. QED BY <1>1, <1>2, <1>5 DEF TopologyInv, EndingInv

LEMMA ProcessSteps ==
    ASSUME TopologyInv, RanAfter, UNCHANGED session, ProcessStep
    PROVE  ProcessInv' /\ LockInv' /\ QueueInv' /\ CreationInv' /\ SightInv' /\ EndingInv'
<1>1. UNCHANGED <<gate, broker, queue, bstep, clean, reply>>
  BY DEF ProcessStep, brokerState
<1>2. TopologyType
  BY DEF TopologyInv
<1>3. OnlyDown
  BY <1>2 DEF ProcessStep, AgentPassesGate, AgentAttaches, AgentReleased, AgentWrites, AgentCloses,
     AgentExits, CaptureListens, CaptureCopies, CaptureCompletes, CaptureFails, RelayExits,
     Exits, Up, OnlyDown, Components, TopologyInv, ProcessInv, TopologyType, ContainersType
<1>4. Settled => Settled'
  BY DEF ProcessStep, AgentPassesGate, AgentAttaches, AgentReleased, AgentWrites, AgentCloses,
     AgentExits, CaptureListens, CaptureCopies, CaptureCompletes, CaptureFails, RelayExits,
     processes, Settled, TopologyInv, TopologyType, ContainersType
<1>5. ProcessInv'
  BY <1>2 DEF ProcessStep, AgentPassesGate, AgentAttaches, AgentReleased, AgentWrites, AgentCloses,
     AgentExits, CaptureListens, CaptureCopies, CaptureCompletes, CaptureFails, RelayExits,
     processes, Drained, Exits, Up, Components, TopologyInv, ProcessInv, RanAfter,
     TopologyType, ContainersType
<1>6. LockInv'
  BY <1>1, <1>3, SameHolder, TypeParts DEF TopologyInv
<1>7. QueueInv'
  BY <1>1 DEF TopologyInv, QueueInv, Awaits, session
<1>8. CreationInv' /\ SightInv'
  <2>1. (NoCreate => NoCreate') /\ (OnlyShutdown => OnlyShutdown')
    BY <1>1 DEF NoCreate, OnlyShutdown
  <2>. QED BY <1>1, <1>3, <1>4, <2>1, EnvironmentFrame
<1>9. EndingInv'
  <2>1. agent' \notin {"none", "gate"} =>
           agent \notin {"none", "gate"} \/ (agent = "gate" /\ gate = "free")
    BY DEF ProcessStep, AgentPassesGate, AgentAttaches, AgentReleased, AgentWrites, AgentCloses,
       AgentExits, CaptureListens, CaptureCopies, CaptureCompletes, CaptureFails, RelayExits,
       processes
  <2>. QED BY <1>1, <2>1, GateFrame
<1>. QED BY <1>5, <1>6, <1>7, <1>8, <1>9

\* An answer takes the request off the queue.  Whoever waits for it submitted
\* it after the creation, so none is left behind it.
LEMMA AnsweredFrame ==
    ASSUME TopologyInv, UNCHANGED session, queue # <<>>,
           NEW r \in {"ok", "err"}, Answered(r)
    PROVE  /\ LockInv' /\ QueueInv'
           /\ NoCreate => NoCreate'
           /\ OnlyShutdown => OnlyShutdown'
           /\ reply' # reply => NoCreate' /\ reply' = r /\ Awaits(Head1.op)
<1>1. BrokerType
  BY TypeParts DEF TopologyInv
<1>2. /\ queue' = Tail(queue) /\ 1 \in DOMAIN queue /\ Head1 = queue[1]
      /\ \A i \in DOMAIN queue' :
            i \in Nat /\ 1 < i + 1 /\ i + 1 \in DOMAIN queue /\ queue'[i] = queue[i + 1]
  BY <1>1, TailFacts DEF Answered, BrokerType, Head1
<1>3. LockInv'
  BY DEF TopologyInv, LockInv, Answered, CreateSteps, RemoveSteps
<1>4. (NoCreate => NoCreate') /\ (OnlyShutdown => OnlyShutdown')
  BY <1>2 DEF NoCreate, OnlyShutdown
<1>5. Head1.op # "shutdown" => NoCreate'
  BY <1>2 DEF TopologyInv, QueueInv, NoCreate
<1>6. Head1.live => Awaits(Head1.op) /\ reply = "none" /\ NoLive'
  BY <1>2 DEF TopologyInv, QueueInv, NoLive
<1>7. QueueInv'
  <2>1. \A i, j \in DOMAIN queue' :
           i < j /\ queue'[j].op = "create" => queue'[i].op = "shutdown"
    BY <1>2 DEF TopologyInv, QueueInv
  <2>2. spc' = spc
    BY DEF session
  <2>3. (\A i \in DOMAIN queue : queue[i].live =>
            /\ Awaits(queue[i].op) /\ reply = "none"
            /\ \A j \in DOMAIN queue : queue[j].live => j = i)'
    <3>1. CASE Head1.live
      BY <1>6, <3>1 DEF NoLive
    <3>2. CASE ~Head1.live
      BY <1>2, <2>2, <3>2 DEF TopologyInv, QueueInv, Answered, Awaits
    <3>. QED BY <3>1, <3>2
  <2>. QED BY <2>1, <2>3 DEF QueueInv
<1>8. reply' # reply => Head1.live /\ reply' = r
  BY DEF Answered
<1>9. Awaits(Head1.op) => Head1.op # "shutdown"
  BY DEF Awaits
<1>. QED BY <1>3, <1>4, <1>5, <1>6, <1>7, <1>8, <1>9

\* A request that goes on keeps the queue as it is.
LEMMA OngoingFrame ==
    ASSUME TopologyInv, UNCHANGED session, UNCHANGED <<queue, reply>>
    PROVE  QueueInv' /\ (NoCreate => NoCreate') /\ (OnlyShutdown => OnlyShutdown')
BY DEF TopologyInv, QueueInv, Awaits, session, NoCreate, OnlyShutdown

\* The broker exits.
LEMMA GoneFrame ==
    ASSUME NEW s, BrokerGone(s), s \in {"stopped", "failed"}, s = "stopped" => Gone'
    PROVE  /\ LockInv' /\ QueueInv' /\ NoCreate' /\ OnlyShutdown'
           /\ reply' # reply => reply' = "err"
<1>1. queue' = <<>> /\ DOMAIN queue' = {} /\ bstep' = "idle" /\ clean' /\ broker' = s
  BY DEF BrokerGone
<1>2. LockInv'
  BY <1>1 DEF LockInv, CreateSteps, RemoveSteps
<1>3. QueueInv' /\ NoCreate' /\ OnlyShutdown'
  BY <1>1 DEF QueueInv, NoCreate, OnlyShutdown
<1>. QED BY <1>2, <1>3 DEF BrokerGone

-----------------------------------------------------------------------------
(* Docker's effects on the containers.                                     *)

\* Stopping and removing.
LEMMA DownEffects ==
    ASSUME TopologyInv, RanAfter, NEW c \in Components,
           Halted(c) \/ (~Up(c) /\ Discarded(c)) \/ UNCHANGED containers
    PROVE  /\ ProcessInv' /\ OnlyDown /\ (Settled => Settled')
           /\ agent' \in {agent, "none"}
<1>1. cont \in [Components -> {"absent", "stopped", "running"}] /\ ProcessInv
  BY DEF TopologyInv, TopologyType, ContainersType
<1>2. CASE Halted(c)
  BY <1>1, <1>2 DEF Halted, CaptureSignalled, Drained, ProcessInv, OnlyDown, Settled, Up, RanAfter,
     Components
<1>3. CASE ~Up(c) /\ Discarded(c)
  BY <1>1, <1>3 DEF Discarded, ProcessInv, OnlyDown, Settled, Up, RanAfter, Components
<1>4. CASE UNCHANGED containers
  BY <1>1, <1>4 DEF containers, processes, ProcessInv, OnlyDown, Settled, Up, RanAfter
<1>. QED BY <1>2, <1>3, <1>4

\* Creating: a container is started where there was none.
LEMMA UpEffects ==
    ASSUME TopologyInv, RanAfter, NEW c \in Components,
           Started(c) \/ RunMaybe(c) \/ UNCHANGED containers,
           c = "agent" => Gone, c = "capture" => cont[c] = "absent"
    PROVE  /\ ProcessInv' /\ agent' \in {agent, "gate"}
           /\ \A d \in Components : d # c => cont'[d] = cont[d]
<1>1. cont \in [Components -> {"absent", "stopped", "running"}] /\ ProcessInv
  BY DEF TopologyInv, TopologyType, ContainersType
<1>2. c = "agent" => agent = "none"
  BY <1>1 DEF ProcessInv, Gone, Up, Components
<1>3. CASE Started(c)
  BY <1>1, <1>2, <1>3 DEF Started, ProcessInv, Up, RanAfter, Components
<1>4. CASE UNCHANGED containers
  BY <1>1, <1>4 DEF containers, processes, ProcessInv, Up, RanAfter
<1>5. CASE cont' = [cont EXCEPT ![c] = "stopped"] /\ UNCHANGED processes
  BY <1>1, <1>2, <1>5 DEF processes, ProcessInv, Up, RanAfter, Components
<1>. QED BY <1>3, <1>4, <1>5 DEF RunMaybe

-----------------------------------------------------------------------------
(* The broker's steps.                                                     *)

\* What a step of the broker has to show beyond the types.
LEMMA BrokerFrame ==
    ASSUME TopologyInv, RanAfter, UNCHANGED <<session, gate>>,
           ProcessInv' /\ LockInv' /\ QueueInv',
           agent' \in {agent, "none", "gate"},
           NoCreate => NoCreate' /\ OnlyDown /\ (Settled => Settled'),
           OnlyShutdown => OnlyShutdown',
           reply' # reply => NoCreate' /\ (spc = "removing" /\ reply' = "ok" => Gone')
    PROVE  CreationInv' /\ SightInv' /\ EndingInv'
<1>1. UNCHANGED session /\ UNCHANGED <<session, gate>>
  OBVIOUS
<1>. QED BY <1>1, EnvironmentFrame, GateFrame

LEMMA CreatingSteps ==
    ASSUME TopologyInv, RanAfter, UNCHANGED <<session, gate>>,
           \/ CreateCheck \/ CreateAgent \/ VerifyAgent \/ CreateCapture
           \/ CaptureReady \/ CreateRelay \/ RelayBound
    PROVE  ProcessInv' /\ LockInv' /\ QueueInv' /\ CreationInv' /\ SightInv' /\ EndingInv'
<1>1. bstep \in CreateSteps
  BY DEF CreateCheck, CreateAgent, VerifyAgent, CreateCapture, CaptureReady, CreateRelay,
     RelayBound, CreateSteps
<1>2. queue # <<>> /\ Head1.op = "create" /\ bstep # "idle"
  BY <1>1 DEF TopologyInv, LockInv, CreateSteps
<1>3. broker = "up" /\ BrokerType
  BY <1>2, TypeParts DEF TopologyInv, LockInv
<1>4. ~NoCreate /\ ~OnlyShutdown
  BY <1>2, <1>3, TailFacts DEF NoCreate, OnlyShutdown, Head1, BrokerType
<1>5. ProcessInv' /\ agent' \in {agent, "gate"}
  <2>1. CASE CreateCheck \/ VerifyAgent \/ CaptureReady \/ RelayBound
    BY <2>1, SameProcesses DEF CreateCheck, VerifyAgent, CaptureReady, RelayBound, TopologyInv,
       containers, processes
  <2>2. CASE CreateAgent
    BY <2>2, UpEffects DEF CreateAgent, Components, TopologyInv, LockInv
  <2>3. CASE CreateCapture
    BY <2>3, UpEffects DEF CreateCapture, Components, TopologyInv, LockInv
  <2>4. CASE CreateRelay
    BY <2>4, UpEffects DEF CreateRelay, Components
  <2>. QED BY <2>1, <2>2, <2>3, <2>4
<1>6. CASE \E r \in {"ok", "err"} : Answered(r)
  <2>1. PICK r \in {"ok", "err"} : Answered(r)
    BY <1>6
  <2>2. LockInv' /\ QueueInv' /\ (reply' # reply => NoCreate' /\ Awaits("create"))
    BY <1>2, <2>1, AnsweredFrame
  <2>3. Awaits("create") => spc = "creating"
    BY DEF Awaits
  <2>. QED BY <1>4, <1>5, <2>2, <2>3, BrokerFrame
<1>7. ASSUME UNCHANGED <<broker, queue, reply>>,
             \/ bstep' = "stop_agent" /\ ~clean'
             \/ bstep' = "c_agent" /\ Gone'
             \/ bstep' \in {"c_verify", "c_capture"} /\ cont'["capture"] = "absent"
             \/ bstep' \in {"c_ready", "c_relay", "c_bound"}
      PROVE  ProcessInv' /\ LockInv' /\ QueueInv' /\ CreationInv' /\ SightInv' /\ EndingInv'
  <2>1. Head1' = Head1 /\ (Sweeping' <=> Sweeping) /\ ~Sweeping
    BY <1>2, <1>7 DEF Head1, Sweeping
  <2>2. LockInv'
    BY <1>2, <1>3, <1>7, <2>1 DEF LockInv, CreateSteps, RemoveSteps
  <2>3. QueueInv'
    BY <1>7, OngoingFrame
  <2>. QED BY <1>4, <1>5, <1>7, <2>2, <2>3, BrokerFrame
<1>8. CASE CreateCheck
  BY <1>6, <1>7, <1>8 DEF CreateCheck, GoTo, Gone, containers
<1>9. CASE CreateAgent
  <2>1. CASE Started("agent") /\ GoTo("c_verify")
    <3>1. cont'["capture"] = "absent"
      BY <1>9, <2>1 DEF CreateAgent, Started, TopologyInv, LockInv, Gone, Components,
         TopologyType, ContainersType
    <3>. QED BY <1>7, <2>1, <3>1 DEF GoTo
  <2>. QED BY <1>6, <1>9, <2>1 DEF CreateAgent
<1>10. CASE VerifyAgent
  BY <1>6, <1>7, <1>10 DEF VerifyAgent, GoTo, Cleanup, containers, TopologyInv, LockInv
<1>11. CASE CreateCapture
  BY <1>6, <1>7, <1>11 DEF CreateCapture, GoTo
<1>12. CASE CaptureReady \/ CreateRelay \/ RelayBound
  BY <1>6, <1>7, <1>12 DEF CaptureReady, CreateRelay, RelayBound, GoTo, Cleanup
<1>. QED BY <1>8, <1>9, <1>10, <1>11, <1>12

LEMMA HoldingSteps ==
    ASSUME TopologyInv, RanAfter, UNCHANGED <<session, gate>>,
           TakeLock \/ StopSession \/ BrokerSignalled
    PROVE  ProcessInv' /\ LockInv' /\ QueueInv' /\ CreationInv' /\ SightInv' /\ EndingInv'
<1>1. BrokerType
  BY TypeParts DEF TopologyInv
<1>2. CASE TakeLock
  <2>1. /\ bstep = "idle" /\ queue # <<>> /\ bstep' = FirstStep(Head1.op)
        /\ UNCHANGED <<broker, queue, clean, reply, containers>>
    BY <1>2 DEF TakeLock, GoTo
  <2>2. ProcessInv' /\ OnlyDown /\ (Settled => Settled') /\ agent' = agent
    BY <2>1, DownEffects DEF Components, containers, processes
  <2>3. QueueInv' /\ (NoCreate => NoCreate') /\ (OnlyShutdown => OnlyShutdown')
    BY <2>1, OngoingFrame
  <2>4. LockInv'
    <3>1. broker = "up" /\ clean
      BY <2>1 DEF TopologyInv, LockInv
    <3>2. Head1' = Head1 /\ Head1.op \in Requests
      BY <1>1, <2>1, TailFacts DEF Head1, BrokerType, Request
    <3>3. \/ Head1.op = "create" /\ bstep' = "c_check"
          \/ Head1.op = "stop" /\ bstep' = "s_stop"
          \/ Head1.op \notin {"create", "stop"} /\ bstep' = "stop_agent"
      BY <2>1 DEF FirstStep
    <3>. QED BY <2>1, <3>1, <3>2, <3>3 DEF LockInv, CreateSteps, RemoveSteps
  <2>. QED BY <2>1, <2>2, <2>3, <2>4, BrokerFrame
<1>3. CASE StopSession
  <2>1. queue # <<>> /\ Head1.op = "stop"
    BY <1>3 DEF StopSession, TopologyInv, LockInv
  <2>2. PICK r \in {"ok", "err"} : Answered(r)
    BY <1>3 DEF StopSession
  <2>3. ProcessInv' /\ OnlyDown /\ (Settled => Settled') /\ agent' \in {agent, "none"}
    BY <1>3, DownEffects DEF StopSession, Components
  <2>4. /\ LockInv' /\ QueueInv' /\ (NoCreate => NoCreate') /\ (OnlyShutdown => OnlyShutdown')
        /\ reply' # reply => NoCreate' /\ Awaits("stop")
    BY <2>1, <2>2, AnsweredFrame
  <2>5. Awaits("stop") => spc # "removing"
    BY DEF Awaits
  <2>. QED BY <2>3, <2>4, <2>5, BrokerFrame
<1>4. CASE BrokerSignalled
  <2>1. [op |-> "shutdown", live |-> FALSE] \in Request
    BY DEF Request, Requests
  <2>2. /\ queue' = Append(queue, [op |-> "shutdown", live |-> FALSE]) /\ broker = "up"
        /\ UNCHANGED <<broker, bstep, clean, reply, containers>>
    BY <1>4 DEF BrokerSignalled
  <2>3. /\ queue' # <<>> /\ (queue # <<>> => Head(queue') = Head(queue))
        /\ \A i \in DOMAIN queue : i \in Nat /\ i < Len(queue) + 1
        /\ \A i \in DOMAIN queue' :
              \/ i \in DOMAIN queue /\ queue'[i] = queue[i]
              \/ i = Len(queue) + 1 /\ queue'[i] = [op |-> "shutdown", live |-> FALSE]
    BY <1>1, <2>1, <2>2, AppendFacts DEF BrokerType
  <2>4. ProcessInv' /\ OnlyDown /\ (Settled => Settled') /\ agent' = agent
    BY <2>2, DownEffects DEF Components, containers, processes
  <2>5. LockInv'
    BY <1>1, <2>2, <2>3, <2>4, SameHolder DEF TopologyInv
  <2>6. (NoCreate => NoCreate') /\ (OnlyShutdown => OnlyShutdown')
    BY <2>3 DEF NoCreate, OnlyShutdown
  <2>7. QueueInv'
    <3>1. spc' = spc
      BY DEF session
    <3>. QED BY <2>2, <2>3, <3>1 DEF TopologyInv, QueueInv, Awaits
  <2>. QED BY <2>2, <2>4, <2>5, <2>6, <2>7, BrokerFrame
<1>. QED BY <1>2, <1>3, <1>4

\* A removal answers "ok", and a shutdown ends "stopped", only after every
\* container was found stopped and removed.
LEMMA RemovingSteps ==
    ASSUME TopologyInv, RanAfter, UNCHANGED <<session, gate>>, NEW c \in Components,
           StopOwnedIfRunning(c) \/ RemoveStoppedOwned(c)
    PROVE  ProcessInv' /\ LockInv' /\ QueueInv' /\ CreationInv' /\ SightInv' /\ EndingInv'
<1>1. bstep \in {StopStep[c], RemoveStep[c]} /\ bstep \in RemoveSteps
  BY TeardownSteps DEF StopOwnedIfRunning, RemoveStoppedOwned, RemoveSteps, Components
<1>2. queue # <<>> /\ broker = "up" /\ Head1.op # "stop" /\ (Sweeping => clean)
  BY <1>1 DEF TopologyInv, LockInv, RemoveSteps
<1>3. ProcessInv' /\ OnlyDown /\ (Settled => Settled') /\ agent' \in {agent, "none"}
  BY DownEffects DEF StopOwnedIfRunning, RemoveStoppedOwned
<1>4. PICK ok \in BOOLEAN :
         TeardownGoesOn(ok) /\ (ok /\ bstep = RemoveStep[c] => cont'[c] = "absent")
  <2>1. Discarded(c) => cont'[c] = "absent"
    BY DEF Discarded, TopologyInv, TopologyType, ContainersType
  <2>2. StopStep[c] # RemoveStep[c]
    BY TeardownSteps DEF Components
  <2>. QED BY <2>1, <2>2 DEF StopOwnedIfRunning, RemoveStoppedOwned
<1>5. clean /\ ok /\ bstep = "rm_agent" => Gone'
  <2>1. bstep = "rm_agent" => c = "agent" /\ bstep = RemoveStep[c]
    BY <1>1, TeardownSteps DEF Components
  <2>. QED BY <1>3, <1>4, <2>1 DEF TopologyInv, LockInv, OnlyDown, Gone, Components
<1>6. CASE /\ bstep # "rm_agent" /\ bstep' = Following[bstep] /\ (clean' => clean /\ ok)
           /\ (Sweeping => clean') /\ UNCHANGED <<broker, queue, reply>>
  <2>1. Head1' = Head1 /\ (Sweeping' <=> Sweeping)
    BY <1>6 DEF Head1, Sweeping
  <2>2. /\ bstep' \in RemoveSteps
        /\ bstep' = "rm_capture" => bstep = "rm_relay" /\ c = "relay" /\ bstep = RemoveStep[c]
        /\ bstep' = "rm_agent" => bstep = "rm_capture" /\ c = "capture" /\ bstep = RemoveStep[c]
    BY <1>1, <1>6, TeardownSteps DEF RemoveSteps, Components
  <2>3. clean' /\ bstep' \in {"rm_capture", "rm_agent"} => cont'["relay"] = "absent"
    BY <1>3, <1>4, <1>6, <2>2 DEF TopologyInv, LockInv, OnlyDown, Components
  <2>4. clean' /\ bstep' = "rm_agent" => cont'["capture"] = "absent"
    BY <1>4, <1>6, <2>2
  <2>5. LockInv'
    BY <1>2, <1>6, <2>1, <2>2, <2>3, <2>4 DEF LockInv, CreateSteps, RemoveSteps
  <2>6. QueueInv' /\ (NoCreate => NoCreate') /\ (OnlyShutdown => OnlyShutdown')
    BY <1>6, OngoingFrame
  <2>. QED BY <1>3, <1>6, <2>5, <2>6, BrokerFrame
<1>7. ASSUME NEW r \in {"ok", "err"}, Answered(r),
             r = "ok" => Sweeping \/ (clean /\ ok /\ bstep = "rm_agent")
      PROVE  ProcessInv' /\ LockInv' /\ QueueInv' /\ CreationInv' /\ SightInv' /\ EndingInv'
  <2>1. /\ LockInv' /\ QueueInv' /\ (NoCreate => NoCreate') /\ (OnlyShutdown => OnlyShutdown')
        /\ reply' # reply => NoCreate' /\ reply' = r /\ Awaits(Head1.op)
    BY <1>2, <1>7, AnsweredFrame
  <2>2. Awaits(Head1.op) /\ spc = "removing" => ~Sweeping
    BY DEF Awaits, Sweeping
  <2>. QED BY <1>3, <1>5, <1>7, <2>1, <2>2, BrokerFrame
<1>8. ASSUME NEW s \in {"stopped", "failed"}, BrokerGone(s),
             s = "stopped" => clean /\ ok /\ bstep = "rm_agent"
      PROVE  ProcessInv' /\ LockInv' /\ QueueInv' /\ CreationInv' /\ SightInv' /\ EndingInv'
  <2>1. LockInv' /\ QueueInv' /\ NoCreate' /\ OnlyShutdown' /\ (reply' # reply => reply' = "err")
    BY <1>5, <1>8, GoneFrame
  <2>. QED BY <1>3, <2>1, BrokerFrame
<1>9. CASE RemovalGoesOn(ok)
  BY <1>6, <1>7, <1>9 DEF RemovalGoesOn
<1>10. CASE SweepGoesOn(ok)
  BY <1>2, <1>6, <1>7, <1>8, <1>10 DEF SweepGoesOn, GoTo
<1>. QED BY <1>4, <1>9, <1>10 DEF TeardownGoesOn

-----------------------------------------------------------------------------
(* The theorems.                                                           *)

\* The session has not started and there are no containers.
LEMMA InitTopology == Init => TopologyInv
<1>. SUFFICES ASSUME Init PROVE TopologyInv
  OBVIOUS
<1>1. queue = <<>> /\ DOMAIN queue = {}
  BY DEF Init, ContainersInit
<1>2. TopologyType
  <2>1. ContainerType
    <3>1. 0 \in 0..MaxEvents
      BY MaxEventsAssumption
    <3>. QED BY <3>1 DEF Init, ContainersInit, ContainerType, AgentPhases, CapturePhases
  <2>2. BrokerType
    BY <1>1 DEF Init, ContainersInit, BrokerType
  <2>3. SessionType
    BY DEF Init, SessionInit, SessionType, ServiceSteps, Proofs, Sightings, Unseen
  <2>. QED BY <2>1, <2>2, <2>3, TypeParts DEF Init, ContainersInit
<1>3. ProcessInv /\ LockInv
  BY DEF Init, ContainersInit, SessionInit, ProcessInv, LockInv, CreateSteps, RemoveSteps
<1>4. QueueInv /\ CreationInv
  BY <1>1 DEF Init, ContainersInit, SessionInit, QueueInv, CreationInv, Gone, LaunchedSteps
<1>5. SightInv /\ EndingInv
  BY DEF Init, ContainersInit, SessionInit, SightInv, EndingInv, Proving, Closing, LaunchedSteps
<1>. QED BY <1>2, <1>3, <1>4, <1>5 DEF TopologyInv

\* Every step of the processes, the broker and the service, and every fault,
\* preserves the invariant.
LEMMA NextTopology ==
    ASSUME TopologyInv, [Next]_vars
    PROVE  TopologyInv'
<1>1. CASE UNCHANGED vars
  <2>1. UNCHANGED <<cont, agent, cap, written, captured, ready, gate, faults, broker, queue,
                    bstep, clean, reply, ran, spc, cancelled, producer, certified, removal, seen,
                    proof, diag, phase, status, bundled, perror, launched, early, timedOut,
                    panicked, crashed>>
    BY <1>1 DEF vars, containers, processes, brokerState, session, evidence, ending, history
  <2>. QED BY <2>1 DEF TopologyInv, TopologyType, ContainersType, SessionType, ProcessInv, LockInv,
         QueueInv, CreationInv, SightInv, EndingInv, Awaits, Gone, Quiet, Up, NoCreate, Head1,
         Sweeping, ProcessError
<1>2. CASE Next
  <2>1. RanAfter /\ faults' = faults
    BY <1>2 DEF Next
  <2>2. ran' \in BOOLEAN
    BY <2>1 DEF RanAfter, TopologyInv, TopologyType, SessionType
  <2>3. /\ ContainerType /\ BrokerType /\ SessionType /\ faults \in FaultModes
        /\ gate \in {"free", "held"} /\ (queue = <<>> => bstep = "idle")
    BY TypeParts DEF TopologyInv, LockInv
  <2>4. UNCHANGED session => SessionType'
    BY <2>2, <2>3 DEF SessionType, session, evidence, ending, history
  <2>5. CASE ProcessStep /\ UNCHANGED session
    <3>1. TopologyType'
      BY <2>1, <2>3, <2>4, <2>5, ProcessTypes, TypeParts DEF ProcessStep, brokerState, BrokerType
    <3>. QED BY <2>1, <2>5, <3>1, ProcessSteps DEF TopologyInv
  <2>6. CASE BrokerStep /\ UNCHANGED session
    <3>1. UNCHANGED <<session, gate>>
      BY <2>6 DEF BrokerStep, BrokerWork
    <3>2. TopologyType'
      BY <2>1, <2>3, <2>4, <2>6, <3>1, BrokerTypes, TypeParts
    <3>3. ProcessInv' /\ LockInv' /\ QueueInv' /\ CreationInv' /\ SightInv' /\ EndingInv'
      BY <2>1, <2>6, <3>1, CreatingSteps, HoldingSteps, RemovingSteps DEF BrokerStep, BrokerWork
    <3>. QED BY <3>2, <3>3 DEF TopologyInv
  <2>7. CASE ServiceStep \/ Cancel \/ DeadlinePasses \/ ExecutionPanics \/ ServiceCrashes
    <3>1. ServiceMove /\ UNCHANGED containers
      BY <2>7, ServiceMoves
    <3>2. ContainerType'
      BY <2>3, <3>1 DEF ContainerType, containers, processes
    <3>3. TopologyType'
      BY <2>1, <2>2, <2>3, <2>7, <3>1, <3>2, ServiceMoveTypes, ServiceTypes, TypeParts
    <3>4. ProcessInv' /\ LockInv'
      BY <2>1, <2>3, <3>1, SameProcesses, ServiceHolder DEF TopologyInv
    <3>5. QueueInv' /\ CreationInv' /\ SightInv' /\ EndingInv'
      BY <2>1, <2>7, SetupSteps, CreationSteps, SettleSteps, DrainSteps, ProofSteps, BundleStep,
         TokenSteps, LossSteps, RecoverySteps DEF ServiceStep
    <3>. QED BY <3>3, <3>4, <3>5 DEF TopologyInv
  <2>. QED BY <1>2, <2>5, <2>6, <2>7 DEF Next
<1>. QED BY <1>1, <1>2

\* The inductive invariant holds in every reachable state, whatever faults
\* strike and however much the agent writes: the step-by-step argument about
\* the service, the broker's queue and the containers.
THEOREM TopologyInvariant == Spec => []TopologyInv
BY InitTopology, NextTopology, PTL DEF Spec

\* Every variable keeps its type.
THEOREM TopologyTypeCorrect == Spec => []TopologyType
<1>1. TopologyInv => TopologyType
  BY DEF TopologyInv
<1>. QED BY <1>1, TopologyInvariant, PTL

\* A tree proved quiescent stays quiet while it is bundled and afterwards,
\* although the proof is three unlocked observations at three moments and
\* abandoned requests may still be queued (remove_and_prove_quiescent).
THEOREM BundledTreeStaysQuiet == Spec => []BundledTreeQuiet
<1>1. TopologyInv => BundledTreeQuiet
  BY DEF TopologyInv, SightInv, BundledTreeQuiet
<1>. QED BY <1>1, TopologyInvariant, PTL

\* The raw tree is given up only when no container of the session exists and
\* none can be created any more, even after a call was given up at its
\* deadline (raw_retention_decision).
THEOREM RemovedTreeIsUnused == Spec => []RemovedTreeUnused
<1>1. TopologyInv => RemovedTreeUnused
  BY DEF TopologyInv, CreationInv, RemovedTreeUnused, MustRetain
<1>. QED BY <1>1, TopologyInvariant, PTL

\* A task that ran although its cancellation came first is reported as a
\* process error (launch_decision and the start gate).
THEOREM EarlyCancelIsReported == Spec => []EarlyCancelReported
<1>1. TopologyInv => EarlyCancelReported
  <2>. SUFFICES ASSUME TopologyInv, early, ran, spc = "end", ~perror PROVE FALSE
    BY DEF EarlyCancelReported
  <2>1. ~ProcessError /\ ~launched
    BY DEF TopologyInv, EndingInv
  <2>2. phase \in {"Normal", "SetupFailure", "PanicRecovery", "ServiceRestart"}
    BY DEF TopologyInv, TopologyType, SessionType
  <2>3. phase = "SetupFailure" /\ proof.complete
    BY <2>1, <2>2 DEF ProcessError, TopologyInv, EndingInv, Closing
  <2>. QED BY <2>1, <2>3 DEF TopologyInv, EndingInv, Recovering
<1>. QED BY <1>1, TopologyInvariant, PTL

\* A session without a process error left no container, has its bundle and,
\* if it ended by itself, its whole transcript (process_outcome).
THEOREM SuccessIsAlwaysReal == Spec => []SuccessIsReal
<1>1. TopologyInv => SuccessIsReal
  <2>. SUFFICES ASSUME TopologyInv, spc = "end", ~perror
                PROVE  /\ Gone /\ bundled
                       /\ status = "Ended" => launched /\ captured = written
    BY DEF SuccessIsReal
  <2>1. ~ProcessError /\ bundled
    BY DEF TopologyInv, EndingInv
  <2>2. phase \in {"Normal", "SetupFailure", "PanicRecovery", "ServiceRestart"}
    BY DEF TopologyInv, TopologyType, SessionType
  <2>3. CASE phase = "Normal"
    <3>1. certified /\ ~diag
      BY <2>1, <2>3 DEF ProcessError
    <3>2. launched /\ proof.complete
      BY <2>3, <3>1 DEF TopologyInv, EndingInv, Closing
    <3>. QED BY <2>1, <3>1, <3>2 DEF TopologyInv, CreationInv
  <2>4. CASE phase = "SetupFailure"
    <3>1. status = "Cancelled" /\ proof.complete
      BY <2>1, <2>4 DEF ProcessError
    <3>. QED BY <2>1, <3>1 DEF TopologyInv, CreationInv
  <2>. QED BY <2>1, <2>2, <2>3, <2>4 DEF ProcessError
<1>. QED BY <1>1, TopologyInvariant, PTL

\* A stream is certified only when all the agent wrote was copied and it can
\* write no more (settle_running_agent, wait_capture_complete).
THEOREM CertifiedIsWhole == Spec => []CertifiedComplete
<1>1. TopologyInv => CertifiedComplete
  BY DEF TopologyInv, CreationInv, CertifiedComplete
<1>. QED BY <1>1, TopologyInvariant, PTL

\* A broker that ended "stopped" left no container behind (docker_broker main).
THEOREM StoppedBrokerIsClean == Spec => []StoppedBrokerLeavesNothing
<1>1. TopologyInv => StoppedBrokerLeavesNothing
  BY DEF TopologyInv, LockInv, StoppedBrokerLeavesNothing
<1>. QED BY <1>1, TopologyInvariant, PTL
=============================================================================
