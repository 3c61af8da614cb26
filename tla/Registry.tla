------------------------------ MODULE Registry ------------------------------
(***************************************************************************)
(* The Manager for one handle: its calls, the session's supervisor, the    *)
(* shutdown and the locks they share.  Each await point and each file      *)
(* operation another task can observe is a step; the barriers inside the   *)
(* durable transactions are SessionStore's subject.                        *)
(***************************************************************************)
EXTENDS Progress

CONSTANTS
    Clients,    \* the tasks that serve calls
    MaxCalls,   \* bound on the calls of a behaviour
    Modes       \* the faults a behaviour may meet, which calls it makes and how many

\* An I/O operation fails, the machine loses power, the service shuts down.
FaultKinds == {"io", "power", "shutdown"}
AllOps == {"submit", "get", "list", "cancel", "delete"}
Mutations == {"submit", "cancel", "delete"}

ASSUME RegistryAssumption ==
    /\ MaxCalls \in Nat
    /\ Modes \subseteq [faults : SUBSET FaultKinds, ops : SUBSET AllOps, calls : 0..MaxCalls]
    /\ Clients \cap {"supervisor", "shutdown", "nobody"} = {}

VARIABLES
    faults, ops,
    lock,       \* who holds admission, inner, terminal_decision, launch_decision
    running,    \* Inner.running: the entry's generation, 0 when there is none
    mem,        \* Inner.unpersisted_terminal
    gen,        \* generation of the latest acceptance
    decided,    \* the TerminalDecision of its entry is Finalizing
    token,      \* the cancellation token of its entry
    disk,       \* the names that exist for the handle
    body,       \* the terminal body being written or written
    spc,        \* the supervisor, or the startup recovery
    call,       \* the calls
    seen,       \* the states of the resource during each call
    calls,      \* calls still to be made
    open,       \* LifecycleState.open
    stopping,   \* shutdown_token
    hpc, herr,  \* shutdown: next step, cancellation_errors
    broken,     \* an I/O operation has failed
    acked,      \* generations whose cancellation was acknowledged
    durable     \* the longest history whose publication was reported as durable

manager == <<lock, running, mem, gen, decided, token>>
callState == <<call, calls>>
shutState == <<open, stopping, hpc, herr>>
files == <<disk, progress>>
vars == <<faults, ops, manager, files, body, spc, callState, seen, shutState, broken, acked, durable>>

Locks == {"admission", "inner", "decision", "launch"}
Names == {"accepted", "draft", "finished", "tree", "cancel", "intent"}
Nobody == "nobody"
SupervisorSteps == {"none", "stage", "launch", "launching", "work", "decide", "persisting",
                    "terminal", "draft", "cleanup", "commit", "undraft", "evict", "abandon"}
RecoverySteps == {"down", "r_tearing", "r_persisting", "r_terminal", "r_commit"}
CallSteps == {"idle", "done", "start", "g_fast", "g_fence", "g_body", "g_check", "u_look",
              "t_draft", "t_finished", "t_accepted", "t_progress", "t_storage",
              "s_look", "s_valid", "s_accept", "s_register", "s_body", "l_ids",
              "c_fast", "c_fence", "c_decide", "c_final", "c_check", "c_launch", "c_intent",
              "c_token", "c_publish", "d_look", "d_intent", "d_tree", "d_files", "d_end", "d_mem"}
Answers == {"none", "running", "ended", "cancelled", "deleting", "absent", "empty", "error",
            "busy", "finalizing", "deleted", "invalid", "conflict", "down", "lost"}

NoBody == [gen |-> 0, status |-> "ended", events |-> <<>>, retained |-> FALSE]
Idle == [op |-> "none", pc |-> "idle", gen |-> 0, count |-> 0, body |-> NoBody, ans |-> "none"]

RegistryInit ==
    /\ ProgressInit
    /\ \E m \in Modes : faults = m.faults /\ ops = m.ops /\ calls = m.calls
    /\ lock = [l \in Locks |-> Nobody]
    /\ running = 0 /\ mem = FALSE /\ gen = 0 /\ decided = FALSE /\ token = FALSE
    /\ disk = {} /\ body = NoBody /\ spc = "none"
    /\ call = [c \in Clients |-> Idle] /\ seen = [c \in Clients |-> {}]
    /\ open = TRUE /\ stopping = FALSE /\ hpc = "none" /\ herr = FALSE
    /\ broken = FALSE /\ acked = {} /\ durable = <<>>

\* A behaviour meets at most one failing operation.
IoFails == "io" \in faults /\ ~broken
Up == spc \notin RecoverySteps
Free(l) == lock[l] = Nobody
Taken(p, ls) == lock' = [l \in Locks |-> IF l \in ls THEN p ELSE lock[l]]
Dropped(p) == lock' = [l \in Locks |-> IF lock[l] = p THEN Nobody ELSE lock[l]]

Breaks(fails) == broken' = (broken \/ fails)
Acknowledged(ok) == durable' = IF ok THEN events' ELSE durable
KeepShut == UNCHANGED shutState
KeepManager == UNCHANGED <<running, mem, gen, decided, token>>
KeepHistory == UNCHANGED <<broken, acked, durable>>

-----------------------------------------------------------------------------
(* Calls.                                                                  *)

At(c, p) == call[c].pc = p
Go(c, p) == call' = [call EXCEPT ![c].pc = p] /\ UNCHANGED <<calls, lock>>

\* The call returns: its guards are dropped with it.
Return(c, a) ==
    /\ call' = [call EXCEPT ![c] = [Idle EXCEPT !.op = call[c].op, !.pc = "done",
                 !.ans = IF call[c].op = "list" /\ a = "absent" THEN "empty" ELSE a]]
    /\ Dropped(c) /\ UNCHANGED calls

FirstStep == [submit |-> "start", cancel |-> "start", delete |-> "start",
              get |-> "g_fast", list |-> "l_ids"]

CallArrives(c) ==
    /\ Up /\ call[c].pc \in {"idle", "done"} /\ calls > 0
    /\ \E op \in ops : call' = [call EXCEPT ![c] = [Idle EXCEPT !.op = op, !.pc = FirstStep[op]]]
    /\ calls' = calls - 1
    /\ KeepManager /\ KeepShut /\ KeepHistory /\ UNCHANGED <<lock, files, body, spc>>

Pure == KeepManager /\ KeepShut /\ KeepHistory /\ UNCHANGED <<files, body, spc>>

\* LifecycleTracker::start; the task then outlives its connection.
LifecycleStart(c) ==
    /\ At(c, "start")
    /\ IF ~open THEN Return(c, "down")
       ELSE Go(c, CASE call[c].op = "submit" -> "s_look"
                    [] call[c].op = "cancel" -> "c_fast"
                    [] call[c].op = "delete" -> "d_look")
    /\ Pure

\* The evidence is being removed, or its removal failed half-way: the event
\* file may still be there and the prompt beside it gone.
TreeTorn ==
    \/ spc = "cleanup" /\ ~body.retained
    \/ broken /\ body.retained /\ spc \in {"commit", "undraft", "evict", "abandon"}

\* running_body_for_entry: what the event file says so far, or an error.
RunningBody == {"running"} \cup (IF TreeTorn THEN {"error"} ELSE {})

\* Fault: the guard of the lookup lives on, as a scrutinee's temporary would.
GetFastHolding(c) ==
    /\ At(c, "g_fast") /\ Free("inner")
    /\ IF running = 0 THEN Go(c, "g_fence")
       ELSE /\ call' = [call EXCEPT ![c].pc = "g_body", ![c].gen = running]
            /\ Taken(c, {"inner"}) /\ UNCHANGED calls
    /\ Pure

\* get: the running map first, without the fence, ...
GetFast(c) ==
    /\ At(c, "g_fast") /\ Free("inner")
    /\ IF running = 0 THEN Go(c, "g_fence")
       ELSE call' = [call EXCEPT ![c].pc = "g_body", ![c].gen = running] /\ UNCHANGED <<calls, lock>>
    /\ Pure

\* ... then under the admission fence, ...
GetFenced(c) ==
    /\ At(c, "g_fence") /\ Free("admission") /\ Free("inner")
    /\ IF "intent" \in disk THEN Return(c, "deleting")
       ELSE IF running # 0
       THEN call' = [call EXCEPT ![c].pc = "g_body", ![c].gen = running] /\ UNCHANGED <<calls, lock>>
       ELSE IF mem THEN Return(c, body.status)
       ELSE IF disk \cap {"finished", "draft"} # {} THEN Go(c, "t_draft")
       ELSE Return(c, IF "accepted" \in disk THEN "error" ELSE "absent")
    /\ Pure

\* ... and running_or_terminal_snapshot: the body, and then whether the entry
\* is still the one the body is about.
GetBody(c) ==
    /\ At(c, "g_body")
    /\ \E a \in RunningBody : call' = [call EXCEPT ![c].pc = "g_check", ![c].ans = a]
    /\ UNCHANGED <<calls, lock>>
    /\ Pure

GetCheck(c) ==
    /\ At(c, "g_check") /\ Free("inner")
    /\ IF running # 0 /\ running = call[c].gen THEN Return(c, call[c].ans)
       ELSE IF mem THEN Return(c, body.status)
       ELSE Go(c, "t_draft")
    /\ Pure

\* get_unfenced
GetUnfenced(c) ==
    /\ At(c, "u_look") /\ Free("inner")
    /\ IF running # 0
       THEN \E a \in RunningBody : Return(c, IF call[c].op = "delete" THEN "busy" ELSE a)
       ELSE IF ~mem THEN Go(c, "t_draft")
       ELSE IF call[c].op = "delete" THEN Go(c, "d_intent")
       ELSE Return(c, body.status)
    /\ Pure

\* read_terminal looks at one file after the other.
ReadDraft(c) ==
    /\ At(c, "t_draft")
    /\ IF "draft" \in disk THEN Return(c, "error") ELSE Go(c, "t_finished")
    /\ Pure

ReadFinished(c) ==
    /\ At(c, "t_finished")
    /\ IF "finished" \notin disk THEN Return(c, "absent")
       ELSE call' = [call EXCEPT ![c].pc = "t_accepted", ![c].body = body] /\ UNCHANGED <<calls, lock>>
    /\ Pure

ReadAccepted(c) ==
    /\ At(c, "t_accepted")
    /\ IF "accepted" \notin disk THEN Return(c, "error") ELSE Go(c, "t_progress")
    /\ Pure

\* The history in the body must be the file's.
ReadProgress(c) ==
    /\ At(c, "t_progress")
    /\ IF next \/ file = <<>> \/ file # call[c].body.events \/ gen # call[c].body.gen
       THEN Return(c, "error")
       ELSE Go(c, "t_storage")
    /\ Pure

ReadStorage(c) ==
    /\ At(c, "t_storage")
    /\ IF ("tree" \in disk) # call[c].body.retained THEN Return(c, "error")
       ELSE IF call[c].op = "delete" THEN Go(c, "d_intent")
       ELSE Return(c, call[c].body.status)
    /\ Pure

ReadStep(c) ==
    \/ GetFast(c) \/ GetFenced(c) \/ GetBody(c) \/ GetCheck(c) \/ GetUnfenced(c)
    \/ ReadDraft(c) \/ ReadFinished(c) \/ ReadAccepted(c) \/ ReadProgress(c) \/ ReadStorage(c)

\* list: the identities under the fence, then a get of each; a member that is
\* not found is left out.
ListIds(c) ==
    /\ At(c, "l_ids") /\ Free("admission") /\ Free("inner")
    /\ IF "intent" \notin disk /\ (running # 0 \/ mem \/ disk \ {"tree"} # {} \/ file # <<>>)
       THEN Go(c, "g_fast")
       ELSE Return(c, "empty")
    /\ Pure
=============================================================================
