--------------------------- MODULE RegistryService ---------------------------
(***************************************************************************)
(* The supervisor of an accepted session, the shutdown, a power loss and   *)
(* the startup recovery, and the whole system.                             *)
(***************************************************************************)
EXTENDS RegistryCalls

KeepCalls == UNCHANGED callState
Supervises == KeepCalls /\ KeepShut /\ UNCHANGED acked

\* A publication whatever comes of it.
Published(phase, count, ok) ==
    Publish(phase, count, IoFails, ok) /\ Acknowledged(ok) /\ Breaks(~ok /\ IoFails)

\* run_one: staging publishes as it goes and stops at an error or the token; ...
SupervisorStages ==
    /\ spc = "stage"
    /\ \/ /\ ~token /\ Latest.count < MaxCount
          /\ \E ok \in BOOLEAN :
                /\ Published("Staging", Latest.count + 1, ok)
                /\ spc' = IF ok THEN "stage" ELSE "decide"
       \/ spc' = (IF token THEN "decide" ELSE "launch") /\ UNCHANGED <<progress, broken, durable>>
    /\ Supervises /\ UNCHANGED <<manager, disk, body>>

\* ... under launch_decision it looks at the token once more; ...
SupervisorLaunches ==
    /\ \/ spc = "launch" /\ Free("launch") /\ Taken("supervisor", {"launch"}) /\ spc' = "launching"
       \/ spc = "launching" /\ Dropped("supervisor") /\ spc' = IF token THEN "decide" ELSE "work"
    /\ Supervises /\ KeepManager /\ UNCHANGED <<files, body, broken, durable>>

\* ... then the task, its teardown and its bundle.
SupervisorWorks ==
    /\ spc = "work"
    /\ \E ok \in BOOLEAN : Published("TearingDown", Latest.count, ok)
    /\ spc' = "decide"
    /\ Supervises /\ UNCHANGED <<manager, disk, body>>

Body(s) == [gen |-> gen, status |-> s, events |-> <<>>, retained |-> FALSE]

\* Under terminal_decision: from here on cancellation is refused.
SupervisorDecides ==
    /\ spc = "decide" /\ Free("decision")
    /\ decided' = TRUE /\ body' = Body(IF token THEN "cancelled" ELSE "ended")
    /\ spc' = "persisting"
    /\ Supervises /\ UNCHANGED <<lock, running, mem, gen, token, files, broken, durable>>

\* The last two revisions; the body takes the history as it is in memory.
SupervisorPublishes ==
    /\ \/ /\ spc = "persisting" /\ spc' = "terminal"
          /\ \E ok \in BOOLEAN : Published("PersistingTerminal", Latest.count, ok)
          /\ UNCHANGED body
       \/ /\ spc = "terminal" /\ spc' = "draft"
          /\ \E ok \in BOOLEAN : Published("Terminal", Latest.count, ok)
          /\ \E r \in {FALSE, IoFails} : body' = [body EXCEPT !.events = events', !.retained = r]
    /\ Supervises /\ UNCHANGED <<manager, disk>>

\* persist_terminal_transaction, each phase of which may fail.
SupervisorPersists ==
    /\ \/ /\ spc = "draft" /\ spc' = "cleanup"
          /\ disk' = disk \cup {"draft"} /\ DirectorySynced /\ UNCHANGED <<body, broken>>
       \/ /\ spc = "cleanup" /\ spc' = "commit"
          /\ disk' = IF body.retained THEN disk ELSE disk \ {"tree"}
          /\ UNCHANGED <<progress, body, broken>>
       \/ /\ spc = "cleanup" /\ spc' = "commit" /\ IoFails /\ Breaks(TRUE)
          /\ body' = [body EXCEPT !.retained = TRUE] /\ UNCHANGED <<progress, disk>>
       \/ /\ spc = "commit" /\ spc' = "undraft"
          /\ disk' = disk \cup {"finished"} /\ UNCHANGED <<progress, body, broken>>
       \/ /\ spc = "undraft" /\ spc' = "evict"
          /\ disk' = disk \ {"draft"} /\ DirectorySynced /\ UNCHANGED <<body, broken>>
       \/ /\ spc \in {"draft", "commit", "undraft"} /\ spc' = "abandon" /\ IoFails /\ Breaks(TRUE)
          /\ UNCHANGED <<progress, disk, body>>
    /\ Supervises /\ UNCHANGED <<manager, durable>>

\* Fault: the entry is given up as soon as the outcome is decided.
EvictsEarly ==
    /\ spc \in {"persisting", "evict", "abandon"} /\ Free("admission") /\ Free("inner")
    /\ running' = 0 /\ mem' = (spc = "abandon")
    /\ spc' = IF spc = "persisting" THEN spc ELSE "none"
    /\ Supervises /\ UNCHANGED <<lock, gen, decided, token, files, body, broken, durable>>

\* The entry goes, and a body that could not be persisted stays in memory.
SupervisorEvicts ==
    /\ spc \in {"evict", "abandon"} /\ Free("admission") /\ Free("inner")
    /\ running' = 0 /\ mem' = (spc = "abandon") /\ token' = FALSE
    /\ spc' = "none"
    /\ Supervises /\ UNCHANGED <<lock, gen, decided, files, body, broken, durable>>

SupervisorStep ==
    \/ SupervisorStages \/ SupervisorLaunches \/ SupervisorWorks \/ SupervisorDecides
    \/ SupervisorPublishes \/ SupervisorPersists \/ SupervisorEvicts

-----------------------------------------------------------------------------
(* shutdown.                                                               *)

\* LifecycleState.active > 0
Active == \E c \in Clients : call[c].op \in Mutations /\ call[c].pc \notin {"idle", "done", "start"}

ShutTo(p) == hpc' = p
Shuts == KeepCalls /\ UNCHANGED <<gen, running, mem, decided, body, spc, acked>>

ShutdownBegins ==
    /\ "shutdown" \in faults /\ Up /\ hpc = "none"
    /\ open' = FALSE /\ ShutTo("closed")
    /\ Shuts /\ UNCHANGED <<lock, token, files, stopping, herr, broken, durable>>

\* Fault: calls under way are not waited for.
ShutdownUndrained ==
    /\ hpc = "closed" /\ Free("admission") /\ Free("inner")
    /\ Taken("shutdown", {"admission"}) /\ ShutTo(IF running = 0 THEN "fence" ELSE "decision")
    /\ Shuts /\ UNCHANGED <<token, files, open, stopping, herr, broken, durable>>

\* wait_idle, then the entries under the fence.
ShutdownDrained ==
    /\ hpc = "closed" /\ ~Active /\ Free("admission") /\ Free("inner")
    /\ Taken("shutdown", {"admission"}) /\ ShutTo(IF running = 0 THEN "fence" ELSE "decision")
    /\ Shuts /\ UNCHANGED <<token, files, open, stopping, herr, broken, durable>>

\* For an outcome still open both decisions are held, one after the other.
ShutdownDecides ==
    /\ \/ /\ hpc = "decision" /\ Free("decision")
          /\ IF decided THEN ShutTo("fence") /\ UNCHANGED lock
             ELSE Taken("shutdown", {"decision"}) /\ ShutTo("launch")
       \/ hpc = "launch" /\ Free("launch") /\ Taken("shutdown", {"launch"}) /\ ShutTo("intent")
    /\ Shuts /\ UNCHANGED <<token, files, open, stopping, herr, broken, durable>>

\* Fault: an intent that could not be recorded is not reported.
ShutdownIntentUnreported ==
    /\ hpc = "intent"
    /\ \/ /\ disk' = disk \cup {"cancel"} /\ token' = TRUE /\ ShutTo("publish")
          /\ herr' \in {herr, IoFails} /\ Breaks(herr') /\ UNCHANGED lock
       \/ /\ IoFails /\ Breaks(TRUE) /\ UNCHANGED herr /\ ShutTo("fence")
          /\ lock' = [lock EXCEPT !["decision"] = Nobody, !["launch"] = Nobody]
          /\ UNCHANGED <<disk, token>>
    /\ Shuts /\ UNCHANGED <<progress, open, stopping, durable>>

\* The intent, and, when it is recorded, the token.
ShutdownIntent ==
    /\ hpc = "intent"
    /\ \/ /\ disk' = disk \cup {"cancel"} /\ token' = TRUE /\ ShutTo("publish")
          /\ herr' \in {herr, IoFails} /\ Breaks(herr') /\ UNCHANGED lock
       \/ /\ IoFails /\ Breaks(TRUE) /\ herr' = TRUE /\ ShutTo("fence")
          /\ lock' = [lock EXCEPT !["decision"] = Nobody, !["launch"] = Nobody]
          /\ UNCHANGED <<disk, token>>
    /\ Shuts /\ UNCHANGED <<progress, open, stopping, durable>>

ShutdownPublishes ==
    /\ hpc = "publish" /\ ShutTo("fence")
    /\ \E ok \in BOOLEAN :
          /\ IF AlreadyCancelling THEN ok /\ UNCHANGED <<progress, durable>>
             ELSE Publish("Cancelling", Latest.count, IoFails, ok) /\ Acknowledged(ok)
          /\ herr' = (herr \/ ~ok) /\ Breaks(~ok /\ IoFails)
    /\ lock' = [lock EXCEPT !["decision"] = Nobody, !["launch"] = Nobody]
    /\ Shuts /\ UNCHANGED <<token, disk, open, stopping>>

\* Fault: the admission fence is kept while the supervisors are awaited.
ShutdownKeepsFence ==
    /\ hpc = "fence" /\ ShutTo("wait")
    /\ stopping' = TRUE /\ token' = (token \/ running # 0) /\ UNCHANGED lock
    /\ Shuts /\ UNCHANGED <<files, open, herr, broken, durable>>

\* shutdown_token, the parent of every entry's token.
ShutdownFence ==
    /\ hpc = "fence" /\ ShutTo("wait")
    /\ stopping' = TRUE /\ token' = (token \/ running # 0) /\ Dropped("shutdown")
    /\ Shuts /\ UNCHANGED <<files, open, herr, broken, durable>>

\* Every supervisor has ended.
ShutdownDone ==
    /\ hpc = "wait" /\ spc = "none" /\ ShutTo("done")
    /\ Shuts /\ UNCHANGED <<lock, token, files, open, stopping, herr, broken, durable>>

ShutdownStep ==
    \/ ShutdownDrained \/ ShutdownDecides \/ ShutdownIntent \/ ShutdownPublishes
    \/ ShutdownFence \/ ShutdownDone

-----------------------------------------------------------------------------
(* Power loss and startup recovery.                                        *)

PowerLoss ==
    /\ "power" \in faults /\ Up
    /\ faults' = faults \ {"power"}
    /\ Lost
    /\ lock' = [l \in Locks |-> Nobody]
    /\ running' = 0 /\ mem' = FALSE /\ decided' = FALSE /\ token' = FALSE /\ spc' = "down"
    /\ call' = [c \in Clients |-> IF call[c].pc \in {"idle", "done"} THEN call[c]
                                  ELSE [Idle EXCEPT !.op = call[c].op, !.pc = "done", !.ans = "lost"]]
    /\ open' = TRUE /\ stopping' = FALSE /\ hpc' = "none" /\ herr' = FALSE
    /\ UNCHANGED <<gen, calls, disk, body, broken, acked, durable>>

Recovers == KeepCalls /\ KeepShut /\ UNCHANGED <<manager, acked>>

\* Startup resumes a deletion, drops what was never accepted, leaves a
\* published terminal, resumes a drafted one, and terminalises the rest.
Restart ==
    /\ spc = "down"
    /\ IF "intent" \in disk \/ "accepted" \notin disk
       THEN disk' = {} /\ Removed /\ durable' = <<>> /\ spc' = "none"
       ELSE /\ Opened /\ UNCHANGED durable
            /\ disk' = IF "finished" \in disk THEN disk \ {"draft"} ELSE disk
            /\ spc' = IF "finished" \in disk THEN "none"
                      ELSE IF "draft" \notin disk THEN "r_tearing"
                      ELSE IF body.events = file THEN "r_commit" ELSE "down"
    /\ Recovers /\ UNCHANGED <<body, broken>>

RecoveryPhase == [r_tearing |-> "TearingDown", r_persisting |-> "PersistingTerminal",
                  r_terminal |-> "Terminal"]
RecoveryNext == [r_tearing |-> "r_persisting", r_persisting |-> "r_terminal",
                 r_terminal |-> "r_commit"]

\* Its three revisions; an error ends the startup.
RecoveryPublishes ==
    /\ spc \in DOMAIN RecoveryPhase
    /\ \E ok \in BOOLEAN :
          /\ Published(RecoveryPhase[spc], Latest.count, ok)
          /\ spc' = IF ok THEN RecoveryNext[spc] ELSE "down"
    /\ body' = [gen |-> gen, status |-> IF "cancel" \in disk THEN "cancelled" ELSE "ended",
                events |-> events', retained |-> "tree" \in disk]
    /\ Recovers /\ UNCHANGED disk

RecoveryCommits ==
    /\ spc = "r_commit" /\ spc' = "none"
    /\ \E r \in BOOLEAN :
          /\ r => "tree" \in disk
          /\ body' = [body EXCEPT !.retained = r]
          /\ disk' = (disk \ ({"draft"} \cup IF r THEN {} ELSE {"tree"})) \cup {"finished"}
    /\ DirectorySynced
    /\ Recovers /\ UNCHANGED <<broken, durable>>

RecoveryStep == Restart \/ RecoveryPublishes \/ RecoveryCommits

-----------------------------------------------------------------------------
\* The state of the handle, as the interface presents it.
ResourceState ==
    IF "intent" \in disk \/ (mem /\ "accepted" \notin disk) THEN "deleting"
    ELSE IF running # 0 THEN "running"
    ELSE IF mem \/ "finished" \in disk THEN body.status
    ELSE IF "accepted" \in disk THEN "running"
    ELSE "absent"

\* The outcome is on record, and the entry is still there or not yet recovered.
Ending == ResourceState = "running" /\ {"draft", "finished"} \cap disk # {}

Sights == {ResourceState} \cup (IF Ending THEN {"ending"} ELSE {})
Serving(c) == call[c].pc \notin {"idle", "done"}

Witnessed ==
    seen' = [c \in Clients |-> IF Serving(c) THEN seen[c] \cup Sights'
                               ELSE IF Serving(c)' THEN Sights' ELSE seen[c]]

Next ==
    /\ \/ UNCHANGED faults /\ ((\E c \in Clients : CallArrives(c) \/ CallStep(c)) \/ SupervisorStep
                               \/ ShutdownBegins \/ ShutdownStep \/ RecoveryStep)
       \/ PowerLoss
    /\ Witnessed /\ UNCHANGED ops

Steady(A) == A /\ UNCHANGED <<faults, ops>> /\ Witnessed

\* The runtime does not idle while a task can go on.  No more is needed: the
\* calls a behaviour makes are bounded and no task runs in circles, so each of
\* them gets its turn.
TaskStep == (\E c \in Clients : CallStep(c)) \/ SupervisorStep \/ ShutdownStep
Fairness == WF_vars(Steady(TaskStep))

Init == RegistryInit
Spec == Init /\ [][Next]_vars
FairSpec == Spec /\ Fairness

-----------------------------------------------------------------------------
Bodies == [gen : Nat, status : {"ended", "cancelled"}, events : Histories, retained : BOOLEAN]
ResourceStates == {"absent", "running", "ended", "cancelled", "deleting"}
CallRecords == [op : AllOps \cup {"none"}, pc : CallSteps, gen : Nat, count : 0..MaxCount,
                body : Bodies, ans : Answers]

\* Every variable holds a value of the kind the code gives it, and the history
\* stays within MAX_PROGRESS_EVENTS.
RegistryType ==
    /\ ProgressType /\ durable \in Histories
    /\ faults \subseteq FaultKinds /\ ops \subseteq AllOps
    /\ lock \in [Locks -> Clients \cup {"supervisor", "shutdown", Nobody}]
    /\ gen \in Nat /\ running \in {0, gen} /\ calls \in 0..MaxCalls
    /\ disk \subseteq Names /\ spc \in SupervisorSteps \cup RecoverySteps
    /\ body \in Bodies
    /\ call \in [Clients -> CallRecords]
    /\ seen \in [Clients -> SUBSET (ResourceStates \cup {"ending"})]
    /\ {mem, decided, token, open, stopping, herr, broken} \subseteq BOOLEAN
    /\ hpc \in {"none", "closed", "decision", "launch", "intent", "publish", "fence", "wait", "done"}
    /\ acked \subseteq 0..gen

Resource == INSTANCE SessionResource WITH
    resource <- ResourceState,
    ending <- Ending,
    serving <- [c \in Clients |-> Serving(c)],
    op <- [c \in Clients |-> call[c].op],
    answer <- [c \in Clients |-> IF Serving(c) THEN "none" ELSE call[c].ans]

\* The manager presents a resource with a simple life, and each answer is one
\* the resource justified while the call was served, although get, list and
\* cancel read the running map, the files and the bodies in memory at
\* different moments (running_or_terminal_snapshot, resolve_disk_session), and
\* the evidence while it is being removed (running_body_for_entry).
ImplementsResource == Resource!Spec

\* A terminal record's history is the one in progress.json, whatever barrier
\* of a publication failed (ProgressReporter::publish), unless the visible
\* file could not even be read back.
TerminalAgrees ==
    "finished" \in disk /\ "intent" \notin disk /\ ~unread => body.events = file

\* A revision that publish reported as durable is still there after a power
\* loss (replace_atomically).
DurableRevisionsSurvive ==
    "accepted" \in disk /\ "intent" \notin disk =>
        SubSeq(file, 1, IF Len(durable) < Len(file) THEN Len(durable) ELSE Len(file)) = durable

\* A cancellation that was acknowledged decides the outcome, although cancel
\* and the supervisor decide concurrently (terminal_decision).
AckedCancelDecides ==
    Up /\ (mem \/ "finished" \in disk) /\ body.gen \in acked => body.status = "cancelled"

\* A shutdown that reports no error cancelled no session of its process
\* without a recorded intent (shutdown's cancellation_errors).
ShutdownReportsUnrecorded ==
    /\ hpc = "done" /\ ~herr /\ decided /\ "finished" \in disk /\ "intent" \notin disk
    /\ body.status = "cancelled"
    => "cancel" \in disk

\* After shutdown has returned, and while the machine stays up, nothing
\* changes on disk or in the maps any more: no call or supervisor is left behind (LifecycleTracker).
ShutdownLeavesNobody ==
    [][hpc = "done" /\ hpc' = "done" => UNCHANGED <<disk, progress, running, mem>>]_vars

\* Every call is answered: there is always a later moment in which none is
\* under way, since the locks are taken in an order that never closes a cycle,
\* and no guard is held across a second acquisition of its own lock.
EveryCallReturns == []<>(\A c \in Clients : ~Serving(c))

\* shutdown returns once it has begun, as far as the locks and the calls under
\* way go: that a supervisor's own work ends is assumed, by its fairness.
ShutdownReturns == hpc = "closed" ~> (hpc = "done" \/ ~Up)

\* list leaves out a member that a concurrent DELETE removed; it does not fail
\* for it (that the end of a session may make it fail is another matter).
ListSurvivesDelete ==
    \A c \in Clients :
        call[c].op = "list" /\ call[c].pc = "done" /\ ~broken /\ "ending" \notin seen[c] =>
            call[c].ans # "error"

-----------------------------------------------------------------------------
(* The inductive invariant the safety properties and the refinement rest   *)
(* on.                                                                     *)

In(c, steps) == call[c].pc \in steps
Undecided == {"stage", "launch", "launching", "work", "decide"}
Deciding == {"c_check", "c_launch", "c_intent", "c_token", "c_publish"}
Reading == {"t_draft", "t_finished", "t_accepted", "t_progress", "t_storage"}
Judging == {"t_accepted", "t_progress", "t_storage"}
Deleting == {"d_tree", "d_files", "d_end", "d_mem"}

\* A call that submits or deletes looks at the handle under the fence.
Fenced(c) == call[c].op \in {"submit", "delete"} /\ In(c, {"u_look"} \cup Reading)

\* The locks a call holds at its step, and the ones the shutdown holds.
Holds(c, l) ==
    \/ l = "admission" /\ (Fenced(c) \/ In(c, {"s_valid", "s_accept", "s_register", "d_intent"} \cup Deleting))
    \/ l = "inner" /\ At(c, "s_register")
    \/ l = "decision" /\ In(c, Deciding)
    \/ l = "launch" /\ In(c, {"c_intent", "c_token", "c_publish"})

ShutHolds(l) ==
    \/ l = "admission" /\ hpc \in {"decision", "launch", "intent", "publish", "fence"}
    \/ l = "decision" /\ hpc \in {"launch", "intent", "publish"}
    \/ l = "launch" /\ hpc \in {"intent", "publish"}

\* The steps of each operation.
StepsOf ==
    [none |-> {"idle"},
     submit |-> {"start", "s_look", "s_valid", "s_accept", "s_register", "s_body", "u_look"} \cup Reading,
     get |-> {"g_fast", "g_fence", "g_body", "g_check"} \cup Reading,
     list |-> {"l_ids", "g_fast", "g_fence", "g_body", "g_check"} \cup Reading,
     cancel |-> {"start", "c_fast", "c_fence", "c_decide", "c_final", "u_look"} \cup Deciding \cup Reading,
     delete |-> {"start", "d_look", "u_look", "d_intent"} \cup Deleting \cup Reading]

\* Every lock is held by whoever is at a step that holds it.
FenceInv ==
    /\ \A c \in Clients : call[c].pc \in StepsOf[call[c].op] \cup {"done"}
    /\ \A l \in Locks :
          /\ \A c \in Clients : lock[l] = c <=> Holds(c, l)
          /\ lock[l] = "shutdown" <=> ShutHolds(l)
          /\ lock[l] = "supervisor" <=> l = "launch" /\ spc = "launching"

\* The entry exists exactly while its supervisor runs, nobody who holds the
\* fence meets it, and a shutdown that decides about its outcome finds it open.
EntryInv ==
    /\ body.gen <= gen
    /\ running = 0 <=> spc \in {"none"} \cup RecoverySteps
    /\ running # 0 =>
          /\ "accepted" \in disk /\ "intent" \notin disk /\ ~mem
          /\ decided <=> spc \notin Undecided
          /\ IF decided THEN body.gen = gen ELSE body.gen < gen
    /\ lock["admission"] \in Clients => running = 0
    /\ hpc \in {"decision", "launch", "intent", "publish"} => running # 0
    /\ hpc \in {"launch", "intent", "publish"} => ~decided
    /\ ~Up => hpc = "none" /\ ~mem /\ ~decided

\* What is on disk at each step of the supervisor, of a deletion and of a
\* recovery.
DiskInv ==
    /\ "intent" \notin disk =>
          /\ IF "accepted" \in disk THEN file # <<>> ELSE disk = {} /\ file = <<>>
          /\ {"draft", "finished"} \cap disk # {} => body.gen = gen
          /\ "finished" \in disk => ("tree" \in disk <=> body.retained)
          /\ spc = "none" /\ ~mem => "draft" \notin disk
          /\ spc = "none" /\ "accepted" \in disk =>
                mem \/ "finished" \in disk \/ \E c \in Clients : At(c, "s_register")
    /\ file = <<>> <=> synced = <<>>
    /\ mem => \/ "accepted" \in disk \/ "intent" \in disk
              \/ \E c \in Clients : At(c, "d_mem")
    /\ mem \/ spc = "abandon" => broken
    /\ spc \in Undecided \cup {"persisting", "terminal", "draft"} =>
          "tree" \in disk /\ {"draft", "finished"} \cap disk = {}
    /\ spc = "cleanup" => "tree" \in disk /\ "draft" \in disk
    /\ spc \in {"cleanup", "commit"} => "finished" \notin disk
    /\ spc = "commit" => ("tree" \in disk <=> body.retained)
    /\ spc \in {"undraft", "evict"} => "finished" \in disk
    /\ spc = "evict" => "draft" \notin disk
    /\ spc \in RecoverySteps \ {"down"} =>
          "accepted" \in disk /\ {"intent", "finished"} \cap disk = {}
    /\ spc = "r_commit" => body.gen = gen

Begins(s, t) == Len(s) <= Len(t) /\ \A i \in 1..Len(s) : t[i] = s[i]

\* What was reported as durable begins every history there is, and the
\* history in memory is the visible one.
HistoryInv ==
    /\ "accepted" \in disk /\ "intent" \notin disk => Begins(durable, file) /\ Begins(durable, synced)
    /\ spc \notin {"none", "down"} =>
          events # <<>> /\ Begins(durable, events) /\ (~unread => events = file)
    /\ spc \in {"draft", "cleanup", "commit", "undraft", "evict"} => body.events = events
    /\ spc \in {"cleanup", "commit"} => synced = file
    /\ spc = "r_commit" => body.events = file
    /\ "finished" \in disk /\ "intent" \notin disk => synced = file /\ (~unread => body.events = file)
    /\ unread => broken
    /\ next => broken \/ spc = "down"

\* A cancellation that was acknowledged is on disk, in the token while the
\* outcome is open, and in the outcome.
AckInv ==
    /\ gen \in acked =>
          /\ running # 0 /\ ~decided => token
          /\ "accepted" \in disk /\ "intent" \notin disk => "cancel" \in disk
    /\ body.gen \in acked => body.status = "cancelled"

\* Without an error to report, the shutdown has recorded the intent of
\* everything it cancels.
ShutInv ==
    /\ open <=> hpc = "none"
    /\ stopping <=> hpc \in {"wait", "done"}
    /\ hpc \notin {"none", "closed"} => ~Active
    /\ hpc \in {"none", "closed", "decision", "launch", "intent"} => ~herr
    /\ hpc = "publish" => "cancel" \in disk
    /\ hpc = "done" => spc = "none"
    /\ running # 0 /\ ~decided /\ ~herr /\ (token \/ hpc = "fence") => "cancel" \in disk
    /\ decided /\ ~herr /\ body.status = "cancelled" /\ "intent" \notin disk
       /\ (running # 0 \/ "finished" \in disk) => "cancel" \in disk

\* At the steps of a call: whoever cancels finds the outcome open, whoever
\* submits or deletes finds the files as the fence has kept them, and a
\* cancellation that may be acknowledged is recorded.
CallInv(c) ==
    /\ Up \/ ~Serving(c)
    /\ call[c].gen <= gen
    /\ At(c, "c_decide") /\ call[c].gen = gen => running # 0 \/ decided
    /\ In(c, Deciding) => running # 0 /\ ~decided
    /\ In(c, {"s_valid", "s_accept"}) => disk = {} /\ ~mem
    /\ At(c, "s_register") =>
          /\ disk = {"accepted", "tree"} /\ ~mem /\ body.gen < gen /\ gen \notin acked
          /\ events # <<>> /\ events = file /\ durable = events /\ ~unread
    /\ Fenced(c) => "intent" \notin disk /\ (call[c].op = "submit" => "accepted" \in disk)
    /\ Fenced(c) /\ In(c, Judging) => "finished" \in disk
    /\ At(c, "d_intent") => "accepted" \in disk /\ "intent" \notin disk /\ (mem \/ "finished" \in disk)
    /\ In(c, {"d_tree", "d_files", "d_end"}) => "intent" \in disk
    /\ In(c, {"d_files", "d_end"}) => "tree" \notin disk
    /\ At(c, "d_end") => Records = {} /\ file = <<>>
    /\ At(c, "d_mem") => disk = {} /\ file = <<>>
    /\ In(c, {"c_token", "c_publish"}) => "cancel" \in disk
    /\ At(c, "c_publish") => token

\* What holds of the locks, the maps, the files and the calls in every state.
RegistryInv ==
    /\ RegistryType /\ FenceInv /\ EntryInv /\ DiskInv /\ HistoryInv /\ AckInv /\ ShutInv
    /\ \A c \in Clients : CallInv(c)

-----------------------------------------------------------------------------
\* The outcome is on disk, and nothing is kept in memory.
Settled == ResourceState \in {"ended", "cancelled"} /\ ~mem

\* What a call has seen of the handle's life since it began, at the steps
\* where it goes on without looking again.
SeenBy(c) ==
    /\ ResourceState \in seen[c]
    /\ In(c, Deleting) => "deleting" \in seen[c]
    /\ In(c, {"g_body", "g_check", "s_body"}) => "running" \in seen[c]
    /\ In(c, {"g_body", "g_check"}) =>
          \/ "deleting" \in seen[c]
          \/ call[c].gen = gen /\ ResourceState \in {"running", "ended", "cancelled"}
    /\ At(c, "g_check") =>
          \/ call[c].ans = "running"
          \/ call[c].ans = "error" /\ ("ending" \in seen[c] \/ broken)
    /\ In(c, Reading) =>
          \/ "deleting" \in seen[c] /\ ~Fenced(c)
          \/ Settled /\ (In(c, Judging) => call[c].body = body)
          \/ call[c].op \in {"cancel", "delete"} /\ ResourceState = "absent" /\ ~In(c, Judging)
          \/ call[c].op = "cancel" /\ {"absent", "running"} \subseteq seen[c]
    /\ In(c, Reading) /\ call[c].op \in {"get", "list"} =>
          "running" \in seen[c] \/ (IF In(c, Judging) THEN call[c].body ELSE body).status \in seen[c]

SeenInv == \A c \in Clients : Serving(c) => SeenBy(c)

\* What the refinement of the resource rests on.
ResourceInv == RegistryInv /\ SeenInv
=============================================================================
