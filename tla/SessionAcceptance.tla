------------------------- MODULE SessionAcceptance -------------------------
(***************************************************************************)
(* POST: submit_server_owned and prepare_durable_acceptance.  The raw tree *)
(* and the request are made durable before accepted.json is renamed into   *)
(* place; that rename is the commit.  Every earlier failure is rolled      *)
(* back, no later one is.                                                  *)
(***************************************************************************)
EXTENDS SessionDisk

quietSubmit == <<cpc, mem, proof, held, token>>

\* A new operation: no delete intent, no acceptance, and neither path may
\* exist already (the collision check).  create_dirs creates the root first.
Submit ==
    /\ svc = "up" /\ pc = "idle"
    /\ vis.del # "intent"
    /\ vis.tree = "none" /\ vis.rec = "none"
    /\ Change([vis EXCEPT !.tree = "partial"])
    /\ Goto("s_dirs")
    /\ hist' = IF dur.tree = "none" /\ dur.rec = "none" THEN {} ELSE hist \ {"deleted"}
    /\ UNCHANGED quietSubmit

\* POST of a handle whose acceptance exists: the replay is answered from the
\* running entry or the terminal resource, and touches no file.
SubmitReplay ==
    /\ svc = "up"
    /\ vis.del # "intent" /\ vis.rec = "accepted"
    /\ \/ Running
       \/ pc = "idle" /\ (held # Absent \/ Readable(vis))
    /\ hist' = hist \cup {"accepted"}
    /\ UNCHANGED <<files, control, cpc, memory>>

\* The rest of create_dirs and the prompt, turn-budget and deliverables
\* controls, each synced as it is written.
SubmitLayout ==
    /\ pc = "s_dirs"
    /\ vis' = [vis EXCEPT !.tree = "layout"]
    /\ dur' = SyncSessions(dur, vis')
    /\ Goto("s_place")
    /\ UNCHANGED <<hist, quietSubmit>>

\* Fault: the placed archive is not synced.
SubmitPlaceUnsynced ==
    /\ pc = "s_place"
    /\ Change([vis EXCEPT !.tree = "placed"])
    /\ Goto("s_result")
    /\ UNCHANGED <<hist, quietSubmit>>

\* place_input_archive.
SubmitPlace ==
    /\ pc = "s_place"
    /\ vis' = [vis EXCEPT !.tree = "placed"]
    /\ dur' = SyncSessions(dur, vis')
    /\ Goto("s_result")
    /\ UNCHANGED <<hist, quietSubmit>>

\* The result directory, with the sync of the records root.
SubmitResult ==
    /\ pc = "s_result"
    /\ vis' = [vis EXCEPT !.rec = "dir"]
    /\ dur' = SyncRecords(dur, vis')
    /\ Goto("s_progress")
    /\ UNCHANGED <<hist, quietSubmit>>

\* ProgressReporter::create.
SubmitProgress ==
    /\ pc = "s_progress"
    /\ vis' = [vis EXCEPT !.rec = "progress"]
    /\ dur' = SyncResult(dur, vis')
    /\ Goto("s_open")
    /\ UNCHANGED <<hist, quietSubmit>>

\* accepted.json.next is created, then written and synced.
SubmitOpen ==
    /\ pc = "s_open"
    /\ Change([vis EXCEPT !.rec = "torn"])
    /\ Goto("s_write")
    /\ UNCHANGED <<hist, quietSubmit>>

SubmitWrite ==
    /\ pc = "s_write"
    /\ vis' = [vis EXCEPT !.rec = "next"]
    /\ dur' = SyncResult(dur, vis')
    /\ Goto("s_publish")
    /\ UNCHANGED <<hist, quietSubmit>>

\* The rename that commits the acceptance.
SubmitPublish ==
    /\ pc = "s_publish"
    /\ Change([vis EXCEPT !.rec = "accepted"])
    /\ Goto("s_barrier")
    /\ UNCHANGED <<hist, quietSubmit>>

\* Fault: the caller is answered before the barrier.
SubmitBarrierUnsynced ==
    /\ pc = "s_barrier"
    /\ hist' = hist \cup {"accepted"}
    /\ token' = "live"
    /\ Goto("execute")
    /\ UNCHANGED <<files, cpc, mem, proof, held>>

\* The final barrier, with one retry.  If both fail the caller gets
\* AcceptanceDurabilityFailed, and the supervisor is spawned all the same.
SubmitBarrier ==
    /\ pc = "s_barrier"
    /\ \/ /\ Barrier(SyncResult(dur, vis))
          /\ hist' = hist \cup {"accepted"}
       \/ SyncFails /\ UNCHANGED <<files, hist>>
    /\ token' = "live"
    /\ Goto("execute")
    /\ UNCHANGED <<cpc, mem, proof, held>>

\* A failure before the rename goes to rollback_uncommitted_acceptance (a
\* failed create_dirs removes its own tree).
SubmitFails ==
    /\ IoFails \/ SyncFails
    /\ pc \in SubmitSteps \ {"s_barrier", "s_undo"}
    /\ Goto("s_undo")
    /\ UNCHANGED <<files, hist, quietSubmit>>

\* Both trees are removed, each removal and each parent sync on its own: an
\* error of one is recorded and the next is still tried.
SubmitRollback ==
    /\ pc = "s_undo"
    /\ \E v \in {WithoutTree(vis)} \cup (IF IoFails THEN Damaged(vis) ELSE {}) :
       \E w \in {WithoutResult(v)} \cup (IF IoFails THEN Ruined(v) ELSE {}) :
       \E d \in {SyncSessions(dur, w)} \cup (IF SyncFails THEN {dur} ELSE {}) :
       \E e \in {SyncRecords(d, w)} \cup (IF SyncFails THEN {d} ELSE {}) :
          vis' = w /\ dur' = e
    /\ Goto("idle")
    /\ UNCHANGED <<hist, quietSubmit>>

AcceptanceNext ==
    \/ Submit \/ SubmitReplay \/ SubmitLayout \/ SubmitPlace \/ SubmitResult
    \/ SubmitProgress \/ SubmitOpen \/ SubmitWrite \/ SubmitPublish
    \/ SubmitBarrier \/ SubmitFails \/ SubmitRollback
=============================================================================
