-------------------------- MODULE SessionRecovery --------------------------
(***************************************************************************)
(* Startup: pre_flight from recover_interrupted_deletions to the last      *)
(* sweep, for one handle.  It finishes an interrupted DELETE, refuses what *)
(* it cannot read, rolls an uncommitted acceptance back, terminalizes an   *)
(* accepted session that has no committed terminal, and reconciles what is *)
(* left before the listener binds.  It stops at the first thing it does    *)
(* not recognise and leaves it in place.                                   *)
(***************************************************************************)
EXTENDS SessionDisk

quietBoot == <<cpc, memory, hist>>

Boot ==
    /\ svc \in {"down", "refused"}
    /\ svc' = "boot" /\ pc' = "b_delete" /\ start' = "clean"
    /\ UNCHANGED <<files, quietBoot>>

\* Fault: startup does not finish a published deletion.
BootDeleteForgets ==
    /\ pc = "b_delete"
    /\ UNCHANGED files
    /\ Goto("b_check")
    /\ UNCHANGED quietBoot

\* recover_interrupted_deletions: an unpublished candidate is discarded, an
\* intent is finished by the steps of finish_delete_intent.
BootDelete ==
    /\ pc = "b_delete"
    /\ CASE vis.del = "intent" -> UNCHANGED files /\ Goto("d_tree")
         [] vis.del = "none" -> UNCHANGED files /\ Goto("b_check")
         [] OTHER ->
              \/ /\ vis' = [vis EXCEPT !.del = "none"]
                 /\ \/ dur' = SyncRecords(dur, vis') /\ Goto("b_check")
                    \/ SyncFails /\ UNCHANGED dur /\ Fail
              \/ IoFails /\ UNCHANGED files /\ Fail
    /\ UNCHANGED quietBoot

\* Fault: startup does not read the draft before it acts on it.
BootCheckBlind ==
    /\ pc = "b_check"
    /\ UNCHANGED files
    /\ Goto("b_accept")
    /\ UNCHANGED quietBoot

\* require_readable_result_records.
BootCheck ==
    /\ pc = "b_check"
    /\ UNCHANGED files
    /\ IF vis.draft = Torn THEN Refuse ELSE Goto("b_accept")
    /\ UNCHANGED quietBoot

\* is_exact_uncommitted_acceptance: nothing but progress.json and perhaps
\* accepted.json.next.
Uncommitted(v) ==
    /\ v.rec \in {"progress", "torn", "next"} /\ v.progress # "next"
    /\ v.cancel = "none" /\ v.bundle = "none"
    /\ v.draft = Absent /\ v.final = Absent

\* ... whose candidate parses and whose tree, if any, is the exact
\* pre-commit layout: with its archive exactly when the candidate names it.
Disposable(v) ==
    /\ v.rec # "torn"
    /\ v.marker = "none"
    /\ v.tree \in {"none", IF v.rec = "next" THEN "placed" ELSE "layout"}

\* recover_interrupted_acceptances, by what the result directory holds.
BootAccept ==
    /\ pc = "b_accept"
    /\ UNCHANGED files
    /\ CASE vis.rec = "accepted" -> Goto("b_open")
         [] vis.rec = "bare" -> Refuse
         [] Uncommitted(vis) -> IF Disposable(vis) THEN Goto("b_undo") ELSE Refuse
         [] OTHER -> Goto("b_final")
    /\ UNCHANGED quietBoot

\* remove_exact_uncommitted_acceptance.
BootUndo ==
    /\ pc = "b_undo"
    /\ IF vis.tree = "none"
       THEN UNCHANGED files /\ Goto("b_undo_rec")
       ELSE \/ Change(WithoutTree(vis)) /\ Goto("b_undo_sync")
            \/ IoFails /\ (\E v \in Damaged(vis) : Change(v)) /\ Fail
    /\ UNCHANGED quietBoot

BootUndoSync ==
    /\ pc = "b_undo_sync"
    /\ \/ Barrier(SyncSessions(dur, vis)) /\ Goto("b_undo_rec")
       \/ SyncFails /\ UNCHANGED files /\ Fail
    /\ UNCHANGED quietBoot

BootUndoResult ==
    /\ pc = "b_undo_rec"
    /\ \/ /\ vis' = WithoutResult(vis)
          /\ \/ dur' = SyncRecords(dur, vis') /\ Goto("b_final")
             \/ SyncFails /\ UNCHANGED dur /\ Fail
       \/ IoFails /\ (\E v \in Ruined(vis) : Change(v)) /\ Fail
    /\ UNCHANGED quietBoot

\* An accepted session: ProgressReporter::open discards an unpublished
\* progress.json.next.
BootOpen ==
    /\ pc = "b_open"
    /\ IF vis.progress # "next"
       THEN UNCHANGED files /\ Goto("b_cancel")
       ELSE \/ /\ vis' = [vis EXCEPT !.progress = "agrees"]
               /\ \/ dur' = SyncResult(dur, vis') /\ Goto("b_cancel")
                  \/ SyncFails /\ UNCHANGED dur /\ Fail
            \/ IoFails /\ UNCHANGED files /\ Fail
    /\ UNCHANGED quietBoot

\* Then drop a cancellation candidate, and go by the
\* terminal files.
BootCancel ==
    /\ pc = "b_cancel"
    /\ \/ /\ vis' = [vis EXCEPT !.cancel = IF @ = "next" THEN "none" ELSE @]
          /\ \/ /\ dur' = IF vis.cancel = "next" THEN SyncResult(dur, vis') ELSE dur
                /\ Goto(IF vis.final # Absent THEN "b_final"
                        ELSE IF vis.draft # Absent THEN "b_resume" ELSE "b_recover")
             \/ SyncFails /\ vis.cancel = "next" /\ UNCHANGED dur /\ Fail
       \/ IoFails /\ vis.cancel = "next" /\ UNCHANGED files /\ Fail
    /\ UNCHANGED quietBoot

\* resume_prepared_terminal_transaction: validate the draft (its history must
\* be the one in progress.json), establish its durability again, and finish
\* the transaction.
BootResume ==
    /\ pc = "b_resume"
    /\ IF vis.progress # "agrees" \/ ~ValidStorage(vis.draft, vis)
       THEN UNCHANGED <<files, mem>> /\ Refuse
       ELSE \/ /\ Barrier(SyncResult(dur, vis))
               /\ mem' = vis.draft
               /\ Goto("finish")
            \/ SyncFails /\ UNCHANGED <<files, mem>> /\ Fail
    /\ UNCHANGED <<cpc, proof, held, token, hist>>

\* recover_after_service_restart up to the teardown proof: progress is
\* published, the tree is validated (or created when absent) and completed
\* with sidecars; the status comes from the durable cancellation intent.
BootRecover ==
    /\ pc = "b_recover"
    /\ IF vis.tree = "partial"
       THEN UNCHANGED <<files, mem>> /\ Refuse
       ELSE \/ /\ vis' = [vis EXCEPT !.tree = "full", !.progress = "agrees"]
               /\ dur' = SyncResult(IF vis.tree = "none" THEN SyncSessions(dur, vis')
                                    ELSE dur, vis')
               /\ mem' = [status |-> IF vis.cancel = "intent" THEN "cancelled" ELSE "ended",
                          evidence |-> {}, answer |-> NoAnswer]
               /\ Goto("teardown")
            \/ PublishFails(vis) /\ UNCHANGED mem /\ Fail
    /\ UNCHANGED <<cpc, proof, held, token, hist>>

\* committed_terminal_for_sweep: a draft alone is refused; a final record is
\* synced before the draft's redundant name is removed.
BootFinal ==
    /\ pc = "b_final"
    /\ IF vis.final = Absent
       THEN UNCHANGED files /\ IF vis.draft = Absent THEN Goto("b_state") ELSE Refuse
       ELSE IF vis.draft \notin {Absent, vis.final}
       THEN UNCHANGED files /\ Refuse
       ELSE \/ /\ Barrier(SyncResult(dur, vis))
               /\ Goto(IF vis.draft = Absent THEN "b_state" ELSE "b_unlink")
            \/ SyncFails /\ UNCHANGED files /\ Fail
    /\ UNCHANGED quietBoot

BootUnlink ==
    /\ pc = "b_unlink"
    /\ \/ Change([vis EXCEPT !.draft = Absent]) /\ Goto("b_unlink_sync")
       \/ IoFails /\ UNCHANGED files /\ Fail
    /\ UNCHANGED quietBoot

BootUnlinkSync ==
    /\ pc = "b_unlink_sync"
    /\ \/ Barrier(SyncResult(dur, vis)) /\ Goto("b_state")
       \/ SyncFails /\ UNCHANGED files /\ Fail
    /\ UNCHANGED quietBoot

\* No result directory, or an empty one.
EmptyResult(v) == v.rec \in {"none", "dir"} /\ WithoutResult(v) = [v EXCEPT !.rec = "none"]

\* sweep_state_dir: which raw trees stay, and which are removed.
KeepTree(v) ==
    /\ v.final # Absent /\ "raw" \in v.final.evidence
    /\ ValidStorage(v.final, v)
    /\ v.marker = Cause(v.final)

SweepTree(v) ==
    /\ v.marker = "none"
    /\ IF v.final # Absent
       THEN ValidStorage(v.final, v) /\ "raw" \notin v.final.evidence
       ELSE EmptyResult(v) /\ v.tree = "layout"

BootState ==
    /\ pc = "b_state"
    /\ IF vis.tree # "none" /\ ~KeepTree(vis) /\ ~SweepTree(vis)
       THEN UNCHANGED files /\ Refuse
       ELSE \/ /\ vis' = IF SweepTree(vis) THEN WithoutTree(vis) ELSE vis
               /\ \/ dur' = SyncSessions(dur, vis') /\ Goto("b_results")
                  \/ SyncFails /\ UNCHANGED dur /\ Fail
            \/ /\ IoFails /\ vis.tree # "none" /\ SweepTree(vis)
               /\ (\E v \in Damaged(vis) : Change(v)) /\ Fail
    /\ UNCHANGED quietBoot

\* sweep_partial_results: a committed terminal must agree with its storage,
\* an empty directory goes, anything else is refused.  Then the listener
\* binds.
BootResults ==
    /\ pc = "b_results"
    /\ IF \/ vis.final # Absent /\ ~(ValidStorage(vis.final, vis) /\ ValidState(vis.final, vis))
          \/ vis.final = Absent /\ ~EmptyResult(vis)
       THEN UNCHANGED files /\ Refuse
       ELSE \/ /\ vis' = IF vis.final = Absent THEN WithoutResult(vis) ELSE vis
               /\ \/ /\ dur' = SyncRecords(dur, vis')
                     /\ svc' = "up" /\ pc' = "idle" /\ start' = "clean"
                  \/ SyncFails /\ UNCHANGED dur /\ Fail
            \/ IoFails /\ vis.rec = "dir" /\ vis.final = Absent /\ UNCHANGED files /\ Fail
    /\ UNCHANGED quietBoot

RecoveryNext ==
    \/ Boot \/ BootDelete \/ BootCheck \/ BootAccept \/ BootUndo \/ BootUndoSync
    \/ BootUndoResult \/ BootOpen \/ BootCancel \/ BootResume \/ BootRecover \/ BootFinal
    \/ BootUnlink \/ BootUnlinkSync \/ BootState \/ BootResults
=============================================================================
