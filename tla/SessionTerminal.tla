-------------------------- MODULE SessionTerminal --------------------------
(***************************************************************************)
(* From an accepted session to its committed terminal record: execution    *)
(* and teardown (run_one, recover_after_execution_panic, and the same      *)
(* steps of recover_after_service_restart), the bundle, the decision to    *)
(* retain the raw tree, and the prepare / cleanup / commit transaction.    *)
(* The live supervisor and startup recovery run the same steps.            *)
(***************************************************************************)
EXTENDS SessionDisk

-----------------------------------------------------------------------------
(* Execution and evidence.                                                 *)

\* The body of a session that ended by itself.
Ended(answer) == [status |-> "ended", evidence |-> {}, answer |-> answer]

\* run_one up to the agent's end: it publishes progress, and writes into the
\* raw tree.  Nothing bounds its wait for the agent.  The inner task may also
\* panic.
Execute ==
    /\ pc = "execute"
    /\ LET v == [vis EXCEPT !.tree = "full"] IN Publishes(v) \/ PublishFails(v)
    /\ \/ \E a \in Answers \cup {NoAnswer} : mem' = Ended(a) /\ Goto("teardown")
       \/ mem' = Ended(NoAnswer) /\ Goto("recover")
    /\ UNCHANGED <<cpc, proof, held, token, hist>>

\* The inner task panics later; the supervisor recovers with no agent result
\* and treats an archive that is already there as unaccepted.
ExecutionPanic ==
    /\ svc \in {"up", "stopping"}
    /\ pc \in {"teardown", "bundle", "link", "bundle_sync", "retain", "mark"}
    /\ mem.answer # NoAnswer
    /\ mem' = Ended(NoAnswer)
    /\ Goto("recover")
    /\ UNCHANGED <<files, cpc, proof, held, token, hist>>

\* recover_after_execution_panic stops the agent and waits, without a
\* deadline, for its capture.
PanicRecovery ==
    /\ pc = "recover"
    /\ Goto("teardown")
    /\ UNCHANGED <<files, cpc, memory, hist>>

\* remove_and_prove_quiescent: the broker's answers are outside the model.
Teardown ==
    /\ pc = "teardown"
    /\ proof' \in {"complete", "stopped", "unproved"}
    /\ Goto("bundle")
    /\ UNCHANGED <<files, cpc, mem, held, token, hist>>

\* create_bundle is attempted only on quiescent state, and never over an
\* archive or a partial file that is already there.
MayBundle == proof # "unproved" /\ vis.bundle = "none" /\ vis.tree = "full"

BundleOpen ==
    /\ pc = "bundle" /\ MayBundle
    /\ Change([vis EXCEPT !.bundle = "partial"])
    /\ Goto("link")
    /\ UNCHANGED <<cpc, memory, hist>>

BundleSkip ==
    /\ pc = "bundle" /\ ~MayBundle
    /\ Goto("retain")
    /\ UNCHANGED <<files, cpc, memory, hist>>

\* The archive is written, compared with the tree, synced and hard-linked.
BundleLink ==
    /\ pc = "link"
    /\ Change([vis EXCEPT !.bundle = "full"])
    /\ Goto("bundle_sync")
    /\ UNCHANGED <<cpc, memory, hist>>

\* Only a synced publication is accepted.
BundleAccept ==
    /\ pc = "bundle_sync"
    /\ Barrier(SyncResult(dur, vis))
    /\ mem' = [mem EXCEPT !.evidence = {"bundle"}]
    /\ Goto("retain")
    /\ UNCHANGED <<cpc, proof, held, token, hist>>

\* An error before or at the barrier rolls the publication back; the
\* removal can fail as well, and is not synced.
BundleFails ==
    /\ \/ pc = "link" /\ IoFails
       \/ pc = "bundle_sync" /\ (SyncFails \/ IoFails)
    /\ \E b \in {"none"} \cup (IF IoFails THEN {vis.bundle} ELSE {}) :
          Change([vis EXCEPT !.bundle = b])
    /\ Goto("retain")
    /\ UNCHANGED <<cpc, memory, hist>>

\* raw_retention_decision over the three facts it is given.
MustRetain == proof # "complete" \/ "bundle" \notin mem.evidence

\* retain_raw_evidence: the claim is recorded whenever the tree exists, even
\* if the marker (create_new) cannot be written.  The proof is not used again.
Retain ==
    /\ pc = "retain"
    /\ IF MustRetain /\ vis.tree # "none"
       THEN /\ mem' = [mem EXCEPT !.evidence = @ \cup {"raw"}]
            /\ \/ /\ vis.marker = "none"
                  /\ Change([vis EXCEPT !.marker = "torn"])
                  /\ Goto("mark")
               \/ /\ vis.marker # "none" \/ IoFails
                  /\ UNCHANGED files
                  /\ Goto("decide")
       ELSE UNCHANGED <<files, mem>> /\ Goto("decide")
    /\ proof' = "complete"
    /\ UNCHANGED <<cpc, held, token, hist>>

\* Fault: the marker is written but its directory is not synced.
MarkUnsynced ==
    /\ pc = "mark"
    /\ Change([vis EXCEPT !.marker = Cause(mem)])
    /\ Goto("decide")
    /\ UNCHANGED <<cpc, memory, hist>>

\* mark_raw_evidence_retained writes, syncs the file and its directory.
Mark ==
    /\ pc = "mark"
    /\ \/ /\ vis' = [vis EXCEPT !.marker = Cause(mem)]
          /\ dur' = SyncControl(dur, vis')
       \/ SyncFails /\ Change([vis EXCEPT !.marker = Cause(mem)])
       \/ IoFails /\ UNCHANGED files
    /\ Goto("decide")
    /\ UNCHANGED <<cpc, memory, hist>>

-----------------------------------------------------------------------------
(* The terminal transaction.                                               *)

\* Fault: the body of a failed transaction is dropped.
TerminalFailsSilently(fault) ==
    /\ IF svc = "boot"
       THEN svc' = "refused" /\ pc' = "none" /\ start' = IF fault THEN "faulted" ELSE start
       ELSE Goto("idle")
    /\ mem' = Absent
    /\ proof' = "complete"
    /\ token' = "live"
    /\ UNCHANGED held

\* The error of the transaction: a live supervisor keeps the body in memory,
\* a startup exits (fault: an injected failure rather than a refusal).
TerminalFails(fault) ==
    /\ IF svc = "boot"
       THEN /\ svc' = "refused" /\ pc' = "none"
            /\ start' = IF fault THEN "faulted" ELSE start
            /\ UNCHANGED held
       ELSE Goto("idle") /\ held' = mem
    /\ mem' = Absent
    /\ proof' = "complete"
    /\ token' = "live"

\* Fault: the outcome is selected without the decision lock.
DecideUnlocked ==
    /\ pc = "decide"
    /\ mem' = IF svc # "boot" /\ token = "cancelled"
              THEN [mem EXCEPT !.status = "cancelled"] ELSE mem
    /\ Barrier(SyncResult(dur, vis))
    /\ Goto("prepare")
    /\ UNCHANGED <<cpc, proof, held, token, hist>>

\* The body repeats a history that is visible and not durable, after the
\* barrier failed; or one that is older than the visible file, which could
\* not be read back.
HistoryBehind ==
    /\ SyncFails /\ vis.progress = "agrees"
    /\ \/ dur' = [dur EXCEPT !.progress = "differs"] /\ UNCHANGED vis
       \/ IoFails /\ Change([vis EXCEPT !.progress = "differs"])

\* The outcome is selected under terminal_decision, which a cancellation
\* holds for its whole transaction; then progress is published.  A live
\* supervisor only records a failed publication in the body.
Decide ==
    /\ pc = "decide"
    /\ cpc = "none"
    /\ mem' = IF svc # "boot" /\ token = "cancelled"
              THEN [mem EXCEPT !.status = "cancelled"] ELSE mem
    /\ \/ vis.progress = "agrees" /\ Publishes(vis) /\ Goto("prepare")
       \/ /\ PublishFails(vis) \/ HistoryBehind
          /\ IF svc = "boot" THEN Fail ELSE Goto("prepare")
    /\ UNCHANGED <<cpc, proof, held, token, hist>>

\* prepare_terminal: create_new, write, sync the file, sync the directory.
Prepare ==
    /\ pc = "prepare"
    /\ IF vis.draft = Absent /\ vis.final = Absent
       THEN \/ /\ Change([vis EXCEPT !.draft = Torn])
               /\ Goto("write")
               /\ UNCHANGED memory
            \/ IoFails /\ UNCHANGED files /\ TerminalFails(TRUE)
       ELSE UNCHANGED files /\ TerminalFails(FALSE)
    /\ UNCHANGED <<cpc, hist>>

WriteDraft ==
    /\ pc = "write"
    /\ \/ /\ Change([vis EXCEPT !.draft = mem])
          /\ Goto("draft_sync")
          /\ UNCHANGED memory
       \/ IoFails /\ UNCHANGED files /\ TerminalFails(TRUE)
    /\ UNCHANGED <<cpc, hist>>

SyncDraft ==
    /\ pc = "draft_sync"
    /\ \/ /\ Barrier(SyncResult(dur, vis))
          /\ Goto("finish")
          /\ UNCHANGED memory
       \/ SyncFails /\ UNCHANGED files /\ TerminalFails(TRUE)
    /\ UNCHANGED <<cpc, hist>>

\* Fault: the tree is removed although the body claims it.
FinishIgnoringClaim ==
    /\ pc = "finish"
    /\ UNCHANGED files
    /\ IF ~ValidStorage(mem, vis)
       THEN TerminalFails(FALSE)
       ELSE Goto("cleanup") /\ UNCHANGED memory
    /\ UNCHANGED <<cpc, hist>>

\* finish_prepared_terminal_transaction: the storage claims are checked
\* against the disk; only a body that does not claim the raw tree, and whose
\* bundle is accepted (or whose tree is gone), may remove the tree.
Finish ==
    /\ pc = "finish"
    /\ UNCHANGED files
    /\ IF ~ValidStorage(mem, vis)
       THEN TerminalFails(FALSE)
       ELSE IF "raw" \in mem.evidence
       THEN IF ValidState(mem, vis)
            THEN Goto("commit") /\ UNCHANGED memory
            ELSE TerminalFails(FALSE)
       ELSE IF "bundle" \notin mem.evidence /\ vis.tree # "none"
       THEN TerminalFails(FALSE)
       ELSE Goto("cleanup") /\ UNCHANGED memory
    /\ UNCHANGED <<cpc, hist>>

\* remove_terminalized_state.  An absent tree still needs its barrier; a tree
\* that could not be removed is looked at again, and claimed as retained from
\* now on.
Cleanup ==
    /\ pc = "cleanup"
    /\ \/ /\ Change(WithoutTree(vis))
          /\ Goto("cleanup_sync")
          /\ UNCHANGED memory
       \/ /\ IoFails /\ vis.tree # "none"
          /\ \E v \in Damaged(vis) \cup {vis} : Change(v)
          /\ \/ /\ mem' = [mem EXCEPT !.evidence = @ \cup {"raw"}]
                /\ Goto("rewrite")
                /\ UNCHANGED <<proof, held, token>>
             \/ TerminalFails(TRUE)
    /\ UNCHANGED <<cpc, hist>>

\* Fault: the removal of the tree is not synced before the commit.
SyncCleanupSkipped ==
    /\ pc = "cleanup_sync"
    /\ UNCHANGED files
    /\ Goto("commit")
    /\ UNCHANGED <<cpc, memory, hist>>

\* The barrier after the removal, which comes before the record is published.
SyncCleanup ==
    /\ pc = "cleanup_sync"
    /\ \/ Barrier(SyncSessions(dur, vis)) /\ Goto("commit") /\ UNCHANGED memory
       \/ SyncFails /\ UNCHANGED files /\ Goto("rewrite") /\ UNCHANGED memory
       \/ SyncFails /\ IoFails /\ UNCHANGED files /\ TerminalFails(TRUE)
    /\ UNCHANGED <<cpc, hist>>

\* Fault: the draft is rewritten as a recovery body, without the answer.
RewriteFromScratch ==
    /\ pc = "rewrite"
    /\ mem' = [mem EXCEPT !.answer = NoAnswer]
    /\ Change([vis EXCEPT !.draft = Torn])
    /\ Goto("rewriting")
    /\ UNCHANGED <<cpc, proof, held, token, hist>>

\* rewrite_prepared_terminal refuses beside a published record; otherwise it
\* truncates the draft in place and writes it again.
Rewrite ==
    /\ pc = "rewrite"
    /\ \/ /\ vis.final = Absent
          /\ Change([vis EXCEPT !.draft = Torn])
          /\ Goto("rewriting")
          /\ UNCHANGED memory
       \/ /\ vis.final # Absent \/ IoFails
          /\ UNCHANGED files
          /\ TerminalFails(IoFails)
    /\ UNCHANGED <<cpc, hist>>

Rewriting ==
    /\ pc = "rewriting"
    /\ \/ /\ Change([vis EXCEPT !.draft = mem])
          /\ Goto("rewrite_sync")
          /\ UNCHANGED memory
       \/ IoFails /\ UNCHANGED files /\ TerminalFails(TRUE)
    /\ UNCHANGED <<cpc, hist>>

\* With the tree gone but its removal unproved the transaction stops here,
\* prepared and uncommitted.
SyncRewrite ==
    /\ pc = "rewrite_sync"
    /\ \/ /\ Barrier(SyncResult(dur, vis))
          /\ IF "raw" \in mem.evidence
             THEN Goto("remark") /\ UNCHANGED memory
             ELSE TerminalFails(TRUE)
       \/ SyncFails /\ UNCHANGED files /\ TerminalFails(TRUE)
    /\ UNCHANGED <<cpc, hist>>

\* publish_cleanup_retention_marker (create_new), then the state check.
Remark ==
    /\ pc = "remark"
    /\ \/ /\ vis.marker = "none"
          /\ vis' = [vis EXCEPT !.marker = "bundled"]
          /\ dur' = SyncControl(dur, vis')
          /\ Goto("commit")
          /\ UNCHANGED memory
       \/ /\ vis.marker = "none"
          /\ \/ Change([vis EXCEPT !.marker = "torn"])
             \/ SyncFails /\ Change([vis EXCEPT !.marker = "bundled"])
          /\ TerminalFails(TRUE)
       \/ UNCHANGED files /\ TerminalFails(TRUE)
    /\ UNCHANGED <<cpc, hist>>

\* commit_prepared_terminal: link, sync, unlink the draft, sync.
Commit ==
    /\ pc = "commit"
    /\ \/ /\ vis.final = Absent
          /\ Change([vis EXCEPT !.final = vis.draft])
          /\ Goto("commit_sync")
          /\ UNCHANGED memory
       \/ /\ vis.final # Absent \/ IoFails
          /\ UNCHANGED files
          /\ TerminalFails(IoFails)
    /\ UNCHANGED <<cpc, hist>>

SyncCommit ==
    /\ pc = "commit_sync"
    /\ \/ /\ Barrier(SyncResult(dur, vis))
          /\ Goto("unlink")
          /\ UNCHANGED memory
       \/ SyncFails /\ UNCHANGED files /\ TerminalFails(TRUE)
    /\ UNCHANGED <<cpc, hist>>

UnlinkDraft ==
    /\ pc = "unlink"
    /\ \/ /\ Change([vis EXCEPT !.draft = Absent])
          /\ Goto("unlink_sync")
          /\ UNCHANGED memory
       \/ IoFails /\ UNCHANGED files /\ TerminalFails(TRUE)
    /\ UNCHANGED <<cpc, hist>>

\* The last barrier; a live supervisor then evicts the running entry.
SyncUnlink ==
    /\ pc = "unlink_sync"
    /\ \/ /\ Barrier(SyncResult(dur, vis))
          /\ Goto(IF svc = "boot" THEN "b_final" ELSE "idle")
          /\ mem' = Absent /\ proof' = "complete" /\ token' = "live"
          /\ UNCHANGED held
       \/ SyncFails /\ UNCHANGED files /\ TerminalFails(TRUE)
    /\ UNCHANGED <<cpc, hist>>

RunNext ==
    \/ Execute \/ ExecutionPanic \/ PanicRecovery \/ Teardown \/ BundleOpen
    \/ BundleSkip \/ BundleLink \/ BundleAccept \/ BundleFails \/ Retain \/ Mark
    \/ Decide

TerminalNext ==
    \/ Prepare \/ WriteDraft \/ SyncDraft \/ Finish \/ Cleanup \/ SyncCleanup
    \/ Rewrite \/ Rewriting \/ SyncRewrite \/ Remark \/ Commit \/ SyncCommit
    \/ UnlinkDraft \/ SyncUnlink
=============================================================================
