---------------------------- MODULE SessionStore ----------------------------
(***************************************************************************)
(* One session handle from POST to DELETE, across crashes, power losses    *)
(* and I/O failures: the acceptance, the supervisor with its terminal      *)
(* transaction, cancellation beside it, deletion, and startup recovery,    *)
(* all over the same files.                                                *)
(***************************************************************************)
EXTENDS SessionAcceptance, SessionTerminal, SessionCancel, SessionDelete,
        SessionRecovery

\* What a crash forgets.
Forget ==
    /\ svc' = "down" /\ pc' = "none" /\ start' = "clean"
    /\ cpc' = "none"
    /\ mem' = Absent /\ proof' = "complete" /\ held' = Absent /\ token' = "live"
    /\ UNCHANGED hist

\* What a death in the middle of a progress publication leaves visible.
Interrupted ==
    IF pc \in {"execute", "decide", "b_recover"} /\ vis.progress = "agrees"
    THEN {vis, [vis EXCEPT !.progress = "next"]}
    ELSE {vis}

\* The process dies; the kernel keeps its files.
Crash ==
    /\ svc \in {"boot", "up", "stopping"}
    /\ Forget
    /\ \E v \in Interrupted : Change(v)

\* A file being replaced can also come back incomplete.
Survivors(d, v, absent, torn) ==
    {d, v} \cup (IF v = d \/ v = absent THEN {} ELSE {torn})

\* Each entry keeps its visible or its durable value ...
Either(v, d) ==
    [tree : {d.tree, v.tree}, marker : Survivors(d.marker, v.marker, "none", "torn"),
     rec : {d.rec, v.rec}, progress : {d.progress, v.progress},
     cancel : {d.cancel, v.cancel},
     bundle : {d.bundle, v.bundle}, draft : Survivors(d.draft, v.draft, Absent, Torn),
     final : {d.final, v.final}, del : {d.del, v.del}]

\* ... and nothing exists inside a directory that is gone.
Pruned(v) ==
    LET w == IF v.tree = "none" THEN WithoutTree(v) ELSE v
    IN  IF w.rec = "none" THEN WithoutResult(w) ELSE w

\* The machine dies, with the process or after it.
PowerLoss ==
    /\ "power" \in Faults
    /\ Forget
    /\ \E kept \in Either(vis, dur) : vis' = Pruned(kept)
    /\ dur' = vis'

Next ==
    \/ AcceptanceNext \/ RunNext \/ TerminalNext \/ CancelNext \/ DeleteNext
    \/ RecoveryNext \/ Crash \/ PowerLoss

Spec == Init /\ [][Next]_vars

-----------------------------------------------------------------------------
(* Fairness.  A task that is running keeps running: the steps of the owner  *)
(* of the handle and of a cancellation are tokio tasks that never wait for  *)
(* a client (await_connection_independent).  They do wait for docker: the   *)
(* agent's run, and the capture after a panic, are awaited without a        *)
(* deadline, so that no fairness is assumed of these two waits (WaitsEnd).  *)
(* Requests, panics, shutdowns, crashes and starts are up to the            *)
(* environment.  Decide waits for the terminal_decision mutex, which tokio  *)
(* hands over in arrival order, so a stream of cancellations cannot starve  *)
(* it.                                                                      *)

OwnerStep ==
    \/ AcceptanceNext /\ pc \in SubmitSteps
    \/ RunNext /\ pc \in RunSteps \ {"execute", "recover"}
    \/ TerminalNext
    \/ DeleteNext /\ pc \in DeleteSteps
    \/ RecoveryNext /\ svc = "boot"
    \/ ShutdownDrained

CancelStep == CancelNext /\ cpc # "none"

Fairness == WF_vars(OwnerStep) /\ SF_vars(Decide) /\ WF_vars(CancelStep)

FairSpec == Spec /\ Fairness

\* The two waits without a deadline come to their end: the agent is gone once
\* it has ended by itself or was stopped (wait.await in settle_running_agent),
\* and its capture ends after it (wait_capture_complete).  It is a premise of
\* the properties that need it, and no part of FairSpec.
WaitsEnd == WF_vars(Execute) /\ WF_vars(PanicRecovery)

-----------------------------------------------------------------------------
(* Safety.                                                                 *)

\* The raw tree is there with at least the layout and controls it had at
\* acceptance; what the run writes inside it is not told apart.
Held(v) == v.tree \in {"placed", "full"}

\* Nobody has been authorised to delete the session.
Kept == "deleting" \notin hist

\* "A process crash at any point leaves either recoverable draft metadata,
\* raw evidence, or both" (the supervisor): until a DELETE is authorised, an
\* accepted session has its raw tree, or its published bundle, in the
\* visible AND in the durable view, so that no power loss can take both.
EvidenceSurvives ==
    vis.rec = "accepted" /\ Kept =>
        \/ Held(vis) /\ Held(dur)
        \/ vis.bundle = "full" /\ dur.bundle = "full"

\* A terminal that GET serves is served again after any power loss: the
\* acceptance, the record, and the bundle or the tree with its marker that
\* read_terminal insists on, with the history it repeats, are all durable by
\* then; at most the draft's redundant name can come back, and startup
\* recognises it.
PublishedSurvives ==
    svc = "up" /\ pc = "idle" /\ Readable(vis) /\ Kept =>
        /\ dur.rec = "accepted" /\ dur.progress = "agrees" /\ dur.final = vis.final
        /\ dur.draft \in {Absent, dur.final}
        /\ ValidStorage(dur.final, dur) /\ ValidState(dur.final, dur)

\* A POST that was answered with a session, first or replayed, names a
\* session that every later startup finds (README: "durably accept, return
\* immediately").
AckedAcceptanceSurvives ==
    "accepted" \in hist /\ Kept => vis.rec = "accepted" /\ dur.rec = "accepted"

\* A cancellation that was acknowledged decides the outcome, across crashes
\* and restarts: no record of the session, and no outcome chosen for it, says
\* that it ended by itself ("Durably record cancellation").
AckedCancelHonoured ==
    "cancelled" \in hist /\ Kept =>
        /\ \A body \in {vis.draft, vis.final, dur.draft, dur.final} : body.status # "ended"
        /\ pc \in TerminalSteps => mem.status = "cancelled"

\* Once the supervisor lets go of an accepted session, or startup has dealt
\* with it, a GET finds its terminal: in memory or on disk, never nothing
\* ("a concurrent get sees either the running entry, a committed on-disk
\* terminal, or the explicit in-memory failure").
NoOrphanedSession ==
    svc = "up" /\ pc = "idle" /\ vis.rec = "accepted" /\ Kept =>
        held # Absent \/ vis.final # Absent

\* After a DELETE was answered neither view holds anything of the session, so
\* that no power loss can bring it back.
DeletedIsGone ==
    "deleted" \in hist => /\ vis.tree = "none" /\ vis.rec = "none"
                          /\ dur.tree = "none" /\ dur.rec = "none"

\* "Every durably accepted but nonterminal session is converted into an
\* explicit terminal recovery result before the service binds its listener"
\* (module comment of runtime.rs): a startup in which no operation failed
\* does not give up on an accepted session.
StartupTerminalizes ==
    svc = "refused" /\ start = "clean" => vis.rec # "accepted" \/ ~Kept

\* One step leaves a durable terminal record alone, unless it is a DELETE's
\* authorisation or follows one.
TerminalStays ==
    dur.final # Absent /\ "deleting" \notin hist' =>
        vis'.final = dur.final /\ dur'.final = dur.final

\* A durable terminal record neither changes nor disappears, whatever
\* crashes, resumes or is retried, until a DELETE is authorised.
TerminalPermanent == [][TerminalStays]_vars

\* One step after a draft is durable writes no draft and no record with
\* another outcome.
OutcomeStands ==
    dur.draft.status \in {"ended", "cancelled"} /\ "deleting" \notin hist' =>
        \A body \in {dur'.draft, dur'.final} \ {Absent, Torn} :
            body.status = dur.draft.status /\ body.answer = dur.draft.answer

\* The outcome is chosen once: after a draft with an outcome is durable, no
\* later draft or record (rewritten, resumed at startup, committed) gives the
\* session another status or another answer.
OutcomeDecidedOnce == [][OutcomeStands]_vars

-----------------------------------------------------------------------------
(* The inductive invariant behind TypeOK and EvidenceSurvives.             *)

\* Steps that build a body in memory, and those between the durable draft
\* and the published record.
BodySteps == (RunSteps \ {"execute"}) \cup TerminalSteps
DraftSteps == {"finish", "cleanup", "cleanup_sync", "rewrite", "rewriting",
               "rewrite_sync", "remark", "commit", "commit_sync"}

\* What the owner holds in memory, and how it relates to the draft.
BodyInv ==
    /\ pc \in BodySteps => mem \in Body
    /\ pc \in {"draft_sync", "finish", "cleanup", "cleanup_sync", "rewrite_sync",
               "remark", "commit"} => vis.draft = mem
    /\ pc \in {"b_accept", "b_open", "b_cancel", "b_recover"} => vis.draft # Torn
    /\ pc = "b_resume" => vis.draft \in Body

\* Every body claims some evidence, and the bundle it claims is durable.
ClaimInv ==
    /\ pc \in RunSteps => vis.tree # "none"
    /\ pc \in TerminalSteps \cup {"mark", "decide"} => mem.evidence # {}
    /\ pc \in {"cleanup", "cleanup_sync"} => "bundle" \in mem.evidence
    /\ pc = "bundle_sync" => vis.bundle = "full"
    /\ pc \in {"recover", "teardown", "bundle", "link", "bundle_sync"} => "bundle" \notin mem.evidence
    /\ pc \in BodySteps /\ "bundle" \in mem.evidence =>
          vis.bundle = "full" /\ dur.bundle = "full"

\* What is known at the steps of each transaction.
StepInv ==
    /\ pc \in SubmitSteps => vis.del # "intent"
    /\ pc \in SubmitSteps \ {"s_barrier"} => vis.rec # "accepted"
    /\ pc \in {"s_progress", "s_open", "s_write", "s_publish", "s_barrier"} =>
          dur.del # "intent"
    /\ pc \in {"s_result", "s_progress", "s_open", "s_write", "s_publish", "s_barrier"} =>
          vis.tree = "placed" /\ dur.tree = "placed"
    /\ pc \in DraftSteps => vis.draft # Absent /\ dur.draft # Absent
    /\ pc \in {"commit_sync", "unlink", "unlink_sync", "b_unlink", "b_unlink_sync"} =>
          vis.final # Absent
    /\ pc \in {"unlink", "unlink_sync"} => dur.final # Absent
    /\ pc \in {"b_unlink", "b_unlink_sync", "b_state"} /\ vis.final # Absent =>
          dur.final = vis.final /\ dur.bundle = vis.bundle
    /\ pc \in {"b_undo", "b_undo_sync", "b_undo_rec"} => vis.rec # "accepted"
    /\ pc \in {"b_open", "b_cancel", "b_recover"} => vis.rec = "accepted"
    /\ pc = "b_recover" => vis.draft = Absent /\ vis.final = Absent

\* As long as nobody may delete the session: a deletion step finds nothing
\* accepted, and the raw tree is there until a body is prepared.
KeptInv ==
    Kept =>
        /\ pc \in DeleteSteps \ {"d_publish"} => vis.rec # "accepted"
        /\ pc \in RunSteps \cup {"prepare", "write", "draft_sync"} => Held(vis) /\ Held(dur)

\* A terminal body, prepared or published, is in both views.
Prepared(v, d) ==
    \/ v.draft # Absent /\ d.draft # Absent
    \/ v.final # Absent /\ d.final # Absent

\* The two views v and d of a session's files, on their own: an accepted
\* session is not condemned, and has its raw tree until a terminal body is
\* prepared AND its bundle is durable.
Safe(v, d) ==
    /\ d.rec = "accepted" => v.rec = "accepted"
    /\ v.rec = "accepted" =>
          /\ v.del # "intent" /\ d.del # "intent"
          /\ \/ Held(v) /\ Held(d)
             \/ Prepared(v, d) /\ v.bundle = "full" /\ d.bundle = "full"

\* No body on disk is without evidence.
Claims(v) == \A body \in {v.draft, v.final} : body \in Body => body.evidence # {}

FilesInv == Claims(vis) /\ Claims(dur) /\ (Kept => Safe(vis, dur))

\* The inductive invariant: what every step preserves, so that a record never
\* names evidence that the power can take, at any step of any transaction.
EvidenceInv == TypeOK /\ BodyInv /\ ClaimInv /\ StepInv /\ KeptInv /\ FilesInv

-----------------------------------------------------------------------------
(* The inductive invariant behind the other promises: what EvidenceInv      *)
(* says of the evidence, for the records, their outcome and its durability. *)

\* Nothing is in a directory that is gone.
Nested(v) ==
    /\ v.rec = "none" => v.draft = Absent /\ v.final = Absent
    /\ v.tree = "none" => v.marker = "none"

Bodies == {vis.draft, vis.final, dur.draft, dur.final}
Blank == Bodies = {Absent}

\* Two bodies on disk or in memory do not tell different outcomes.
Agree(b, c) == b \in Body /\ c \in Body => b.status = c.status /\ b.answer = c.answer

Serving == svc \in {"up", "stopping"}

\* What is known of the records at the steps of each transaction.
OwnerInv ==
    /\ Nested(vis) /\ Nested(dur)
    /\ vis.rec = "accepted" /\ vis.tree # "none" => dur.tree # "none"
    /\ cpc # "none" => pc \in RunSteps /\ Serving
    /\ cpc = "c_barrier" => vis.cancel = "intent"
    /\ pc # "none" => Serving \/ svc = "boot"
    /\ pc \in BootSteps => svc = "boot"
    /\ pc \in SubmitSteps \cup {"execute"} => svc # "boot"
    /\ pc \in RunSteps \cup TerminalSteps => vis.rec = "accepted"
    /\ pc \in {"s_barrier", "b_open", "b_cancel", "b_resume", "b_recover"} => vis.rec = "accepted"
    /\ pc \in {"cleanup", "cleanup_sync"} => "raw" \notin mem.evidence
    /\ pc \in {"rewrite", "rewriting", "rewrite_sync"} /\ "raw" \in mem.evidence =>
          vis.tree # "none"
    /\ pc = "remark" => vis.tree # "none"
    /\ pc = "unlink" => vis.draft # Absent
    /\ pc = "b_unlink_sync" => vis.draft = Absent
    /\ pc \in {"d_tree_sync", "d_rec", "d_rec_sync", "d_auth", "d_auth_sync"} => vis.tree = "none"
    /\ pc \in {"d_rec_sync", "d_auth", "d_auth_sync"} => vis.rec = "none"

\* A session has no terminal body before it prepares one, ...
Unprepared ==
    \/ pc \in SubmitSteps \cup RunSteps \cup {"prepare"}
    \/ pc \in DeleteSteps \ {"d_publish"} /\ svc # "boot"
    \/ pc \in {"idle", "d_publish"} /\ vis.rec # "accepted"

\* ... all bodies it ever has agree, a published one stays, and whoever lets
\* go of an accepted session leaves one behind.
OutcomeInv ==
    Kept =>
        /\ Unprepared => Blank
        /\ pc \in {"write", "draft_sync"} =>
              dur.draft = Absent /\ dur.final = Absent /\ vis.final = Absent
        /\ \A b, c \in Bodies : Agree(b, c)
        /\ pc \in TerminalSteps => \A b \in Bodies : Agree(b, mem)
        /\ pc \in DraftSteps \cup {"unlink", "unlink_sync"} => dur.rec = "accepted"
        /\ vis.final # Absent \/ dur.final # Absent =>
              vis.rec = "accepted" /\ dur.rec = "accepted"
        /\ dur.final # Absent => vis.final = dur.final
        /\ pc \in {"idle", "d_publish"} /\ vis.rec = "accepted" =>
              held # Absent \/ vis.final # Absent

\* What an acknowledged cancellation rests on until its outcome is recorded:
\* the token, the body in memory or the durable intent.
CancelInv ==
    "cancelled" \in hist /\ Kept =>
        /\ cpc = "none" /\ pc \notin SubmitSteps
        /\ vis.rec = "accepted" /\ dur.rec = "accepted"
        /\ vis.cancel = "intent" /\ dur.cancel = "intent"
        /\ \A b \in Bodies : b.status # "ended"
        /\ pc \in TerminalSteps => mem.status = "cancelled"
        /\ pc \in RunSteps =>
              IF svc = "boot" THEN mem.status = "cancelled" ELSE token = "cancelled"

\* As long as fsync works, what a caller may rely on is durable: an absence,
\* an acceptance, a marker, and a published record with all it names.
DurableInv ==
    "sync" \notin Faults =>
        /\ /\ vis.tree = "none"
           /\ Serving \/ pc = "b_results"
           /\ pc \notin {"cleanup_sync", "d_tree_sync"}
           => dur.tree = "none"
        /\ vis.rec = "none" /\ Serving /\ pc # "d_rec_sync" => dur.rec = "none"
        /\ /\ vis.rec = "accepted" /\ pc # "s_barrier"
           /\ Serving \/ pc \in RunSteps \cup TerminalSteps
           => dur.rec = "accepted"
        /\ vis.marker \in {"unbundled", "bundled"} => dur.marker = vis.marker
        /\ pc \in {"b_unlink", "b_unlink_sync", "b_state", "b_results"} /\ vis.final # Absent =>
              /\ dur.rec = vis.rec /\ dur.progress = vis.progress
              /\ dur.final = vis.final /\ dur.bundle = vis.bundle
        /\ pc \in {"b_state", "b_results"} /\ vis.final # Absent =>
              vis.draft = Absent /\ dur.draft = Absent
        /\ Kept /\ pc \in {"idle", "d_publish"} /\ vis.final # Absent /\ vis.draft = Absent =>
              /\ dur.progress = vis.progress
              /\ dur.final = vis.final /\ dur.draft = Absent /\ dur.bundle = vis.bundle
        /\ Kept /\ "accepted" \in hist => vis.rec = "accepted" /\ dur.rec = "accepted"
        /\ "deleted" \in hist =>
              /\ vis.tree = "none" /\ dur.tree = "none" /\ vis.rec = "none" /\ dur.rec = "none"
              /\ pc \notin SubmitSteps \cup RunSteps \cup TerminalSteps

\* The inductive invariant of the whole session store: its evidence, who owns
\* its records, the one outcome they tell, what an acknowledged cancellation
\* rests on, and what is durable while fsync works.
StoreInv == EvidenceInv /\ OwnerInv /\ OutcomeInv /\ CancelInv /\ DurableInv

-----------------------------------------------------------------------------
(* Liveness, under FairSpec.                                               *)

\* The containers run with `--restart no`: whether the service comes back is
\* up to the operator.  Here the operator starts it again whenever it is
\* down, and from some time on the process does not die.
OperatorRestarts == WF_vars(Boot) /\ <>[][~Crash /\ ~PowerLoss]_vars

\* GET and DELETE refuse a terminal as long as progress.json tells another
\* history, or a failed publication's progress.json.next lies beside it.
Unserved == vis.final # Absent /\ vis.progress # "agrees"

\* Then every acknowledged session whose agent comes to its end gets a
\* terminal that GET can serve, unless it is deleted, a startup refuses its
\* records, or it is left unserved until a restart.
AcceptedSettles ==
    OperatorRestarts /\ WaitsEnd =>
        ("accepted" \in hist ~>
            (Readable(vis) \/ held # Absent \/ ~Kept \/ svc = "refused" \/ Unserved))

\* Then a published deletion intent does not linger: the deletion is
\* completed, by the request or by a startup, or its failure is reported.
DeletionSettles ==
    OperatorRestarts =>
        (vis.del = "intent" ~> (vis.del = "none" \/ pc = "idle" \/ start = "faulted"))

\* Shutdown drains whatever else the environment does, provided that the two
\* waits for docker return: neither the supervisor nor the cancellations that
\* shutdown issues itself can hold it up for ever.
ShutdownDrains == WaitsEnd => (svc = "stopping" ~> svc = "down")
=============================================================================
