---------------------------- MODULE SessionDisk ----------------------------
(***************************************************************************)
(* The durable and volatile state of ONE session handle, shared by every   *)
(* transaction of the service: the raw session tree, the result directory  *)
(* and its records, the deletion authority, and what the service process   *)
(* holds in memory.  All paths of a session carry its handle, so the       *)
(* files of two sessions are disjoint and one handle is modelled at a time.*)
(*                                                                         *)
(* A file system has two views.  `vis` is what a system call sees now;     *)
(* `dur` is what is certain to be there after the power fails.  A write    *)
(* changes vis, an fsync copies the entries of one directory from vis to   *)
(* dur, a process crash keeps both, and a power loss keeps, entry by       *)
(* entry, either view.                                                     *)
(***************************************************************************)
CONSTANTS
    Answers,    \* the results an agent can produce (the payload of a terminal)
    NoAnswer,   \* the payload of a terminal that infers no agent result
    Faults      \* what the environment may do: "io", "sync", "power"

ASSUME FaultsAssumption == Faults \subseteq {"io", "sync", "power"}
ASSUME AnswersAssumption == NoAnswer \notin Answers

VARIABLES
    vis,    \* the visible file system
    dur,    \* the durable file system
    svc,    \* the service process
    pc,     \* next step of the transaction that owns the handle
    start,  \* "faulted" once an I/O fault was injected into this startup
    cpc,    \* next step of a cancellation, which runs beside the supervisor
    mem,    \* the terminal body the owner is building
    proof,  \* the teardown proof of the session's containers
    held,   \* Inner::unpersisted_terminal
    token,  \* the session's CancellationToken
    hist    \* what callers were promised or asked of this resource

files == <<vis, dur>>
control == <<svc, pc, start>>
memory == <<mem, proof, held, token>>
vars == <<vis, dur, svc, pc, start, cpc, mem, proof, held, token, hist>>

-----------------------------------------------------------------------------
(* Values of the entries.                                                  *)

\* A terminal record: how the session ended, which evidence the record
\* claims (an accepted bundle, a retained raw tree), and the agent's result.
Body == [status : {"ended", "cancelled"},
         evidence : SUBSET {"bundle", "raw"},
         answer : Answers \cup {NoAnswer}]

\* A terminal file that does not exist, and one that is not parseable.
Absent == [status |-> "absent", evidence |-> {}, answer |-> NoAnswer]
Torn == [status |-> "torn", evidence |-> {}, answer |-> NoAnswer]

\* The raw tree: partial is an incomplete layout or a half removed tree,
\* layout has all directories and controls but no archive, placed has the
\* input archive as well, and full what the execution wrote.
Trees == {"none", "partial", "layout", "placed", "full"}

\* control/raw-evidence-retained.txt, by the class of its cause: "unbundled"
\* causes go with a terminal that has no bundle, "bundled" ones with one.
Markers == {"none", "torn", "unbundled", "bundled"}

\* The result directory: empty, with progress.json, with accepted.json.next
\* too (unfinished or complete), with accepted.json, or with accepted.json
\* alone (bare).
Recs == {"none", "dir", "progress", "torn", "next", "accepted", "bare"}

\* A cancellation or deletion intent; "next" is its unpublished candidate.
Intents == {"none", "next", "intent"}

\* bundle.tar.zst; "partial" is its private partial file.
Bundles == {"none", "partial", "full"}

\* progress.json against the history that the terminal body repeats: the
\* same, the same with progress.json.next beside it, or another one.
Histories == {"agrees", "next", "differs"}

\* draft is finished.json.tmp, final is finished.json; del lies in the
\* records root, marker in the raw tree, everything else but tree in the
\* result directory.
Files == [tree : Trees, marker : Markers, rec : Recs, progress : Histories,
          cancel : Intents, bundle : Bundles, draft : Body \cup {Absent, Torn},
          final : Body \cup {Absent}, del : Intents]

Empty == [tree |-> "none", marker |-> "none", rec |-> "none",
          progress |-> "agrees", cancel |-> "none", bundle |-> "none",
          draft |-> Absent, final |-> Absent, del |-> "none"]

-----------------------------------------------------------------------------
(* Barriers.  Each is the fsync of one directory: the durable view d after *)
(* the barrier, given the visible view v.                                  *)

\* state/sessions: the raw tree and what is inside it.
SyncSessions(d, v) ==
    [d EXCEPT !.tree = v.tree,
              !.marker = IF v.tree = "none" THEN "none" ELSE @]

\* <tree>/control: the retention marker.
SyncControl(d, v) == [d EXCEPT !.marker = v.marker]

\* <records>/<handle>: every record of the result directory.
SyncResult(d, v) ==
    [d EXCEPT !.rec = v.rec, !.progress = v.progress, !.cancel = v.cancel,
              !.bundle = v.bundle, !.draft = v.draft, !.final = v.final]

\* <records>: the result directory's own name and the deletion control.
SyncRecords(d, v) ==
    IF v.rec = "none"
    THEN [d EXCEPT !.rec = "none", !.progress = "agrees", !.cancel = "none",
                   !.bundle = "none", !.draft = Absent, !.final = Absent,
                   !.del = v.del]
    ELSE [d EXCEPT !.rec = IF @ = "none" THEN "dir" ELSE @, !.del = v.del]

\* Recursive removal of a directory takes everything in it.
WithoutTree(v) == [v EXCEPT !.tree = "none", !.marker = "none"]
WithoutResult(v) ==
    [v EXCEPT !.rec = "none", !.progress = "agrees", !.cancel = "none",
              !.bundle = "none", !.draft = Absent, !.final = Absent]

\* What a recursive removal may leave when it stops half-way: any of the
\* files can be gone already, in no particular order.
Damaged(v) ==
    {[v EXCEPT !.tree = "partial", !.marker = m] : m \in {"none", v.marker}}

\* accepted.json and progress.json after a half-done removal.
RecLeft(r) ==
    CASE r = "accepted" -> {"accepted", "bare", "progress", "dir"}
      [] r = "bare" -> {"bare", "dir"}
      [] r = "none" -> {"none"}
      [] OTHER -> {r, "dir"}

\* The records that may be left of a result directory.
Remains(v) == [rec : RecLeft(v.rec), progress : {"agrees", v.progress},
               cancel : {"none", v.cancel}, bundle : {"none", v.bundle},
               draft : {Absent, v.draft}, final : {Absent, v.final}]

Ruined(v) ==
    {[v EXCEPT !.rec = x.rec, !.progress = x.progress, !.cancel = x.cancel,
               !.bundle = x.bundle, !.draft = x.draft, !.final = x.final] :
        x \in Remains(v)}

-----------------------------------------------------------------------------
(* Readers and validators that several transactions share.                 *)

\* The marker class a terminal's retention claim must be backed by
\* (cause_matches_bundle).
Cause(body) == IF "bundle" \in body.evidence THEN "bundled" ELSE "unbundled"

\* validate_terminal_storage: an accepted bundle must be the published
\* archive; without one, and without raw retention, no archive may exist.
ValidStorage(body, v) ==
    IF "bundle" \in body.evidence
    THEN v.bundle = "full"
    ELSE "raw" \in body.evidence \/ v.bundle # "full"

\* validate_terminal_state_storage, validate_terminal_state_reconciliation:
\* the tree is there exactly when the terminal claims it, with its marker.
ValidState(body, v) ==
    IF "raw" \in body.evidence
    THEN v.tree # "none" /\ v.marker = Cause(body)
    ELSE v.tree = "none"

\* read_terminal succeeds: a record without a draft, which agrees with the
\* acceptance and with progress.json (validate_terminal_resource refuses a
\* progress.json.next as well), and with what is stored.
Readable(v) ==
    /\ v.final # Absent
    /\ v.draft = Absent
    /\ v.rec = "accepted"
    /\ v.progress = "agrees"
    /\ ValidStorage(v.final, v)
    /\ ValidState(v.final, v)

-----------------------------------------------------------------------------
(* Control.                                                                *)

\* prepare_durable_acceptance, up to the publication of accepted.json.
SubmitSteps == {"s_dirs", "s_place", "s_result", "s_progress", "s_open",
                "s_write", "s_publish", "s_barrier", "s_undo"}
\* run_one, or its recovery twin, up to the choice of the terminal outcome.
RunSteps == {"execute", "recover", "teardown", "bundle", "link", "bundle_sync",
             "retain", "mark", "decide"}
\* persist_terminal_transaction.
TerminalSteps == {"prepare", "write", "draft_sync", "finish", "cleanup",
                  "cleanup_sync", "rewrite", "rewriting", "rewrite_sync",
                  "remark", "commit", "commit_sync", "unlink", "unlink_sync"}
\* persist_delete_intent and finish_delete_intent.
DeleteSteps == {"d_publish", "d_barrier", "d_tree", "d_tree_sync", "d_rec",
                "d_rec_sync", "d_auth", "d_auth_sync"}
\* pre_flight.
BootSteps == {"b_delete", "b_check", "b_accept", "b_undo", "b_undo_sync",
              "b_undo_rec", "b_open", "b_cancel", "b_resume", "b_recover", "b_final",
              "b_unlink", "b_unlink_sync", "b_state", "b_results"}

Steps == {"none", "idle"} \cup SubmitSteps \cup RunSteps \cup TerminalSteps
            \cup DeleteSteps \cup BootSteps

\* The type of every variable.
TypeOK ==
    /\ vis \in Files
    /\ dur \in Files
    /\ svc \in {"down", "boot", "up", "stopping", "refused"}
    /\ pc \in Steps
    /\ start \in {"clean", "faulted"}
    /\ cpc \in {"none", "c_rename", "c_barrier"}
    /\ mem \in Body \cup {Absent}
    /\ proof \in {"complete", "stopped", "unproved"}
    /\ held \in Body \cup {Absent}
    /\ token \in {"live", "cancelled"}
    /\ hist \subseteq {"accepted", "cancelled", "deleting", "deleted"}

Init ==
    /\ vis = Empty
    /\ dur = Empty
    /\ svc = "down"
    /\ pc = "none"
    /\ start = "clean"
    /\ cpc = "none"
    /\ mem = Absent
    /\ proof = "complete"
    /\ held = Absent
    /\ token = "live"
    /\ hist = {}

\* The session is in Inner::running: a supervisor owns it.
Running == svc \in {"up", "stopping"} /\ pc \in RunSteps \cup TerminalSteps

-----------------------------------------------------------------------------
(* Steps out of which the actions are made.                                *)

Goto(step) == pc' = step /\ UNCHANGED <<svc, start>>
Change(v) == vis' = v /\ UNCHANGED dur
Barrier(d) == dur' = d /\ UNCHANGED vis

\* An operation other than an fsync, or an fsync, may return an error.
IoFails == "io" \in Faults
SyncFails == "sync" \in Faults

\* ProgressReporter::publish, beside what else happens to the visible files
\* (v): its barrier syncs the result directory.
Publishes(v) ==
    /\ vis.progress # "next"
    /\ vis' = [v EXCEPT !.progress = "agrees"]
    /\ dur' = SyncResult(dur, vis')

\* It fails, perhaps leaving progress.json.next behind, and refuses to run
\* beside one.  How far it got only matters to the last one, in Decide.
PublishFails(v) ==
    \/ (IoFails \/ SyncFails \/ vis.progress = "next") /\ Change(v)
    \/ IoFails /\ vis.progress = "agrees" /\ Change([v EXCEPT !.progress = "next"])

\* The transaction returns its error.  A startup that fails exits before it
\* binds the listener; a live one leaves the handle to the next request.
Fail ==
    IF svc = "boot"
    THEN svc' = "refused" /\ pc' = "none" /\ start' = "faulted"
    ELSE Goto("idle")

\* pre_flight refuses what it read; nothing failed.
Refuse == svc' = "refused" /\ pc' = "none" /\ UNCHANGED start
=============================================================================
