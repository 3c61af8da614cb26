----------------------- MODULE SessionOutcomeProofs -----------------------
(***************************************************************************)
(* What a session's records promise, for every set of answers and every    *)
(* combination of faults: one outcome, published once; a terminal for      *)
(* every session that was let go; a cancellation that decides.  And, as    *)
(* long as fsync works: acceptances, deletions and published terminals     *)
(* that no power loss takes back.                                          *)
(***************************************************************************)
EXTENDS SessionStoreProofs

\* All entries of a view.
Entries(x, tree, marker, rec, cancel, bundle, draft, final, del) ==
    /\ x.tree = tree /\ x.marker = marker /\ x.rec = rec /\ x.cancel = cancel
    /\ x.bundle = bundle /\ x.draft = draft /\ x.final = final /\ x.del = del

\* x is the durable view d after the sync of the sessions root, given v.
SyncedTree(x, d, v) ==
    /\ Entries(x, v.tree, IF v.tree = "none" THEN "none" ELSE d.marker, d.rec, d.cancel,
               d.bundle, d.draft, d.final, d.del)
    /\ x.progress = d.progress

\* x is the durable view d after the sync of the control directory, given v.
SyncedControl(x, d, v) ==
    /\ Entries(x, d.tree, v.marker, d.rec, d.cancel, d.bundle, d.draft, d.final, d.del)
    /\ x.progress = d.progress

\* x is the durable view d after the sync of the result directory, given v.
SyncedResult(x, d, v) ==
    /\ Entries(x, d.tree, d.marker, v.rec, v.cancel, v.bundle, v.draft, v.final, d.del)
    /\ x.progress = v.progress

\* x is the durable view d after the sync of the records root, given v.
SyncedRecords(x, d, v) ==
    IF v.rec = "none"
    THEN Entries(x, d.tree, d.marker, "none", "none", "none", Absent, Absent, v.del)
    ELSE /\ Entries(x, d.tree, d.marker, IF d.rec = "none" THEN "dir" ELSE d.rec, d.cancel,
                    d.bundle, d.draft, d.final, v.del)
         /\ x.progress = d.progress

\* The end of a transaction that returns its error, and of a terminal one.
GivenUp ==
    IF svc = "boot" THEN svc' = "refused" /\ pc' = "none" ELSE svc' = svc /\ pc' = "idle"

Failed ==
    /\ GivenUp
    /\ mem' = Absent /\ token' = "live"
    /\ held' = IF svc = "boot" THEN held ELSE mem

\* The part of StoreInv that EvidenceInv does not state.
SecondInv == OwnerInv /\ OutcomeInv /\ CancelInv /\ DurableInv

\* What one step does to a durable outcome.
OutcomeStays == TerminalStays /\ OutcomeStands

-----------------------------------------------------------------------------
(* Barriers, removals and bodies.                                          *)

\* What each barrier and each removal does to every entry.
LEMMA SyncSessionsEntries ==
    ASSUME NEW d \in Files, NEW v \in Files
    PROVE  SyncedTree(SyncSessions(d, v), d, v)
BY DEF SyncSessions, Files, Entries, SyncedTree

\* The same for SyncControl.
LEMMA SyncControlEntries ==
    ASSUME NEW d \in Files, NEW v \in Files
    PROVE  SyncedControl(SyncControl(d, v), d, v)
BY DEF SyncControl, Files, Entries, SyncedControl

\* The same for SyncResult.
LEMMA SyncResultEntries ==
    ASSUME NEW d \in Files, NEW v \in Files
    PROVE  SyncedResult(SyncResult(d, v), d, v)
BY DEF SyncResult, Files, Entries, SyncedResult

\* The same for SyncRecords.
LEMMA SyncRecordsEntries ==
    ASSUME NEW d \in Files, NEW v \in Files
    PROVE  SyncedRecords(SyncRecords(d, v), d, v)
BY DEF SyncRecords, Files, Entries, SyncedRecords

\* The same for WithoutTree.
LEMMA WithoutTreeEntries ==
    ASSUME NEW v \in Files
    PROVE  /\ Entries(WithoutTree(v), "none", "none", v.rec, v.cancel, v.bundle, v.draft,
                      v.final, v.del)
           /\ WithoutTree(v).progress = v.progress
BY DEF WithoutTree, Files, Entries

\* The same for WithoutResult.
LEMMA WithoutResultEntries ==
    ASSUME NEW v \in Files
    PROVE  Entries(WithoutResult(v), v.tree, v.marker, "none", "none", "none", Absent, Absent,
                   v.del)
BY DEF WithoutResult, Files, Entries

\* A removal of the raw tree that stopped half-way leaves no other marker.
LEMMA DamagedEntries ==
    ASSUME NEW v \in Files, NEW w \in Damaged(v)
    PROVE  /\ Entries(w, "partial", w.marker, v.rec, v.cancel, v.bundle, v.draft, v.final,
                      v.del)
           /\ w.marker \in {"none", v.marker} /\ w.progress = v.progress
<1>1. PICK m \in {"none", v.marker} : w = [v EXCEPT !.tree = "partial", !.marker = m]
  BY DEF Damaged
<1>. QED BY <1>1 DEF Files, Entries

\* A removal of the result directory that stopped half-way leaves nothing in
\* a directory that is gone, and keeps the directory's own name.
LEMMA RuinedEntries ==
    ASSUME NEW v \in Files, NEW w \in Ruined(v)
    PROVE  /\ w.tree = v.tree /\ w.marker = v.marker /\ w.del = v.del
           /\ w.rec = "none" <=> v.rec = "none"
           /\ w.rec = "accepted" => v.rec = "accepted"
           /\ w.draft \in {Absent, v.draft} /\ w.final \in {Absent, v.final}
<1>1. PICK x \in Remains(v) :
        w = [v EXCEPT !.rec = x.rec, !.progress = x.progress, !.cancel = x.cancel,
                      !.bundle = x.bundle, !.draft = x.draft, !.final = x.final]
  BY DEF Ruined
<1>2. /\ x.rec = "none" <=> v.rec = "none"
      /\ x.rec = "accepted" => v.rec = "accepted"
  BY DEF RecLeft, Remains, Files
<1>. QED BY <1>1, <1>2 DEF Remains, Files

\* A publication of progress changes no other entry, but for its barrier.
LEMMA PublicationEntries ==
    ASSUME NEW v \in Files, vis \in Files, dur \in Files, Publishes(v) \/ PublishFails(v)
    PROVE  /\ Entries(vis', v.tree, v.marker, v.rec, v.cancel, v.bundle, v.draft, v.final,
                      v.del)
           /\ SyncedResult(dur', dur, vis') \/ dur' = dur
<1>1. /\ vis' \in Files /\ vis' = [v EXCEPT !.progress = vis'.progress]
      /\ dur' = dur \/ dur' = SyncResult(dur, vis')
  BY PublicationTypes
<1>2. Entries(vis', v.tree, v.marker, v.rec, v.cancel, v.bundle, v.draft, v.final, v.del)
  BY <1>1 DEF Files, Entries
<1>3. SyncedResult(SyncResult(dur, vis'), dur, vis')
  BY <1>1, SyncResultEntries
<1>. QED BY <1>1, <1>2, <1>3

\* The same for the last one.
LEMMA BehindEntries ==
    ASSUME vis \in Files, dur \in Files, HistoryBehind
    PROVE  /\ Entries(vis', vis.tree, vis.marker, vis.rec, vis.cancel, vis.bundle, vis.draft,
                      vis.final, vis.del)
           /\ Entries(dur', dur.tree, dur.marker, dur.rec, dur.cancel, dur.bundle, dur.draft,
                      dur.final, dur.del)
<1>1. /\ vis' = [vis EXCEPT !.progress = vis'.progress]
      /\ dur' = [dur EXCEPT !.progress = dur'.progress]
  BY BehindTypes
<1>. QED BY <1>1 DEF Files, Entries

\* How files without a body read, and what a body's outcome is.
LEMMA Outcomes ==
    /\ Absent.status \notin {"ended", "cancelled"}
    /\ Torn.status \notin {"ended", "cancelled"}
    /\ \A b \in Body : b.status \in {"ended", "cancelled"}
    /\ \A b \in Body : [b EXCEPT !.evidence = @ \cup {"raw"}] \in Body
    /\ \A b \in Body : /\ [b EXCEPT !.evidence = @ \cup {"raw"}].status = b.status
                       /\ [b EXCEPT !.evidence = @ \cup {"raw"}].answer = b.answer
BY DEF Absent, Torn, Body

\* A terminal transaction that fails.
LEMMA TerminalFailsEffect ==
    ASSUME NEW fault \in BOOLEAN, TerminalFails(fault)
    PROVE  Failed
BY DEF TerminalFails, Failed, GivenUp, Goto

-----------------------------------------------------------------------------
(* One lemma per transaction, one case per action: what it does to every    *)
(* entry, then each part of the invariant, then the durable outcome.        *)

\* A step of an acceptance.
LEMMA AcceptanceOutcome ==
    ASSUME StoreInv, EvidenceInv', AcceptanceNext
    PROVE  SecondInv' /\ OutcomeStays
<1>. USE DEF Entries, SyncedTree, SyncedControl, SyncedResult, SyncedRecords, Failed, GivenUp,
            Kept, Serving, DraftSteps, SubmitSteps, RunSteps, TerminalSteps, DeleteSteps,
            BootSteps
<1>0. vis \in Files /\ dur \in Files /\ vis' \in Files /\ dur' \in Files
  BY DEF StoreInv, EvidenceInv, TypeOK
<1>a. /\ BodyInv /\ ClaimInv /\ StepInv /\ KeptInv /\ FilesInv
      /\ OwnerInv /\ OutcomeInv /\ CancelInv /\ DurableInv
  BY DEF StoreInv, SecondInv, EvidenceInv
<1>b. /\ vis.draft \in Body \cup {Absent, Torn} /\ dur.draft \in Body \cup {Absent, Torn}
      /\ vis.final \in Body \cup {Absent} /\ dur.final \in Body \cup {Absent}
  BY <1>0 DEF Files
<1>1. CASE Submit
  <2>1. /\ Entries(vis', "partial", vis.marker, vis.rec, vis.cancel, vis.bundle, vis.draft,
                   vis.final, vis.del)
        /\ vis'.progress = vis.progress
        /\ dur' = dur
        /\ svc = "up" /\ svc' = svc /\ pc = "idle" /\ pc' = "s_dirs"
        /\ vis.tree = "none" /\ vis.rec = "none" /\ vis.del # "intent"
        /\ cpc' = cpc /\ mem' = mem /\ held' = held /\ token' = token
        /\ "deleted" \notin hist' /\ hist' \subseteq hist
        /\ (Kept' /\ ~Kept => hist' = {} /\ dur.tree = "none" /\ dur.rec = "none")
    BY <1>0, <1>a, <1>1
       DEF Submit, Goto, Change, quietSubmit, Files
  <2>2. OwnerInv'
    BY <1>0, <1>a, <1>b, <2>1
       DEF OwnerInv, Nested, StepInv
  <2>3. OutcomeInv'
    BY <1>0, <1>a, <1>b, <2>1, BodyFacts
       DEF BodyInv, BodySteps, StepInv, KeptInv, FilesInv, Safe, OwnerInv, Nested,
           OutcomeInv, Unprepared, Blank, Bodies, Agree
  <2>4. CancelInv'
    BY <1>0, <1>a, <1>b, <2>1, Outcomes
       DEF BodyInv, KeptInv, FilesInv, Safe, StepInv, OwnerInv, OutcomeInv, Unprepared,
           Blank, Bodies, CancelInv
  <2>5. DurableInv'
    BY <1>0, <1>a, <1>b, <2>1, BodyFacts
       DEF StepInv, KeptInv, ClaimInv, FilesInv, Safe, OwnerInv, Nested, OutcomeInv,
           Unprepared, Blank, Bodies, DurableInv
  <2>6. OutcomeStays
    BY <1>0, <1>a, <1>b, <2>1, Outcomes, BodyFacts
       DEF OwnerInv, Nested, StepInv, KeptInv, FilesInv, Safe, OutcomeInv, Unprepared,
           Blank, Bodies, Agree, OutcomeStays, TerminalStays, OutcomeStands
  <2>. QED BY <2>2, <2>3, <2>4, <2>5, <2>6 DEF SecondInv
<1>2. CASE SubmitReplay
  <2>1. /\ vis' = vis
        /\ dur' = dur
        /\ svc' = svc /\ pc' = pc /\ cpc' = cpc /\ mem' = mem /\ held' = held
        /\ token' = token
        /\ svc = "up" /\ pc \in RunSteps \cup TerminalSteps \cup {"idle"}
        /\ vis.rec = "accepted"
        /\ hist' = hist \cup {"accepted"}
    BY <1>0, <1>a, <1>2
       DEF SubmitReplay, files, control, memory, Running, Files
  <2>2. OwnerInv'
    BY <1>0, <1>a, <1>b, <2>1
       DEF OwnerInv, Nested, StepInv
  <2>3. OutcomeInv'
    BY <1>0, <1>a, <1>b, <2>1, BodyFacts
       DEF BodyInv, BodySteps, StepInv, KeptInv, FilesInv, Safe, OwnerInv, Nested,
           OutcomeInv, Unprepared, Blank, Bodies, Agree
  <2>4. CancelInv'
    BY <1>0, <1>a, <1>b, <2>1, Outcomes
       DEF BodyInv, KeptInv, FilesInv, Safe, StepInv, OwnerInv, OutcomeInv, Unprepared,
           Blank, Bodies, CancelInv
  <2>5. DurableInv'
    BY <1>0, <1>a, <1>b, <2>1, BodyFacts
       DEF StepInv, KeptInv, ClaimInv, FilesInv, Safe, OwnerInv, Nested, OutcomeInv,
           Unprepared, Blank, Bodies, DurableInv
  <2>6. OutcomeStays
    BY <1>0, <1>a, <1>b, <2>1, Outcomes, BodyFacts
       DEF OwnerInv, Nested, StepInv, KeptInv, FilesInv, Safe, OutcomeInv, Unprepared,
           Blank, Bodies, Agree, OutcomeStays, TerminalStays, OutcomeStands
  <2>. QED BY <2>2, <2>3, <2>4, <2>5, <2>6 DEF SecondInv
<1>3. CASE SubmitLayout
  <2>1. /\ Entries(vis', "layout", vis.marker, vis.rec, vis.cancel, vis.bundle, vis.draft,
                   vis.final, vis.del)
        /\ vis'.progress = vis.progress
        /\ SyncedTree(dur', dur, vis')
        /\ pc = "s_dirs" /\ pc' = "s_place" /\ svc' = svc
        /\ cpc' = cpc /\ mem' = mem /\ held' = held /\ token' = token
        /\ hist' = hist
    BY <1>0, <1>a, <1>3, SyncSessionsEntries
       DEF SubmitLayout, Goto, quietSubmit, Files
  <2>2. OwnerInv'
    BY <1>0, <1>a, <1>b, <2>1
       DEF OwnerInv, Nested, StepInv
  <2>3. OutcomeInv'
    BY <1>0, <1>a, <1>b, <2>1, BodyFacts
       DEF BodyInv, BodySteps, StepInv, KeptInv, FilesInv, Safe, OwnerInv, Nested,
           OutcomeInv, Unprepared, Blank, Bodies, Agree
  <2>4. CancelInv'
    BY <1>0, <1>a, <1>b, <2>1, Outcomes
       DEF BodyInv, KeptInv, FilesInv, Safe, StepInv, OwnerInv, OutcomeInv, Unprepared,
           Blank, Bodies, CancelInv
  <2>5. DurableInv'
    BY <1>0, <1>a, <1>b, <2>1, BodyFacts
       DEF StepInv, KeptInv, ClaimInv, FilesInv, Safe, OwnerInv, Nested, OutcomeInv,
           Unprepared, Blank, Bodies, DurableInv
  <2>6. OutcomeStays
    BY <1>0, <1>a, <1>b, <2>1, Outcomes, BodyFacts
       DEF OwnerInv, Nested, StepInv, KeptInv, FilesInv, Safe, OutcomeInv, Unprepared,
           Blank, Bodies, Agree, OutcomeStays, TerminalStays, OutcomeStands
  <2>. QED BY <2>2, <2>3, <2>4, <2>5, <2>6 DEF SecondInv
<1>4. CASE SubmitPlace
  <2>1. /\ Entries(vis', "placed", vis.marker, vis.rec, vis.cancel, vis.bundle, vis.draft,
                   vis.final, vis.del)
        /\ vis'.progress = vis.progress
        /\ SyncedTree(dur', dur, vis')
        /\ pc = "s_place" /\ pc' = "s_result" /\ svc' = svc
        /\ cpc' = cpc /\ mem' = mem /\ held' = held /\ token' = token
        /\ hist' = hist
    BY <1>0, <1>a, <1>4, SyncSessionsEntries
       DEF SubmitPlace, Goto, quietSubmit, Files
  <2>2. OwnerInv'
    BY <1>0, <1>a, <1>b, <2>1
       DEF OwnerInv, Nested, StepInv
  <2>3. OutcomeInv'
    BY <1>0, <1>a, <1>b, <2>1, BodyFacts
       DEF BodyInv, BodySteps, StepInv, KeptInv, FilesInv, Safe, OwnerInv, Nested,
           OutcomeInv, Unprepared, Blank, Bodies, Agree
  <2>4. CancelInv'
    BY <1>0, <1>a, <1>b, <2>1, Outcomes
       DEF BodyInv, KeptInv, FilesInv, Safe, StepInv, OwnerInv, OutcomeInv, Unprepared,
           Blank, Bodies, CancelInv
  <2>5. DurableInv'
    BY <1>0, <1>a, <1>b, <2>1, BodyFacts
       DEF StepInv, KeptInv, ClaimInv, FilesInv, Safe, OwnerInv, Nested, OutcomeInv,
           Unprepared, Blank, Bodies, DurableInv
  <2>6. OutcomeStays
    BY <1>0, <1>a, <1>b, <2>1, Outcomes, BodyFacts
       DEF OwnerInv, Nested, StepInv, KeptInv, FilesInv, Safe, OutcomeInv, Unprepared,
           Blank, Bodies, Agree, OutcomeStays, TerminalStays, OutcomeStands
  <2>. QED BY <2>2, <2>3, <2>4, <2>5, <2>6 DEF SecondInv
<1>5. CASE SubmitResult
  <2>1. /\ Entries(vis', vis.tree, vis.marker, "dir", vis.cancel, vis.bundle, vis.draft,
                   vis.final, vis.del)
        /\ vis'.progress = vis.progress
        /\ SyncedRecords(dur', dur, vis')
        /\ pc = "s_result" /\ pc' = "s_progress" /\ svc' = svc
        /\ cpc' = cpc /\ mem' = mem /\ held' = held /\ token' = token
        /\ hist' = hist
    BY <1>0, <1>a, <1>5, SyncRecordsEntries
       DEF SubmitResult, Goto, quietSubmit, Files
  <2>2. OwnerInv'
    BY <1>0, <1>a, <1>b, <2>1
       DEF OwnerInv, Nested, StepInv
  <2>3. OutcomeInv'
    BY <1>0, <1>a, <1>b, <2>1, BodyFacts
       DEF BodyInv, BodySteps, StepInv, KeptInv, FilesInv, Safe, OwnerInv, Nested,
           OutcomeInv, Unprepared, Blank, Bodies, Agree
  <2>4. CancelInv'
    BY <1>0, <1>a, <1>b, <2>1, Outcomes
       DEF BodyInv, KeptInv, FilesInv, Safe, StepInv, OwnerInv, OutcomeInv, Unprepared,
           Blank, Bodies, CancelInv
  <2>5. DurableInv'
    BY <1>0, <1>a, <1>b, <2>1, BodyFacts
       DEF StepInv, KeptInv, ClaimInv, FilesInv, Safe, OwnerInv, Nested, OutcomeInv,
           Unprepared, Blank, Bodies, DurableInv
  <2>6. OutcomeStays
    BY <1>0, <1>a, <1>b, <2>1, Outcomes, BodyFacts
       DEF OwnerInv, Nested, StepInv, KeptInv, FilesInv, Safe, OutcomeInv, Unprepared,
           Blank, Bodies, Agree, OutcomeStays, TerminalStays, OutcomeStands
  <2>. QED BY <2>2, <2>3, <2>4, <2>5, <2>6 DEF SecondInv
<1>6. CASE SubmitProgress
  <2>1. /\ Entries(vis', vis.tree, vis.marker, "progress", vis.cancel, vis.bundle, vis.draft,
                   vis.final, vis.del)
        /\ vis'.progress = vis.progress
        /\ SyncedResult(dur', dur, vis')
        /\ pc = "s_progress" /\ pc' = "s_open" /\ svc' = svc
        /\ cpc' = cpc /\ mem' = mem /\ held' = held /\ token' = token
        /\ hist' = hist
    BY <1>0, <1>a, <1>6, SyncResultEntries
       DEF SubmitProgress, Goto, quietSubmit, Files
  <2>2. OwnerInv'
    BY <1>0, <1>a, <1>b, <2>1
       DEF OwnerInv, Nested, StepInv
  <2>3. OutcomeInv'
    BY <1>0, <1>a, <1>b, <2>1, BodyFacts
       DEF BodyInv, BodySteps, StepInv, KeptInv, FilesInv, Safe, OwnerInv, Nested,
           OutcomeInv, Unprepared, Blank, Bodies, Agree
  <2>4. CancelInv'
    BY <1>0, <1>a, <1>b, <2>1, Outcomes
       DEF BodyInv, KeptInv, FilesInv, Safe, StepInv, OwnerInv, OutcomeInv, Unprepared,
           Blank, Bodies, CancelInv
  <2>5. DurableInv'
    BY <1>0, <1>a, <1>b, <2>1, BodyFacts
       DEF StepInv, KeptInv, ClaimInv, FilesInv, Safe, OwnerInv, Nested, OutcomeInv,
           Unprepared, Blank, Bodies, DurableInv
  <2>6. OutcomeStays
    BY <1>0, <1>a, <1>b, <2>1, Outcomes, BodyFacts
       DEF OwnerInv, Nested, StepInv, KeptInv, FilesInv, Safe, OutcomeInv, Unprepared,
           Blank, Bodies, Agree, OutcomeStays, TerminalStays, OutcomeStands
  <2>. QED BY <2>2, <2>3, <2>4, <2>5, <2>6 DEF SecondInv
<1>7. CASE SubmitOpen
  <2>1. /\ Entries(vis', vis.tree, vis.marker, "torn", vis.cancel, vis.bundle, vis.draft,
                   vis.final, vis.del)
        /\ vis'.progress = vis.progress
        /\ dur' = dur
        /\ pc = "s_open" /\ pc' = "s_write" /\ svc' = svc
        /\ cpc' = cpc /\ mem' = mem /\ held' = held /\ token' = token
        /\ hist' = hist
    BY <1>0, <1>a, <1>7
       DEF SubmitOpen, Goto, Change, quietSubmit, Files
  <2>2. OwnerInv'
    BY <1>0, <1>a, <1>b, <2>1
       DEF OwnerInv, Nested, StepInv
  <2>3. OutcomeInv'
    BY <1>0, <1>a, <1>b, <2>1, BodyFacts
       DEF BodyInv, BodySteps, StepInv, KeptInv, FilesInv, Safe, OwnerInv, Nested,
           OutcomeInv, Unprepared, Blank, Bodies, Agree
  <2>4. CancelInv'
    BY <1>0, <1>a, <1>b, <2>1, Outcomes
       DEF BodyInv, KeptInv, FilesInv, Safe, StepInv, OwnerInv, OutcomeInv, Unprepared,
           Blank, Bodies, CancelInv
  <2>5. DurableInv'
    BY <1>0, <1>a, <1>b, <2>1, BodyFacts
       DEF StepInv, KeptInv, ClaimInv, FilesInv, Safe, OwnerInv, Nested, OutcomeInv,
           Unprepared, Blank, Bodies, DurableInv
  <2>6. OutcomeStays
    BY <1>0, <1>a, <1>b, <2>1, Outcomes, BodyFacts
       DEF OwnerInv, Nested, StepInv, KeptInv, FilesInv, Safe, OutcomeInv, Unprepared,
           Blank, Bodies, Agree, OutcomeStays, TerminalStays, OutcomeStands
  <2>. QED BY <2>2, <2>3, <2>4, <2>5, <2>6 DEF SecondInv
<1>8. CASE SubmitWrite
  <2>1. /\ Entries(vis', vis.tree, vis.marker, "next", vis.cancel, vis.bundle, vis.draft,
                   vis.final, vis.del)
        /\ vis'.progress = vis.progress
        /\ SyncedResult(dur', dur, vis')
        /\ pc = "s_write" /\ pc' = "s_publish" /\ svc' = svc
        /\ cpc' = cpc /\ mem' = mem /\ held' = held /\ token' = token
        /\ hist' = hist
    BY <1>0, <1>a, <1>8, SyncResultEntries
       DEF SubmitWrite, Goto, quietSubmit, Files
  <2>2. OwnerInv'
    BY <1>0, <1>a, <1>b, <2>1
       DEF OwnerInv, Nested, StepInv
  <2>3. OutcomeInv'
    BY <1>0, <1>a, <1>b, <2>1, BodyFacts
       DEF BodyInv, BodySteps, StepInv, KeptInv, FilesInv, Safe, OwnerInv, Nested,
           OutcomeInv, Unprepared, Blank, Bodies, Agree
  <2>4. CancelInv'
    BY <1>0, <1>a, <1>b, <2>1, Outcomes
       DEF BodyInv, KeptInv, FilesInv, Safe, StepInv, OwnerInv, OutcomeInv, Unprepared,
           Blank, Bodies, CancelInv
  <2>5. DurableInv'
    BY <1>0, <1>a, <1>b, <2>1, BodyFacts
       DEF StepInv, KeptInv, ClaimInv, FilesInv, Safe, OwnerInv, Nested, OutcomeInv,
           Unprepared, Blank, Bodies, DurableInv
  <2>6. OutcomeStays
    BY <1>0, <1>a, <1>b, <2>1, Outcomes, BodyFacts
       DEF OwnerInv, Nested, StepInv, KeptInv, FilesInv, Safe, OutcomeInv, Unprepared,
           Blank, Bodies, Agree, OutcomeStays, TerminalStays, OutcomeStands
  <2>. QED BY <2>2, <2>3, <2>4, <2>5, <2>6 DEF SecondInv
<1>9. CASE SubmitPublish
  <2>1. /\ Entries(vis', vis.tree, vis.marker, "accepted", vis.cancel, vis.bundle, vis.draft,
                   vis.final, vis.del)
        /\ vis'.progress = vis.progress
        /\ dur' = dur
        /\ pc = "s_publish" /\ pc' = "s_barrier" /\ svc' = svc
        /\ cpc' = cpc /\ mem' = mem /\ held' = held /\ token' = token
        /\ hist' = hist
    BY <1>0, <1>a, <1>9
       DEF SubmitPublish, Goto, Change, quietSubmit, Files
  <2>2. OwnerInv'
    BY <1>0, <1>a, <1>b, <2>1
       DEF OwnerInv, Nested, StepInv
  <2>3. OutcomeInv'
    BY <1>0, <1>a, <1>b, <2>1, BodyFacts
       DEF BodyInv, BodySteps, StepInv, KeptInv, FilesInv, Safe, OwnerInv, Nested,
           OutcomeInv, Unprepared, Blank, Bodies, Agree
  <2>4. CancelInv'
    BY <1>0, <1>a, <1>b, <2>1, Outcomes
       DEF BodyInv, KeptInv, FilesInv, Safe, StepInv, OwnerInv, OutcomeInv, Unprepared,
           Blank, Bodies, CancelInv
  <2>5. DurableInv'
    BY <1>0, <1>a, <1>b, <2>1, BodyFacts
       DEF StepInv, KeptInv, ClaimInv, FilesInv, Safe, OwnerInv, Nested, OutcomeInv,
           Unprepared, Blank, Bodies, DurableInv
  <2>6. OutcomeStays
    BY <1>0, <1>a, <1>b, <2>1, Outcomes, BodyFacts
       DEF OwnerInv, Nested, StepInv, KeptInv, FilesInv, Safe, OutcomeInv, Unprepared,
           Blank, Bodies, Agree, OutcomeStays, TerminalStays, OutcomeStands
  <2>. QED BY <2>2, <2>3, <2>4, <2>5, <2>6 DEF SecondInv
<1>10. CASE SubmitBarrier
  <2>1. /\ vis' = vis
        /\ (SyncedResult(dur', dur, vis) \/ (SyncFails /\ dur' = dur /\ hist' = hist))
        /\ hist' \in {hist, hist \cup {"accepted"}}
        /\ pc = "s_barrier" /\ pc' = "execute" /\ svc' = svc
        /\ cpc' = cpc /\ mem' = mem /\ held' = held
    BY <1>0, <1>a, <1>10, SyncResultEntries
       DEF SubmitBarrier, Goto, Barrier, files, Files
  <2>2. OwnerInv'
    BY <1>0, <1>a, <1>b, <2>1
       DEF OwnerInv, Nested, StepInv
  <2>3. OutcomeInv'
    BY <1>0, <1>a, <1>b, <2>1, BodyFacts
       DEF BodyInv, BodySteps, StepInv, KeptInv, FilesInv, Safe, OwnerInv, Nested,
           OutcomeInv, Unprepared, Blank, Bodies, Agree
  <2>4. CancelInv'
    BY <1>0, <1>a, <1>b, <2>1, Outcomes
       DEF BodyInv, KeptInv, FilesInv, Safe, StepInv, OwnerInv, OutcomeInv, Unprepared,
           Blank, Bodies, CancelInv
  <2>5. DurableInv'
    BY <1>0, <1>a, <1>b, <2>1, BodyFacts
       DEF StepInv, KeptInv, ClaimInv, FilesInv, Safe, OwnerInv, Nested, OutcomeInv,
           Unprepared, Blank, Bodies, DurableInv, SyncFails
  <2>6. OutcomeStays
    BY <1>0, <1>a, <1>b, <2>1, Outcomes, BodyFacts
       DEF OwnerInv, Nested, StepInv, KeptInv, FilesInv, Safe, OutcomeInv, Unprepared,
           Blank, Bodies, Agree, OutcomeStays, TerminalStays, OutcomeStands
  <2>. QED BY <2>2, <2>3, <2>4, <2>5, <2>6 DEF SecondInv
<1>11. CASE SubmitFails
  <2>1. /\ vis' = vis
        /\ dur' = dur
        /\ pc \in SubmitSteps \ {"s_barrier"} /\ pc' = "s_undo" /\ svc' = svc
        /\ cpc' = cpc /\ mem' = mem /\ held' = held /\ token' = token
        /\ hist' = hist
    BY <1>0, <1>a, <1>11
       DEF SubmitFails, Goto, files, quietSubmit, Files
  <2>2. OwnerInv'
    BY <1>0, <1>a, <1>b, <2>1
       DEF OwnerInv, Nested, StepInv
  <2>3. OutcomeInv'
    BY <1>0, <1>a, <1>b, <2>1, BodyFacts
       DEF BodyInv, BodySteps, StepInv, KeptInv, FilesInv, Safe, OwnerInv, Nested,
           OutcomeInv, Unprepared, Blank, Bodies, Agree
  <2>4. CancelInv'
    BY <1>0, <1>a, <1>b, <2>1, Outcomes
       DEF BodyInv, KeptInv, FilesInv, Safe, StepInv, OwnerInv, OutcomeInv, Unprepared,
           Blank, Bodies, CancelInv
  <2>5. DurableInv'
    BY <1>0, <1>a, <1>b, <2>1, BodyFacts
       DEF StepInv, KeptInv, ClaimInv, FilesInv, Safe, OwnerInv, Nested, OutcomeInv,
           Unprepared, Blank, Bodies, DurableInv
  <2>6. OutcomeStays
    BY <1>0, <1>a, <1>b, <2>1, Outcomes, BodyFacts
       DEF OwnerInv, Nested, StepInv, KeptInv, FilesInv, Safe, OutcomeInv, Unprepared,
           Blank, Bodies, Agree, OutcomeStays, TerminalStays, OutcomeStands
  <2>. QED BY <2>2, <2>3, <2>4, <2>5, <2>6 DEF SecondInv
<1>12. CASE SubmitRollback
  <2>1. /\ pc = "s_undo" /\ pc' = "idle" /\ svc' = svc /\ cpc' = cpc /\ mem' = mem
        /\ held' = held /\ token' = token /\ hist' = hist
        /\ vis'.rec # "accepted"
        /\ vis'.marker \in {"none", vis.marker}
        /\ (vis'.tree = "none" => vis'.marker = "none")
        /\ vis'.draft \in {Absent, vis.draft} /\ vis'.final \in {Absent, vis.final}
        /\ dur'.draft \in {Absent, dur.draft} /\ dur'.final \in {Absent, dur.final}
        /\ (vis'.rec = "none" => vis'.draft = Absent /\ vis'.final = Absent)
        /\ Nested(dur')
        /\ (vis'.marker # "none" => vis'.tree # "none" /\ dur'.marker = dur.marker)
        /\ ~SyncFails => /\ vis'.tree = "none" => dur'.tree = "none"
                         /\ vis'.rec = "none" => dur'.rec = "none"
    <3>1. PICK v \in {WithoutTree(vis)} \cup (IF IoFails THEN Damaged(vis) ELSE {}) :
          \E w \in {WithoutResult(v)} \cup (IF IoFails THEN Ruined(v) ELSE {}) :
          \E d \in {SyncSessions(dur, w)} \cup (IF SyncFails THEN {dur} ELSE {}) :
          \E e \in {SyncRecords(d, w)} \cup (IF SyncFails THEN {d} ELSE {}) :
             vis' = w /\ dur' = e
      BY <1>12 DEF SubmitRollback
    <3>2. PICK d \in {SyncSessions(dur, vis')} \cup (IF SyncFails THEN {dur} ELSE {}) :
             dur' \in {SyncRecords(d, vis')} \cup (IF SyncFails THEN {d} ELSE {})
      BY <3>1
    <3>3. /\ v \in Files /\ v.rec = vis.rec /\ v.draft = vis.draft /\ v.final = vis.final
          /\ v.marker \in {"none", vis.marker} /\ (v.tree = "none" => v.marker = "none")
      <4>1. vis \in Files BY <1>0
      <4>2. CASE v = WithoutTree(vis) BY <4>1, <4>2, WithoutTypes, WithoutTreeEntries
      <4>3. CASE v \in Damaged(vis) BY <4>1, <4>3, DamagedTypes, DamagedEntries
      <4>. QED BY <3>1, <4>2, <4>3
    <3>4. pc = "s_undo" /\ vis.rec # "accepted"
      BY <1>12, <1>a DEF SubmitRollback, StepInv
    <3>5. /\ vis'.rec # "accepted" /\ vis'.marker = v.marker /\ vis'.tree = v.tree
          /\ vis'.draft \in {Absent, vis.draft} /\ vis'.final \in {Absent, vis.final}
          /\ vis'.rec = "none" => vis'.draft = Absent /\ vis'.final = Absent
      BY <1>a, <3>1, <3>3, <3>4, WithoutResultEntries, RuinedEntries DEF OwnerInv, Nested
    <3>6. /\ d \in Files /\ d.rec = dur.rec /\ d.draft = dur.draft /\ d.final = dur.final
          /\ d.tree = "none" => d.marker = "none"
          /\ vis'.tree # "none" => d.marker = dur.marker
          /\ ~SyncFails => d.tree = vis'.tree
      <4>1. CASE d = dur /\ SyncFails
        BY <1>0, <1>a, <4>1 DEF OwnerInv, Nested
      <4>2. CASE d = SyncSessions(dur, vis')
        <5>1. dur \in Files /\ vis' \in Files
          BY <1>0
        <5>2. SyncedTree(SyncSessions(dur, vis'), dur, vis')
          BY <5>1, SyncSessionsEntries
        <5>3. SyncSessions(dur, vis') \in Files
          BY <5>1, SyncTypes
        <5>4. SyncedTree(d, dur, vis') /\ d \in Files
          BY <4>2, <5>2, <5>3
        <5>. QED BY <1>a, <5>4 DEF OwnerInv, Nested
      <4>. QED BY <3>2, <4>1, <4>2
    <3>7. /\ dur'.draft \in {Absent, dur.draft} /\ dur'.final \in {Absent, dur.final}
          /\ dur'.tree = d.tree /\ dur'.marker = d.marker
          /\ dur'.rec = "none" => dur'.draft = Absent /\ dur'.final = Absent
          /\ ~SyncFails => (vis'.rec = "none" => dur'.rec = "none")
      <4>1. CASE dur' = d /\ SyncFails
        BY <1>0, <1>a, <3>6, <4>1 DEF OwnerInv, Nested
      <4>2. CASE dur' = SyncRecords(d, vis')
        <5>1. SyncedRecords(dur', d, vis')
          BY <1>0, <3>6, <4>2, SyncRecordsEntries
        <5>. QED BY <1>a, <3>6, <5>1 DEF OwnerInv, Nested
      <4>. QED BY <3>2, <4>1, <4>2
    <3>8. pc' = "idle" /\ svc' = svc /\ cpc' = cpc /\ mem' = mem /\ held' = held
          /\ token' = token /\ hist' = hist
      BY <1>12 DEF SubmitRollback, Goto, quietSubmit
    <3>9. Nested(dur')
      BY <3>6, <3>7 DEF Nested
    <3>. QED BY <3>3, <3>4, <3>5, <3>6, <3>7, <3>8, <3>9
  <2>2. OwnerInv'
    BY <1>0, <1>a, <1>b, <2>1
       DEF OwnerInv, Nested, StepInv
  <2>3. OutcomeInv'
    BY <1>0, <1>a, <1>b, <2>1, BodyFacts
       DEF BodyInv, BodySteps, StepInv, KeptInv, FilesInv, Safe, OwnerInv, Nested,
           OutcomeInv, Unprepared, Blank, Bodies, Agree
  <2>4. CancelInv'
    BY <1>0, <1>a, <1>b, <2>1, Outcomes
       DEF BodyInv, KeptInv, FilesInv, Safe, StepInv, OwnerInv, OutcomeInv, Unprepared,
           Blank, Bodies, CancelInv
  <2>5. DurableInv'
    BY <1>0, <1>a, <1>b, <2>1, BodyFacts
       DEF StepInv, KeptInv, ClaimInv, FilesInv, Safe, OwnerInv, Nested, OutcomeInv,
           Unprepared, Blank, Bodies, DurableInv, SyncFails
  <2>6. OutcomeStays
    BY <1>0, <1>a, <1>b, <2>1, Outcomes, BodyFacts
       DEF OwnerInv, Nested, StepInv, KeptInv, FilesInv, Safe, OutcomeInv, Unprepared,
           Blank, Bodies, Agree, OutcomeStays, TerminalStays, OutcomeStands
  <2>. QED BY <2>2, <2>3, <2>4, <2>5, <2>6 DEF SecondInv
<1>. QED BY <1>1, <1>2, <1>3, <1>4, <1>5, <1>6, <1>7, <1>8, <1>9, <1>10, <1>11, <1>12
     DEF AcceptanceNext

\* A step of an execution.
LEMMA RunOutcome ==
    ASSUME StoreInv, EvidenceInv', RunNext
    PROVE  SecondInv' /\ OutcomeStays
<1>. USE DEF Entries, SyncedTree, SyncedControl, SyncedResult, SyncedRecords, Failed, GivenUp,
            Kept, Serving, DraftSteps, SubmitSteps, RunSteps, TerminalSteps, DeleteSteps,
            BootSteps
<1>0. vis \in Files /\ dur \in Files /\ vis' \in Files /\ dur' \in Files
  BY DEF StoreInv, EvidenceInv, TypeOK
<1>a. /\ BodyInv /\ ClaimInv /\ StepInv /\ KeptInv /\ FilesInv
      /\ OwnerInv /\ OutcomeInv /\ CancelInv /\ DurableInv
  BY DEF StoreInv, SecondInv, EvidenceInv
<1>b. /\ vis.draft \in Body \cup {Absent, Torn} /\ dur.draft \in Body \cup {Absent, Torn}
      /\ vis.final \in Body \cup {Absent} /\ dur.final \in Body \cup {Absent}
  BY <1>0 DEF Files
<1>1. CASE Execute
  <2>1. /\ Entries(vis', "full", vis.marker, vis.rec, vis.cancel, vis.bundle, vis.draft,
                   vis.final, vis.del)
        /\ (SyncedResult(dur', dur, vis') \/ dur' = dur)
        /\ pc = "execute" /\ pc' \in {"teardown", "recover"} /\ svc' = svc
        /\ cpc' = cpc /\ held' = held /\ token' = token
        /\ hist' = hist
    <3> DEFINE v == [vis EXCEPT !.tree = "full"]
    <3>1. v \in Files
      BY <1>0, Values DEF Files
    <3>2. /\ Publishes(v) \/ PublishFails(v)
          /\ pc = "execute" /\ pc' \in {"teardown", "recover"} /\ svc' = svc
          /\ cpc' = cpc /\ held' = held /\ token' = token
          /\ hist' = hist
      BY <1>1 DEF Execute, Goto
    <3>3. Entries(v, "full", vis.marker, vis.rec, vis.cancel, vis.bundle, vis.draft, vis.final,
                  vis.del)
      BY <1>0 DEF Files
    <3> HIDE DEF v
    <3>4. /\ Entries(vis', v.tree, v.marker, v.rec, v.cancel, v.bundle, v.draft, v.final,
                     v.del)
          /\ SyncedResult(dur', dur, vis') \/ dur' = dur
      BY <1>0, <3>1, <3>2, PublicationEntries
    <3>. QED BY <3>2, <3>3, <3>4
  <2>2. OwnerInv'
    BY <1>0, <1>a, <1>b, <2>1
       DEF OwnerInv, Nested, StepInv, ClaimInv
  <2>3. OutcomeInv'
    BY <1>0, <1>a, <1>b, <2>1, BodyFacts
       DEF BodyInv, BodySteps, StepInv, KeptInv, FilesInv, Safe, OwnerInv, Nested,
           OutcomeInv, Unprepared, Blank, Bodies, Agree
  <2>4. CancelInv'
    BY <1>0, <1>a, <1>b, <2>1, Outcomes
       DEF BodyInv, KeptInv, FilesInv, Safe, StepInv, OwnerInv, OutcomeInv, Unprepared,
           Blank, Bodies, CancelInv
  <2>5. DurableInv'
    BY <1>0, <1>a, <1>b, <2>1, BodyFacts
       DEF StepInv, KeptInv, ClaimInv, FilesInv, Safe, OwnerInv, Nested, OutcomeInv,
           Unprepared, Blank, Bodies, DurableInv, SyncFails
  <2>6. OutcomeStays
    BY <1>0, <1>a, <1>b, <2>1, Outcomes, BodyFacts
       DEF OwnerInv, Nested, StepInv, KeptInv, FilesInv, Safe, OutcomeInv, Unprepared,
           Blank, Bodies, Agree, OutcomeStays, TerminalStays, OutcomeStands
  <2>. QED BY <2>2, <2>3, <2>4, <2>5, <2>6 DEF SecondInv
<1>2. CASE ExecutionPanic
  <2>1. /\ vis' = vis
        /\ dur' = dur
        /\ pc \in RunSteps /\ pc' = "recover" /\ svc' = svc /\ svc # "boot"
        /\ cpc' = cpc /\ held' = held /\ token' = token
        /\ hist' = hist
    BY <1>0, <1>a, <1>2
       DEF ExecutionPanic, Goto, files, Files
  <2>2. OwnerInv'
    BY <1>0, <1>a, <1>b, <2>1
       DEF OwnerInv, Nested, StepInv
  <2>3. OutcomeInv'
    BY <1>0, <1>a, <1>b, <2>1, BodyFacts
       DEF BodyInv, BodySteps, StepInv, KeptInv, FilesInv, Safe, OwnerInv, Nested,
           OutcomeInv, Unprepared, Blank, Bodies, Agree
  <2>4. CancelInv'
    BY <1>0, <1>a, <1>b, <2>1, Outcomes
       DEF BodyInv, KeptInv, FilesInv, Safe, StepInv, OwnerInv, OutcomeInv, Unprepared,
           Blank, Bodies, CancelInv
  <2>5. DurableInv'
    BY <1>0, <1>a, <1>b, <2>1, BodyFacts
       DEF StepInv, KeptInv, ClaimInv, FilesInv, Safe, OwnerInv, Nested, OutcomeInv,
           Unprepared, Blank, Bodies, DurableInv
  <2>6. OutcomeStays
    BY <1>0, <1>a, <1>b, <2>1, Outcomes, BodyFacts
       DEF OwnerInv, Nested, StepInv, KeptInv, FilesInv, Safe, OutcomeInv, Unprepared,
           Blank, Bodies, Agree, OutcomeStays, TerminalStays, OutcomeStands
  <2>. QED BY <2>2, <2>3, <2>4, <2>5, <2>6 DEF SecondInv
<1>3. CASE Teardown
  <2>1. /\ vis' = vis
        /\ dur' = dur
        /\ pc = "teardown" /\ pc' = "bundle" /\ svc' = svc
        /\ cpc' = cpc /\ mem' = mem /\ held' = held /\ token' = token
        /\ hist' = hist
    BY <1>0, <1>a, <1>3
       DEF Teardown, Goto, files, Files
  <2>2. OwnerInv'
    BY <1>0, <1>a, <1>b, <2>1
       DEF OwnerInv, Nested, StepInv
  <2>3. OutcomeInv'
    BY <1>0, <1>a, <1>b, <2>1, BodyFacts
       DEF BodyInv, BodySteps, StepInv, KeptInv, FilesInv, Safe, OwnerInv, Nested,
           OutcomeInv, Unprepared, Blank, Bodies, Agree
  <2>4. CancelInv'
    BY <1>0, <1>a, <1>b, <2>1, Outcomes
       DEF BodyInv, KeptInv, FilesInv, Safe, StepInv, OwnerInv, OutcomeInv, Unprepared,
           Blank, Bodies, CancelInv
  <2>5. DurableInv'
    BY <1>0, <1>a, <1>b, <2>1, BodyFacts
       DEF StepInv, KeptInv, ClaimInv, FilesInv, Safe, OwnerInv, Nested, OutcomeInv,
           Unprepared, Blank, Bodies, DurableInv
  <2>6. OutcomeStays
    BY <1>0, <1>a, <1>b, <2>1, Outcomes, BodyFacts
       DEF OwnerInv, Nested, StepInv, KeptInv, FilesInv, Safe, OutcomeInv, Unprepared,
           Blank, Bodies, Agree, OutcomeStays, TerminalStays, OutcomeStands
  <2>. QED BY <2>2, <2>3, <2>4, <2>5, <2>6 DEF SecondInv
<1>4. CASE BundleOpen
  <2>1. /\ Entries(vis', vis.tree, vis.marker, vis.rec, vis.cancel, "partial", vis.draft,
                   vis.final, vis.del)
        /\ vis'.progress = vis.progress
        /\ dur' = dur
        /\ pc = "bundle" /\ pc' = "link" /\ svc' = svc
        /\ cpc' = cpc /\ mem' = mem /\ held' = held /\ token' = token
        /\ hist' = hist
    BY <1>0, <1>a, <1>4
       DEF BundleOpen, Goto, Change, memory, Files
  <2>2. OwnerInv'
    BY <1>0, <1>a, <1>b, <2>1
       DEF OwnerInv, Nested, StepInv
  <2>3. OutcomeInv'
    BY <1>0, <1>a, <1>b, <2>1, BodyFacts
       DEF BodyInv, BodySteps, StepInv, KeptInv, FilesInv, Safe, OwnerInv, Nested,
           OutcomeInv, Unprepared, Blank, Bodies, Agree
  <2>4. CancelInv'
    BY <1>0, <1>a, <1>b, <2>1, Outcomes
       DEF BodyInv, KeptInv, FilesInv, Safe, StepInv, OwnerInv, OutcomeInv, Unprepared,
           Blank, Bodies, CancelInv
  <2>5. DurableInv'
    BY <1>0, <1>a, <1>b, <2>1, BodyFacts
       DEF StepInv, KeptInv, ClaimInv, FilesInv, Safe, OwnerInv, Nested, OutcomeInv,
           Unprepared, Blank, Bodies, DurableInv
  <2>6. OutcomeStays
    BY <1>0, <1>a, <1>b, <2>1, Outcomes, BodyFacts
       DEF OwnerInv, Nested, StepInv, KeptInv, FilesInv, Safe, OutcomeInv, Unprepared,
           Blank, Bodies, Agree, OutcomeStays, TerminalStays, OutcomeStands
  <2>. QED BY <2>2, <2>3, <2>4, <2>5, <2>6 DEF SecondInv
<1>5. CASE BundleSkip
  <2>1. /\ vis' = vis
        /\ dur' = dur
        /\ pc = "bundle" /\ pc' = "retain" /\ svc' = svc
        /\ cpc' = cpc /\ mem' = mem /\ held' = held /\ token' = token
        /\ hist' = hist
    BY <1>0, <1>a, <1>5
       DEF BundleSkip, Goto, files, memory, Files
  <2>2. OwnerInv'
    BY <1>0, <1>a, <1>b, <2>1
       DEF OwnerInv, Nested, StepInv
  <2>3. OutcomeInv'
    BY <1>0, <1>a, <1>b, <2>1, BodyFacts
       DEF BodyInv, BodySteps, StepInv, KeptInv, FilesInv, Safe, OwnerInv, Nested,
           OutcomeInv, Unprepared, Blank, Bodies, Agree
  <2>4. CancelInv'
    BY <1>0, <1>a, <1>b, <2>1, Outcomes
       DEF BodyInv, KeptInv, FilesInv, Safe, StepInv, OwnerInv, OutcomeInv, Unprepared,
           Blank, Bodies, CancelInv
  <2>5. DurableInv'
    BY <1>0, <1>a, <1>b, <2>1, BodyFacts
       DEF StepInv, KeptInv, ClaimInv, FilesInv, Safe, OwnerInv, Nested, OutcomeInv,
           Unprepared, Blank, Bodies, DurableInv
  <2>6. OutcomeStays
    BY <1>0, <1>a, <1>b, <2>1, Outcomes, BodyFacts
       DEF OwnerInv, Nested, StepInv, KeptInv, FilesInv, Safe, OutcomeInv, Unprepared,
           Blank, Bodies, Agree, OutcomeStays, TerminalStays, OutcomeStands
  <2>. QED BY <2>2, <2>3, <2>4, <2>5, <2>6 DEF SecondInv
<1>6. CASE BundleLink
  <2>1. /\ Entries(vis', vis.tree, vis.marker, vis.rec, vis.cancel, "full", vis.draft,
                   vis.final, vis.del)
        /\ vis'.progress = vis.progress
        /\ dur' = dur
        /\ pc = "link" /\ pc' = "bundle_sync" /\ svc' = svc
        /\ cpc' = cpc /\ mem' = mem /\ held' = held /\ token' = token
        /\ hist' = hist
    BY <1>0, <1>a, <1>6
       DEF BundleLink, Goto, Change, memory, Files
  <2>2. OwnerInv'
    BY <1>0, <1>a, <1>b, <2>1
       DEF OwnerInv, Nested, StepInv
  <2>3. OutcomeInv'
    BY <1>0, <1>a, <1>b, <2>1, BodyFacts
       DEF BodyInv, BodySteps, StepInv, KeptInv, FilesInv, Safe, OwnerInv, Nested,
           OutcomeInv, Unprepared, Blank, Bodies, Agree
  <2>4. CancelInv'
    BY <1>0, <1>a, <1>b, <2>1, Outcomes
       DEF BodyInv, KeptInv, FilesInv, Safe, StepInv, OwnerInv, OutcomeInv, Unprepared,
           Blank, Bodies, CancelInv
  <2>5. DurableInv'
    BY <1>0, <1>a, <1>b, <2>1, BodyFacts
       DEF StepInv, KeptInv, ClaimInv, FilesInv, Safe, OwnerInv, Nested, OutcomeInv,
           Unprepared, Blank, Bodies, DurableInv
  <2>6. OutcomeStays
    BY <1>0, <1>a, <1>b, <2>1, Outcomes, BodyFacts
       DEF OwnerInv, Nested, StepInv, KeptInv, FilesInv, Safe, OutcomeInv, Unprepared,
           Blank, Bodies, Agree, OutcomeStays, TerminalStays, OutcomeStands
  <2>. QED BY <2>2, <2>3, <2>4, <2>5, <2>6 DEF SecondInv
<1>7. CASE BundleAccept
  <2>1. /\ vis' = vis
        /\ SyncedResult(dur', dur, vis)
        /\ pc = "bundle_sync" /\ pc' = "retain" /\ svc' = svc
        /\ cpc' = cpc /\ held' = held /\ token' = token
        /\ mem'.status = mem.status
        /\ hist' = hist
    BY <1>0, <1>a, <1>7, SyncResultEntries
       DEF BundleAccept, Goto, Barrier, BodyInv, BodySteps, Body, Files
  <2>2. OwnerInv'
    BY <1>0, <1>a, <1>b, <2>1
       DEF OwnerInv, Nested, StepInv
  <2>3. OutcomeInv'
    BY <1>0, <1>a, <1>b, <2>1, BodyFacts
       DEF BodyInv, BodySteps, StepInv, KeptInv, FilesInv, Safe, OwnerInv, Nested,
           OutcomeInv, Unprepared, Blank, Bodies, Agree
  <2>4. CancelInv'
    BY <1>0, <1>a, <1>b, <2>1, Outcomes
       DEF BodyInv, KeptInv, FilesInv, Safe, StepInv, OwnerInv, OutcomeInv, Unprepared,
           Blank, Bodies, CancelInv
  <2>5. DurableInv'
    BY <1>0, <1>a, <1>b, <2>1, BodyFacts
       DEF StepInv, KeptInv, ClaimInv, FilesInv, Safe, OwnerInv, Nested, OutcomeInv,
           Unprepared, Blank, Bodies, DurableInv
  <2>6. OutcomeStays
    BY <1>0, <1>a, <1>b, <2>1, Outcomes, BodyFacts
       DEF OwnerInv, Nested, StepInv, KeptInv, FilesInv, Safe, OutcomeInv, Unprepared,
           Blank, Bodies, Agree, OutcomeStays, TerminalStays, OutcomeStands
  <2>. QED BY <2>2, <2>3, <2>4, <2>5, <2>6 DEF SecondInv
<1>8. CASE BundleFails
  <2>1. /\ Entries(vis', vis.tree, vis.marker, vis.rec, vis.cancel, vis'.bundle, vis.draft,
                   vis.final, vis.del)
        /\ vis'.progress = vis.progress
        /\ dur' = dur
        /\ pc \in {"link", "bundle_sync"} /\ pc' = "retain" /\ svc' = svc
        /\ cpc' = cpc /\ mem' = mem /\ held' = held /\ token' = token
        /\ hist' = hist
    BY <1>0, <1>a, <1>8
       DEF BundleFails, Goto, Change, memory, Files
  <2>2. OwnerInv'
    BY <1>0, <1>a, <1>b, <2>1
       DEF OwnerInv, Nested, StepInv
  <2>3. OutcomeInv'
    BY <1>0, <1>a, <1>b, <2>1, BodyFacts
       DEF BodyInv, BodySteps, StepInv, KeptInv, FilesInv, Safe, OwnerInv, Nested,
           OutcomeInv, Unprepared, Blank, Bodies, Agree
  <2>4. CancelInv'
    BY <1>0, <1>a, <1>b, <2>1, Outcomes
       DEF BodyInv, KeptInv, FilesInv, Safe, StepInv, OwnerInv, OutcomeInv, Unprepared,
           Blank, Bodies, CancelInv
  <2>5. DurableInv'
    BY <1>0, <1>a, <1>b, <2>1, BodyFacts
       DEF StepInv, KeptInv, ClaimInv, FilesInv, Safe, OwnerInv, Nested, OutcomeInv,
           Unprepared, Blank, Bodies, DurableInv
  <2>6. OutcomeStays
    BY <1>0, <1>a, <1>b, <2>1, Outcomes, BodyFacts
       DEF OwnerInv, Nested, StepInv, KeptInv, FilesInv, Safe, OutcomeInv, Unprepared,
           Blank, Bodies, Agree, OutcomeStays, TerminalStays, OutcomeStands
  <2>. QED BY <2>2, <2>3, <2>4, <2>5, <2>6 DEF SecondInv
<1>9. CASE Retain
  <2>1. /\ Entries(vis', vis.tree, vis'.marker, vis.rec, vis.cancel, vis.bundle, vis.draft,
                   vis.final, vis.del)
        /\ vis'.progress = vis.progress
        /\ vis'.marker \in {"torn", vis.marker}
        /\ dur' = dur
        /\ pc = "retain" /\ pc' \in {"mark", "decide"} /\ svc' = svc
        /\ cpc' = cpc /\ held' = held /\ token' = token
        /\ mem'.status = mem.status
        /\ hist' = hist
    BY <1>0, <1>a, <1>9
       DEF Retain, Goto, Change, files, BodyInv, BodySteps, Body, Files
  <2>2. OwnerInv'
    BY <1>0, <1>a, <1>b, <2>1
       DEF OwnerInv, Nested, StepInv, ClaimInv
  <2>3. OutcomeInv'
    BY <1>0, <1>a, <1>b, <2>1, BodyFacts
       DEF BodyInv, BodySteps, StepInv, KeptInv, FilesInv, Safe, OwnerInv, Nested,
           OutcomeInv, Unprepared, Blank, Bodies, Agree
  <2>4. CancelInv'
    BY <1>0, <1>a, <1>b, <2>1, Outcomes
       DEF BodyInv, KeptInv, FilesInv, Safe, StepInv, OwnerInv, OutcomeInv, Unprepared,
           Blank, Bodies, CancelInv
  <2>5. DurableInv'
    BY <1>0, <1>a, <1>b, <2>1, BodyFacts
       DEF StepInv, KeptInv, ClaimInv, FilesInv, Safe, OwnerInv, Nested, OutcomeInv,
           Unprepared, Blank, Bodies, DurableInv
  <2>6. OutcomeStays
    BY <1>0, <1>a, <1>b, <2>1, Outcomes, BodyFacts
       DEF OwnerInv, Nested, StepInv, KeptInv, FilesInv, Safe, OutcomeInv, Unprepared,
           Blank, Bodies, Agree, OutcomeStays, TerminalStays, OutcomeStands
  <2>. QED BY <2>2, <2>3, <2>4, <2>5, <2>6 DEF SecondInv
<1>10. CASE Mark
  <2>1. /\ Entries(vis', vis.tree, vis'.marker, vis.rec, vis.cancel, vis.bundle, vis.draft,
                   vis.final, vis.del)
        /\ vis'.progress = vis.progress
        /\ (vis' = vis /\ dur' = dur) \/ (SyncFails /\ dur' = dur) \/ SyncedControl(dur', dur, vis')
        /\ pc = "mark" /\ pc' = "decide" /\ svc' = svc
        /\ cpc' = cpc /\ mem' = mem /\ held' = held /\ token' = token
        /\ hist' = hist
    BY <1>0, <1>a, <1>10, SyncControlEntries
       DEF Mark, Goto, Change, files, memory, Files
  <2>2. OwnerInv'
    BY <1>0, <1>a, <1>b, <2>1
       DEF OwnerInv, Nested, StepInv, ClaimInv
  <2>3. OutcomeInv'
    BY <1>0, <1>a, <1>b, <2>1, BodyFacts
       DEF BodyInv, BodySteps, StepInv, KeptInv, FilesInv, Safe, OwnerInv, Nested,
           OutcomeInv, Unprepared, Blank, Bodies, Agree
  <2>4. CancelInv'
    BY <1>0, <1>a, <1>b, <2>1, Outcomes
       DEF BodyInv, KeptInv, FilesInv, Safe, StepInv, OwnerInv, OutcomeInv, Unprepared,
           Blank, Bodies, CancelInv
  <2>5. DurableInv'
    BY <1>0, <1>a, <1>b, <2>1, BodyFacts
       DEF StepInv, KeptInv, ClaimInv, FilesInv, Safe, OwnerInv, Nested, OutcomeInv,
           Unprepared, Blank, Bodies, DurableInv, SyncFails
  <2>6. OutcomeStays
    BY <1>0, <1>a, <1>b, <2>1, Outcomes, BodyFacts
       DEF OwnerInv, Nested, StepInv, KeptInv, FilesInv, Safe, OutcomeInv, Unprepared,
           Blank, Bodies, Agree, OutcomeStays, TerminalStays, OutcomeStands
  <2>. QED BY <2>2, <2>3, <2>4, <2>5, <2>6 DEF SecondInv
<1>11. CASE Decide
  <2>1. /\ Entries(vis', vis.tree, vis.marker, vis.rec, vis.cancel, vis.bundle, vis.draft,
                   vis.final, vis.del)
        /\ \/ SyncedResult(dur', dur, vis')
           \/ Entries(dur', dur.tree, dur.marker, dur.rec, dur.cancel, dur.bundle, dur.draft,
                      dur.final, dur.del)
        /\ pc = "decide" /\ cpc = "none"
        /\ (pc' = "prepare" /\ svc' = svc) \/ (pc' = "none" /\ svc' = "refused")
        /\ cpc' = cpc /\ held' = held /\ token' = token
        /\ mem'.status = IF svc # "boot" /\ token = "cancelled" THEN "cancelled" ELSE mem.status
        /\ hist' = hist
    <3>1. Publishes(vis) \/ PublishFails(vis) \/ HistoryBehind
      BY <1>11 DEF Decide
    <3>2. /\ Entries(vis', vis.tree, vis.marker, vis.rec, vis.cancel, vis.bundle, vis.draft,
                     vis.final, vis.del)
          /\ \/ SyncedResult(dur', dur, vis')
             \/ Entries(dur', dur.tree, dur.marker, dur.rec, dur.cancel, dur.bundle, dur.draft,
                        dur.final, dur.del)
      <4>1. CASE Publishes(vis) \/ PublishFails(vis)
        BY <1>0, <4>1, PublicationEntries
      <4>2. CASE HistoryBehind
        BY <1>0, <4>2, BehindEntries
      <4>. QED BY <3>1, <4>1, <4>2
    <3>3. /\ pc = "decide" /\ cpc = "none"
          /\ (pc' = "prepare" /\ svc' = svc) \/ (pc' = "none" /\ svc' = "refused")
          /\ cpc' = cpc /\ held' = held /\ token' = token
          /\ hist' = hist
      BY <1>11 DEF Decide, Goto, Fail
    <3>4. mem'.status = IF svc # "boot" /\ token = "cancelled" THEN "cancelled" ELSE mem.status
      BY <1>a, <1>11 DEF Decide, BodyInv, BodySteps, Body
    <3>. QED BY <3>2, <3>3, <3>4
  <2>2. OwnerInv'
    BY <1>0, <1>a, <1>b, <2>1
       DEF OwnerInv, Nested, StepInv
  <2>3. OutcomeInv'
    BY <1>0, <1>a, <1>b, <2>1, BodyFacts
       DEF BodyInv, BodySteps, StepInv, KeptInv, FilesInv, Safe, OwnerInv, Nested,
           OutcomeInv, Unprepared, Blank, Bodies, Agree
  <2>4. CancelInv'
    BY <1>0, <1>a, <1>b, <2>1, Outcomes
       DEF BodyInv, KeptInv, FilesInv, Safe, StepInv, OwnerInv, OutcomeInv, Unprepared,
           Blank, Bodies, CancelInv
  <2>5. DurableInv'
    BY <1>0, <1>a, <1>b, <2>1, BodyFacts
       DEF StepInv, KeptInv, ClaimInv, FilesInv, Safe, OwnerInv, Nested, OutcomeInv,
           Unprepared, Blank, Bodies, DurableInv, SyncFails
  <2>6. OutcomeStays
    BY <1>0, <1>a, <1>b, <2>1, Outcomes, BodyFacts
       DEF OwnerInv, Nested, StepInv, KeptInv, FilesInv, Safe, OutcomeInv, Unprepared,
           Blank, Bodies, Agree, OutcomeStays, TerminalStays, OutcomeStands
  <2>. QED BY <2>2, <2>3, <2>4, <2>5, <2>6 DEF SecondInv
<1>12. CASE PanicRecovery
  <2>1. /\ vis' = vis
        /\ dur' = dur
        /\ pc = "recover" /\ pc' = "teardown" /\ svc' = svc
        /\ cpc' = cpc /\ mem' = mem /\ held' = held /\ token' = token
        /\ hist' = hist
    BY <1>12 DEF PanicRecovery, Goto, files, memory
  <2>2. OwnerInv'
    BY <1>0, <1>a, <1>b, <2>1
       DEF OwnerInv, Nested, StepInv
  <2>3. OutcomeInv'
    BY <1>0, <1>a, <1>b, <2>1, BodyFacts
       DEF BodyInv, BodySteps, StepInv, KeptInv, FilesInv, Safe, OwnerInv, Nested,
           OutcomeInv, Unprepared, Blank, Bodies, Agree
  <2>4. CancelInv'
    BY <1>0, <1>a, <1>b, <2>1, Outcomes
       DEF BodyInv, KeptInv, FilesInv, Safe, StepInv, OwnerInv, OutcomeInv, Unprepared,
           Blank, Bodies, CancelInv
  <2>5. DurableInv'
    BY <1>0, <1>a, <1>b, <2>1, BodyFacts
       DEF StepInv, KeptInv, ClaimInv, FilesInv, Safe, OwnerInv, Nested, OutcomeInv,
           Unprepared, Blank, Bodies, DurableInv, SyncFails
  <2>6. OutcomeStays
    BY <1>0, <1>a, <1>b, <2>1, Outcomes, BodyFacts
       DEF OwnerInv, Nested, StepInv, KeptInv, FilesInv, Safe, OutcomeInv, Unprepared,
           Blank, Bodies, Agree, OutcomeStays, TerminalStays, OutcomeStands
  <2>. QED BY <2>2, <2>3, <2>4, <2>5, <2>6 DEF SecondInv
<1>. QED BY <1>1, <1>2, <1>3, <1>4, <1>5, <1>6, <1>7, <1>8, <1>9, <1>10, <1>11,
   <1>12 DEF RunNext

\* A step of the terminal transaction.
LEMMA TerminalOutcome ==
    ASSUME StoreInv, EvidenceInv', TerminalNext
    PROVE  SecondInv' /\ OutcomeStays
<1>. USE DEF Entries, SyncedTree, SyncedControl, SyncedResult, SyncedRecords, Failed, GivenUp,
            Kept, Serving, DraftSteps, SubmitSteps, RunSteps, TerminalSteps, DeleteSteps,
            BootSteps
<1>0. vis \in Files /\ dur \in Files /\ vis' \in Files /\ dur' \in Files
  BY DEF StoreInv, EvidenceInv, TypeOK
<1>a. /\ BodyInv /\ ClaimInv /\ StepInv /\ KeptInv /\ FilesInv
      /\ OwnerInv /\ OutcomeInv /\ CancelInv /\ DurableInv
  BY DEF StoreInv, SecondInv, EvidenceInv
<1>b. /\ vis.draft \in Body \cup {Absent, Torn} /\ dur.draft \in Body \cup {Absent, Torn}
      /\ vis.final \in Body \cup {Absent} /\ dur.final \in Body \cup {Absent}
  BY <1>0 DEF Files
<1>1. CASE Prepare
  <2>1. /\ pc = "prepare" /\ cpc' = cpc /\ hist' = hist
        /\ \/ /\ vis.draft = Absent /\ vis.final = Absent
              /\ Entries(vis', vis.tree, vis.marker, vis.rec, vis.cancel, vis.bundle, Torn,
                         vis.final, vis.del)
              /\ dur' = dur
              /\ pc' = "write" /\ svc' = svc /\ mem' = mem /\ held' = held /\ token' = token
           \/ /\ vis' = vis
              /\ dur' = dur
              /\ Failed
    <3>1. Entries([vis EXCEPT !.draft = Torn], vis.tree, vis.marker, vis.rec, vis.cancel,
                  vis.bundle, Torn, vis.final, vis.del)
      BY <1>0 DEF Files
    <3>2. /\ TerminalFails(TRUE) => Failed
          /\ TerminalFails(FALSE) => Failed
      BY TerminalFailsEffect
    <3>. QED BY <1>1, <1>0, <3>1, <3>2 DEF Prepare, Goto, Change, files, memory
  <2>2. OwnerInv'
    BY <1>0, <1>a, <1>b, <2>1
       DEF OwnerInv, Nested, StepInv
  <2>3. OutcomeInv'
    BY <1>0, <1>a, <1>b, <2>1, BodyFacts
       DEF BodyInv, BodySteps, StepInv, KeptInv, FilesInv, Safe, OwnerInv, Nested,
           OutcomeInv, Unprepared, Blank, Bodies, Agree
  <2>4. CancelInv'
    BY <1>0, <1>a, <1>b, <2>1, Outcomes
       DEF BodyInv, KeptInv, FilesInv, Safe, StepInv, OwnerInv, OutcomeInv, Unprepared,
           Blank, Bodies, CancelInv
  <2>5. DurableInv'
    BY <1>0, <1>a, <1>b, <2>1, BodyFacts
       DEF StepInv, KeptInv, ClaimInv, FilesInv, Safe, OwnerInv, Nested, OutcomeInv,
           Unprepared, Blank, Bodies, DurableInv, SyncFails
  <2>6. OutcomeStays
    BY <1>0, <1>a, <1>b, <2>1, Outcomes, BodyFacts
       DEF OwnerInv, Nested, StepInv, KeptInv, FilesInv, Safe, OutcomeInv, Unprepared,
           Blank, Bodies, Agree, OutcomeStays, TerminalStays, OutcomeStands
  <2>. QED BY <2>2, <2>3, <2>4, <2>5, <2>6 DEF SecondInv
<1>2. CASE WriteDraft
  <2>1. /\ pc = "write" /\ cpc' = cpc /\ hist' = hist
        /\ \/ /\ Entries(vis', vis.tree, vis.marker, vis.rec, vis.cancel, vis.bundle, mem,
                         vis.final, vis.del)
              /\ dur' = dur
              /\ pc' = "draft_sync" /\ svc' = svc /\ mem' = mem /\ held' = held
              /\ token' = token
           \/ /\ vis' = vis
              /\ dur' = dur
              /\ Failed
    <3>1. Entries([vis EXCEPT !.draft = mem], vis.tree, vis.marker, vis.rec, vis.cancel,
                  vis.bundle, mem, vis.final, vis.del)
      BY <1>0 DEF Files
    <3>2. TerminalFails(TRUE) => Failed
      BY TerminalFailsEffect
    <3>. QED BY <1>2, <1>0, <3>1, <3>2 DEF WriteDraft, Goto, Change, files, memory
  <2>2. OwnerInv'
    BY <1>0, <1>a, <1>b, <2>1
       DEF OwnerInv, Nested, StepInv
  <2>3. OutcomeInv'
    BY <1>0, <1>a, <1>b, <2>1, BodyFacts
       DEF BodyInv, BodySteps, StepInv, KeptInv, FilesInv, Safe, OwnerInv, Nested,
           OutcomeInv, Unprepared, Blank, Bodies, Agree
  <2>4. CancelInv'
    BY <1>0, <1>a, <1>b, <2>1, Outcomes
       DEF BodyInv, KeptInv, FilesInv, Safe, StepInv, OwnerInv, OutcomeInv, Unprepared,
           Blank, Bodies, CancelInv
  <2>5. DurableInv'
    BY <1>0, <1>a, <1>b, <2>1, BodyFacts
       DEF StepInv, KeptInv, ClaimInv, FilesInv, Safe, OwnerInv, Nested, OutcomeInv,
           Unprepared, Blank, Bodies, DurableInv, SyncFails
  <2>6. OutcomeStays
    BY <1>0, <1>a, <1>b, <2>1, Outcomes, BodyFacts
       DEF OwnerInv, Nested, StepInv, KeptInv, FilesInv, Safe, OutcomeInv, Unprepared,
           Blank, Bodies, Agree, OutcomeStays, TerminalStays, OutcomeStands
  <2>. QED BY <2>2, <2>3, <2>4, <2>5, <2>6 DEF SecondInv
<1>3. CASE SyncDraft
  <2>1. /\ pc = "draft_sync" /\ cpc' = cpc /\ hist' = hist
        /\ \/ /\ vis' = vis
              /\ SyncedResult(dur', dur, vis)
              /\ pc' = "finish" /\ svc' = svc /\ mem' = mem /\ held' = held /\ token' = token
           \/ /\ SyncFails
              /\ vis' = vis
              /\ dur' = dur
              /\ Failed
    <3>1. SyncedResult(SyncResult(dur, vis), dur, vis)
      BY <1>0, SyncResultEntries
    <3>2. TerminalFails(TRUE) => Failed
      BY TerminalFailsEffect
    <3>. QED BY <1>3, <1>0, <3>1, <3>2 DEF SyncDraft, Goto, Barrier, files, memory
  <2>2. OwnerInv'
    BY <1>0, <1>a, <1>b, <2>1
       DEF OwnerInv, Nested, StepInv
  <2>3. OutcomeInv'
    BY <1>0, <1>a, <1>b, <2>1, BodyFacts
       DEF BodyInv, BodySteps, StepInv, KeptInv, FilesInv, Safe, OwnerInv, Nested,
           OutcomeInv, Unprepared, Blank, Bodies, Agree
  <2>4. CancelInv'
    BY <1>0, <1>a, <1>b, <2>1, Outcomes
       DEF BodyInv, KeptInv, FilesInv, Safe, StepInv, OwnerInv, OutcomeInv, Unprepared,
           Blank, Bodies, CancelInv
  <2>5. DurableInv'
    BY <1>0, <1>a, <1>b, <2>1, BodyFacts
       DEF StepInv, KeptInv, ClaimInv, FilesInv, Safe, OwnerInv, Nested, OutcomeInv,
           Unprepared, Blank, Bodies, DurableInv, SyncFails
  <2>6. OutcomeStays
    BY <1>0, <1>a, <1>b, <2>1, Outcomes, BodyFacts
       DEF OwnerInv, Nested, StepInv, KeptInv, FilesInv, Safe, OutcomeInv, Unprepared,
           Blank, Bodies, Agree, OutcomeStays, TerminalStays, OutcomeStands
  <2>. QED BY <2>2, <2>3, <2>4, <2>5, <2>6 DEF SecondInv
<1>4. CASE Finish
  <2>1. /\ vis' = vis
        /\ dur' = dur
        /\ pc = "finish" /\ cpc' = cpc /\ hist' = hist
        /\ \/ /\ pc' \in {"commit", "cleanup"} /\ svc' = svc
              /\ (pc' = "cleanup" => "raw" \notin mem.evidence)
              /\ mem' = mem /\ held' = held /\ token' = token
           \/ Failed
    BY <1>0, <1>a, <1>4, TerminalFailsEffect
       DEF Finish, Goto, files, memory, Files
  <2>2. OwnerInv'
    BY <1>0, <1>a, <1>b, <2>1
       DEF OwnerInv, Nested, StepInv
  <2>3. OutcomeInv'
    BY <1>0, <1>a, <1>b, <2>1, BodyFacts
       DEF BodyInv, BodySteps, StepInv, KeptInv, FilesInv, Safe, OwnerInv, Nested,
           OutcomeInv, Unprepared, Blank, Bodies, Agree
  <2>4. CancelInv'
    BY <1>0, <1>a, <1>b, <2>1, Outcomes
       DEF BodyInv, KeptInv, FilesInv, Safe, StepInv, OwnerInv, OutcomeInv, Unprepared,
           Blank, Bodies, CancelInv
  <2>5. DurableInv'
    BY <1>0, <1>a, <1>b, <2>1, BodyFacts
       DEF StepInv, KeptInv, ClaimInv, FilesInv, Safe, OwnerInv, Nested, OutcomeInv,
           Unprepared, Blank, Bodies, DurableInv
  <2>6. OutcomeStays
    BY <1>0, <1>a, <1>b, <2>1, Outcomes, BodyFacts
       DEF OwnerInv, Nested, StepInv, KeptInv, FilesInv, Safe, OutcomeInv, Unprepared,
           Blank, Bodies, Agree, OutcomeStays, TerminalStays, OutcomeStands
  <2>. QED BY <2>2, <2>3, <2>4, <2>5, <2>6 DEF SecondInv
<1>5. CASE Cleanup
  <2>1. /\ Entries(vis', vis'.tree, vis'.marker, vis.rec, vis.cancel, vis.bundle, vis.draft,
                   vis.final, vis.del)
        /\ vis'.progress = vis.progress
        /\ dur' = dur
        /\ pc = "cleanup" /\ cpc' = cpc
        /\ hist' = hist
        /\ \/ /\ vis'.tree = "none" /\ vis'.marker = "none" /\ pc' = "cleanup_sync"
              /\ mem' = mem /\ svc' = svc /\ held' = held /\ token' = token
           \/ /\ vis.tree # "none" /\ vis'.tree # "none"
              /\ vis'.marker \in {"none", vis.marker}
              /\ \/ /\ pc' = "rewrite" /\ mem' = [mem EXCEPT !.evidence = @ \cup {"raw"}]
                    /\ svc' = svc /\ held' = held /\ token' = token
                 \/ Failed
        /\ mem \in Body
        /\ ~Failed => mem' \in Body /\ mem'.status = mem.status /\ mem'.answer = mem.answer
    <3>1. mem \in Body /\ pc = "cleanup"
      BY <1>5, <1>a DEF Cleanup, BodyInv, BodySteps
    <3>2. \A w \in Damaged(vis) \cup {vis} : vis.tree # "none" =>
            /\ Entries(w, w.tree, w.marker, vis.rec, vis.cancel, vis.bundle, vis.draft,
                       vis.final, vis.del)
            /\ w.tree # "none" /\ w.marker \in {"none", vis.marker}
            /\ w.progress = vis.progress
      BY <1>0, DamagedEntries
    <3>3. \/ /\ vis' = WithoutTree(vis) /\ pc' = "cleanup_sync" /\ mem' = mem
             /\ svc' = svc /\ held' = held /\ token' = token
          \/ /\ vis.tree # "none" /\ vis' \in Damaged(vis) \cup {vis}
             /\ \/ /\ pc' = "rewrite" /\ mem' = [mem EXCEPT !.evidence = @ \cup {"raw"}]
                   /\ svc' = svc /\ held' = held /\ token' = token
                \/ Failed
      BY <1>5, TerminalFailsEffect DEF Cleanup, Change, Goto, memory
    <3>4. dur' = dur /\ cpc' = cpc /\ hist' = hist
      BY <1>5 DEF Cleanup, Change
    <3>5. ~Failed => mem' \in Body /\ mem'.status = mem.status /\ mem'.answer = mem.answer
      BY <3>1, <3>3, Outcomes
    <3>. QED BY <1>0, <3>1, <3>2, <3>3, <3>4, <3>5, WithoutTreeEntries
  <2>2. OwnerInv'
    BY <1>0, <1>a, <1>b, <2>1
       DEF OwnerInv, Nested, StepInv
  <2>3. OutcomeInv'
    BY <1>0, <1>a, <1>b, <2>1, BodyFacts
       DEF BodyInv, BodySteps, StepInv, KeptInv, FilesInv, Safe, OwnerInv, Nested,
           OutcomeInv, Unprepared, Blank, Bodies, Agree
  <2>4. CancelInv'
    BY <1>0, <1>a, <1>b, <2>1, Outcomes
       DEF BodyInv, KeptInv, FilesInv, Safe, StepInv, OwnerInv, OutcomeInv, Unprepared,
           Blank, Bodies, CancelInv
  <2>5. DurableInv'
    BY <1>0, <1>a, <1>b, <2>1, BodyFacts
       DEF StepInv, KeptInv, ClaimInv, FilesInv, Safe, OwnerInv, Nested, OutcomeInv,
           Unprepared, Blank, Bodies, DurableInv
  <2>6. OutcomeStays
    BY <1>0, <1>a, <1>b, <2>1, Outcomes, BodyFacts
       DEF OwnerInv, Nested, StepInv, KeptInv, FilesInv, Safe, OutcomeInv, Unprepared,
           Blank, Bodies, Agree, OutcomeStays, TerminalStays, OutcomeStands
  <2>. QED BY <2>2, <2>3, <2>4, <2>5, <2>6 DEF SecondInv
<1>6. CASE SyncCleanup
  <2>1. /\ vis' = vis
        /\ pc = "cleanup_sync" /\ cpc' = cpc /\ hist' = hist
        /\ \/ /\ SyncedTree(dur', dur, vis') /\ pc' = "commit"
              /\ svc' = svc /\ mem' = mem /\ held' = held /\ token' = token
           \/ /\ SyncFails /\ dur' = dur /\ pc' = "rewrite"
              /\ svc' = svc /\ mem' = mem /\ held' = held /\ token' = token
           \/ SyncFails /\ dur' = dur /\ Failed
    <3>1. SyncedTree(SyncSessions(dur, vis), dur, vis)
      BY <1>0, SyncSessionsEntries
    <3>2. TerminalFails(TRUE) => Failed
      BY TerminalFailsEffect
    <3>3. /\ vis' = vis /\ pc = "cleanup_sync" /\ cpc' = cpc /\ hist' = hist
          /\ \/ /\ dur' = SyncSessions(dur, vis) /\ pc' = "commit"
                /\ svc' = svc /\ mem' = mem /\ held' = held /\ token' = token
             \/ /\ SyncFails /\ dur' = dur /\ pc' = "rewrite"
                /\ svc' = svc /\ mem' = mem /\ held' = held /\ token' = token
             \/ SyncFails /\ dur' = dur /\ TerminalFails(TRUE)
      BY <1>6 DEF SyncCleanup, Goto, Barrier, files, memory
    <3>. QED BY <3>1, <3>2, <3>3
  <2>2. OwnerInv'
    BY <1>0, <1>a, <1>b, <2>1
       DEF OwnerInv, Nested, StepInv
  <2>3. OutcomeInv'
    BY <1>0, <1>a, <1>b, <2>1, BodyFacts
       DEF BodyInv, BodySteps, StepInv, KeptInv, FilesInv, Safe, OwnerInv, Nested,
           OutcomeInv, Unprepared, Blank, Bodies, Agree
  <2>4. CancelInv'
    BY <1>0, <1>a, <1>b, <2>1, Outcomes
       DEF BodyInv, KeptInv, FilesInv, Safe, StepInv, OwnerInv, OutcomeInv, Unprepared,
           Blank, Bodies, CancelInv
  <2>5. DurableInv'
    BY <1>0, <1>a, <1>b, <2>1, BodyFacts
       DEF StepInv, KeptInv, ClaimInv, FilesInv, Safe, OwnerInv, Nested, OutcomeInv,
           Unprepared, Blank, Bodies, DurableInv, SyncFails
  <2>6. OutcomeStays
    BY <1>0, <1>a, <1>b, <2>1, Outcomes, BodyFacts
       DEF OwnerInv, Nested, StepInv, KeptInv, FilesInv, Safe, OutcomeInv, Unprepared,
           Blank, Bodies, Agree, OutcomeStays, TerminalStays, OutcomeStands
  <2>. QED BY <2>2, <2>3, <2>4, <2>5, <2>6 DEF SecondInv
<1>7. CASE Rewrite
  <2>1. /\ pc = "rewrite" /\ cpc' = cpc /\ hist' = hist
        /\ \/ /\ vis.final = Absent
              /\ Entries(vis', vis.tree, vis.marker, vis.rec, vis.cancel, vis.bundle, Torn,
                         vis.final, vis.del)
              /\ dur' = dur
              /\ pc' = "rewriting" /\ svc' = svc /\ mem' = mem /\ held' = held
              /\ token' = token
           \/ /\ vis' = vis
              /\ dur' = dur
              /\ Failed
    <3>1. Entries([vis EXCEPT !.draft = Torn], vis.tree, vis.marker, vis.rec, vis.cancel,
                  vis.bundle, Torn, vis.final, vis.del)
      BY <1>0 DEF Files
    <3>2. TerminalFails(IoFails) => Failed
      BY DEF TerminalFails, Goto
    <3>. QED BY <1>7, <1>0, <3>1, <3>2 DEF Rewrite, Goto, Change, files, memory
  <2>2. OwnerInv'
    BY <1>0, <1>a, <1>b, <2>1
       DEF OwnerInv, Nested, StepInv
  <2>3. OutcomeInv'
    BY <1>0, <1>a, <1>b, <2>1, BodyFacts
       DEF BodyInv, BodySteps, StepInv, KeptInv, FilesInv, Safe, OwnerInv, Nested,
           OutcomeInv, Unprepared, Blank, Bodies, Agree
  <2>4. CancelInv'
    BY <1>0, <1>a, <1>b, <2>1, Outcomes
       DEF BodyInv, KeptInv, FilesInv, Safe, StepInv, OwnerInv, OutcomeInv, Unprepared,
           Blank, Bodies, CancelInv
  <2>5. DurableInv'
    BY <1>0, <1>a, <1>b, <2>1, BodyFacts
       DEF StepInv, KeptInv, ClaimInv, FilesInv, Safe, OwnerInv, Nested, OutcomeInv,
           Unprepared, Blank, Bodies, DurableInv, SyncFails
  <2>6. OutcomeStays
    BY <1>0, <1>a, <1>b, <2>1, Outcomes, BodyFacts
       DEF OwnerInv, Nested, StepInv, KeptInv, FilesInv, Safe, OutcomeInv, Unprepared,
           Blank, Bodies, Agree, OutcomeStays, TerminalStays, OutcomeStands
  <2>. QED BY <2>2, <2>3, <2>4, <2>5, <2>6 DEF SecondInv
<1>8. CASE Rewriting
  <2>1. /\ pc = "rewriting" /\ cpc' = cpc /\ hist' = hist
        /\ \/ /\ Entries(vis', vis.tree, vis.marker, vis.rec, vis.cancel, vis.bundle, mem,
                         vis.final, vis.del)
              /\ dur' = dur
              /\ pc' = "rewrite_sync" /\ svc' = svc /\ mem' = mem /\ held' = held
              /\ token' = token
           \/ /\ vis' = vis
              /\ dur' = dur
              /\ Failed
    <3>1. Entries([vis EXCEPT !.draft = mem], vis.tree, vis.marker, vis.rec, vis.cancel,
                  vis.bundle, mem, vis.final, vis.del)
      BY <1>0 DEF Files
    <3>2. TerminalFails(TRUE) => Failed
      BY TerminalFailsEffect
    <3>. QED BY <1>8, <1>0, <3>1, <3>2 DEF Rewriting, Goto, Change, files, memory
  <2>2. OwnerInv'
    BY <1>0, <1>a, <1>b, <2>1
       DEF OwnerInv, Nested, StepInv
  <2>3. OutcomeInv'
    BY <1>0, <1>a, <1>b, <2>1, BodyFacts
       DEF BodyInv, BodySteps, StepInv, KeptInv, FilesInv, Safe, OwnerInv, Nested,
           OutcomeInv, Unprepared, Blank, Bodies, Agree
  <2>4. CancelInv'
    BY <1>0, <1>a, <1>b, <2>1, Outcomes
       DEF BodyInv, KeptInv, FilesInv, Safe, StepInv, OwnerInv, OutcomeInv, Unprepared,
           Blank, Bodies, CancelInv
  <2>5. DurableInv'
    BY <1>0, <1>a, <1>b, <2>1, BodyFacts
       DEF StepInv, KeptInv, ClaimInv, FilesInv, Safe, OwnerInv, Nested, OutcomeInv,
           Unprepared, Blank, Bodies, DurableInv, SyncFails
  <2>6. OutcomeStays
    BY <1>0, <1>a, <1>b, <2>1, Outcomes, BodyFacts
       DEF OwnerInv, Nested, StepInv, KeptInv, FilesInv, Safe, OutcomeInv, Unprepared,
           Blank, Bodies, Agree, OutcomeStays, TerminalStays, OutcomeStands
  <2>. QED BY <2>2, <2>3, <2>4, <2>5, <2>6 DEF SecondInv
<1>9. CASE SyncRewrite
  <2>1. /\ pc = "rewrite_sync" /\ cpc' = cpc /\ hist' = hist
        /\ \/ /\ vis' = vis /\ "raw" \in mem.evidence
              /\ SyncedResult(dur', dur, vis)
              /\ pc' = "remark" /\ svc' = svc /\ mem' = mem /\ held' = held /\ token' = token
           \/ /\ vis' = vis
              /\ (SyncedResult(dur', dur, vis) \/ (SyncFails /\ dur' = dur))
              /\ Failed
    <3>1. SyncedResult(SyncResult(dur, vis), dur, vis)
      BY <1>0, SyncResultEntries
    <3>2. TerminalFails(TRUE) => Failed
      BY TerminalFailsEffect
    <3>. QED BY <1>9, <1>0, <3>1, <3>2 DEF SyncRewrite, Goto, Barrier, files, memory
  <2>2. OwnerInv'
    BY <1>0, <1>a, <1>b, <2>1
       DEF OwnerInv, Nested, StepInv
  <2>3. OutcomeInv'
    BY <1>0, <1>a, <1>b, <2>1, BodyFacts
       DEF BodyInv, BodySteps, StepInv, KeptInv, FilesInv, Safe, OwnerInv, Nested,
           OutcomeInv, Unprepared, Blank, Bodies, Agree
  <2>4. CancelInv'
    BY <1>0, <1>a, <1>b, <2>1, Outcomes
       DEF BodyInv, KeptInv, FilesInv, Safe, StepInv, OwnerInv, OutcomeInv, Unprepared,
           Blank, Bodies, CancelInv
  <2>5. DurableInv'
    BY <1>0, <1>a, <1>b, <2>1, BodyFacts
       DEF StepInv, KeptInv, ClaimInv, FilesInv, Safe, OwnerInv, Nested, OutcomeInv,
           Unprepared, Blank, Bodies, DurableInv, SyncFails
  <2>6. OutcomeStays
    BY <1>0, <1>a, <1>b, <2>1, Outcomes, BodyFacts
       DEF OwnerInv, Nested, StepInv, KeptInv, FilesInv, Safe, OutcomeInv, Unprepared,
           Blank, Bodies, Agree, OutcomeStays, TerminalStays, OutcomeStands
  <2>. QED BY <2>2, <2>3, <2>4, <2>5, <2>6 DEF SecondInv
<1>10. CASE Remark
  <2>1. /\ pc = "remark" /\ cpc' = cpc /\ hist' = hist
        /\ \/ /\ vis.marker = "none"
              /\ Entries(vis', vis.tree, "bundled", vis.rec, vis.cancel, vis.bundle,
                         vis.draft, vis.final, vis.del)
              /\ vis'.progress = vis.progress
              /\ SyncedControl(dur', dur, vis')
              /\ pc' = "commit" /\ svc' = svc /\ mem' = mem /\ held' = held /\ token' = token
           \/ /\ dur' = dur
              /\ Entries(vis', vis.tree, vis'.marker, vis.rec, vis.cancel, vis.bundle,
                         vis.draft, vis.final, vis.del)
              /\ vis'.progress = vis.progress
              /\ vis'.marker \in {"torn", vis.marker} \/ SyncFails
              /\ Failed
    <3>. DEFINE b == [vis EXCEPT !.marker = "bundled"]
                t == [vis EXCEPT !.marker = "torn"]
    <3>1. /\ Entries(b, vis.tree, "bundled", vis.rec, vis.cancel, vis.bundle, vis.draft,
                     vis.final, vis.del)
          /\ Entries(t, vis.tree, "torn", vis.rec, vis.cancel, vis.bundle, vis.draft,
                     vis.final, vis.del)
          /\ b.progress = vis.progress /\ t.progress = vis.progress
      BY <1>0 DEF Files
    <3>2. TerminalFails(TRUE) => Failed
      BY TerminalFailsEffect
    <3>3. SyncedControl(SyncControl(dur, vis'), dur, vis')
      BY <1>0, SyncControlEntries
    <3>4. /\ pc = "remark" /\ cpc' = cpc /\ hist' = hist
          /\ \/ /\ vis.marker = "none" /\ vis' = b /\ dur' = SyncControl(dur, vis')
                /\ pc' = "commit" /\ svc' = svc /\ mem' = mem /\ held' = held
                /\ token' = token
             \/ vis' = t /\ dur' = dur /\ TerminalFails(TRUE)
             \/ SyncFails /\ vis' = b /\ dur' = dur /\ TerminalFails(TRUE)
             \/ vis' = vis /\ dur' = dur /\ TerminalFails(TRUE)
      BY <1>10 DEF Remark, Goto, Change, files, memory
    <3>. HIDE DEF b, t
    <3>. QED BY <3>1, <3>2, <3>3, <3>4
  <2>2. OwnerInv'
    BY <1>0, <1>a, <1>b, <2>1
       DEF OwnerInv, Nested, StepInv
  <2>3. OutcomeInv'
    BY <1>0, <1>a, <1>b, <2>1, BodyFacts
       DEF BodyInv, BodySteps, StepInv, KeptInv, FilesInv, Safe, OwnerInv, Nested,
           OutcomeInv, Unprepared, Blank, Bodies, Agree
  <2>4. CancelInv'
    BY <1>0, <1>a, <1>b, <2>1, Outcomes
       DEF BodyInv, KeptInv, FilesInv, Safe, StepInv, OwnerInv, OutcomeInv, Unprepared,
           Blank, Bodies, CancelInv
  <2>5. DurableInv'
    BY <1>0, <1>a, <1>b, <2>1, BodyFacts
       DEF StepInv, KeptInv, ClaimInv, FilesInv, Safe, OwnerInv, Nested, OutcomeInv,
           Unprepared, Blank, Bodies, DurableInv, SyncFails
  <2>6. OutcomeStays
    BY <1>0, <1>a, <1>b, <2>1, Outcomes, BodyFacts
       DEF OwnerInv, Nested, StepInv, KeptInv, FilesInv, Safe, OutcomeInv, Unprepared,
           Blank, Bodies, Agree, OutcomeStays, TerminalStays, OutcomeStands
  <2>. QED BY <2>2, <2>3, <2>4, <2>5, <2>6 DEF SecondInv
<1>11. CASE Commit
  <2>1. /\ pc = "commit" /\ cpc' = cpc /\ hist' = hist
        /\ \/ /\ vis.final = Absent
              /\ Entries(vis', vis.tree, vis.marker, vis.rec, vis.cancel, vis.bundle,
                         vis.draft, vis.draft, vis.del)
              /\ dur' = dur
              /\ pc' = "commit_sync" /\ svc' = svc /\ mem' = mem /\ held' = held
              /\ token' = token
           \/ /\ vis' = vis
              /\ dur' = dur
              /\ Failed
    <3>1. Entries([vis EXCEPT !.final = vis.draft], vis.tree, vis.marker, vis.rec,
                  vis.cancel, vis.bundle, vis.draft, vis.draft, vis.del)
      BY <1>0 DEF Files
    <3>2. TerminalFails(IoFails) => Failed
      BY DEF TerminalFails, Goto
    <3>. QED BY <1>11, <1>0, <3>1, <3>2 DEF Commit, Goto, Change, files, memory
  <2>2. OwnerInv'
    BY <1>0, <1>a, <1>b, <2>1
       DEF OwnerInv, Nested, StepInv
  <2>3. OutcomeInv'
    BY <1>0, <1>a, <1>b, <2>1, BodyFacts
       DEF BodyInv, BodySteps, StepInv, KeptInv, FilesInv, Safe, OwnerInv, Nested,
           OutcomeInv, Unprepared, Blank, Bodies, Agree
  <2>4. CancelInv'
    BY <1>0, <1>a, <1>b, <2>1, Outcomes
       DEF BodyInv, KeptInv, FilesInv, Safe, StepInv, OwnerInv, OutcomeInv, Unprepared,
           Blank, Bodies, CancelInv
  <2>5. DurableInv'
    BY <1>0, <1>a, <1>b, <2>1, BodyFacts
       DEF StepInv, KeptInv, ClaimInv, FilesInv, Safe, OwnerInv, Nested, OutcomeInv,
           Unprepared, Blank, Bodies, DurableInv, SyncFails
  <2>6. OutcomeStays
    BY <1>0, <1>a, <1>b, <2>1, Outcomes, BodyFacts
       DEF OwnerInv, Nested, StepInv, KeptInv, FilesInv, Safe, OutcomeInv, Unprepared,
           Blank, Bodies, Agree, OutcomeStays, TerminalStays, OutcomeStands
  <2>. QED BY <2>2, <2>3, <2>4, <2>5, <2>6 DEF SecondInv
<1>12. CASE SyncCommit
  <2>1. /\ pc = "commit_sync" /\ cpc' = cpc /\ hist' = hist
        /\ \/ /\ vis' = vis
              /\ SyncedResult(dur', dur, vis)
              /\ pc' = "unlink" /\ svc' = svc /\ mem' = mem /\ held' = held /\ token' = token
           \/ /\ SyncFails
              /\ vis' = vis
              /\ dur' = dur
              /\ Failed
    <3>1. SyncedResult(SyncResult(dur, vis), dur, vis)
      BY <1>0, SyncResultEntries
    <3>2. TerminalFails(TRUE) => Failed
      BY TerminalFailsEffect
    <3>. QED BY <1>12, <1>0, <3>1, <3>2 DEF SyncCommit, Goto, Barrier, files, memory
  <2>2. OwnerInv'
    BY <1>0, <1>a, <1>b, <2>1
       DEF OwnerInv, Nested, StepInv
  <2>3. OutcomeInv'
    BY <1>0, <1>a, <1>b, <2>1, BodyFacts
       DEF BodyInv, BodySteps, StepInv, KeptInv, FilesInv, Safe, OwnerInv, Nested,
           OutcomeInv, Unprepared, Blank, Bodies, Agree
  <2>4. CancelInv'
    BY <1>0, <1>a, <1>b, <2>1, Outcomes
       DEF BodyInv, KeptInv, FilesInv, Safe, StepInv, OwnerInv, OutcomeInv, Unprepared,
           Blank, Bodies, CancelInv
  <2>5. DurableInv'
    BY <1>0, <1>a, <1>b, <2>1, BodyFacts
       DEF StepInv, KeptInv, ClaimInv, FilesInv, Safe, OwnerInv, Nested, OutcomeInv,
           Unprepared, Blank, Bodies, DurableInv, SyncFails
  <2>6. OutcomeStays
    BY <1>0, <1>a, <1>b, <2>1, Outcomes, BodyFacts
       DEF OwnerInv, Nested, StepInv, KeptInv, FilesInv, Safe, OutcomeInv, Unprepared,
           Blank, Bodies, Agree, OutcomeStays, TerminalStays, OutcomeStands
  <2>. QED BY <2>2, <2>3, <2>4, <2>5, <2>6 DEF SecondInv
<1>13. CASE UnlinkDraft
  <2>1. /\ pc = "unlink" /\ cpc' = cpc /\ hist' = hist
        /\ \/ /\ Entries(vis', vis.tree, vis.marker, vis.rec, vis.cancel, vis.bundle, Absent,
                         vis.final, vis.del)
              /\ dur' = dur
              /\ pc' = "unlink_sync" /\ svc' = svc /\ mem' = mem /\ held' = held
              /\ token' = token
           \/ /\ vis' = vis
              /\ dur' = dur
              /\ Failed
    <3>1. Entries([vis EXCEPT !.draft = Absent], vis.tree, vis.marker, vis.rec, vis.cancel,
                  vis.bundle, Absent, vis.final, vis.del)
      BY <1>0 DEF Files
    <3>2. TerminalFails(TRUE) => Failed
      BY TerminalFailsEffect
    <3>. QED BY <1>13, <1>0, <3>1, <3>2 DEF UnlinkDraft, Goto, Change, files, memory
  <2>2. OwnerInv'
    BY <1>0, <1>a, <1>b, <2>1
       DEF OwnerInv, Nested, StepInv
  <2>3. OutcomeInv'
    BY <1>0, <1>a, <1>b, <2>1, BodyFacts
       DEF BodyInv, BodySteps, StepInv, KeptInv, FilesInv, Safe, OwnerInv, Nested,
           OutcomeInv, Unprepared, Blank, Bodies, Agree
  <2>4. CancelInv'
    BY <1>0, <1>a, <1>b, <2>1, Outcomes
       DEF BodyInv, KeptInv, FilesInv, Safe, StepInv, OwnerInv, OutcomeInv, Unprepared,
           Blank, Bodies, CancelInv
  <2>5. DurableInv'
    BY <1>0, <1>a, <1>b, <2>1, BodyFacts
       DEF StepInv, KeptInv, ClaimInv, FilesInv, Safe, OwnerInv, Nested, OutcomeInv,
           Unprepared, Blank, Bodies, DurableInv, SyncFails
  <2>6. OutcomeStays
    BY <1>0, <1>a, <1>b, <2>1, Outcomes, BodyFacts
       DEF OwnerInv, Nested, StepInv, KeptInv, FilesInv, Safe, OutcomeInv, Unprepared,
           Blank, Bodies, Agree, OutcomeStays, TerminalStays, OutcomeStands
  <2>. QED BY <2>2, <2>3, <2>4, <2>5, <2>6 DEF SecondInv
<1>14. CASE SyncUnlink
  <2>1. /\ pc = "unlink_sync" /\ cpc' = cpc /\ hist' = hist /\ vis' = vis
        /\ \/ /\ SyncedResult(dur', dur, vis)
              /\ pc' = (IF svc = "boot" THEN "b_final" ELSE "idle") /\ svc' = svc
              /\ held' = held
           \/ SyncFails /\ dur' = dur /\ Failed
    <3>1. SyncedResult(SyncResult(dur, vis), dur, vis)
      BY <1>0, SyncResultEntries
    <3>2. TerminalFails(TRUE) => Failed
      BY TerminalFailsEffect
    <3>. QED BY <1>14, <3>1, <3>2 DEF SyncUnlink, Goto, Barrier, files
  <2>2. OwnerInv'
    BY <1>0, <1>a, <1>b, <2>1
       DEF OwnerInv, Nested, StepInv
  <2>3. OutcomeInv'
    BY <1>0, <1>a, <1>b, <2>1, BodyFacts
       DEF BodyInv, BodySteps, StepInv, KeptInv, FilesInv, Safe, OwnerInv, Nested,
           OutcomeInv, Unprepared, Blank, Bodies, Agree
  <2>4. CancelInv'
    BY <1>0, <1>a, <1>b, <2>1, Outcomes
       DEF BodyInv, KeptInv, FilesInv, Safe, StepInv, OwnerInv, OutcomeInv, Unprepared,
           Blank, Bodies, CancelInv
  <2>5. DurableInv'
    BY <1>0, <1>a, <1>b, <2>1, BodyFacts
       DEF StepInv, KeptInv, ClaimInv, FilesInv, Safe, OwnerInv, Nested, OutcomeInv,
           Unprepared, Blank, Bodies, DurableInv, SyncFails
  <2>6. OutcomeStays
    BY <1>0, <1>a, <1>b, <2>1, Outcomes, BodyFacts
       DEF OwnerInv, Nested, StepInv, KeptInv, FilesInv, Safe, OutcomeInv, Unprepared,
           Blank, Bodies, Agree, OutcomeStays, TerminalStays, OutcomeStands
  <2>. QED BY <2>2, <2>3, <2>4, <2>5, <2>6 DEF SecondInv
<1>. QED BY <1>1, <1>2, <1>3, <1>4, <1>5, <1>6, <1>7, <1>8, <1>9, <1>10, <1>11, <1>12,
   <1>13, <1>14 DEF TerminalNext

\* A step of a cancellation or a shutdown.
LEMMA CancelOutcome ==
    ASSUME StoreInv, EvidenceInv', CancelNext
    PROVE  SecondInv' /\ OutcomeStays
<1>. USE DEF Entries, SyncedTree, SyncedControl, SyncedResult, SyncedRecords, Failed, GivenUp,
            Kept, Serving, DraftSteps, SubmitSteps, RunSteps, TerminalSteps, DeleteSteps,
            BootSteps
<1>0. vis \in Files /\ dur \in Files /\ vis' \in Files /\ dur' \in Files
  BY DEF StoreInv, EvidenceInv, TypeOK
<1>a. /\ BodyInv /\ ClaimInv /\ StepInv /\ KeptInv /\ FilesInv
      /\ OwnerInv /\ OutcomeInv /\ CancelInv /\ DurableInv
  BY DEF StoreInv, SecondInv, EvidenceInv
<1>b. /\ vis.draft \in Body \cup {Absent, Torn} /\ dur.draft \in Body \cup {Absent, Torn}
      /\ vis.final \in Body \cup {Absent} /\ dur.final \in Body \cup {Absent}
  BY <1>0 DEF Files
<1>1. CASE CancelBegin
  <2>1. /\ Entries(vis', vis.tree, vis.marker, vis.rec, vis'.cancel, vis.bundle, vis.draft,
                   vis.final, vis.del)
        /\ vis'.progress = vis.progress
        /\ vis'.cancel = vis.cancel \/ vis'.cancel = "next"
        /\ pc \in RunSteps /\ cpc = "none" /\ svc \in {"up", "stopping"}
        /\ pc' = pc /\ svc' = svc /\ mem' = mem /\ held' = held
        /\ \/ /\ vis.cancel = "next" /\ vis' = vis /\ dur' = dur /\ cpc' = cpc /\ hist' = hist
           \/ /\ vis.cancel = "intent" /\ vis' = vis /\ cpc' = cpc /\ token' = "cancelled"
              /\ \/ /\ SyncedResult(dur', dur, vis)
                    /\ hist' \in {hist, hist \cup {"cancelled"}}
                 \/ SyncFails /\ dur' = dur /\ hist' = hist
           \/ /\ vis.cancel \notin {"next", "intent"} /\ vis'.cancel = "next"
              /\ SyncedResult(dur', dur, vis') /\ cpc' = "c_rename" /\ hist' = hist
              /\ token' = token
    <3>1. /\ SyncedResult(SyncResult(dur, vis), dur, vis)
          /\ SyncedResult(SyncResult(dur, vis'), dur, vis')
      BY <1>0, SyncResultEntries
    <3>2. /\ pc \in RunSteps /\ cpc = "none" /\ svc \in {"up", "stopping"}
          /\ pc' = pc /\ svc' = svc /\ mem' = mem /\ held' = held
      BY <1>1 DEF CancelBegin, Open, Running, quietCancel, control
    <3>3. CASE vis.cancel = "next"
      BY <1>1, <3>2, <3>3 DEF CancelBegin, NotRecorded, files
    <3>4. CASE vis.cancel = "intent"
      <4>1. /\ vis' = vis /\ cpc' = cpc
            /\ \/ dur' = SyncResult(dur, vis) /\ Recorded(TRUE)
               \/ SyncFails /\ dur' = dur /\ Recorded(FALSE)
        BY <1>1, <3>4 DEF CancelBegin, Barrier, files
      <4>. QED BY <3>1, <3>2, <3>4, <4>1 DEF Recorded
    <3>5. CASE vis.cancel \notin {"next", "intent"}
      <4>1. /\ vis' = [vis EXCEPT !.cancel = "next"] /\ dur' = SyncResult(dur, vis')
            /\ cpc' = "c_rename" /\ token' = token /\ hist' = hist
        BY <1>1, <3>5 DEF CancelBegin
      <4>2. Entries(vis', vis.tree, vis.marker, vis.rec, "next", vis.bundle, vis.draft,
                    vis.final, vis.del)
            /\ vis'.progress = vis.progress
        BY <1>0, <4>1 DEF Files
      <4>3. SyncedResult(dur', dur, vis')
        BY <3>1, <4>1
      <4>4. cpc' = "c_rename" /\ token' = token /\ hist' = hist
        BY <4>1
      <4>. QED BY <3>2, <3>5, <4>2, <4>3, <4>4
    <3>. QED BY <3>3, <3>4, <3>5
  <2>2. OwnerInv'
    BY <1>0, <1>a, <1>b, <2>1
       DEF OwnerInv, Nested, StepInv
  <2>3. OutcomeInv'
    BY <1>0, <1>a, <1>b, <2>1, BodyFacts
       DEF BodyInv, BodySteps, StepInv, KeptInv, FilesInv, Safe, OwnerInv, Nested,
           OutcomeInv, Unprepared, Blank, Bodies, Agree
  <2>4. CancelInv'
    BY <1>0, <1>a, <1>b, <2>1, Outcomes
       DEF BodyInv, KeptInv, FilesInv, Safe, StepInv, OwnerInv, OutcomeInv, Unprepared,
           Blank, Bodies, CancelInv
  <2>5. DurableInv'
    BY <1>0, <1>a, <1>b, <2>1, BodyFacts
       DEF StepInv, KeptInv, ClaimInv, FilesInv, Safe, OwnerInv, Nested, OutcomeInv,
           Unprepared, Blank, Bodies, DurableInv, SyncFails
  <2>6. OutcomeStays
    BY <1>0, <1>a, <1>b, <2>1, Outcomes, BodyFacts
       DEF OwnerInv, Nested, StepInv, KeptInv, FilesInv, Safe, OutcomeInv, Unprepared,
           Blank, Bodies, Agree, OutcomeStays, TerminalStays, OutcomeStands
  <2>. QED BY <2>2, <2>3, <2>4, <2>5, <2>6 DEF SecondInv
<1>2. CASE CancelRollback
  <2>1. /\ Entries(vis', vis.tree, vis.marker, vis.rec, vis'.cancel, vis.bundle, vis.draft,
                   vis.final, vis.del)
        /\ vis'.progress = vis.progress
        /\ (vis'.cancel = vis.cancel \/ vis'.cancel = "none")
        /\ cpc = "c_rename" /\ cpc' = "none"
        /\ pc' = pc /\ svc' = svc /\ mem' = mem /\ held' = held /\ hist' = hist
        /\ (SyncedResult(dur', dur, vis') \/ (SyncFails /\ dur' = dur))
    <3>1. SyncedResult(SyncResult(dur, vis'), dur, vis')
      BY <1>0, SyncResultEntries
    <3>2. /\ cpc = "c_rename" /\ cpc' = "none" /\ pc' = pc /\ svc' = svc /\ mem' = mem
          /\ held' = held /\ hist' = hist
      BY <1>2 DEF CancelRollback, NotRecorded, quietCancel, control
    <3>3. /\ vis' = vis \/ vis' = [vis EXCEPT !.cancel = "none"]
          /\ dur' = SyncResult(dur, vis') \/ (SyncFails /\ dur' = dur)
      BY <1>2 DEF CancelRollback
    <3>4. /\ Entries(vis', vis.tree, vis.marker, vis.rec, vis'.cancel, vis.bundle, vis.draft,
                     vis.final, vis.del)
          /\ vis'.progress = vis.progress
          /\ vis'.cancel = vis.cancel \/ vis'.cancel = "none"
      BY <1>0, <3>3 DEF Files
    <3>5. SyncedResult(dur', dur, vis') \/ (SyncFails /\ dur' = dur)
      BY <3>1, <3>3
    <3>. QED BY <3>2, <3>4, <3>5
  <2>2. OwnerInv'
    BY <1>0, <1>a, <1>b, <2>1
       DEF OwnerInv, Nested, StepInv
  <2>3. OutcomeInv'
    BY <1>0, <1>a, <1>b, <2>1, BodyFacts
       DEF BodyInv, BodySteps, StepInv, KeptInv, FilesInv, Safe, OwnerInv, Nested,
           OutcomeInv, Unprepared, Blank, Bodies, Agree
  <2>4. CancelInv'
    BY <1>0, <1>a, <1>b, <2>1, Outcomes
       DEF BodyInv, KeptInv, FilesInv, Safe, StepInv, OwnerInv, OutcomeInv, Unprepared,
           Blank, Bodies, CancelInv
  <2>5. DurableInv'
    BY <1>0, <1>a, <1>b, <2>1, BodyFacts
       DEF StepInv, KeptInv, ClaimInv, FilesInv, Safe, OwnerInv, Nested, OutcomeInv,
           Unprepared, Blank, Bodies, DurableInv, SyncFails
  <2>6. OutcomeStays
    BY <1>0, <1>a, <1>b, <2>1, Outcomes, BodyFacts
       DEF OwnerInv, Nested, StepInv, KeptInv, FilesInv, Safe, OutcomeInv, Unprepared,
           Blank, Bodies, Agree, OutcomeStays, TerminalStays, OutcomeStands
  <2>. QED BY <2>2, <2>3, <2>4, <2>5, <2>6 DEF SecondInv
<1>3. CASE CancelRename
  <2>1. /\ Entries(vis', vis.tree, vis.marker, vis.rec, "intent", vis.bundle, vis.draft,
                   vis.final, vis.del)
        /\ vis'.progress = vis.progress
        /\ dur' = dur
        /\ cpc = "c_rename" /\ cpc' = "c_barrier"
        /\ pc' = pc /\ svc' = svc /\ mem' = mem /\ held' = held /\ token' = token
        /\ hist' = hist
    BY <1>0, <1>a, <1>3
       DEF CancelRename, Change, quietCancel, control, Files
  <2>2. OwnerInv'
    BY <1>0, <1>a, <1>b, <2>1
       DEF OwnerInv, Nested, StepInv
  <2>3. OutcomeInv'
    BY <1>0, <1>a, <1>b, <2>1, BodyFacts
       DEF BodyInv, BodySteps, StepInv, KeptInv, FilesInv, Safe, OwnerInv, Nested,
           OutcomeInv, Unprepared, Blank, Bodies, Agree
  <2>4. CancelInv'
    BY <1>0, <1>a, <1>b, <2>1, Outcomes
       DEF BodyInv, KeptInv, FilesInv, Safe, StepInv, OwnerInv, OutcomeInv, Unprepared,
           Blank, Bodies, CancelInv
  <2>5. DurableInv'
    BY <1>0, <1>a, <1>b, <2>1, BodyFacts
       DEF StepInv, KeptInv, ClaimInv, FilesInv, Safe, OwnerInv, Nested, OutcomeInv,
           Unprepared, Blank, Bodies, DurableInv
  <2>6. OutcomeStays
    BY <1>0, <1>a, <1>b, <2>1, Outcomes, BodyFacts
       DEF OwnerInv, Nested, StepInv, KeptInv, FilesInv, Safe, OutcomeInv, Unprepared,
           Blank, Bodies, Agree, OutcomeStays, TerminalStays, OutcomeStands
  <2>. QED BY <2>2, <2>3, <2>4, <2>5, <2>6 DEF SecondInv
<1>4. CASE CancelBarrier
  <2>1. /\ vis' = vis
        /\ cpc = "c_barrier" /\ cpc' = "none" /\ token' = "cancelled"
        /\ pc' = pc /\ svc' = svc /\ mem' = mem /\ held' = held
        /\ \/ SyncedResult(dur', dur, vis) /\ hist' \in {hist, hist \cup {"cancelled"}}
           \/ SyncFails /\ dur' = dur /\ hist' = hist
    BY <1>0, <1>a, <1>4, SyncResultEntries
       DEF CancelBarrier, Recorded, Barrier, files, quietCancel, control, Files
  <2>2. OwnerInv'
    BY <1>0, <1>a, <1>b, <2>1
       DEF OwnerInv, Nested, StepInv
  <2>3. OutcomeInv'
    BY <1>0, <1>a, <1>b, <2>1, BodyFacts
       DEF BodyInv, BodySteps, StepInv, KeptInv, FilesInv, Safe, OwnerInv, Nested,
           OutcomeInv, Unprepared, Blank, Bodies, Agree
  <2>4. CancelInv'
    BY <1>0, <1>a, <1>b, <2>1, Outcomes
       DEF BodyInv, KeptInv, FilesInv, Safe, StepInv, OwnerInv, OutcomeInv, Unprepared,
           Blank, Bodies, CancelInv
  <2>5. DurableInv'
    BY <1>0, <1>a, <1>b, <2>1, BodyFacts
       DEF StepInv, KeptInv, ClaimInv, FilesInv, Safe, OwnerInv, Nested, OutcomeInv,
           Unprepared, Blank, Bodies, DurableInv, SyncFails
  <2>6. OutcomeStays
    BY <1>0, <1>a, <1>b, <2>1, Outcomes, BodyFacts
       DEF OwnerInv, Nested, StepInv, KeptInv, FilesInv, Safe, OutcomeInv, Unprepared,
           Blank, Bodies, Agree, OutcomeStays, TerminalStays, OutcomeStands
  <2>. QED BY <2>2, <2>3, <2>4, <2>5, <2>6 DEF SecondInv
<1>5. CASE Shutdown
  <2>1. /\ vis' = vis
        /\ dur' = dur
        /\ svc = "up" /\ svc' = "stopping"
        /\ pc' = pc /\ cpc' = cpc /\ mem' = mem /\ held' = held /\ token' = token
        /\ hist' = hist
    BY <1>0, <1>a, <1>5
       DEF Shutdown, files, memory, Files
  <2>2. OwnerInv'
    BY <1>0, <1>a, <1>b, <2>1
       DEF OwnerInv, Nested, StepInv
  <2>3. OutcomeInv'
    BY <1>0, <1>a, <1>b, <2>1, BodyFacts
       DEF BodyInv, BodySteps, StepInv, KeptInv, FilesInv, Safe, OwnerInv, Nested,
           OutcomeInv, Unprepared, Blank, Bodies, Agree
  <2>4. CancelInv'
    BY <1>0, <1>a, <1>b, <2>1, Outcomes
       DEF BodyInv, KeptInv, FilesInv, Safe, StepInv, OwnerInv, OutcomeInv, Unprepared,
           Blank, Bodies, CancelInv
  <2>5. DurableInv'
    BY <1>0, <1>a, <1>b, <2>1, BodyFacts
       DEF StepInv, KeptInv, ClaimInv, FilesInv, Safe, OwnerInv, Nested, OutcomeInv,
           Unprepared, Blank, Bodies, DurableInv
  <2>6. OutcomeStays
    BY <1>0, <1>a, <1>b, <2>1, Outcomes, BodyFacts
       DEF OwnerInv, Nested, StepInv, KeptInv, FilesInv, Safe, OutcomeInv, Unprepared,
           Blank, Bodies, Agree, OutcomeStays, TerminalStays, OutcomeStands
  <2>. QED BY <2>2, <2>3, <2>4, <2>5, <2>6 DEF SecondInv
<1>6. CASE ShutdownDrained
  <2>1. /\ vis' = vis
        /\ dur' = dur
        /\ svc' = "down" /\ pc' = "none" /\ pc = "idle"
        /\ cpc' = cpc /\ mem' = mem /\ token' = token /\ hist' = hist
    BY <1>0, <1>a, <1>6
       DEF ShutdownDrained, files, Files
  <2>2. OwnerInv'
    BY <1>0, <1>a, <1>b, <2>1
       DEF OwnerInv, Nested, StepInv
  <2>3. OutcomeInv'
    BY <1>0, <1>a, <1>b, <2>1, BodyFacts
       DEF BodyInv, BodySteps, StepInv, KeptInv, FilesInv, Safe, OwnerInv, Nested,
           OutcomeInv, Unprepared, Blank, Bodies, Agree
  <2>4. CancelInv'
    BY <1>0, <1>a, <1>b, <2>1, Outcomes
       DEF BodyInv, KeptInv, FilesInv, Safe, StepInv, OwnerInv, OutcomeInv, Unprepared,
           Blank, Bodies, CancelInv
  <2>5. DurableInv'
    BY <1>0, <1>a, <1>b, <2>1, BodyFacts
       DEF StepInv, KeptInv, ClaimInv, FilesInv, Safe, OwnerInv, Nested, OutcomeInv,
           Unprepared, Blank, Bodies, DurableInv
  <2>6. OutcomeStays
    BY <1>0, <1>a, <1>b, <2>1, Outcomes, BodyFacts
       DEF OwnerInv, Nested, StepInv, KeptInv, FilesInv, Safe, OutcomeInv, Unprepared,
           Blank, Bodies, Agree, OutcomeStays, TerminalStays, OutcomeStands
  <2>. QED BY <2>2, <2>3, <2>4, <2>5, <2>6 DEF SecondInv
<1>. QED BY <1>1, <1>2, <1>3, <1>4, <1>5, <1>6 DEF CancelNext

\* A step of a deletion.
LEMMA DeleteOutcome ==
    ASSUME StoreInv, EvidenceInv', DeleteNext
    PROVE  SecondInv' /\ OutcomeStays
<1>. USE DEF Entries, SyncedTree, SyncedControl, SyncedResult, SyncedRecords, Failed, GivenUp,
            Kept, Serving, DraftSteps, SubmitSteps, RunSteps, TerminalSteps, DeleteSteps,
            BootSteps
<1>0. vis \in Files /\ dur \in Files /\ vis' \in Files /\ dur' \in Files
  BY DEF StoreInv, EvidenceInv, TypeOK
<1>a. /\ BodyInv /\ ClaimInv /\ StepInv /\ KeptInv /\ FilesInv
      /\ OwnerInv /\ OutcomeInv /\ CancelInv /\ DurableInv
  BY DEF StoreInv, SecondInv, EvidenceInv
<1>b. /\ vis.draft \in Body \cup {Absent, Torn} /\ dur.draft \in Body \cup {Absent, Torn}
      /\ vis.final \in Body \cup {Absent} /\ dur.final \in Body \cup {Absent}
  BY <1>0 DEF Files
<1>1. CASE DeleteResume
  <2>1. /\ vis' = vis
        /\ dur' = dur
        /\ svc = "up" /\ svc' = svc /\ pc = "idle" /\ pc' = "d_tree" /\ vis.del = "intent"
        /\ cpc' = cpc /\ mem' = mem /\ held' = held /\ token' = token /\ hist' = hist
    BY <1>0, <1>a, <1>1
       DEF DeleteResume, Goto, files, quietDelete, Files
  <2>2. OwnerInv'
    BY <1>0, <1>a, <1>b, <2>1
       DEF OwnerInv, Nested, StepInv
  <2>3. OutcomeInv'
    BY <1>0, <1>a, <1>b, <2>1, BodyFacts
       DEF BodyInv, BodySteps, StepInv, KeptInv, FilesInv, Safe, OwnerInv, Nested,
           OutcomeInv, Unprepared, Blank, Bodies, Agree
  <2>4. CancelInv'
    BY <1>0, <1>a, <1>b, <2>1, Outcomes
       DEF BodyInv, KeptInv, FilesInv, Safe, StepInv, OwnerInv, OutcomeInv, Unprepared,
           Blank, Bodies, CancelInv
  <2>5. DurableInv'
    BY <1>0, <1>a, <1>b, <2>1, BodyFacts
       DEF StepInv, KeptInv, ClaimInv, FilesInv, Safe, OwnerInv, Nested, OutcomeInv,
           Unprepared, Blank, Bodies, DurableInv
  <2>6. OutcomeStays
    BY <1>0, <1>a, <1>b, <2>1, Outcomes, BodyFacts
       DEF OwnerInv, Nested, StepInv, KeptInv, FilesInv, Safe, OutcomeInv, Unprepared,
           Blank, Bodies, Agree, OutcomeStays, TerminalStays, OutcomeStands
  <2>. QED BY <2>2, <2>3, <2>4, <2>5, <2>6 DEF SecondInv
<1>2. CASE DeleteBegin
  <2>1. /\ Entries(vis', vis.tree, vis.marker, vis.rec, vis.cancel, vis.bundle, vis.draft,
                   vis.final, "next")
        /\ vis'.progress = vis.progress
        /\ SyncedRecords(dur', dur, vis')
        /\ svc = "up" /\ svc' = svc /\ pc = "idle" /\ pc' = "d_publish"
        /\ (held # Absent \/ Readable(vis))
        /\ cpc' = cpc /\ mem' = mem /\ held' = held /\ token' = token /\ hist' = hist
    BY <1>0, <1>a, <1>2, SyncRecordsEntries
       DEF DeleteBegin, Goto, quietDelete, Files
  <2>2. OwnerInv'
    BY <1>0, <1>a, <1>b, <2>1
       DEF OwnerInv, Nested, StepInv
  <2>3. OutcomeInv'
    BY <1>0, <1>a, <1>b, <2>1, BodyFacts
       DEF BodyInv, BodySteps, StepInv, KeptInv, FilesInv, Safe, OwnerInv, Nested,
           OutcomeInv, Unprepared, Blank, Bodies, Agree
  <2>4. CancelInv'
    BY <1>0, <1>a, <1>b, <2>1, Outcomes
       DEF BodyInv, KeptInv, FilesInv, Safe, StepInv, OwnerInv, OutcomeInv, Unprepared,
           Blank, Bodies, CancelInv
  <2>5. DurableInv'
    BY <1>0, <1>a, <1>b, <2>1, BodyFacts
       DEF StepInv, KeptInv, ClaimInv, FilesInv, Safe, OwnerInv, Nested, OutcomeInv,
           Unprepared, Blank, Bodies, DurableInv
  <2>6. OutcomeStays
    BY <1>0, <1>a, <1>b, <2>1, Outcomes, BodyFacts
       DEF OwnerInv, Nested, StepInv, KeptInv, FilesInv, Safe, OutcomeInv, Unprepared,
           Blank, Bodies, Agree, OutcomeStays, TerminalStays, OutcomeStands
  <2>. QED BY <2>2, <2>3, <2>4, <2>5, <2>6 DEF SecondInv
<1>3. CASE DeleteRollback
  <2>1. /\ Entries(vis', vis.tree, vis.marker, vis.rec, vis.cancel, vis.bundle, vis.draft,
                   vis.final, vis'.del)
        /\ vis'.progress = vis.progress
        /\ (SyncedRecords(dur', dur, vis') \/ (SyncFails /\ dur' = dur))
        /\ svc' = svc /\ pc = "d_publish" /\ pc' = "idle"
        /\ cpc' = cpc /\ mem' = mem /\ held' = held /\ token' = token /\ hist' = hist
    <3>1. SyncedRecords(SyncRecords(dur, vis'), dur, vis')
      BY <1>0, SyncRecordsEntries
    <3>2. /\ vis' = vis \/ vis' = [vis EXCEPT !.del = "none"]
          /\ dur' = SyncRecords(dur, vis') \/ (SyncFails /\ dur' = dur)
          /\ svc' = svc /\ pc = "d_publish" /\ pc' = "idle"
          /\ cpc' = cpc /\ mem' = mem /\ held' = held /\ token' = token /\ hist' = hist
      BY <1>3 DEF DeleteRollback, Goto, quietDelete
    <3>3. Entries(vis', vis.tree, vis.marker, vis.rec, vis.cancel, vis.bundle, vis.draft,
                  vis.final,
                  vis'.del)
          /\ vis'.progress = vis.progress
      BY <1>0, <3>2 DEF Files
    <3>. QED BY <3>1, <3>2, <3>3
  <2>2. OwnerInv'
    BY <1>0, <1>a, <1>b, <2>1
       DEF OwnerInv, Nested, StepInv
  <2>3. OutcomeInv'
    BY <1>0, <1>a, <1>b, <2>1, BodyFacts
       DEF BodyInv, BodySteps, StepInv, KeptInv, FilesInv, Safe, OwnerInv, Nested,
           OutcomeInv, Unprepared, Blank, Bodies, Agree
  <2>4. CancelInv'
    BY <1>0, <1>a, <1>b, <2>1, Outcomes
       DEF BodyInv, KeptInv, FilesInv, Safe, StepInv, OwnerInv, OutcomeInv, Unprepared,
           Blank, Bodies, CancelInv
  <2>5. DurableInv'
    BY <1>0, <1>a, <1>b, <2>1, BodyFacts
       DEF StepInv, KeptInv, ClaimInv, FilesInv, Safe, OwnerInv, Nested, OutcomeInv,
           Unprepared, Blank, Bodies, DurableInv, SyncFails
  <2>6. OutcomeStays
    BY <1>0, <1>a, <1>b, <2>1, Outcomes, BodyFacts
       DEF OwnerInv, Nested, StepInv, KeptInv, FilesInv, Safe, OutcomeInv, Unprepared,
           Blank, Bodies, Agree, OutcomeStays, TerminalStays, OutcomeStands
  <2>. QED BY <2>2, <2>3, <2>4, <2>5, <2>6 DEF SecondInv
<1>4. CASE DeletePublish
  <2>1. /\ Entries(vis', vis.tree, vis.marker, vis.rec, vis.cancel, vis.bundle, vis.draft,
                   vis.final, "intent")
        /\ vis'.progress = vis.progress
        /\ dur' = dur
        /\ pc = "d_publish" /\ pc' = "d_barrier" /\ svc' = svc
        /\ hist' = hist \cup {"deleting"}
        /\ cpc' = cpc /\ mem' = mem /\ held' = held /\ token' = token
    BY <1>0, <1>a, <1>4
       DEF DeletePublish, Goto, Change, quietDelete, Files
  <2>2. OwnerInv'
    BY <1>0, <1>a, <1>b, <2>1
       DEF OwnerInv, Nested, StepInv
  <2>3. OutcomeInv'
    BY <1>0, <1>a, <1>b, <2>1, BodyFacts
       DEF BodyInv, BodySteps, StepInv, KeptInv, FilesInv, Safe, OwnerInv, Nested,
           OutcomeInv, Unprepared, Blank, Bodies, Agree
  <2>4. CancelInv'
    BY <1>0, <1>a, <1>b, <2>1, Outcomes
       DEF BodyInv, KeptInv, FilesInv, Safe, StepInv, OwnerInv, OutcomeInv, Unprepared,
           Blank, Bodies, CancelInv
  <2>5. DurableInv'
    BY <1>0, <1>a, <1>b, <2>1, BodyFacts
       DEF StepInv, KeptInv, ClaimInv, FilesInv, Safe, OwnerInv, Nested, OutcomeInv,
           Unprepared, Blank, Bodies, DurableInv
  <2>6. OutcomeStays
    BY <1>0, <1>a, <1>b, <2>1, Outcomes, BodyFacts
       DEF OwnerInv, Nested, StepInv, KeptInv, FilesInv, Safe, OutcomeInv, Unprepared,
           Blank, Bodies, Agree, OutcomeStays, TerminalStays, OutcomeStands
  <2>. QED BY <2>2, <2>3, <2>4, <2>5, <2>6 DEF SecondInv
<1>5. CASE DeleteBarrier
  <2>1. /\ vis' = vis
        /\ pc = "d_barrier"
        /\ cpc' = cpc /\ mem' = mem /\ held' = held /\ token' = token /\ hist' = hist
        /\ \/ SyncedRecords(dur', dur, vis') /\ pc' = "d_tree" /\ svc' = svc
           \/ SyncFails /\ dur' = dur /\ GivenUp
    BY <1>0, <1>a, <1>5, SyncRecordsEntries
       DEF DeleteBarrier, Goto, Barrier, Fail, files, quietDelete, Files
  <2>2. OwnerInv'
    BY <1>0, <1>a, <1>b, <2>1
       DEF OwnerInv, Nested, StepInv
  <2>3. OutcomeInv'
    BY <1>0, <1>a, <1>b, <2>1, BodyFacts
       DEF BodyInv, BodySteps, StepInv, KeptInv, FilesInv, Safe, OwnerInv, Nested,
           OutcomeInv, Unprepared, Blank, Bodies, Agree
  <2>4. CancelInv'
    BY <1>0, <1>a, <1>b, <2>1, Outcomes
       DEF BodyInv, KeptInv, FilesInv, Safe, StepInv, OwnerInv, OutcomeInv, Unprepared,
           Blank, Bodies, CancelInv
  <2>5. DurableInv'
    BY <1>0, <1>a, <1>b, <2>1, BodyFacts
       DEF StepInv, KeptInv, ClaimInv, FilesInv, Safe, OwnerInv, Nested, OutcomeInv,
           Unprepared, Blank, Bodies, DurableInv, SyncFails
  <2>6. OutcomeStays
    BY <1>0, <1>a, <1>b, <2>1, Outcomes, BodyFacts
       DEF OwnerInv, Nested, StepInv, KeptInv, FilesInv, Safe, OutcomeInv, Unprepared,
           Blank, Bodies, Agree, OutcomeStays, TerminalStays, OutcomeStands
  <2>. QED BY <2>2, <2>3, <2>4, <2>5, <2>6 DEF SecondInv
<1>6. CASE DeleteTree
  <2>1. /\ Entries(vis', vis'.tree, vis'.marker, vis.rec, vis.cancel, vis.bundle, vis.draft,
                   vis.final, vis.del)
        /\ vis'.progress = vis.progress
        /\ dur' = dur
        /\ pc = "d_tree"
        /\ cpc' = cpc /\ mem' = mem /\ held' = held /\ token' = token /\ hist' = hist
        /\ \/ /\ vis.tree = "none" /\ vis' = vis
              /\ pc' = "d_rec" /\ svc' = svc
           \/ /\ vis'.tree = "none" /\ vis'.marker = "none"
              /\ pc' = "d_tree_sync" /\ svc' = svc
           \/ /\ vis.tree # "none" /\ vis'.tree = "partial"
              /\ vis'.marker \in {"none", vis.marker}
              /\ GivenUp
    <3>1. Entries(WithoutTree(vis), "none", "none", vis.rec, vis.cancel, vis.bundle,
                  vis.draft,
                  vis.final, vis.del)
          /\ WithoutTree(vis).progress = vis.progress
      BY <1>0, WithoutTreeEntries
    <3>2. \A w \in Damaged(vis) :
            /\ Entries(w, "partial", w.marker, vis.rec, vis.cancel, vis.bundle, vis.draft,
                       vis.final, vis.del)
            /\ w.marker \in {"none", vis.marker} /\ w.progress = vis.progress
      BY <1>0, DamagedEntries
    <3>3. Fail => GivenUp
      BY DEF Fail, Goto
    <3>. QED BY <1>6, <3>1, <3>2, <3>3 DEF DeleteTree, Goto, Change, files, quietDelete
  <2>2. OwnerInv'
    BY <1>0, <1>a, <1>b, <2>1
       DEF OwnerInv, Nested, StepInv
  <2>3. OutcomeInv'
    BY <1>0, <1>a, <1>b, <2>1, BodyFacts
       DEF BodyInv, BodySteps, StepInv, KeptInv, FilesInv, Safe, OwnerInv, Nested,
           OutcomeInv, Unprepared, Blank, Bodies, Agree
  <2>4. CancelInv'
    BY <1>0, <1>a, <1>b, <2>1, Outcomes
       DEF BodyInv, KeptInv, FilesInv, Safe, StepInv, OwnerInv, OutcomeInv, Unprepared,
           Blank, Bodies, CancelInv
  <2>5. DurableInv'
    BY <1>0, <1>a, <1>b, <2>1, BodyFacts
       DEF StepInv, KeptInv, ClaimInv, FilesInv, Safe, OwnerInv, Nested, OutcomeInv,
           Unprepared, Blank, Bodies, DurableInv
  <2>6. OutcomeStays
    BY <1>0, <1>a, <1>b, <2>1, Outcomes, BodyFacts
       DEF OwnerInv, Nested, StepInv, KeptInv, FilesInv, Safe, OutcomeInv, Unprepared,
           Blank, Bodies, Agree, OutcomeStays, TerminalStays, OutcomeStands
  <2>. QED BY <2>2, <2>3, <2>4, <2>5, <2>6 DEF SecondInv
<1>7. CASE DeleteTreeSync
  <2>1. /\ vis' = vis
        /\ pc = "d_tree_sync"
        /\ cpc' = cpc /\ mem' = mem /\ held' = held /\ token' = token /\ hist' = hist
        /\ \/ SyncedTree(dur', dur, vis') /\ pc' = "d_rec" /\ svc' = svc
           \/ SyncFails /\ dur' = dur /\ GivenUp
    BY <1>0, <1>a, <1>7, SyncSessionsEntries
       DEF DeleteTreeSync, Goto, Barrier, Fail, files, quietDelete, Files
  <2>2. OwnerInv'
    BY <1>0, <1>a, <1>b, <2>1
       DEF OwnerInv, Nested, StepInv
  <2>3. OutcomeInv'
    BY <1>0, <1>a, <1>b, <2>1, BodyFacts
       DEF BodyInv, BodySteps, StepInv, KeptInv, FilesInv, Safe, OwnerInv, Nested,
           OutcomeInv, Unprepared, Blank, Bodies, Agree
  <2>4. CancelInv'
    BY <1>0, <1>a, <1>b, <2>1, Outcomes
       DEF BodyInv, KeptInv, FilesInv, Safe, StepInv, OwnerInv, OutcomeInv, Unprepared,
           Blank, Bodies, CancelInv
  <2>5. DurableInv'
    BY <1>0, <1>a, <1>b, <2>1, BodyFacts
       DEF StepInv, KeptInv, ClaimInv, FilesInv, Safe, OwnerInv, Nested, OutcomeInv,
           Unprepared, Blank, Bodies, DurableInv, SyncFails
  <2>6. OutcomeStays
    BY <1>0, <1>a, <1>b, <2>1, Outcomes, BodyFacts
       DEF OwnerInv, Nested, StepInv, KeptInv, FilesInv, Safe, OutcomeInv, Unprepared,
           Blank, Bodies, Agree, OutcomeStays, TerminalStays, OutcomeStands
  <2>. QED BY <2>2, <2>3, <2>4, <2>5, <2>6 DEF SecondInv
<1>8. CASE DeleteResult
  <2>1. /\ vis'.tree = vis.tree /\ vis'.marker = vis.marker /\ vis'.del = vis.del
        /\ vis'.draft \in {Absent, vis.draft} /\ vis'.final \in {Absent, vis.final}
        /\ dur' = dur
        /\ pc = "d_rec"
        /\ cpc' = cpc /\ mem' = mem /\ held' = held /\ token' = token /\ hist' = hist
        /\ \/ /\ vis.rec = "none" /\ vis' = vis
              /\ pc' = "d_auth" /\ svc' = svc
           \/ /\ vis'.rec = "none" /\ vis'.draft = Absent /\ vis'.final = Absent
              /\ pc' = "d_rec_sync" /\ svc' = svc
           \/ /\ vis.rec # "none" /\ vis'.rec # "none"
              /\ (vis'.rec = "accepted" => vis.rec = "accepted")
              /\ GivenUp
    <3>1. Entries(WithoutResult(vis), vis.tree, vis.marker, "none", "none", "none", Absent,
                  Absent,
                  vis.del)
      BY <1>0, WithoutResultEntries
    <3>2. \A w \in Ruined(vis) :
            /\ w.tree = vis.tree /\ w.marker = vis.marker /\ w.del = vis.del
            /\ w.rec = "none" <=> vis.rec = "none"
            /\ w.rec = "accepted" => vis.rec = "accepted"
            /\ w.draft \in {Absent, vis.draft} /\ w.final \in {Absent, vis.final}
      BY <1>0, RuinedEntries
    <3>3. Fail => GivenUp
      BY DEF Fail, Goto
    <3>. QED BY <1>8, <3>1, <3>2, <3>3 DEF DeleteResult, Goto, Change, files, quietDelete
  <2>2. OwnerInv'
    BY <1>0, <1>a, <1>b, <2>1
       DEF OwnerInv, Nested, StepInv
  <2>3. OutcomeInv'
    BY <1>0, <1>a, <1>b, <2>1, BodyFacts
       DEF BodyInv, BodySteps, StepInv, KeptInv, FilesInv, Safe, OwnerInv, Nested,
           OutcomeInv, Unprepared, Blank, Bodies, Agree
  <2>4. CancelInv'
    BY <1>0, <1>a, <1>b, <2>1, Outcomes
       DEF BodyInv, KeptInv, FilesInv, Safe, StepInv, OwnerInv, OutcomeInv, Unprepared,
           Blank, Bodies, CancelInv
  <2>5. DurableInv'
    BY <1>0, <1>a, <1>b, <2>1, BodyFacts
       DEF StepInv, KeptInv, ClaimInv, FilesInv, Safe, OwnerInv, Nested, OutcomeInv,
           Unprepared, Blank, Bodies, DurableInv
  <2>6. OutcomeStays
    BY <1>0, <1>a, <1>b, <2>1, Outcomes, BodyFacts
       DEF OwnerInv, Nested, StepInv, KeptInv, FilesInv, Safe, OutcomeInv, Unprepared,
           Blank, Bodies, Agree, OutcomeStays, TerminalStays, OutcomeStands
  <2>. QED BY <2>2, <2>3, <2>4, <2>5, <2>6 DEF SecondInv
<1>9. CASE DeleteResultSync
  <2>1. /\ vis' = vis
        /\ pc = "d_rec_sync"
        /\ cpc' = cpc /\ mem' = mem /\ held' = held /\ token' = token /\ hist' = hist
        /\ \/ SyncedRecords(dur', dur, vis') /\ pc' = "d_auth" /\ svc' = svc
           \/ SyncFails /\ dur' = dur /\ GivenUp
    BY <1>0, <1>a, <1>9, SyncRecordsEntries
       DEF DeleteResultSync, Goto, Barrier, Fail, files, quietDelete, Files
  <2>2. OwnerInv'
    BY <1>0, <1>a, <1>b, <2>1
       DEF OwnerInv, Nested, StepInv
  <2>3. OutcomeInv'
    BY <1>0, <1>a, <1>b, <2>1, BodyFacts
       DEF BodyInv, BodySteps, StepInv, KeptInv, FilesInv, Safe, OwnerInv, Nested,
           OutcomeInv, Unprepared, Blank, Bodies, Agree
  <2>4. CancelInv'
    BY <1>0, <1>a, <1>b, <2>1, Outcomes
       DEF BodyInv, KeptInv, FilesInv, Safe, StepInv, OwnerInv, OutcomeInv, Unprepared,
           Blank, Bodies, CancelInv
  <2>5. DurableInv'
    BY <1>0, <1>a, <1>b, <2>1, BodyFacts
       DEF StepInv, KeptInv, ClaimInv, FilesInv, Safe, OwnerInv, Nested, OutcomeInv,
           Unprepared, Blank, Bodies, DurableInv, SyncFails
  <2>6. OutcomeStays
    BY <1>0, <1>a, <1>b, <2>1, Outcomes, BodyFacts
       DEF OwnerInv, Nested, StepInv, KeptInv, FilesInv, Safe, OutcomeInv, Unprepared,
           Blank, Bodies, Agree, OutcomeStays, TerminalStays, OutcomeStands
  <2>. QED BY <2>2, <2>3, <2>4, <2>5, <2>6 DEF SecondInv
<1>10. CASE DeleteAuthority
  <2>1. /\ Entries(vis', vis.tree, vis.marker, vis.rec, vis.cancel, vis.bundle, vis.draft,
                   vis.final, vis'.del)
        /\ vis'.progress = vis.progress
        /\ dur' = dur
        /\ pc = "d_auth"
        /\ cpc' = cpc /\ mem' = mem /\ held' = held /\ token' = token /\ hist' = hist
        /\ (pc' = "d_auth_sync" /\ svc' = svc) \/ GivenUp
    BY <1>0, <1>a, <1>10
       DEF DeleteAuthority, Goto, Change, Fail, files, quietDelete, Files
  <2>2. OwnerInv'
    BY <1>0, <1>a, <1>b, <2>1
       DEF OwnerInv, Nested, StepInv
  <2>3. OutcomeInv'
    BY <1>0, <1>a, <1>b, <2>1, BodyFacts
       DEF BodyInv, BodySteps, StepInv, KeptInv, FilesInv, Safe, OwnerInv, Nested,
           OutcomeInv, Unprepared, Blank, Bodies, Agree
  <2>4. CancelInv'
    BY <1>0, <1>a, <1>b, <2>1, Outcomes
       DEF BodyInv, KeptInv, FilesInv, Safe, StepInv, OwnerInv, OutcomeInv, Unprepared,
           Blank, Bodies, CancelInv
  <2>5. DurableInv'
    BY <1>0, <1>a, <1>b, <2>1, BodyFacts
       DEF StepInv, KeptInv, ClaimInv, FilesInv, Safe, OwnerInv, Nested, OutcomeInv,
           Unprepared, Blank, Bodies, DurableInv
  <2>6. OutcomeStays
    BY <1>0, <1>a, <1>b, <2>1, Outcomes, BodyFacts
       DEF OwnerInv, Nested, StepInv, KeptInv, FilesInv, Safe, OutcomeInv, Unprepared,
           Blank, Bodies, Agree, OutcomeStays, TerminalStays, OutcomeStands
  <2>. QED BY <2>2, <2>3, <2>4, <2>5, <2>6 DEF SecondInv
<1>11. CASE DeleteDone
  <2>1. /\ vis' = vis
        /\ pc = "d_auth_sync"
        /\ cpc' = cpc /\ mem' = mem /\ token' = token
        /\ \/ /\ SyncedRecords(dur', dur, vis')
              /\ IF svc = "boot"
                 THEN pc' = "b_check" /\ svc' = svc /\ held' = held /\ hist' = hist
                 ELSE pc' = "idle" /\ svc' = svc /\ hist' = hist \cup {"deleted"}
           \/ SyncFails /\ dur' = dur /\ held' = held /\ hist' = hist /\ GivenUp
    <3>1. SyncedRecords(SyncRecords(dur, vis), dur, vis)
      BY <1>0, SyncRecordsEntries
    <3>2. Fail => GivenUp
      BY DEF Fail, Goto
    <3>3. vis' = vis
      BY <1>11 DEF DeleteDone, Barrier, files
    <3>. QED BY <1>11, <3>1, <3>2, <3>3 DEF DeleteDone, Goto, Barrier, files, quietDelete
  <2>2. OwnerInv'
    BY <1>0, <1>a, <1>b, <2>1
       DEF OwnerInv, Nested, StepInv
  <2>3. OutcomeInv'
    BY <1>0, <1>a, <1>b, <2>1, BodyFacts
       DEF BodyInv, BodySteps, StepInv, KeptInv, FilesInv, Safe, OwnerInv, Nested,
           OutcomeInv, Unprepared, Blank, Bodies, Agree
  <2>4. CancelInv'
    BY <1>0, <1>a, <1>b, <2>1, Outcomes
       DEF BodyInv, KeptInv, FilesInv, Safe, StepInv, OwnerInv, OutcomeInv, Unprepared,
           Blank, Bodies, CancelInv
  <2>5. DurableInv'
    BY <1>0, <1>a, <1>b, <2>1, BodyFacts
       DEF StepInv, KeptInv, ClaimInv, FilesInv, Safe, OwnerInv, Nested, OutcomeInv,
           Unprepared, Blank, Bodies, DurableInv, SyncFails
  <2>6. OutcomeStays
    BY <1>0, <1>a, <1>b, <2>1, Outcomes, BodyFacts
       DEF OwnerInv, Nested, StepInv, KeptInv, FilesInv, Safe, OutcomeInv, Unprepared,
           Blank, Bodies, Agree, OutcomeStays, TerminalStays, OutcomeStands
  <2>. QED BY <2>2, <2>3, <2>4, <2>5, <2>6 DEF SecondInv
<1>. QED BY <1>1, <1>2, <1>3, <1>4, <1>5, <1>6, <1>7, <1>8, <1>9, <1>10, <1>11 DEF DeleteNext

\* A step of a startup.
LEMMA RecoveryOutcome ==
    ASSUME StoreInv, EvidenceInv', RecoveryNext
    PROVE  SecondInv' /\ OutcomeStays
<1>. USE DEF Entries, SyncedTree, SyncedControl, SyncedResult, SyncedRecords, Failed, GivenUp,
            Kept, Serving, DraftSteps, SubmitSteps, RunSteps, TerminalSteps, DeleteSteps,
            BootSteps
<1>0. vis \in Files /\ dur \in Files /\ vis' \in Files /\ dur' \in Files
  BY DEF StoreInv, EvidenceInv, TypeOK
<1>a. /\ BodyInv /\ ClaimInv /\ StepInv /\ KeptInv /\ FilesInv
      /\ OwnerInv /\ OutcomeInv /\ CancelInv /\ DurableInv
  BY DEF StoreInv, SecondInv, EvidenceInv
<1>b. /\ vis.draft \in Body \cup {Absent, Torn} /\ dur.draft \in Body \cup {Absent, Torn}
      /\ vis.final \in Body \cup {Absent} /\ dur.final \in Body \cup {Absent}
  BY <1>0 DEF Files
<1>1. CASE Boot
  <2>1. /\ vis' = vis
        /\ dur' = dur
        /\ svc \in {"down", "refused"} /\ svc' = "boot" /\ pc' = "b_delete"
        /\ cpc' = cpc /\ mem' = mem /\ held' = held /\ token' = token /\ hist' = hist
    BY <1>0, <1>a, <1>1
       DEF Boot, files, quietBoot, memory, Files
  <2>2. OwnerInv'
    BY <1>0, <1>a, <1>b, <2>1
       DEF OwnerInv, Nested, StepInv
  <2>3. OutcomeInv'
    BY <1>0, <1>a, <1>b, <2>1, BodyFacts
       DEF BodyInv, BodySteps, StepInv, KeptInv, FilesInv, Safe, OwnerInv, Nested,
           OutcomeInv, Unprepared, Blank, Bodies, Agree
  <2>4. CancelInv'
    BY <1>0, <1>a, <1>b, <2>1, Outcomes
       DEF BodyInv, KeptInv, FilesInv, Safe, StepInv, OwnerInv, OutcomeInv, Unprepared,
           Blank, Bodies, CancelInv
  <2>5. DurableInv'
    BY <1>0, <1>a, <1>b, <2>1, BodyFacts
       DEF StepInv, KeptInv, ClaimInv, FilesInv, Safe, OwnerInv, Nested, OutcomeInv,
           Unprepared, Blank, Bodies, DurableInv
  <2>6. OutcomeStays
    BY <1>0, <1>a, <1>b, <2>1, Outcomes, BodyFacts
       DEF OwnerInv, Nested, StepInv, KeptInv, FilesInv, Safe, OutcomeInv, Unprepared,
           Blank, Bodies, Agree, OutcomeStays, TerminalStays, OutcomeStands
  <2>. QED BY <2>2, <2>3, <2>4, <2>5, <2>6 DEF SecondInv
<1>2. CASE BootDelete
  <2>1. /\ Entries(vis', vis.tree, vis.marker, vis.rec, vis.cancel, vis.bundle, vis.draft,
                   vis.final, vis'.del)
        /\ vis'.progress = vis.progress
        /\ (dur' = dur \/ SyncedRecords(dur', dur, vis'))
        /\ pc = "b_delete"
        /\ cpc' = cpc /\ mem' = mem /\ held' = held /\ token' = token /\ hist' = hist
        /\ \/ pc' \in {"d_tree", "b_check"} /\ svc' = svc
           \/ GivenUp
    <3>1. SyncedRecords(SyncRecords(dur, vis'), dur, vis')
      BY <1>0, SyncRecordsEntries
    <3>2. Fail => GivenUp
      BY DEF Fail, Goto
    <3>3. /\ vis' = vis \/ vis' = [vis EXCEPT !.del = "none"]
          /\ dur' = SyncRecords(dur, vis') \/ dur' = dur
          /\ (pc' \in {"d_tree", "b_check"} /\ svc' = svc) \/ Fail
      BY <1>2 DEF BootDelete, Goto, files
    <3>4. pc = "b_delete" /\ cpc' = cpc /\ mem' = mem /\ held' = held /\ token' = token
          /\ hist' = hist
      BY <1>2 DEF BootDelete, quietBoot, memory
    <3>5. Entries(vis', vis.tree, vis.marker, vis.rec, vis.cancel, vis.bundle, vis.draft,
                  vis.final,
                  vis'.del)
          /\ vis'.progress = vis.progress
      BY <1>0, <3>3 DEF Files
    <3>. QED BY <3>1, <3>2, <3>3, <3>4, <3>5
  <2>2. OwnerInv'
    BY <1>0, <1>a, <1>b, <2>1
       DEF OwnerInv, Nested, StepInv
  <2>3. OutcomeInv'
    BY <1>0, <1>a, <1>b, <2>1, BodyFacts
       DEF BodyInv, BodySteps, StepInv, KeptInv, FilesInv, Safe, OwnerInv, Nested,
           OutcomeInv, Unprepared, Blank, Bodies, Agree
  <2>4. CancelInv'
    BY <1>0, <1>a, <1>b, <2>1, Outcomes
       DEF BodyInv, KeptInv, FilesInv, Safe, StepInv, OwnerInv, OutcomeInv, Unprepared,
           Blank, Bodies, CancelInv
  <2>5. DurableInv'
    BY <1>0, <1>a, <1>b, <2>1, BodyFacts
       DEF StepInv, KeptInv, ClaimInv, FilesInv, Safe, OwnerInv, Nested, OutcomeInv,
           Unprepared, Blank, Bodies, DurableInv
  <2>6. OutcomeStays
    BY <1>0, <1>a, <1>b, <2>1, Outcomes, BodyFacts
       DEF OwnerInv, Nested, StepInv, KeptInv, FilesInv, Safe, OutcomeInv, Unprepared,
           Blank, Bodies, Agree, OutcomeStays, TerminalStays, OutcomeStands
  <2>. QED BY <2>2, <2>3, <2>4, <2>5, <2>6 DEF SecondInv
<1>3. CASE BootCheck
  <2>1. /\ vis' = vis
        /\ dur' = dur
        /\ pc = "b_check"
        /\ cpc' = cpc /\ mem' = mem /\ held' = held /\ token' = token /\ hist' = hist
        /\ (pc' = "b_accept" /\ svc' = svc) \/ (pc' = "none" /\ svc' = "refused")
    BY <1>0, <1>a, <1>3
       DEF BootCheck, Goto, Refuse, files, quietBoot, memory, Files
  <2>2. OwnerInv'
    BY <1>0, <1>a, <1>b, <2>1
       DEF OwnerInv, Nested, StepInv
  <2>3. OutcomeInv'
    BY <1>0, <1>a, <1>b, <2>1, BodyFacts
       DEF BodyInv, BodySteps, StepInv, KeptInv, FilesInv, Safe, OwnerInv, Nested,
           OutcomeInv, Unprepared, Blank, Bodies, Agree
  <2>4. CancelInv'
    BY <1>0, <1>a, <1>b, <2>1, Outcomes
       DEF BodyInv, KeptInv, FilesInv, Safe, StepInv, OwnerInv, OutcomeInv, Unprepared,
           Blank, Bodies, CancelInv
  <2>5. DurableInv'
    BY <1>0, <1>a, <1>b, <2>1, BodyFacts
       DEF StepInv, KeptInv, ClaimInv, FilesInv, Safe, OwnerInv, Nested, OutcomeInv,
           Unprepared, Blank, Bodies, DurableInv
  <2>6. OutcomeStays
    BY <1>0, <1>a, <1>b, <2>1, Outcomes, BodyFacts
       DEF OwnerInv, Nested, StepInv, KeptInv, FilesInv, Safe, OutcomeInv, Unprepared,
           Blank, Bodies, Agree, OutcomeStays, TerminalStays, OutcomeStands
  <2>. QED BY <2>2, <2>3, <2>4, <2>5, <2>6 DEF SecondInv
<1>4. CASE BootAccept
  <2>1. /\ vis' = vis
        /\ dur' = dur
        /\ pc = "b_accept"
        /\ cpc' = cpc /\ mem' = mem /\ held' = held /\ token' = token /\ hist' = hist
        /\ \/ pc' = "b_open" /\ vis.rec = "accepted" /\ svc' = svc
           \/ pc' \in {"b_undo", "b_final"} /\ svc' = svc
           \/ (pc' = "none" /\ svc' = "refused")
    BY <1>0, <1>a, <1>4
       DEF BootAccept, Uncommitted, Goto, Refuse, files, quietBoot, memory, Files
  <2>2. OwnerInv'
    BY <1>0, <1>a, <1>b, <2>1
       DEF OwnerInv, Nested, StepInv
  <2>3. OutcomeInv'
    BY <1>0, <1>a, <1>b, <2>1, BodyFacts
       DEF BodyInv, BodySteps, StepInv, KeptInv, FilesInv, Safe, OwnerInv, Nested,
           OutcomeInv, Unprepared, Blank, Bodies, Agree
  <2>4. CancelInv'
    BY <1>0, <1>a, <1>b, <2>1, Outcomes
       DEF BodyInv, KeptInv, FilesInv, Safe, StepInv, OwnerInv, OutcomeInv, Unprepared,
           Blank, Bodies, CancelInv
  <2>5. DurableInv'
    BY <1>0, <1>a, <1>b, <2>1, BodyFacts
       DEF StepInv, KeptInv, ClaimInv, FilesInv, Safe, OwnerInv, Nested, OutcomeInv,
           Unprepared, Blank, Bodies, DurableInv
  <2>6. OutcomeStays
    BY <1>0, <1>a, <1>b, <2>1, Outcomes, BodyFacts
       DEF OwnerInv, Nested, StepInv, KeptInv, FilesInv, Safe, OutcomeInv, Unprepared,
           Blank, Bodies, Agree, OutcomeStays, TerminalStays, OutcomeStands
  <2>. QED BY <2>2, <2>3, <2>4, <2>5, <2>6 DEF SecondInv
<1>5. CASE BootUndo
  <2>1. /\ Entries(vis', vis'.tree, vis'.marker, vis.rec, vis.cancel, vis.bundle, vis.draft,
                   vis.final, vis.del)
        /\ vis'.progress = vis.progress
        /\ dur' = dur
        /\ pc = "b_undo"
        /\ cpc' = cpc /\ mem' = mem /\ held' = held /\ token' = token /\ hist' = hist
        /\ \/ /\ vis.tree = "none" /\ vis' = vis
              /\ pc' = "b_undo_rec" /\ svc' = svc
           \/ /\ vis'.tree = "none" /\ vis'.marker = "none"
              /\ pc' = "b_undo_sync" /\ svc' = svc
           \/ /\ vis.tree # "none" /\ vis'.tree = "partial"
              /\ vis'.marker \in {"none", vis.marker}
              /\ GivenUp
    <3>1. Entries(WithoutTree(vis), "none", "none", vis.rec, vis.cancel, vis.bundle,
                  vis.draft,
                  vis.final, vis.del)
          /\ WithoutTree(vis).progress = vis.progress
      BY <1>0, WithoutTreeEntries
    <3>2. \A w \in Damaged(vis) :
            /\ Entries(w, "partial", w.marker, vis.rec, vis.cancel, vis.bundle, vis.draft,
                       vis.final, vis.del)
            /\ w.marker \in {"none", vis.marker} /\ w.progress = vis.progress
      BY <1>0, DamagedEntries
    <3>3. Fail => GivenUp
      BY DEF Fail, Goto
    <3>. QED BY <1>5, <3>1, <3>2, <3>3 DEF BootUndo, Goto, Change, files, quietBoot, memory
  <2>2. OwnerInv'
    BY <1>0, <1>a, <1>b, <2>1
       DEF OwnerInv, Nested, StepInv
  <2>3. OutcomeInv'
    BY <1>0, <1>a, <1>b, <2>1, BodyFacts
       DEF BodyInv, BodySteps, StepInv, KeptInv, FilesInv, Safe, OwnerInv, Nested,
           OutcomeInv, Unprepared, Blank, Bodies, Agree
  <2>4. CancelInv'
    BY <1>0, <1>a, <1>b, <2>1, Outcomes
       DEF BodyInv, KeptInv, FilesInv, Safe, StepInv, OwnerInv, OutcomeInv, Unprepared,
           Blank, Bodies, CancelInv
  <2>5. DurableInv'
    BY <1>0, <1>a, <1>b, <2>1, BodyFacts
       DEF StepInv, KeptInv, ClaimInv, FilesInv, Safe, OwnerInv, Nested, OutcomeInv,
           Unprepared, Blank, Bodies, DurableInv
  <2>6. OutcomeStays
    BY <1>0, <1>a, <1>b, <2>1, Outcomes, BodyFacts
       DEF OwnerInv, Nested, StepInv, KeptInv, FilesInv, Safe, OutcomeInv, Unprepared,
           Blank, Bodies, Agree, OutcomeStays, TerminalStays, OutcomeStands
  <2>. QED BY <2>2, <2>3, <2>4, <2>5, <2>6 DEF SecondInv
<1>6. CASE BootUndoSync
  <2>1. /\ vis' = vis
        /\ pc = "b_undo_sync"
        /\ cpc' = cpc /\ mem' = mem /\ held' = held /\ token' = token /\ hist' = hist
        /\ \/ SyncedTree(dur', dur, vis') /\ pc' = "b_undo_rec" /\ svc' = svc
           \/ SyncFails /\ dur' = dur /\ GivenUp
    BY <1>0, <1>a, <1>6, SyncSessionsEntries
       DEF BootUndoSync, Goto, Barrier, Fail, files, quietBoot, memory, Files
  <2>2. OwnerInv'
    BY <1>0, <1>a, <1>b, <2>1
       DEF OwnerInv, Nested, StepInv
  <2>3. OutcomeInv'
    BY <1>0, <1>a, <1>b, <2>1, BodyFacts
       DEF BodyInv, BodySteps, StepInv, KeptInv, FilesInv, Safe, OwnerInv, Nested,
           OutcomeInv, Unprepared, Blank, Bodies, Agree
  <2>4. CancelInv'
    BY <1>0, <1>a, <1>b, <2>1, Outcomes
       DEF BodyInv, KeptInv, FilesInv, Safe, StepInv, OwnerInv, OutcomeInv, Unprepared,
           Blank, Bodies, CancelInv
  <2>5. DurableInv'
    BY <1>0, <1>a, <1>b, <2>1, BodyFacts
       DEF StepInv, KeptInv, ClaimInv, FilesInv, Safe, OwnerInv, Nested, OutcomeInv,
           Unprepared, Blank, Bodies, DurableInv, SyncFails
  <2>6. OutcomeStays
    BY <1>0, <1>a, <1>b, <2>1, Outcomes, BodyFacts
       DEF OwnerInv, Nested, StepInv, KeptInv, FilesInv, Safe, OutcomeInv, Unprepared,
           Blank, Bodies, Agree, OutcomeStays, TerminalStays, OutcomeStands
  <2>. QED BY <2>2, <2>3, <2>4, <2>5, <2>6 DEF SecondInv
<1>7. CASE BootUndoResult
  <2>1. /\ vis'.tree = vis.tree /\ vis'.marker = vis.marker /\ vis'.del = vis.del
        /\ vis'.draft \in {Absent, vis.draft} /\ vis'.final \in {Absent, vis.final}
        /\ (dur' = dur \/ SyncedRecords(dur', dur, vis'))
        /\ pc = "b_undo_rec"
        /\ cpc' = cpc /\ mem' = mem /\ held' = held /\ token' = token /\ hist' = hist
        /\ (vis'.rec = "accepted" => vis.rec = "accepted")
        /\ (vis.rec = "none" => vis'.rec = "none")
        /\ (vis'.rec = "none" => vis'.draft = Absent /\ vis'.final = Absent)
        /\ (pc' = "b_final" /\ svc' = svc) \/ GivenUp
    <3>1. Entries(WithoutResult(vis), vis.tree, vis.marker, "none", "none", "none", Absent,
                  Absent,
                  vis.del)
      BY <1>0, WithoutResultEntries
    <3>2. \A w \in Ruined(vis) :
            /\ w.tree = vis.tree /\ w.marker = vis.marker /\ w.del = vis.del
            /\ w.rec = "none" <=> vis.rec = "none"
            /\ w.rec = "accepted" => vis.rec = "accepted"
            /\ w.draft \in {Absent, vis.draft} /\ w.final \in {Absent, vis.final}
      BY <1>0, RuinedEntries
    <3>3. Fail => GivenUp
      BY DEF Fail, Goto
    <3>4. SyncedRecords(SyncRecords(dur, vis'), dur, vis')
      BY <1>0, SyncRecordsEntries
    <3>5. /\ vis' = WithoutResult(vis) \/ vis' \in Ruined(vis)
          /\ dur' = SyncRecords(dur, vis') \/ dur' = dur
          /\ (pc' = "b_final" /\ svc' = svc) \/ Fail
      BY <1>7 DEF BootUndoResult, Goto, Change
    <3>6. pc = "b_undo_rec" /\ cpc' = cpc /\ mem' = mem /\ held' = held /\ token' = token
          /\ hist' = hist
      BY <1>7 DEF BootUndoResult, quietBoot, memory
    <3>7. /\ vis.rec = "none" => vis.draft = Absent /\ vis.final = Absent
      BY <1>a DEF OwnerInv, Nested
    <3>. QED BY <3>1, <3>2, <3>3, <3>4, <3>5, <3>6, <3>7
  <2>2. OwnerInv'
    BY <1>0, <1>a, <1>b, <2>1
       DEF OwnerInv, Nested, StepInv
  <2>3. OutcomeInv'
    BY <1>0, <1>a, <1>b, <2>1, BodyFacts
       DEF BodyInv, BodySteps, StepInv, KeptInv, FilesInv, Safe, OwnerInv, Nested,
           OutcomeInv, Unprepared, Blank, Bodies, Agree
  <2>4. CancelInv'
    BY <1>0, <1>a, <1>b, <2>1, Outcomes
       DEF BodyInv, KeptInv, FilesInv, Safe, StepInv, OwnerInv, OutcomeInv, Unprepared,
           Blank, Bodies, CancelInv
  <2>5. DurableInv'
    BY <1>0, <1>a, <1>b, <2>1, BodyFacts
       DEF StepInv, KeptInv, ClaimInv, FilesInv, Safe, OwnerInv, Nested, OutcomeInv,
           Unprepared, Blank, Bodies, DurableInv
  <2>6. OutcomeStays
    BY <1>0, <1>a, <1>b, <2>1, Outcomes, BodyFacts
       DEF OwnerInv, Nested, StepInv, KeptInv, FilesInv, Safe, OutcomeInv, Unprepared,
           Blank, Bodies, Agree, OutcomeStays, TerminalStays, OutcomeStands
  <2>. QED BY <2>2, <2>3, <2>4, <2>5, <2>6 DEF SecondInv
<1>8. CASE BootCancel
  <2>1. /\ Entries(vis', vis.tree, vis.marker, vis.rec, vis'.cancel, vis.bundle, vis.draft,
                   vis.final, vis.del)
        /\ vis'.progress = vis.progress
        /\ (vis.cancel # "next" => vis'.cancel = vis.cancel)
        /\ (SyncedResult(dur', dur, vis') \/ dur' = dur)
        /\ pc = "b_cancel"
        /\ cpc' = cpc /\ mem' = mem /\ held' = held /\ token' = token /\ hist' = hist
        /\ \/ pc' \in {"b_final", "b_resume", "b_recover"} /\ svc' = svc
           \/ GivenUp
    <3>1. SyncedResult(SyncResult(dur, vis'), dur, vis')
      BY <1>0, SyncResultEntries
    <3>2. Fail => GivenUp
      BY DEF Fail, Goto
    <3>3. /\ vis' = vis \/ vis' = [vis EXCEPT !.cancel = IF @ = "next" THEN "none" ELSE @]
          /\ dur' = SyncResult(dur, vis') \/ dur' = dur
          /\ (pc' \in {"b_final", "b_resume", "b_recover"} /\ svc' = svc) \/ Fail
      BY <1>8 DEF BootCancel, Goto, files
    <3>4. pc = "b_cancel" /\ cpc' = cpc /\ mem' = mem /\ held' = held /\ token' = token
          /\ hist' = hist
      BY <1>8 DEF BootCancel, quietBoot, memory
    <3>5. /\ Entries(vis', vis.tree, vis.marker, vis.rec, vis'.cancel, vis.bundle, vis.draft,
                     vis.final, vis.del)
          /\ vis'.progress = vis.progress
          /\ vis.cancel # "next" => vis'.cancel = vis.cancel
      BY <1>0, <3>3 DEF Files
    <3>. QED BY <3>1, <3>2, <3>3, <3>4, <3>5
  <2>2. OwnerInv'
    BY <1>0, <1>a, <1>b, <2>1
       DEF OwnerInv, Nested, StepInv
  <2>3. OutcomeInv'
    BY <1>0, <1>a, <1>b, <2>1, BodyFacts
       DEF BodyInv, BodySteps, StepInv, KeptInv, FilesInv, Safe, OwnerInv, Nested,
           OutcomeInv, Unprepared, Blank, Bodies, Agree
  <2>4. CancelInv'
    BY <1>0, <1>a, <1>b, <2>1, Outcomes
       DEF BodyInv, KeptInv, FilesInv, Safe, StepInv, OwnerInv, OutcomeInv, Unprepared,
           Blank, Bodies, CancelInv
  <2>5. DurableInv'
    BY <1>0, <1>a, <1>b, <2>1, BodyFacts
       DEF StepInv, KeptInv, ClaimInv, FilesInv, Safe, OwnerInv, Nested, OutcomeInv,
           Unprepared, Blank, Bodies, DurableInv
  <2>6. OutcomeStays
    BY <1>0, <1>a, <1>b, <2>1, Outcomes, BodyFacts
       DEF OwnerInv, Nested, StepInv, KeptInv, FilesInv, Safe, OutcomeInv, Unprepared,
           Blank, Bodies, Agree, OutcomeStays, TerminalStays, OutcomeStands
  <2>. QED BY <2>2, <2>3, <2>4, <2>5, <2>6 DEF SecondInv
<1>9. CASE BootResume
  <2>1. /\ vis' = vis
        /\ pc = "b_resume"
        /\ cpc' = cpc /\ held' = held /\ token' = token /\ hist' = hist
        /\ \/ /\ SyncedResult(dur', dur, vis) /\ mem' = vis.draft
              /\ pc' = "finish" /\ svc' = svc
           \/ dur' = dur /\ mem' = mem /\ (GivenUp \/ (pc' = "none" /\ svc' = "refused"))
    BY <1>0, <1>a, <1>9, SyncResultEntries
       DEF BootResume, Goto, Barrier, Fail, Refuse, files, Files
  <2>2. OwnerInv'
    BY <1>0, <1>a, <1>b, <2>1
       DEF OwnerInv, Nested, StepInv
  <2>3. OutcomeInv'
    BY <1>0, <1>a, <1>b, <2>1, BodyFacts
       DEF BodyInv, BodySteps, StepInv, KeptInv, FilesInv, Safe, OwnerInv, Nested,
           OutcomeInv, Unprepared, Blank, Bodies, Agree
  <2>4. CancelInv'
    BY <1>0, <1>a, <1>b, <2>1, Outcomes
       DEF BodyInv, KeptInv, FilesInv, Safe, StepInv, OwnerInv, OutcomeInv, Unprepared,
           Blank, Bodies, CancelInv
  <2>5. DurableInv'
    BY <1>0, <1>a, <1>b, <2>1, BodyFacts
       DEF StepInv, KeptInv, ClaimInv, FilesInv, Safe, OwnerInv, Nested, OutcomeInv,
           Unprepared, Blank, Bodies, DurableInv
  <2>6. OutcomeStays
    BY <1>0, <1>a, <1>b, <2>1, Outcomes, BodyFacts
       DEF OwnerInv, Nested, StepInv, KeptInv, FilesInv, Safe, OutcomeInv, Unprepared,
           Blank, Bodies, Agree, OutcomeStays, TerminalStays, OutcomeStands
  <2>. QED BY <2>2, <2>3, <2>4, <2>5, <2>6 DEF SecondInv
<1>10. CASE BootRecover
  <2>1. /\ Entries(vis', vis'.tree, vis.marker, vis.rec, vis.cancel, vis.bundle, vis.draft,
                   vis.final, vis.del)
        /\ pc = "b_recover"
        /\ cpc' = cpc /\ held' = held /\ token' = token /\ hist' = hist
        /\ \/ /\ vis'.tree = "full" /\ dur'.tree # "none"
              /\ Entries(dur', dur'.tree, dur'.marker, vis.rec, vis.cancel, vis.bundle,
                         vis.draft,
                         vis.final, dur.del)
              /\ (vis.marker # "none" => dur'.marker = dur.marker)
              /\ (vis.cancel = "intent" => mem'.status = "cancelled")
              /\ pc' = "teardown" /\ svc' = svc
           \/ /\ vis'.tree = vis.tree /\ (SyncedResult(dur', dur, vis') \/ dur' = dur)
              /\ mem' = mem
              /\ GivenUp \/ (pc' = "none" /\ svc' = "refused")
    <3>1. CASE pc' # "teardown"
      <4>1. /\ pc = "b_recover" /\ cpc' = cpc /\ held' = held /\ token' = token
            /\ hist' = hist /\ mem' = mem
            /\ GivenUp \/ (pc' = "none" /\ svc' = "refused")
            /\ UNCHANGED files \/ PublishFails(vis)
        BY <1>10, <3>1 DEF BootRecover, Refuse, Fail, Goto
      <4>2. CASE UNCHANGED files
        BY <4>1, <4>2 DEF files
      <4>3. CASE PublishFails(vis)
        <5>1. /\ Entries(vis', vis.tree, vis.marker, vis.rec, vis.cancel, vis.bundle, vis.draft,
                         vis.final, vis.del)
              /\ SyncedResult(dur', dur, vis') \/ dur' = dur
          BY <1>0, <4>3, PublicationEntries
        <5>. QED BY <4>1, <5>1
      <4>. QED BY <4>1, <4>2, <4>3
    <3>2. CASE pc' = "teardown"
      <4>1. /\ vis' = [vis EXCEPT !.tree = "full", !.progress = "agrees"]
            /\ dur' = SyncResult(IF vis.tree = "none" THEN SyncSessions(dur, vis') ELSE dur, vis')
            /\ mem'.status = IF vis.cancel = "intent" THEN "cancelled" ELSE "ended"
            /\ pc = "b_recover" /\ svc' = svc
            /\ cpc' = cpc /\ held' = held /\ token' = token /\ hist' = hist
        BY <1>10, <3>2 DEF BootRecover, Refuse, Fail, Goto
      <4>2. Entries(vis', "full", vis.marker, vis.rec, vis.cancel, vis.bundle, vis.draft,
                    vis.final, vis.del)
        BY <1>0, <4>1 DEF Files
      <4>3. PICK d \in Files : /\ dur' = SyncResult(d, vis')
                               /\ d.tree # "none" /\ d.del = dur.del
                               /\ vis.marker # "none" => d.marker = dur.marker
        <5>1. CASE vis.tree = "none"
          <6>1. SyncSessions(dur, vis') \in Files /\ SyncedTree(SyncSessions(dur, vis'), dur, vis')
            BY <1>0, SyncTypes, SyncSessionsEntries
          <6>. QED BY <4>1, <4>2, <5>1, <6>1
        <5>2. CASE vis.tree # "none"
          BY <1>0, <1>a, <4>1, <5>2 DEF OwnerInv
        <5>. QED BY <5>1, <5>2
      <4>4. SyncedResult(dur', d, vis')
        BY <1>0, <4>3, SyncResultEntries
      <4>5. Entries(dur', dur'.tree, dur'.marker, vis.rec, vis.cancel, vis.bundle, vis.draft,
                    vis.final, dur.del)
        BY <4>2, <4>3, <4>4
      <4>6. dur'.tree # "none" /\ (vis.marker # "none" => dur'.marker = dur.marker)
        BY <4>3, <4>4
      <4>7. /\ vis.cancel = "intent" => mem'.status = "cancelled"
            /\ pc = "b_recover" /\ svc' = svc
            /\ cpc' = cpc /\ held' = held /\ token' = token /\ hist' = hist
        BY <4>1
      <4>. QED BY <3>2, <4>2, <4>5, <4>6, <4>7
    <3>. QED BY <3>1, <3>2
  <2>2. OwnerInv'
    BY <1>0, <1>a, <1>b, <2>1
       DEF OwnerInv, Nested, StepInv
  <2>3. OutcomeInv'
    BY <1>0, <1>a, <1>b, <2>1, BodyFacts
       DEF BodyInv, BodySteps, StepInv, KeptInv, FilesInv, Safe, OwnerInv, Nested,
           OutcomeInv, Unprepared, Blank, Bodies, Agree
  <2>4. CancelInv'
    BY <1>0, <1>a, <1>b, <2>1, Outcomes
       DEF BodyInv, KeptInv, FilesInv, Safe, StepInv, OwnerInv, OutcomeInv, Unprepared,
           Blank, Bodies, CancelInv
  <2>5. DurableInv'
    BY <1>0, <1>a, <1>b, <2>1, BodyFacts
       DEF StepInv, KeptInv, ClaimInv, FilesInv, Safe, OwnerInv, Nested, OutcomeInv,
           Unprepared, Blank, Bodies, DurableInv
  <2>6. OutcomeStays
    BY <1>0, <1>a, <1>b, <2>1, Outcomes, BodyFacts
       DEF OwnerInv, Nested, StepInv, KeptInv, FilesInv, Safe, OutcomeInv, Unprepared,
           Blank, Bodies, Agree, OutcomeStays, TerminalStays, OutcomeStands
  <2>. QED BY <2>2, <2>3, <2>4, <2>5, <2>6 DEF SecondInv
<1>11. CASE BootFinal
  <2>1. /\ vis' = vis
        /\ pc = "b_final"
        /\ cpc' = cpc /\ mem' = mem /\ held' = held /\ token' = token /\ hist' = hist
        /\ \/ /\ vis.final = Absent /\ vis.draft = Absent /\ dur' = dur
              /\ pc' = "b_state" /\ svc' = svc
           \/ /\ vis.final # Absent /\ SyncedResult(dur', dur, vis)
              /\ pc' = (IF vis.draft = Absent THEN "b_state" ELSE "b_unlink") /\ svc' = svc
           \/ dur' = dur /\ (GivenUp \/ (pc' = "none" /\ svc' = "refused"))
    BY <1>0, <1>a, <1>11, SyncResultEntries
       DEF BootFinal, Goto, Barrier, Fail, Refuse, files, quietBoot, memory, Files
  <2>2. OwnerInv'
    BY <1>0, <1>a, <1>b, <2>1
       DEF OwnerInv, Nested, StepInv
  <2>3. OutcomeInv'
    BY <1>0, <1>a, <1>b, <2>1, BodyFacts
       DEF BodyInv, BodySteps, StepInv, KeptInv, FilesInv, Safe, OwnerInv, Nested,
           OutcomeInv, Unprepared, Blank, Bodies, Agree
  <2>4. CancelInv'
    BY <1>0, <1>a, <1>b, <2>1, Outcomes
       DEF BodyInv, KeptInv, FilesInv, Safe, StepInv, OwnerInv, OutcomeInv, Unprepared,
           Blank, Bodies, CancelInv
  <2>5. DurableInv'
    BY <1>0, <1>a, <1>b, <2>1, BodyFacts
       DEF StepInv, KeptInv, ClaimInv, FilesInv, Safe, OwnerInv, Nested, OutcomeInv,
           Unprepared, Blank, Bodies, DurableInv
  <2>6. OutcomeStays
    BY <1>0, <1>a, <1>b, <2>1, Outcomes, BodyFacts
       DEF OwnerInv, Nested, StepInv, KeptInv, FilesInv, Safe, OutcomeInv, Unprepared,
           Blank, Bodies, Agree, OutcomeStays, TerminalStays, OutcomeStands
  <2>. QED BY <2>2, <2>3, <2>4, <2>5, <2>6 DEF SecondInv
<1>12. CASE BootUnlink
  <2>1. /\ pc = "b_unlink"
        /\ dur' = dur
        /\ cpc' = cpc /\ mem' = mem /\ held' = held /\ token' = token /\ hist' = hist
        /\ \/ /\ Entries(vis', vis.tree, vis.marker, vis.rec, vis.cancel, vis.bundle, Absent,
                         vis.final, vis.del)
              /\ vis'.progress = vis.progress
              /\ pc' = "b_unlink_sync" /\ svc' = svc
           \/ vis' = vis /\ GivenUp
    BY <1>0, <1>a, <1>12
       DEF BootUnlink, Goto, Change, Fail, files, quietBoot, memory, Files
  <2>2. OwnerInv'
    BY <1>0, <1>a, <1>b, <2>1
       DEF OwnerInv, Nested, StepInv
  <2>3. OutcomeInv'
    BY <1>0, <1>a, <1>b, <2>1, BodyFacts
       DEF BodyInv, BodySteps, StepInv, KeptInv, FilesInv, Safe, OwnerInv, Nested,
           OutcomeInv, Unprepared, Blank, Bodies, Agree
  <2>4. CancelInv'
    BY <1>0, <1>a, <1>b, <2>1, Outcomes
       DEF BodyInv, KeptInv, FilesInv, Safe, StepInv, OwnerInv, OutcomeInv, Unprepared,
           Blank, Bodies, CancelInv
  <2>5. DurableInv'
    BY <1>0, <1>a, <1>b, <2>1, BodyFacts
       DEF StepInv, KeptInv, ClaimInv, FilesInv, Safe, OwnerInv, Nested, OutcomeInv,
           Unprepared, Blank, Bodies, DurableInv
  <2>6. OutcomeStays
    BY <1>0, <1>a, <1>b, <2>1, Outcomes, BodyFacts
       DEF OwnerInv, Nested, StepInv, KeptInv, FilesInv, Safe, OutcomeInv, Unprepared,
           Blank, Bodies, Agree, OutcomeStays, TerminalStays, OutcomeStands
  <2>. QED BY <2>2, <2>3, <2>4, <2>5, <2>6 DEF SecondInv
<1>13. CASE BootUnlinkSync
  <2>1. /\ vis' = vis
        /\ pc = "b_unlink_sync"
        /\ cpc' = cpc /\ mem' = mem /\ held' = held /\ token' = token /\ hist' = hist
        /\ \/ SyncedResult(dur', dur, vis) /\ pc' = "b_state" /\ svc' = svc
           \/ SyncFails /\ dur' = dur /\ GivenUp
    BY <1>0, <1>a, <1>13, SyncResultEntries
       DEF BootUnlinkSync, Goto, Barrier, Fail, files, quietBoot, memory, Files
  <2>2. OwnerInv'
    BY <1>0, <1>a, <1>b, <2>1
       DEF OwnerInv, Nested, StepInv
  <2>3. OutcomeInv'
    BY <1>0, <1>a, <1>b, <2>1, BodyFacts
       DEF BodyInv, BodySteps, StepInv, KeptInv, FilesInv, Safe, OwnerInv, Nested,
           OutcomeInv, Unprepared, Blank, Bodies, Agree
  <2>4. CancelInv'
    BY <1>0, <1>a, <1>b, <2>1, Outcomes
       DEF BodyInv, KeptInv, FilesInv, Safe, StepInv, OwnerInv, OutcomeInv, Unprepared,
           Blank, Bodies, CancelInv
  <2>5. DurableInv'
    BY <1>0, <1>a, <1>b, <2>1, BodyFacts
       DEF StepInv, KeptInv, ClaimInv, FilesInv, Safe, OwnerInv, Nested, OutcomeInv,
           Unprepared, Blank, Bodies, DurableInv, SyncFails
  <2>6. OutcomeStays
    BY <1>0, <1>a, <1>b, <2>1, Outcomes, BodyFacts
       DEF OwnerInv, Nested, StepInv, KeptInv, FilesInv, Safe, OutcomeInv, Unprepared,
           Blank, Bodies, Agree, OutcomeStays, TerminalStays, OutcomeStands
  <2>. QED BY <2>2, <2>3, <2>4, <2>5, <2>6 DEF SecondInv
<1>14. CASE BootState
  <2>1. /\ Entries(vis', vis'.tree, vis'.marker, vis.rec, vis.cancel, vis.bundle, vis.draft,
                   vis.final, vis.del)
        /\ vis'.progress = vis.progress
        /\ pc = "b_state"
        /\ cpc' = cpc /\ mem' = mem /\ held' = held /\ token' = token /\ hist' = hist
        /\ (vis'.tree = "none" => vis'.marker = "none")
        /\ (vis'.tree # "none" => vis.tree # "none" /\ vis'.marker \in {"none", vis.marker})
        /\ \/ SyncedTree(dur', dur, vis') /\ pc' = "b_results" /\ svc' = svc
           \/ SyncFails /\ dur' = dur /\ GivenUp
           \/ dur' = dur /\ (GivenUp \/ (pc' = "none" /\ svc' = "refused"))
    <3>1. Entries(WithoutTree(vis), "none", "none", vis.rec, vis.cancel, vis.bundle,
                  vis.draft,
                  vis.final, vis.del)
          /\ WithoutTree(vis).progress = vis.progress
      BY <1>0, WithoutTreeEntries
    <3>2. \A w \in Damaged(vis) :
            /\ Entries(w, "partial", w.marker, vis.rec, vis.cancel, vis.bundle, vis.draft,
                       vis.final, vis.del)
            /\ w.marker \in {"none", vis.marker} /\ w.progress = vis.progress
      BY <1>0, DamagedEntries
    <3>3. Fail => GivenUp
      BY DEF Fail, Goto
    <3>4. SyncedTree(SyncSessions(dur, vis'), dur, vis')
      BY <1>0, SyncSessionsEntries
    <3>5. /\ \/ vis' = vis \/ vis' = WithoutTree(vis)
             \/ vis.tree # "none" /\ vis' \in Damaged(vis)
          /\ \/ dur' = SyncSessions(dur, vis') /\ pc' = "b_results" /\ svc' = svc
             \/ dur' = dur /\ (Fail \/ (pc' = "none" /\ svc' = "refused"))
      BY <1>14 DEF BootState, Goto, Change, Refuse, files
    <3>6. pc = "b_state" /\ cpc' = cpc /\ mem' = mem /\ held' = held /\ token' = token
          /\ hist' = hist
      BY <1>14 DEF BootState, quietBoot, memory
    <3>7. vis.tree = "none" => vis.marker = "none"
      BY <1>a DEF OwnerInv, Nested
    <3>. QED BY <3>1, <3>2, <3>3, <3>4, <3>5, <3>6, <3>7
  <2>2. OwnerInv'
    BY <1>0, <1>a, <1>b, <2>1
       DEF OwnerInv, Nested, StepInv
  <2>3. OutcomeInv'
    BY <1>0, <1>a, <1>b, <2>1, BodyFacts
       DEF BodyInv, BodySteps, StepInv, KeptInv, FilesInv, Safe, OwnerInv, Nested,
           OutcomeInv, Unprepared, Blank, Bodies, Agree
  <2>4. CancelInv'
    BY <1>0, <1>a, <1>b, <2>1, Outcomes
       DEF BodyInv, KeptInv, FilesInv, Safe, StepInv, OwnerInv, OutcomeInv, Unprepared,
           Blank, Bodies, CancelInv
  <2>5. DurableInv'
    BY <1>0, <1>a, <1>b, <2>1, BodyFacts
       DEF StepInv, KeptInv, ClaimInv, FilesInv, Safe, OwnerInv, Nested, OutcomeInv,
           Unprepared, Blank, Bodies, DurableInv
  <2>6. OutcomeStays
    BY <1>0, <1>a, <1>b, <2>1, Outcomes, BodyFacts
       DEF OwnerInv, Nested, StepInv, KeptInv, FilesInv, Safe, OutcomeInv, Unprepared,
           Blank, Bodies, Agree, OutcomeStays, TerminalStays, OutcomeStands
  <2>. QED BY <2>2, <2>3, <2>4, <2>5, <2>6 DEF SecondInv
<1>15. CASE BootResults
  <2>1. /\ pc = "b_results"
        /\ cpc' = cpc /\ mem' = mem /\ held' = held /\ token' = token /\ hist' = hist
        /\ \/ /\ vis.final # Absent /\ vis' = vis /\ SyncedRecords(dur', dur, vis')
              /\ pc' = "idle" /\ svc' = "up"
           \/ /\ vis.final = Absent /\ vis.rec \in {"none", "dir"}
              /\ Entries(vis', vis.tree, vis.marker, "none", "none", "none", Absent, Absent,
                         vis.del)
              /\ SyncedRecords(dur', dur, vis') \/ dur' = dur
              /\ \/ SyncedRecords(dur', dur, vis') /\ pc' = "idle" /\ svc' = "up"
                 \/ GivenUp
           \/ vis' = vis /\ dur' = dur /\ (GivenUp \/ (pc' = "none" /\ svc' = "refused"))
    <3>1. Entries(WithoutResult(vis), vis.tree, vis.marker, "none", "none", "none", Absent,
                  Absent,
                  vis.del)
      BY <1>0, WithoutResultEntries
    <3>2. SyncedRecords(SyncRecords(dur, vis'), dur, vis')
      BY <1>0, SyncRecordsEntries
    <3>3. Fail => GivenUp
      BY DEF Fail, Goto
    <3>4. \/ /\ vis.final # Absent /\ vis' = vis /\ dur' = SyncRecords(dur, vis')
             /\ pc' = "idle" /\ svc' = "up"
          \/ /\ vis.final = Absent /\ EmptyResult(vis) /\ vis' = WithoutResult(vis)
             /\ \/ dur' = SyncRecords(dur, vis') /\ pc' = "idle" /\ svc' = "up"
                \/ dur' = dur /\ Fail
          \/ vis' = vis /\ dur' = dur /\ (Fail \/ (pc' = "none" /\ svc' = "refused"))
      BY <1>15 DEF BootResults, Refuse, files
    <3>5. pc = "b_results" /\ cpc' = cpc /\ mem' = mem /\ held' = held /\ token' = token
          /\ hist' = hist
      BY <1>15 DEF BootResults, quietBoot, memory
    <3>6. EmptyResult(vis) => vis.rec \in {"none", "dir"}
      BY DEF EmptyResult
    <3>. QED BY <3>1, <3>2, <3>3, <3>4, <3>5, <3>6
  <2>2. OwnerInv'
    BY <1>0, <1>a, <1>b, <2>1
       DEF OwnerInv, Nested, StepInv
  <2>3. OutcomeInv'
    BY <1>0, <1>a, <1>b, <2>1, BodyFacts
       DEF BodyInv, BodySteps, StepInv, KeptInv, FilesInv, Safe, OwnerInv, Nested,
           OutcomeInv, Unprepared, Blank, Bodies, Agree
  <2>4. CancelInv'
    BY <1>0, <1>a, <1>b, <2>1, Outcomes
       DEF BodyInv, KeptInv, FilesInv, Safe, StepInv, OwnerInv, OutcomeInv, Unprepared,
           Blank, Bodies, CancelInv
  <2>5. DurableInv'
    BY <1>0, <1>a, <1>b, <2>1, BodyFacts
       DEF StepInv, KeptInv, ClaimInv, FilesInv, Safe, OwnerInv, Nested, OutcomeInv,
           Unprepared, Blank, Bodies, DurableInv
  <2>6. OutcomeStays
    BY <1>0, <1>a, <1>b, <2>1, Outcomes, BodyFacts
       DEF OwnerInv, Nested, StepInv, KeptInv, FilesInv, Safe, OutcomeInv, Unprepared,
           Blank, Bodies, Agree, OutcomeStays, TerminalStays, OutcomeStands
  <2>. QED BY <2>2, <2>3, <2>4, <2>5, <2>6 DEF SecondInv
<1>16. CASE BootOpen
  <2>1. /\ Entries(vis', vis.tree, vis.marker, vis.rec, vis.cancel, vis.bundle, vis.draft,
                   vis.final, vis.del)
        /\ (SyncedResult(dur', dur, vis') \/ dur' = dur)
        /\ pc = "b_open"
        /\ cpc' = cpc /\ mem' = mem /\ held' = held /\ token' = token /\ hist' = hist
        /\ (pc' = "b_cancel" /\ svc' = svc) \/ GivenUp
    <3>1. SyncedResult(SyncResult(dur, vis'), dur, vis')
      BY <1>0, SyncResultEntries
    <3>2. Fail => GivenUp
      BY DEF Fail, Goto
    <3>3. /\ vis' = vis \/ vis' = [vis EXCEPT !.progress = "agrees"]
          /\ dur' = SyncResult(dur, vis') \/ dur' = dur
          /\ (pc' = "b_cancel" /\ svc' = svc) \/ Fail
          /\ pc = "b_open" /\ cpc' = cpc /\ mem' = mem /\ held' = held /\ token' = token
          /\ hist' = hist
      BY <1>16 DEF BootOpen, Goto, files, quietBoot, memory
    <3>4. Entries(vis', vis.tree, vis.marker, vis.rec, vis.cancel, vis.bundle, vis.draft,
                  vis.final, vis.del)
      BY <1>0, <3>3 DEF Files
    <3>. QED BY <3>1, <3>2, <3>3, <3>4
  <2>2. OwnerInv'
    BY <1>0, <1>a, <1>b, <2>1
       DEF OwnerInv, Nested, StepInv
  <2>3. OutcomeInv'
    BY <1>0, <1>a, <1>b, <2>1, BodyFacts
       DEF BodyInv, BodySteps, StepInv, KeptInv, FilesInv, Safe, OwnerInv, Nested,
           OutcomeInv, Unprepared, Blank, Bodies, Agree
  <2>4. CancelInv'
    BY <1>0, <1>a, <1>b, <2>1, Outcomes
       DEF BodyInv, KeptInv, FilesInv, Safe, StepInv, OwnerInv, OutcomeInv, Unprepared,
           Blank, Bodies, CancelInv
  <2>5. DurableInv'
    BY <1>0, <1>a, <1>b, <2>1, BodyFacts
       DEF StepInv, KeptInv, ClaimInv, FilesInv, Safe, OwnerInv, Nested, OutcomeInv,
           Unprepared, Blank, Bodies, DurableInv, SyncFails
  <2>6. OutcomeStays
    BY <1>0, <1>a, <1>b, <2>1, Outcomes, BodyFacts
       DEF OwnerInv, Nested, StepInv, KeptInv, FilesInv, Safe, OutcomeInv, Unprepared,
           Blank, Bodies, Agree, OutcomeStays, TerminalStays, OutcomeStands
  <2>. QED BY <2>2, <2>3, <2>4, <2>5, <2>6 DEF SecondInv
<1>. QED BY <1>1, <1>2, <1>3, <1>4, <1>5, <1>6, <1>7, <1>8, <1>9, <1>10, <1>11, <1>12,
   <1>13, <1>14, <1>15, <1>16 DEF RecoveryNext

-----------------------------------------------------------------------------
(* Failures of the process and of the machine.                             *)

\* What a power loss can leave of each entry.
LEMMA SurvivingEntries ==
    ASSUME NEW v \in Files, NEW d \in Files, NEW k \in Either(v, d)
    PROVE  /\ k \in Files
           /\ k.tree \in {d.tree, v.tree} /\ k.rec \in {d.rec, v.rec}
           /\ k.cancel \in {d.cancel, v.cancel}
           /\ k.final \in {d.final, v.final}
           /\ k.draft \in {d.draft, v.draft, Torn}
           /\ Pruned(k).tree = k.tree /\ Pruned(k).rec = k.rec
           /\ k.tree = "none" => Pruned(k).marker = "none"
           /\ IF k.rec = "none"
              THEN /\ Pruned(k).draft = Absent /\ Pruned(k).final = Absent
              ELSE /\ Pruned(k).draft = k.draft /\ Pruned(k).final = k.final
                   /\ Pruned(k).cancel = k.cancel
<1>1. k \in Files
  BY Values DEF Either, Survivors, Files
<1>2. /\ k.tree \in {d.tree, v.tree} /\ k.rec \in {d.rec, v.rec}
      /\ k.cancel \in {d.cancel, v.cancel} /\ k.final \in {d.final, v.final}
      /\ k.draft \in {d.draft, v.draft, Torn}
  BY DEF Either, Survivors
<1>3. DEFINE w == IF k.tree = "none" THEN WithoutTree(k) ELSE k
<1>4. /\ w \in Files
      /\ Entries(w, k.tree, IF k.tree = "none" THEN "none" ELSE k.marker, k.rec, k.cancel,
                 k.bundle, k.draft, k.final, k.del)
  BY <1>1, WithoutTypes, WithoutTreeEntries DEF Entries
<1>5. Entries(WithoutResult(w), w.tree, w.marker, "none", "none", "none", Absent, Absent,
              w.del)
  BY <1>4, WithoutResultEntries
<1>6. Pruned(k) = IF w.rec = "none" THEN WithoutResult(w) ELSE w
  BY DEF Pruned
<1>. HIDE DEF w
<1>. QED BY <1>1, <1>2, <1>4, <1>5, <1>6 DEF Entries

\* A crash or a power loss leaves an outcome that was durable, and what an
\* acknowledgement rests on.
LEMMA FailureOutcome ==
    ASSUME StoreInv, EvidenceInv', Crash \/ PowerLoss
    PROVE  SecondInv' /\ OutcomeStays
<1>. USE DEF Kept, Serving, DraftSteps, SubmitSteps, RunSteps, TerminalSteps, DeleteSteps,
            BootSteps
<1>0. vis \in Files /\ dur \in Files /\ vis' \in Files /\ dur' \in Files
  BY DEF StoreInv, EvidenceInv, TypeOK
<1>a. FilesInv /\ OwnerInv /\ OutcomeInv /\ CancelInv /\ DurableInv
  BY DEF StoreInv, EvidenceInv
<1>b. /\ vis.draft \in Body \cup {Absent, Torn} /\ dur.draft \in Body \cup {Absent, Torn}
      /\ vis.final \in Body \cup {Absent} /\ dur.final \in Body \cup {Absent}
  BY <1>0 DEF Files
<1>c. /\ svc' = "down" /\ pc' = "none" /\ cpc' = "none" /\ mem' = Absent
      /\ hist' = hist
  BY DEF Crash, PowerLoss, Forget
<1>1. CASE Crash
  <2>1. /\ Entries(vis', vis.tree, vis.marker, vis.rec, vis.cancel, vis.bundle, vis.draft,
                   vis.final, vis.del)
        /\ dur' = dur
    <3>1. dur' = dur /\ (vis' = vis \/ vis' = [vis EXCEPT !.progress = "next"])
      BY <1>1 DEF Crash, Interrupted, Change
    <3>. QED BY <1>0, <3>1 DEF Files, Entries
  <2>2. OwnerInv'
    BY <1>a, <1>c, <2>1 DEF OwnerInv, Nested, Entries
  <2>3. OutcomeInv'
    BY <1>a, <1>c, <2>1 DEF OutcomeInv, Unprepared, Bodies, Agree, Entries
  <2>4. CancelInv'
    BY <1>a, <1>c, <2>1 DEF CancelInv, Bodies, Entries
  <2>5. DurableInv'
    BY <1>a, <1>c, <2>1 DEF DurableInv, Entries
  <2>6. OutcomeStays
    BY <1>a, <1>b, <1>c, <2>1, Outcomes, BodyFacts
       DEF Entries, OutcomeInv, Bodies, Agree, OutcomeStays, TerminalStays, OutcomeStands
  <2>. QED BY <2>2, <2>3, <2>4, <2>5, <2>6 DEF SecondInv
<1>2. CASE PowerLoss
  <2>0. PICK k \in Either(vis, dur) : vis' = Pruned(k) /\ dur' = Pruned(k)
    BY <1>2 DEF PowerLoss
  <2>1. /\ vis' = dur'
        /\ vis'.tree \in {dur.tree, vis.tree} /\ vis'.rec \in {dur.rec, vis.rec}
        /\ vis'.tree = "none" => vis'.marker = "none"
        /\ IF vis'.rec = "none"
           THEN vis'.draft = Absent /\ vis'.final = Absent
           ELSE /\ vis'.draft \in {dur.draft, vis.draft, Torn}
                /\ vis'.final \in {dur.final, vis.final}
                /\ vis'.cancel \in {dur.cancel, vis.cancel}
    BY <1>0, <2>0, SurvivingEntries
  <2>2. OwnerInv'
    BY <1>c, <2>1 DEF OwnerInv, Nested
  <2>3. OutcomeInv'
    <3>1. Bodies' \subseteq Bodies \cup {Absent, Torn}
      BY <2>1 DEF Bodies
    <3>2. \A b, c \in Bodies' : Kept => Agree(b, c)
      BY <1>a, <3>1, BodyFacts DEF OutcomeInv, Agree
    <3>3. Kept /\ vis'.final # Absent => vis'.rec = "accepted" /\ dur'.rec = "accepted"
      BY <1>a, <2>1 DEF OutcomeInv
    <3>. QED BY <1>c, <2>1, <3>2, <3>3 DEF OutcomeInv, Unprepared, Agree
  <2>4. CancelInv'
    BY <1>a, <1>c, <2>1, Outcomes DEF CancelInv, Bodies
  <2>5. DurableInv'
    BY <1>a, <1>c, <2>1 DEF DurableInv
  <2>6. OutcomeStays
    <3>1. TerminalStays
      BY <1>a, <1>c, <2>1 DEF OutcomeInv, TerminalStays
    <3>2. OutcomeStands
      BY <1>a, <1>b, <1>c, <2>1, Outcomes, BodyFacts
         DEF OutcomeInv, Bodies, Agree, OutcomeStands
    <3>. QED BY <3>1, <3>2 DEF OutcomeStays
  <2>. QED BY <2>2, <2>3, <2>4, <2>5, <2>6 DEF SecondInv
<1>. QED BY <1>1, <1>2

-----------------------------------------------------------------------------
(* The invariant, and the properties it implies.                           *)

\* Nothing is on disk, nobody was promised anything.
LEMMA InitStore == Init => StoreInv
<1>. SUFFICES ASSUME Init PROVE StoreInv
  OBVIOUS
<1>1. /\ Empty.tree = "none" /\ Empty.marker = "none" /\ Empty.rec = "none"
      /\ Empty.draft = Absent /\ Empty.final = Absent
  BY DEF Empty
<1>2. OwnerInv
  BY <1>1 DEF Init, OwnerInv, Nested, BootSteps, SubmitSteps, RunSteps, TerminalSteps
<1>3. OutcomeInv
  BY <1>1, BodyFacts DEF Init, OutcomeInv, Unprepared, Bodies, Agree, DraftSteps,
     SubmitSteps, RunSteps, TerminalSteps, DeleteSteps
<1>4. CancelInv /\ DurableInv
  BY <1>1 DEF Init, CancelInv, DurableInv, Serving, RunSteps, TerminalSteps
<1>. QED BY InitEvidence, <1>2, <1>3, <1>4 DEF StoreInv

\* Every step of every transaction, and every failure, preserves the
\* invariant and leaves a durable outcome as it is.
LEMMA NextStore ==
    ASSUME StoreInv, [Next]_vars
    PROVE  StoreInv' /\ [OutcomeStays]_vars
<1>1. EvidenceInv'
  BY NextEvidence DEF StoreInv
<1>2. CASE Next
  <2>1. SecondInv' /\ OutcomeStays
    BY <1>1, <1>2, AcceptanceOutcome, RunOutcome, TerminalOutcome, CancelOutcome,
       DeleteOutcome, RecoveryOutcome, FailureOutcome DEF Next
  <2>. QED BY <1>1, <2>1 DEF StoreInv, SecondInv
<1>3. CASE UNCHANGED vars
  BY <1>1, <1>3
     DEF vars, StoreInv, OwnerInv, OutcomeInv, CancelInv, DurableInv, Unprepared, Blank,
         Bodies, Serving, Kept
<1>. QED BY <1>2, <1>3

\* The inductive invariant of the session's files holds in every reachable
\* state, whatever Answers and Faults are: who owns the records, which
\* outcome they tell, what an acknowledgement rests on, what is durable.
THEOREM StoreInvariant == Spec => []StoreInv
BY InitStore, NextStore, PTL DEF Spec

\* Once the supervisor has let go of an accepted session, or startup has
\* bound the listener, the session has a terminal to show: in memory or on
\* disk, for every combination of crashes, power losses and failures (the
\* failed commit that keeps its terminal in memory, and recovery).
THEOREM SessionNeverOrphaned == Spec => []NoOrphanedSession
<1>1. StoreInv => NoOrphanedSession
  BY DEF StoreInv, OutcomeInv, NoOrphanedSession
<1>. QED BY <1>1, StoreInvariant, PTL

\* A cancellation that was acknowledged decides the outcome: no record and no
\* chosen outcome says that the session ended by itself, whatever fails,
\* fsync included (cancel, the terminal decision, and the recovery that reads
\* the durable intent).
THEOREM CancellationHonoured == Spec => []AckedCancelHonoured
<1>1. StoreInv => AckedCancelHonoured
  BY DEF StoreInv, CancelInv, Bodies, AckedCancelHonoured
<1>. QED BY <1>1, StoreInvariant, PTL

\* A durable terminal record neither changes nor disappears before a DELETE
\* is authorised (commit_prepared_terminal and the startups that resume it).
THEOREM TerminalNeverChanges == Spec => TerminalPermanent
<1>1. StoreInv /\ [Next]_vars => [TerminalStays]_vars
  BY NextStore DEF OutcomeStays
<1>. QED BY <1>1, StoreInvariant, PTL DEF Spec, TerminalPermanent

\* No draft or record that follows a durable draft gives the session another
\* status or another answer.
THEOREM OutcomeNeverChanges == Spec => OutcomeDecidedOnce
<1>1. StoreInv /\ [Next]_vars => [OutcomeStands]_vars
  BY NextStore DEF OutcomeStays
<1>. QED BY <1>1, StoreInvariant, PTL DEF Spec, OutcomeDecidedOnce

\* As long as fsync works, a POST that was answered names a session that is
\* accepted in both views of the file system, so that every later startup
\* finds it.
THEOREM AcceptanceSurvives ==
    ASSUME "sync" \notin Faults
    PROVE  Spec => []AckedAcceptanceSurvives
<1>1. StoreInv => AckedAcceptanceSurvives
  BY DEF StoreInv, DurableInv, AckedAcceptanceSurvives
<1>. QED BY <1>1, StoreInvariant, PTL

\* As long as fsync works, a DELETE that was answered has left nothing of the
\* session in either view: the removals were each followed by the sync of
\* the directory that named what was removed.
THEOREM DeletionIsFinal ==
    ASSUME "sync" \notin Faults
    PROVE  Spec => []DeletedIsGone
<1>1. StoreInv => DeletedIsGone
  BY DEF StoreInv, DurableInv, DeletedIsGone
<1>. QED BY <1>1, StoreInvariant, PTL

\* As long as fsync works, a terminal that GET serves is served again after
\* any power loss: the record, its bundle, and the tree with its marker, or
\* the absence of the tree, are durable.
THEOREM PublishedNeverLost ==
    ASSUME "sync" \notin Faults
    PROVE  Spec => []PublishedSurvives
<1>1. StoreInv => PublishedSurvives
  <2>. SUFFICES ASSUME StoreInv, svc = "up", pc = "idle", Readable(vis), Kept
                PROVE  /\ dur.rec = "accepted" /\ dur.progress = "agrees"
                       /\ dur.final = vis.final
                       /\ dur.draft \in {Absent, dur.final}
                       /\ ValidStorage(dur.final, dur) /\ ValidState(dur.final, dur)
    BY DEF PublishedSurvives
  <2>1. /\ vis.final # Absent /\ vis.draft = Absent /\ vis.rec = "accepted"
        /\ vis.progress = "agrees"
    BY DEF Readable
  <2>2. /\ dur.rec = "accepted" /\ dur.draft = Absent /\ dur.progress = vis.progress
        /\ dur.final = vis.final /\ dur.bundle = vis.bundle
        /\ vis.tree = "none" => dur.tree = "none"
        /\ vis.marker \in {"unbundled", "bundled"} => dur.marker = vis.marker
    BY <2>1 DEF StoreInv, DurableInv, Serving
  <2>3. vis.tree # "none" => dur.tree # "none"
    BY <2>1 DEF StoreInv, OwnerInv
  <2>4. Cause(vis.final) \in {"unbundled", "bundled"}
    BY DEF Cause
  <2>5. ValidStorage(dur.final, dur)
    BY <2>2 DEF Readable, ValidStorage
  <2>6. ValidState(dur.final, dur)
    BY <2>2, <2>3, <2>4 DEF Readable, ValidState
  <2>. QED BY <2>1, <2>2, <2>5, <2>6
<1>. QED BY <1>1, StoreInvariant, PTL
=============================================================================
