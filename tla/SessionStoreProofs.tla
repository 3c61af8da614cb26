------------------------- MODULE SessionStoreProofs -------------------------
(***************************************************************************)
(* EvidenceInv is an invariant of SessionStore for every set of answers    *)
(* and every combination of faults, and with it EvidenceSurvives: no       *)
(* interleaving of an execution, its cancellation, crashes, power losses,  *)
(* failed operations and restarts loses the last evidence of an accepted   *)
(* session before a DELETE is authorised.                                  *)
(***************************************************************************)
EXTENDS SessionStoreTypes

\* The entries of a view that the argument is about.
Is(x, tree, rec, bundle, draft, final, del) ==
    /\ x.tree = tree /\ x.rec = rec /\ x.bundle = bundle
    /\ x.draft = draft /\ x.final = final /\ x.del = del

\* x is the durable view d after the sync of the records root, given v.
IsSynced(x, d, v) ==
    IF v.rec = "none"
    THEN Is(x, d.tree, "none", "none", Absent, Absent, v.del)
    ELSE Is(x, d.tree, IF d.rec = "none" THEN "dir" ELSE d.rec,
            d.bundle, d.draft, d.final, v.del)

-----------------------------------------------------------------------------
(* Barriers, removals and the power.                                       *)

\* What each barrier and each removal does to those entries.
LEMMA SyncSessionsFields ==
    ASSUME NEW d \in Files, NEW v \in Files
    PROVE  Is(SyncSessions(d, v), v.tree, d.rec, d.bundle, d.draft, d.final, d.del)
BY DEF SyncSessions, Files, Is

\* The same for SyncControl.
LEMMA SyncControlFields ==
    ASSUME NEW d \in Files, NEW v \in Files
    PROVE  Is(SyncControl(d, v), d.tree, d.rec, d.bundle, d.draft, d.final, d.del)
BY DEF SyncControl, Files, Is

\* The same for SyncResult.
LEMMA SyncResultFields ==
    ASSUME NEW d \in Files, NEW v \in Files
    PROVE  Is(SyncResult(d, v), d.tree, v.rec, v.bundle, v.draft, v.final, d.del)
BY DEF SyncResult, Files, Is

\* The same for SyncRecords.
LEMMA SyncRecordsFields ==
    ASSUME NEW d \in Files, NEW v \in Files
    PROVE  IsSynced(SyncRecords(d, v), d, v)
BY DEF SyncRecords, Files, Is, IsSynced

\* The same for WithoutTree.
LEMMA WithoutTreeFields ==
    ASSUME NEW v \in Files
    PROVE  Is(WithoutTree(v), "none", v.rec, v.bundle, v.draft, v.final, v.del)
BY DEF WithoutTree, Files, Is

\* The same for WithoutResult.
LEMMA WithoutResultFields ==
    ASSUME NEW v \in Files
    PROVE  Is(WithoutResult(v), v.tree, "none", "none", Absent, Absent, v.del)
BY DEF WithoutResult, Files, Is

\* The same for a publication of progress.
LEMMA PublicationFields ==
    ASSUME NEW v \in Files, vis \in Files, dur \in Files, Publishes(v) \/ PublishFails(v)
    PROVE  /\ Is(vis', v.tree, v.rec, v.bundle, v.draft, v.final, v.del)
           /\ Is(dur', dur.tree, v.rec, v.bundle, v.draft, v.final, dur.del) \/ dur' = dur
<1>1. /\ vis' \in Files /\ vis' = [v EXCEPT !.progress = vis'.progress]
      /\ dur' = dur \/ dur' = SyncResult(dur, vis')
  BY PublicationTypes
<1>2. Is(vis', v.tree, v.rec, v.bundle, v.draft, v.final, v.del)
  BY <1>1 DEF Files, Is
<1>. QED BY <1>1, <1>2, SyncResultFields DEF Is

\* The same for the last one.
LEMMA BehindFields ==
    ASSUME vis \in Files, dur \in Files, HistoryBehind
    PROVE  /\ Is(vis', vis.tree, vis.rec, vis.bundle, vis.draft, vis.final, vis.del)
           /\ Is(dur', dur.tree, dur.rec, dur.bundle, dur.draft, dur.final, dur.del)
<1>1. /\ vis' = [vis EXCEPT !.progress = vis'.progress]
      /\ dur' = [dur EXCEPT !.progress = dur'.progress]
  BY BehindTypes
<1>. QED BY <1>1 DEF Files, Is

\* A barrier never makes an accepted session less safe, whenever it happens.
LEMMA BarriersKeepSafe ==
    ASSUME NEW d \in Files, NEW v \in Files, Safe(v, d)
    PROVE  /\ Safe(v, SyncSessions(d, v))
           /\ Safe(v, SyncControl(d, v))
           /\ Safe(v, SyncResult(d, v))
           /\ Safe(v, SyncRecords(d, v))
<1>1. Safe(v, SyncSessions(d, v))
  BY SyncSessionsFields DEF Safe, Held, Prepared, Is
<1>2. Safe(v, SyncControl(d, v))
  BY SyncControlFields DEF Safe, Held, Prepared, Is
<1>3. Safe(v, SyncResult(d, v))
  BY SyncResultFields DEF Safe, Held, Prepared, Is
<1>4. Safe(v, SyncRecords(d, v))
  BY SyncRecordsFields DEF Safe, Held, Prepared, Is, IsSynced
<1>. QED BY <1>1, <1>2, <1>3, <1>4

\* Nor does it bring a body without evidence into the durable view.
LEMMA BarriersKeepClaims ==
    ASSUME NEW d \in Files, NEW v \in Files, Claims(v), Claims(d)
    PROVE  /\ Claims(SyncSessions(d, v))
           /\ Claims(SyncControl(d, v))
           /\ Claims(SyncResult(d, v))
           /\ Claims(SyncRecords(d, v))
<1>1. Claims(SyncSessions(d, v))
  BY SyncSessionsFields DEF Claims, Is
<1>2. Claims(SyncControl(d, v))
  BY SyncControlFields DEF Claims, Is
<1>3. Claims(SyncResult(d, v))
  BY SyncResultFields DEF Claims, Is
<1>4. Claims(SyncRecords(d, v))
  BY SyncRecordsFields, BodyFacts DEF Claims, Is, IsSynced
<1>. QED BY <1>1, <1>2, <1>3, <1>4

\* Whatever mixture of the two views a power loss leaves, it is as safe as the
\* two views were: this is what Safe quantifies over both for.
LEMMA PowerLossViews ==
    ASSUME NEW v \in Files, NEW d \in Files, NEW k \in Either(v, d)
    PROVE  /\ Pruned(k) \in Files
           /\ Claims(v) /\ Claims(d) => Claims(Pruned(k))
           /\ Safe(v, d) => Safe(Pruned(k), Pruned(k))
<1>1. /\ k.tree \in {d.tree, v.tree} /\ k.rec \in {d.rec, v.rec}
      /\ k.bundle \in {d.bundle, v.bundle} /\ k.final \in {d.final, v.final}
      /\ k.del \in {d.del, v.del}
      /\ k.draft \in {d.draft, v.draft, Torn}
      /\ k.draft = Torn => v.draft # Absent \/ k.draft \in {d.draft, v.draft}
  BY DEF Either, Survivors
<1>2. k \in Files
  BY Values DEF Either, Survivors, Files
<1>3. DEFINE w == IF k.tree = "none" THEN WithoutTree(k) ELSE k
<1>4. w \in Files /\ Is(w, k.tree, k.rec, k.bundle, k.draft, k.final, k.del)
  BY <1>2, WithoutTypes, WithoutTreeFields DEF Is
<1>5. Pruned(k) = IF w.rec = "none" THEN WithoutResult(w) ELSE w
  BY DEF Pruned
<1>6. Pruned(k) \in Files
  BY <1>4, <1>5, WithoutTypes
<1>7. IF k.rec = "none" THEN Is(Pruned(k), k.tree, "none", "none", Absent, Absent, k.del)
                        ELSE Is(Pruned(k), k.tree, k.rec, k.bundle, k.draft, k.final, k.del)
  BY <1>4, <1>5, WithoutResultFields DEF Is
<1>8. Claims(v) /\ Claims(d) => Claims(Pruned(k))
  BY <1>1, <1>7, BodyFacts DEF Is, Claims
<1>9. Safe(v, d) => Safe(Pruned(k), Pruned(k))
  BY <1>1, <1>7, BodyFacts DEF Is, Safe, Held, Prepared
<1>. QED BY <1>6, <1>8, <1>9

-----------------------------------------------------------------------------
(* One lemma per transaction.  Each action is first reduced to what it does *)
(* to the entries (step <2>1), and the invariant follows from that.         *)

\* No step of an acceptance endangers the evidence of an accepted session.
LEMMA AcceptanceEvidence ==
    ASSUME EvidenceInv, TypeOK', BodyInv', AcceptanceNext
    PROVE  ClaimInv' /\ StepInv' /\ KeptInv' /\ FilesInv'
<1>. USE DEF Is, IsSynced, Held, Kept, BodySteps, DraftSteps, SubmitSteps,
            RunSteps, TerminalSteps, DeleteSteps
<1>0. vis \in Files /\ dur \in Files /\ vis' \in Files /\ dur' \in Files
  BY DEF EvidenceInv, TypeOK
<1>a. BodyInv /\ ClaimInv /\ StepInv /\ KeptInv /\ FilesInv
  BY DEF EvidenceInv
<1>1. CASE Submit
  <2>1. /\ Is(vis', "partial", vis.rec, vis.bundle, vis.draft, vis.final, vis.del)
        /\ dur' = dur
        /\ pc' = "s_dirs"
        /\ mem' = mem
        /\ vis.rec = "none" /\ vis.del # "intent"
        /\ ((Kept' /\ ~Kept) => dur.rec = "none")
    BY <1>0, <1>1 DEF Submit, Goto, Change, quietSubmit, Files
  <2>. QED BY <1>0, <1>a, <2>1, BodyFacts
     DEF BodyInv, ClaimInv, StepInv, KeptInv, FilesInv, Safe, Prepared, Claims
<1>2. CASE SubmitReplay
  <2>1. /\ vis' = vis
        /\ dur' = dur
        /\ pc' = pc
        /\ mem' = mem
        /\ (Kept' <=> Kept)
    BY <1>0, <1>2 DEF SubmitReplay, files, control, memory, Running, Files
  <2>. QED BY <1>0, <1>a, <2>1, BodyFacts
     DEF BodyInv, ClaimInv, StepInv, KeptInv, FilesInv, Safe, Prepared, Claims
<1>3. CASE SubmitLayout
  <2>1. /\ Is(vis', "layout", vis.rec, vis.bundle, vis.draft, vis.final, vis.del)
        /\ Is(dur', vis'.tree, dur.rec, dur.bundle, dur.draft, dur.final, dur.del)
        /\ pc = "s_dirs" /\ pc' = "s_place"
        /\ mem' = mem
        /\ hist' = hist
    BY <1>0, <1>3, SyncSessionsFields DEF SubmitLayout, Goto, quietSubmit, Files
  <2>. QED BY <1>0, <1>a, <2>1, BodyFacts
     DEF BodyInv, ClaimInv, StepInv, KeptInv, FilesInv, Safe, Prepared, Claims
<1>4. CASE SubmitPlace
  <2>1. /\ Is(vis', "placed", vis.rec, vis.bundle, vis.draft, vis.final, vis.del)
        /\ Is(dur', vis'.tree, dur.rec, dur.bundle, dur.draft, dur.final, dur.del)
        /\ pc = "s_place" /\ pc' = "s_result"
        /\ mem' = mem
        /\ hist' = hist
    BY <1>0, <1>4, SyncSessionsFields DEF SubmitPlace, Goto, quietSubmit, Files
  <2>. QED BY <1>0, <1>a, <2>1, BodyFacts
     DEF BodyInv, ClaimInv, StepInv, KeptInv, FilesInv, Safe, Prepared, Claims
<1>5. CASE SubmitResult
  <2>1. /\ Is(vis', vis.tree, "dir", vis.bundle, vis.draft, vis.final, vis.del)
        /\ Is(dur', dur.tree, IF dur.rec = "none" THEN "dir" ELSE dur.rec,
               dur.bundle, dur.draft, dur.final, vis.del)
        /\ pc = "s_result" /\ pc' = "s_progress"
        /\ mem' = mem
        /\ hist' = hist
    BY <1>0, <1>5, SyncRecordsFields DEF SubmitResult, Goto, quietSubmit, Files
  <2>. QED BY <1>0, <1>a, <2>1, BodyFacts
     DEF BodyInv, ClaimInv, StepInv, KeptInv, FilesInv, Safe, Prepared, Claims
<1>6. CASE SubmitProgress
  <2>1. /\ Is(vis', vis.tree, "progress", vis.bundle, vis.draft, vis.final, vis.del)
        /\ Is(dur', dur.tree, vis'.rec, vis'.bundle, vis'.draft, vis'.final, dur.del)
        /\ pc = "s_progress" /\ pc' = "s_open"
        /\ mem' = mem
        /\ hist' = hist
    BY <1>0, <1>6, SyncResultFields DEF SubmitProgress, Goto, quietSubmit, Files
  <2>. QED BY <1>0, <1>a, <2>1, BodyFacts
     DEF BodyInv, ClaimInv, StepInv, KeptInv, FilesInv, Safe, Prepared, Claims
<1>7. CASE SubmitOpen
  <2>1. /\ Is(vis', vis.tree, "torn", vis.bundle, vis.draft, vis.final, vis.del)
        /\ dur' = dur
        /\ pc = "s_open" /\ pc' = "s_write"
        /\ mem' = mem
        /\ hist' = hist
    BY <1>0, <1>7 DEF SubmitOpen, Goto, Change, quietSubmit, Files
  <2>. QED BY <1>0, <1>a, <2>1, BodyFacts
     DEF BodyInv, ClaimInv, StepInv, KeptInv, FilesInv, Safe, Prepared, Claims
<1>8. CASE SubmitWrite
  <2>1. /\ Is(vis', vis.tree, "next", vis.bundle, vis.draft, vis.final, vis.del)
        /\ Is(dur', dur.tree, vis'.rec, vis'.bundle, vis'.draft, vis'.final, dur.del)
        /\ pc = "s_write" /\ pc' = "s_publish"
        /\ mem' = mem
        /\ hist' = hist
    BY <1>0, <1>8, SyncResultFields DEF SubmitWrite, Goto, quietSubmit, Files
  <2>. QED BY <1>0, <1>a, <2>1, BodyFacts
     DEF BodyInv, ClaimInv, StepInv, KeptInv, FilesInv, Safe, Prepared, Claims
<1>9. CASE SubmitPublish
  <2>1. /\ Is(vis', vis.tree, "accepted", vis.bundle, vis.draft, vis.final, vis.del)
        /\ dur' = dur
        /\ pc = "s_publish" /\ pc' = "s_barrier"
        /\ mem' = mem
        /\ hist' = hist
    BY <1>0, <1>9 DEF SubmitPublish, Goto, Change, quietSubmit, Files
  <2>. QED BY <1>0, <1>a, <2>1, BodyFacts
     DEF BodyInv, ClaimInv, StepInv, KeptInv, FilesInv, Safe, Prepared, Claims
<1>10. CASE SubmitBarrier
  <2>1. /\ vis' = vis
        /\ (Is(dur', dur.tree, vis'.rec, vis'.bundle, vis'.draft, vis'.final, dur.del)
           \/ dur' = dur)
        /\ pc = "s_barrier" /\ pc' = "execute"
        /\ mem' = mem
        /\ (Kept' <=> Kept)
    BY <1>0, <1>10, SyncResultFields DEF SubmitBarrier, Goto, Barrier, files, Files
  <2>. QED BY <1>0, <1>a, <2>1, BodyFacts
     DEF BodyInv, ClaimInv, StepInv, KeptInv, FilesInv, Safe, Prepared, Claims
<1>11. CASE SubmitFails
  <2>1. /\ vis' = vis
        /\ dur' = dur
        /\ pc \in SubmitSteps \ {"s_barrier"} /\ pc' = "s_undo"
        /\ mem' = mem
        /\ hist' = hist
    BY <1>0, <1>11 DEF SubmitFails, Goto, files, quietSubmit, Files
  <2>. QED BY <1>0, <1>a, <2>1, BodyFacts
     DEF BodyInv, ClaimInv, StepInv, KeptInv, FilesInv, Safe, Prepared, Claims
<1>12. CASE SubmitRollback
  <2>1. /\ pc' = "idle"
        /\ mem' = mem
        /\ hist' = hist
        /\ vis.rec # "accepted" /\ vis'.rec # "accepted"
        /\ (dur'.rec = "accepted" => dur.rec = "accepted")
        /\ vis'.draft \in {Absent, vis.draft} /\ vis'.final \in {Absent, vis.final}
        /\ dur'.draft \in {Absent, dur.draft} /\ dur'.final \in {Absent, dur.final}
    <3>1. PICK v \in {WithoutTree(vis)} \cup (IF IoFails THEN Damaged(vis) ELSE {}) :
          \E w \in {WithoutResult(v)} \cup (IF IoFails THEN Ruined(v) ELSE {}) :
          \E d \in {SyncSessions(dur, w)} \cup (IF SyncFails THEN {dur} ELSE {}) :
          \E e \in {SyncRecords(d, w)} \cup (IF SyncFails THEN {d} ELSE {}) :
             vis' = w /\ dur' = e
      BY <1>12 DEF SubmitRollback
    <3>2. PICK d \in {SyncSessions(dur, vis'), dur} : dur' \in {SyncRecords(d, vis'), d}
      BY <3>1
    <3>3. v \in Files /\ v.rec = vis.rec /\ v.draft = vis.draft /\ v.final = vis.final
      BY <1>0, <3>1, WithoutTypes, WithoutTreeFields, DamagedTypes DEF Is
    <3>4. pc = "s_undo" /\ vis.rec # "accepted"
      BY <1>12, <1>a DEF SubmitRollback, StepInv, SubmitSteps
    <3>5. /\ vis'.rec # "accepted"
          /\ vis'.draft \in {Absent, vis.draft} /\ vis'.final \in {Absent, vis.final}
      BY <3>1, <3>3, <3>4, WithoutResultFields, RuinedTypes DEF Is
    <3>6. d \in Files /\ d.rec = dur.rec /\ d.draft = dur.draft /\ d.final = dur.final
      <4>1. CASE d = dur
        BY <1>0, <4>1
      <4>2. CASE d = SyncSessions(dur, vis')
        BY <1>0, <4>2, SyncTypes, SyncSessionsFields DEF Is
      <4>. QED BY <3>2, <4>1, <4>2
    <3>7. /\ dur'.rec = "accepted" => dur.rec = "accepted"
          /\ dur'.draft \in {Absent, dur.draft} /\ dur'.final \in {Absent, dur.final}
      BY <1>0, <3>2, <3>6, SyncRecordsFields DEF Is, IsSynced
    <3>. QED BY <1>12, <3>4, <3>5, <3>7 DEF SubmitRollback, Goto, quietSubmit
  <2>. QED BY <1>0, <1>a, <2>1, BodyFacts
     DEF BodyInv, ClaimInv, StepInv, KeptInv, FilesInv, Safe, Prepared, Claims
<1>. QED BY <1>1, <1>2, <1>3, <1>4, <1>5, <1>6, <1>7, <1>8, <1>9, <1>10, <1>11,
   <1>12 DEF AcceptanceNext

\* No step of an execution endangers the evidence of an accepted session.
LEMMA RunEvidence ==
    ASSUME EvidenceInv, TypeOK', BodyInv', RunNext
    PROVE  ClaimInv' /\ StepInv' /\ KeptInv' /\ FilesInv'
<1>. USE DEF Is, IsSynced, Held, Kept, BodySteps, DraftSteps, SubmitSteps,
            RunSteps, TerminalSteps, DeleteSteps
<1>0. vis \in Files /\ dur \in Files /\ vis' \in Files /\ dur' \in Files
  BY DEF EvidenceInv, TypeOK
<1>a. BodyInv /\ ClaimInv /\ StepInv /\ KeptInv /\ FilesInv
  BY DEF EvidenceInv
<1>1. CASE Execute
  <2>. DEFINE v == [vis EXCEPT !.tree = "full"]
  <2>0. v \in Files /\ Is(v, "full", vis.rec, vis.bundle, vis.draft, vis.final, vis.del)
    BY <1>0, Values DEF Files
  <2>b. /\ Is(vis', v.tree, v.rec, v.bundle, v.draft, v.final, v.del)
        /\ Is(dur', dur.tree, v.rec, v.bundle, v.draft, v.final, dur.del) \/ dur' = dur
    <3>1. Publishes(v) \/ PublishFails(v)
      BY <1>1 DEF Execute
    <3>. QED BY <1>0, <2>0, <3>1, PublicationFields
  <2>. HIDE DEF v
  <2>1. /\ Is(vis', "full", vis.rec, vis.bundle, vis.draft, vis.final, vis.del)
        /\ (Is(dur', dur.tree, vis.rec, vis.bundle, vis.draft, vis.final, dur.del)
           \/ dur' = dur)
        /\ pc = "execute" /\ pc' \in {"recover", "teardown"}
        /\ mem'.evidence = {}
        /\ hist' = hist
    BY <1>0, <1>1, <2>0, <2>b DEF Execute, Ended, Goto
  <2>. QED BY <1>0, <1>a, <2>1, BodyFacts
     DEF BodyInv, ClaimInv, StepInv, KeptInv, FilesInv, Safe, Prepared, Claims
<1>2. CASE ExecutionPanic
  <2>1. /\ vis' = vis
        /\ dur' = dur
        /\ pc \in RunSteps /\ pc' = "recover"
        /\ mem'.evidence = {}
        /\ hist' = hist
    BY <1>0, <1>2 DEF ExecutionPanic, Ended, Goto, files, Files
  <2>. QED BY <1>0, <1>a, <2>1, BodyFacts
     DEF BodyInv, ClaimInv, StepInv, KeptInv, FilesInv, Safe, Prepared, Claims
<1>3. CASE Teardown
  <2>1. /\ vis' = vis
        /\ dur' = dur
        /\ pc = "teardown" /\ pc' = "bundle"
        /\ mem' = mem
        /\ hist' = hist
    BY <1>0, <1>3 DEF Teardown, Goto, files, Files
  <2>. QED BY <1>0, <1>a, <2>1, BodyFacts
     DEF BodyInv, ClaimInv, StepInv, KeptInv, FilesInv, Safe, Prepared, Claims
<1>4. CASE BundleOpen
  <2>1. /\ Is(vis', vis.tree, vis.rec, "partial", vis.draft, vis.final, vis.del)
        /\ dur' = dur
        /\ pc = "bundle" /\ pc' = "link"
        /\ mem' = mem
        /\ hist' = hist
    BY <1>0, <1>4 DEF BundleOpen, Goto, Change, memory, Files
  <2>. QED BY <1>0, <1>a, <2>1, BodyFacts
     DEF BodyInv, ClaimInv, StepInv, KeptInv, FilesInv, Safe, Prepared, Claims
<1>5. CASE BundleSkip
  <2>1. /\ vis' = vis
        /\ dur' = dur
        /\ pc = "bundle" /\ pc' = "retain"
        /\ mem' = mem
        /\ hist' = hist
    BY <1>0, <1>5 DEF BundleSkip, Goto, files, memory, Files
  <2>. QED BY <1>0, <1>a, <2>1, BodyFacts
     DEF BodyInv, ClaimInv, StepInv, KeptInv, FilesInv, Safe, Prepared, Claims
<1>6. CASE BundleLink
  <2>1. /\ Is(vis', vis.tree, vis.rec, "full", vis.draft, vis.final, vis.del)
        /\ dur' = dur
        /\ pc = "link" /\ pc' = "bundle_sync"
        /\ mem' = mem
        /\ hist' = hist
    BY <1>0, <1>6 DEF BundleLink, Goto, Change, memory, Files
  <2>. QED BY <1>0, <1>a, <2>1, BodyFacts
     DEF BodyInv, ClaimInv, StepInv, KeptInv, FilesInv, Safe, Prepared, Claims
<1>7. CASE BundleAccept
  <2>1. /\ vis' = vis
        /\ Is(dur', dur.tree, vis'.rec, vis'.bundle, vis'.draft, vis'.final, dur.del)
        /\ pc = "bundle_sync" /\ pc' = "retain"
        /\ mem'.evidence = {"bundle"}
        /\ hist' = hist
    BY <1>0, <1>a, <1>7, SyncResultFields
       DEF BundleAccept, Body, BodyInv, Goto, Barrier, Files
  <2>. QED BY <1>0, <1>a, <2>1, BodyFacts
     DEF BodyInv, ClaimInv, StepInv, KeptInv, FilesInv, Safe, Prepared, Claims
<1>8. CASE BundleFails
  <2>1. /\ Is(vis', vis.tree, vis.rec, vis'.bundle, vis.draft, vis.final, vis.del)
        /\ dur' = dur
        /\ pc \in {"link", "bundle_sync"} /\ pc' = "retain"
        /\ mem' = mem
        /\ hist' = hist
    BY <1>0, <1>8 DEF BundleFails, Goto, Change, memory, Files
  <2>. QED BY <1>0, <1>a, <2>1, BodyFacts
     DEF BodyInv, ClaimInv, StepInv, KeptInv, FilesInv, Safe, Prepared, Claims
<1>9. CASE Retain
  <2>1. /\ Is(vis', vis.tree, vis.rec, vis.bundle, vis.draft, vis.final, vis.del)
        /\ dur' = dur
        /\ pc = "retain" /\ pc' \in {"mark", "decide"}
        /\ mem'.evidence # {}
        /\ ("bundle" \in mem'.evidence => "bundle" \in mem.evidence)
        /\ hist' = hist
    BY <1>0, <1>a, <1>9
       DEF Retain, Body, MustRetain, ClaimInv, BodyInv, Goto, Change, files, Files
  <2>. QED BY <1>0, <1>a, <2>1, BodyFacts
     DEF BodyInv, ClaimInv, StepInv, KeptInv, FilesInv, Safe, Prepared, Claims
<1>10. CASE Mark
  <2>1. /\ Is(vis', vis.tree, vis.rec, vis.bundle, vis.draft, vis.final, vis.del)
        /\ Is(dur', dur.tree, dur.rec, dur.bundle, dur.draft, dur.final, dur.del)
        /\ pc = "mark" /\ pc' = "decide"
        /\ mem' = mem
        /\ hist' = hist
    BY <1>0, <1>10, SyncControlFields DEF Mark, Goto, Change, files, memory, Files
  <2>. QED BY <1>0, <1>a, <2>1, BodyFacts
     DEF BodyInv, ClaimInv, StepInv, KeptInv, FilesInv, Safe, Prepared, Claims
<1>11. CASE Decide
  <2>0. /\ Is(vis', vis.tree, vis.rec, vis.bundle, vis.draft, vis.final, vis.del)
        /\ \/ Is(dur', dur.tree, vis.rec, vis.bundle, vis.draft, vis.final, dur.del)
           \/ Is(dur', dur.tree, dur.rec, dur.bundle, dur.draft, dur.final, dur.del)
    <3>1. CASE Publishes(vis) \/ PublishFails(vis)
      BY <1>0, <3>1, PublicationFields
    <3>2. CASE HistoryBehind
      BY <1>0, <3>2, BehindFields
    <3>. QED BY <1>11, <3>1, <3>2 DEF Decide
  <2>1. /\ pc = "decide" /\ pc' \in {"prepare", "none", "idle"}
        /\ mem'.evidence = mem.evidence
        /\ hist' = hist
    BY <1>0, <1>a, <1>11
       DEF Decide, Body, BodyInv, Goto, Fail
  <2>. QED BY <1>0, <1>a, <2>0, <2>1, BodyFacts
     DEF BodyInv, ClaimInv, StepInv, KeptInv, FilesInv, Safe, Prepared, Claims
<1>12. CASE PanicRecovery
  <2>1. /\ vis' = vis
        /\ dur' = dur
        /\ pc = "recover" /\ pc' = "teardown"
        /\ mem' = mem
        /\ hist' = hist
    BY <1>0, <1>12 DEF PanicRecovery, Goto, files, memory
  <2>. QED BY <1>0, <1>a, <2>1, BodyFacts
     DEF BodyInv, ClaimInv, StepInv, KeptInv, FilesInv, Safe, Prepared, Claims
<1>. QED BY <1>1, <1>2, <1>3, <1>4, <1>5, <1>6, <1>7, <1>8, <1>9, <1>10, <1>11,
   <1>12 DEF RunNext

\* No step of the terminal transaction endangers the evidence of an accepted session.
LEMMA TerminalEvidence ==
    ASSUME EvidenceInv, TypeOK', BodyInv', TerminalNext
    PROVE  ClaimInv' /\ StepInv' /\ KeptInv' /\ FilesInv'
<1>. USE DEF Is, IsSynced, Held, Kept, BodySteps, DraftSteps, SubmitSteps,
            RunSteps, TerminalSteps, DeleteSteps
<1>0. vis \in Files /\ dur \in Files /\ vis' \in Files /\ dur' \in Files
  BY DEF EvidenceInv, TypeOK
<1>a. BodyInv /\ ClaimInv /\ StepInv /\ KeptInv /\ FilesInv
  BY DEF EvidenceInv
<1>1. CASE Prepare
  <2>1. /\ Is(vis', vis.tree, vis.rec, vis.bundle, vis'.draft, vis.final, vis.del)
        /\ (vis'.draft = Torn \/ vis' = vis)
        /\ dur' = dur
        /\ pc = "prepare" /\ pc' \in {"write", "none", "idle"}
        /\ (pc' = "write" => mem' = mem /\ vis'.draft = Torn)
        /\ hist' = hist
    BY <1>0, <1>1 DEF Prepare, Goto, Change, TerminalFails, files, memory, Files
  <2>. QED BY <1>0, <1>a, <2>1, BodyFacts
     DEF BodyInv, ClaimInv, StepInv, KeptInv, FilesInv, Safe, Prepared, Claims
<1>2. CASE WriteDraft
  <2>1. /\ (Is(vis', vis.tree, vis.rec, vis.bundle, mem, vis.final, vis.del) \/ vis' = vis)
        /\ dur' = dur
        /\ pc = "write" /\ pc' \in {"draft_sync", "none", "idle"}
        /\ (pc' = "draft_sync" => mem' = mem)
        /\ hist' = hist
    BY <1>0, <1>2 DEF WriteDraft, Goto, Change, TerminalFails, files, memory, Files
  <2>. QED BY <1>0, <1>a, <2>1, BodyFacts
     DEF BodyInv, ClaimInv, StepInv, KeptInv, FilesInv, Safe, Prepared, Claims
<1>3. CASE SyncDraft
  <2>1. /\ vis' = vis
        /\ (Is(dur', dur.tree, vis'.rec, vis'.bundle, vis'.draft, vis'.final, dur.del)
           \/ dur' = dur)
        /\ pc = "draft_sync" /\ pc' \in {"finish", "none", "idle"}
        /\ (pc' = "finish" => mem' = mem /\ dur'.draft = vis.draft)
        /\ hist' = hist
    BY <1>0, <1>3, SyncResultFields
       DEF SyncDraft, Goto, Barrier, TerminalFails, files, memory, Files
  <2>. QED BY <1>0, <1>a, <2>1, BodyFacts
     DEF BodyInv, ClaimInv, StepInv, KeptInv, FilesInv, Safe, Prepared, Claims
<1>4. CASE Finish
  <2>1. /\ vis' = vis
        /\ dur' = dur
        /\ pc = "finish" /\ pc' \in {"commit", "cleanup", "none", "idle"}
        /\ (pc' \in {"commit", "cleanup"} => mem' = mem)
        /\ (pc' = "cleanup" => "bundle" \in mem.evidence)
        /\ hist' = hist
    BY <1>0, <1>a, <1>4
       DEF Finish, ClaimInv, Body, BodyInv, Goto, TerminalFails, files, memory,
           Files
  <2>. QED BY <1>0, <1>a, <2>1, BodyFacts
     DEF BodyInv, ClaimInv, StepInv, KeptInv, FilesInv, Safe, Prepared, Claims
<1>5. CASE Cleanup
  <2>1. /\ Is(vis', vis'.tree, vis.rec, vis.bundle, vis.draft, vis.final, vis.del)
        /\ dur' = dur
        /\ pc = "cleanup" /\ pc' \in {"cleanup_sync", "rewrite", "idle", "none"}
        /\ hist' = hist
        /\ vis.bundle = "full" /\ dur.bundle = "full"
    <3>1. dur' = dur /\ vis' \in Damaged(vis) \cup {vis, WithoutTree(vis)}
      BY <1>5 DEF Cleanup, Change
    <3>2. Is(vis', vis'.tree, vis.rec, vis.bundle, vis.draft, vis.final, vis.del)
      BY <1>0, <3>1, WithoutTreeFields, DamagedTypes
    <3>3. /\ pc = "cleanup" /\ pc' \in {"cleanup_sync", "rewrite", "idle", "none"}
          /\ hist' = hist
      BY <1>5 DEF Cleanup, TerminalFails, Goto
    <3>. QED BY <1>a, <3>1, <3>2, <3>3 DEF ClaimInv, BodyInv
  <2>2. mem \in Body /\ mem.evidence # {} /\ "bundle" \in mem.evidence
    BY <1>a, <2>1 DEF BodyInv, ClaimInv
  <2>3. pc' \in {"cleanup_sync", "rewrite"} =>
           mem'.evidence # {} /\ "bundle" \in mem'.evidence
    BY <1>5, <2>2 DEF Cleanup, TerminalFails, Goto, memory, Body
  <2>. QED BY <1>0, <1>a, <2>1, <2>3, BodyFacts
     DEF BodyInv, ClaimInv, StepInv, KeptInv, FilesInv, Safe, Prepared, Claims
<1>6. CASE SyncCleanup
  <2>1. /\ vis' = vis
        /\ (Is(dur', vis'.tree, dur.rec, dur.bundle, dur.draft, dur.final, dur.del)
           \/ dur' = dur)
        /\ pc = "cleanup_sync" /\ pc' \in {"commit", "rewrite", "idle", "none"}
        /\ (pc' \in {"commit", "rewrite"} => mem' = mem)
        /\ hist' = hist
    BY <1>0, <1>6, SyncSessionsFields
       DEF SyncCleanup, TerminalFails, Goto, Barrier, files, memory, Files
  <2>. QED BY <1>0, <1>a, <2>1, BodyFacts
     DEF BodyInv, ClaimInv, StepInv, KeptInv, FilesInv, Safe, Prepared, Claims
<1>7. CASE Rewrite
  <2>1. /\ (Is(vis', vis.tree, vis.rec, vis.bundle, Torn, vis.final, vis.del) \/ vis' = vis)
        /\ dur' = dur
        /\ pc = "rewrite" /\ pc' \in {"rewriting", "none", "idle"}
        /\ (pc' = "rewriting" => mem' = mem /\ vis'.draft = Torn)
        /\ hist' = hist
    BY <1>0, <1>7 DEF Rewrite, Goto, Change, TerminalFails, files, memory, Files
  <2>. QED BY <1>0, <1>a, <2>1, BodyFacts
     DEF BodyInv, ClaimInv, StepInv, KeptInv, FilesInv, Safe, Prepared, Claims
<1>8. CASE Rewriting
  <2>1. /\ (Is(vis', vis.tree, vis.rec, vis.bundle, mem, vis.final, vis.del) \/ vis' = vis)
        /\ dur' = dur
        /\ pc = "rewriting" /\ pc' \in {"rewrite_sync", "none", "idle"}
        /\ (pc' = "rewrite_sync" => mem' = mem)
        /\ hist' = hist
    BY <1>0, <1>8 DEF Rewriting, Goto, Change, TerminalFails, files, memory, Files
  <2>. QED BY <1>0, <1>a, <2>1, BodyFacts
     DEF BodyInv, ClaimInv, StepInv, KeptInv, FilesInv, Safe, Prepared, Claims
<1>9. CASE SyncRewrite
  <2>1. /\ vis' = vis
        /\ (Is(dur', dur.tree, vis'.rec, vis'.bundle, vis'.draft, vis'.final, dur.del)
           \/ dur' = dur)
        /\ pc = "rewrite_sync" /\ pc' \in {"remark", "none", "idle"}
        /\ (pc' = "remark" => mem' = mem)
        /\ hist' = hist
    BY <1>0, <1>9, SyncResultFields
       DEF SyncRewrite, Goto, Barrier, TerminalFails, files, memory, Files
  <2>. QED BY <1>0, <1>a, <2>1, BodyFacts
     DEF BodyInv, ClaimInv, StepInv, KeptInv, FilesInv, Safe, Prepared, Claims
<1>10. CASE Remark
  <2>1. /\ Is(vis', vis.tree, vis.rec, vis.bundle, vis.draft, vis.final, vis.del)
        /\ Is(dur', dur.tree, dur.rec, dur.bundle, dur.draft, dur.final, dur.del)
        /\ pc = "remark" /\ pc' \in {"commit", "none", "idle"}
        /\ (pc' = "commit" => mem' = mem)
        /\ hist' = hist
    BY <1>0, <1>10, SyncControlFields
       DEF Remark, Goto, Change, TerminalFails, files, memory, Files
  <2>. QED BY <1>0, <1>a, <2>1, BodyFacts
     DEF BodyInv, ClaimInv, StepInv, KeptInv, FilesInv, Safe, Prepared, Claims
<1>11. CASE Commit
  <2>1. /\ (Is(vis', vis.tree, vis.rec, vis.bundle, vis.draft, vis.draft, vis.del) \/ vis' = vis)
        /\ dur' = dur
        /\ pc = "commit" /\ pc' \in {"commit_sync", "none", "idle"}
        /\ (pc' = "commit_sync" => mem' = mem /\ vis'.final = vis.draft)
        /\ hist' = hist
    BY <1>0, <1>11 DEF Commit, Goto, Change, TerminalFails, files, memory, Files
  <2>. QED BY <1>0, <1>a, <2>1, BodyFacts
     DEF BodyInv, ClaimInv, StepInv, KeptInv, FilesInv, Safe, Prepared, Claims
<1>12. CASE SyncCommit
  <2>1. /\ vis' = vis
        /\ (Is(dur', dur.tree, vis'.rec, vis'.bundle, vis'.draft, vis'.final, dur.del)
           \/ dur' = dur)
        /\ pc = "commit_sync" /\ pc' \in {"unlink", "none", "idle"}
        /\ (pc' = "unlink" => mem' = mem /\ dur'.final = vis.final)
        /\ hist' = hist
    BY <1>0, <1>12, SyncResultFields
       DEF SyncCommit, Goto, Barrier, TerminalFails, files, memory, Files
  <2>. QED BY <1>0, <1>a, <2>1, BodyFacts
     DEF BodyInv, ClaimInv, StepInv, KeptInv, FilesInv, Safe, Prepared, Claims
<1>13. CASE UnlinkDraft
  <2>1. /\ (Is(vis', vis.tree, vis.rec, vis.bundle, Absent, vis.final, vis.del) \/ vis' = vis)
        /\ dur' = dur
        /\ pc = "unlink" /\ pc' \in {"unlink_sync", "none", "idle"}
        /\ (pc' = "unlink_sync" => mem' = mem)
        /\ hist' = hist
    BY <1>0, <1>13
       DEF UnlinkDraft, Goto, Change, TerminalFails, files, memory, Files
  <2>. QED BY <1>0, <1>a, <2>1, BodyFacts
     DEF BodyInv, ClaimInv, StepInv, KeptInv, FilesInv, Safe, Prepared, Claims
<1>14. CASE SyncUnlink
  <2>1. /\ vis' = vis
        /\ (Is(dur', dur.tree, vis'.rec, vis'.bundle, vis'.draft, vis'.final, dur.del)
           \/ dur' = dur)
        /\ pc = "unlink_sync" /\ pc' \in {"b_final", "none", "idle"}
        /\ hist' = hist
    BY <1>0, <1>14, SyncResultFields
       DEF SyncUnlink, Goto, Barrier, TerminalFails, files, Files
  <2>. QED BY <1>0, <1>a, <2>1, BodyFacts
     DEF BodyInv, ClaimInv, StepInv, KeptInv, FilesInv, Safe, Prepared, Claims
<1>. QED BY <1>1, <1>2, <1>3, <1>4, <1>5, <1>6, <1>7, <1>8, <1>9, <1>10, <1>11,
   <1>12, <1>13, <1>14 DEF TerminalNext

\* No step of a cancellation or a shutdown endangers the evidence of an accepted session.
LEMMA CancelEvidence ==
    ASSUME EvidenceInv, TypeOK', BodyInv', CancelNext
    PROVE  ClaimInv' /\ StepInv' /\ KeptInv' /\ FilesInv'
<1>. USE DEF Is, IsSynced, Held, Kept, BodySteps, DraftSteps, SubmitSteps,
            RunSteps, TerminalSteps, DeleteSteps
<1>0. vis \in Files /\ dur \in Files /\ vis' \in Files /\ dur' \in Files
  BY DEF EvidenceInv, TypeOK
<1>a. BodyInv /\ ClaimInv /\ StepInv /\ KeptInv /\ FilesInv
  BY DEF EvidenceInv
<1>1. CASE CancelBegin
  <2>1. /\ Is(vis', vis.tree, vis.rec, vis.bundle, vis.draft, vis.final, vis.del)
        /\ (Is(dur', dur.tree, vis'.rec, vis'.bundle, vis'.draft, vis'.final, dur.del)
           \/ dur' = dur)
        /\ pc' = pc
        /\ mem' = mem
        /\ (Kept' <=> Kept)
    BY <1>0, <1>1, SyncResultFields
       DEF CancelBegin, Barrier, files, quietCancel, Recorded, NotRecorded, Open,
           control, Running, Files
  <2>. QED BY <1>0, <1>a, <2>1, BodyFacts
     DEF BodyInv, ClaimInv, StepInv, KeptInv, FilesInv, Safe, Prepared, Claims
<1>2. CASE CancelRollback
  <2>1. /\ Is(vis', vis.tree, vis.rec, vis.bundle, vis.draft, vis.final, vis.del)
        /\ (Is(dur', dur.tree, vis'.rec, vis'.bundle, vis'.draft, vis'.final, dur.del)
           \/ dur' = dur)
        /\ pc' = pc
        /\ mem' = mem
        /\ (Kept' <=> Kept)
    BY <1>0, <1>2, SyncResultFields
       DEF CancelRollback, quietCancel, NotRecorded, control, Files
  <2>. QED BY <1>0, <1>a, <2>1, BodyFacts
     DEF BodyInv, ClaimInv, StepInv, KeptInv, FilesInv, Safe, Prepared, Claims
<1>3. CASE CancelRename
  <2>1. /\ Is(vis', vis.tree, vis.rec, vis.bundle, vis.draft, vis.final, vis.del)
        /\ dur' = dur
        /\ pc' = pc
        /\ mem' = mem
        /\ (Kept' <=> Kept)
    BY <1>0, <1>3 DEF CancelRename, Change, quietCancel, control, Files
  <2>. QED BY <1>0, <1>a, <2>1, BodyFacts
     DEF BodyInv, ClaimInv, StepInv, KeptInv, FilesInv, Safe, Prepared, Claims
<1>4. CASE CancelBarrier
  <2>1. /\ vis' = vis
        /\ (Is(dur', dur.tree, vis'.rec, vis'.bundle, vis'.draft, vis'.final, dur.del)
           \/ dur' = dur)
        /\ pc' = pc
        /\ mem' = mem
        /\ (Kept' <=> Kept)
    BY <1>0, <1>4, SyncResultFields
       DEF CancelBarrier, Barrier, files, quietCancel, Recorded, control, Files
  <2>. QED BY <1>0, <1>a, <2>1, BodyFacts
     DEF BodyInv, ClaimInv, StepInv, KeptInv, FilesInv, Safe, Prepared, Claims
<1>5. CASE Shutdown
  <2>1. /\ vis' = vis
        /\ dur' = dur
        /\ pc' = pc
        /\ mem' = mem
        /\ hist' = hist
    BY <1>0, <1>5 DEF Shutdown, files, memory, Running, Files
  <2>. QED BY <1>0, <1>a, <2>1, BodyFacts
     DEF BodyInv, ClaimInv, StepInv, KeptInv, FilesInv, Safe, Prepared, Claims
<1>6. CASE ShutdownDrained
  <2>1. /\ vis' = vis
        /\ dur' = dur
        /\ pc' \in {"none", "idle"}
        /\ mem' = mem
        /\ hist' = hist
    BY <1>0, <1>6 DEF ShutdownDrained, files, Files
  <2>. QED BY <1>0, <1>a, <2>1, BodyFacts
     DEF BodyInv, ClaimInv, StepInv, KeptInv, FilesInv, Safe, Prepared, Claims
<1>. QED BY <1>1, <1>2, <1>3, <1>4, <1>5, <1>6 DEF CancelNext

\* No step of a deletion endangers the evidence of an accepted session.
LEMMA DeleteEvidence ==
    ASSUME EvidenceInv, TypeOK', BodyInv', DeleteNext
    PROVE  ClaimInv' /\ StepInv' /\ KeptInv' /\ FilesInv'
<1>. USE DEF Is, IsSynced, Held, Kept, BodySteps, DraftSteps, SubmitSteps,
            RunSteps, TerminalSteps, DeleteSteps
<1>0. vis \in Files /\ dur \in Files /\ vis' \in Files /\ dur' \in Files
  BY DEF EvidenceInv, TypeOK
<1>a. BodyInv /\ ClaimInv /\ StepInv /\ KeptInv /\ FilesInv
  BY DEF EvidenceInv
<1>1. CASE DeleteResume
  <2>1. /\ vis' = vis
        /\ dur' = dur
        /\ vis.del = "intent"
        /\ pc = "idle" /\ pc' = "d_tree"
        /\ mem' = mem
        /\ hist' = hist
    BY <1>0, <1>1 DEF DeleteResume, Goto, files, quietDelete, Files
  <2>. QED BY <1>0, <1>a, <2>1, BodyFacts
     DEF BodyInv, ClaimInv, StepInv, KeptInv, FilesInv, Safe, Prepared, Claims
<1>2. CASE DeleteBegin
  <2>1. /\ Is(vis', vis.tree, vis.rec, vis.bundle, vis.draft, vis.final, "next")
        /\ IsSynced(dur', dur, vis')
        /\ pc = "idle" /\ pc' = "d_publish"
        /\ mem' = mem
        /\ hist' = hist
    BY <1>0, <1>2, SyncRecordsFields DEF DeleteBegin, Goto, quietDelete, Files
  <2>. QED BY <1>0, <1>a, <2>1, BodyFacts
     DEF BodyInv, ClaimInv, StepInv, KeptInv, FilesInv, Safe, Prepared, Claims
<1>3. CASE DeleteRollback
  <2>1. /\ Is(vis', vis.tree, vis.rec, vis.bundle, vis.draft, vis.final, vis'.del)
        /\ vis'.del \in {"none", vis.del}
        /\ (dur' = dur \/ IsSynced(dur', dur, vis'))
        /\ pc = "d_publish" /\ pc' = "idle"
        /\ mem' = mem
        /\ hist' = hist
    BY <1>0, <1>3, SyncRecordsFields DEF DeleteRollback, Goto, quietDelete, Files
  <2>. QED BY <1>0, <1>a, <2>1, BodyFacts
     DEF BodyInv, ClaimInv, StepInv, KeptInv, FilesInv, Safe, Prepared, Claims
<1>4. CASE DeletePublish
  <2>1. /\ Is(vis', vis.tree, vis.rec, vis.bundle, vis.draft, vis.final, "intent")
        /\ dur' = dur
        /\ pc = "d_publish" /\ pc' = "d_barrier"
        /\ mem' = mem
        /\ ~Kept'
    BY <1>0, <1>4 DEF DeletePublish, Goto, Change, quietDelete, Files
  <2>. QED BY <1>0, <1>a, <2>1, BodyFacts
     DEF BodyInv, ClaimInv, StepInv, KeptInv, FilesInv, Safe, Prepared, Claims
<1>5. CASE DeleteBarrier
  <2>1. /\ vis' = vis
        /\ (dur' = dur \/ IsSynced(dur', dur, vis'))
        /\ pc = "d_barrier" /\ pc' \in {"d_tree", "none", "idle"}
        /\ mem' = mem
        /\ hist' = hist
    BY <1>0, <1>5, SyncRecordsFields
       DEF DeleteBarrier, Goto, Barrier, Fail, files, quietDelete, Files
  <2>. QED BY <1>0, <1>a, <2>1, BodyFacts
     DEF BodyInv, ClaimInv, StepInv, KeptInv, FilesInv, Safe, Prepared, Claims
<1>6. CASE DeleteTree
  <2>1. /\ Is(vis', vis'.tree, vis.rec, vis.bundle, vis.draft, vis.final, vis.del)
        /\ dur' = dur
        /\ pc = "d_tree" /\ pc' \in {"d_rec", "d_tree_sync", "none", "idle"}
        /\ mem' = mem
        /\ hist' = hist
    BY <1>0, <1>6, WithoutTreeFields, DamagedTypes
       DEF DeleteTree, Goto, Change, Fail, files, quietDelete, Files
  <2>. QED BY <1>0, <1>a, <2>1, BodyFacts
     DEF BodyInv, ClaimInv, StepInv, KeptInv, FilesInv, Safe, Prepared, Claims
<1>7. CASE DeleteTreeSync
  <2>1. /\ vis' = vis
        /\ (Is(dur', vis'.tree, dur.rec, dur.bundle, dur.draft, dur.final, dur.del)
           \/ dur' = dur)
        /\ pc = "d_tree_sync" /\ pc' \in {"d_rec", "none", "idle"}
        /\ mem' = mem
        /\ hist' = hist
    BY <1>0, <1>7, SyncSessionsFields
       DEF DeleteTreeSync, Goto, Barrier, Fail, files, quietDelete, Files
  <2>. QED BY <1>0, <1>a, <2>1, BodyFacts
     DEF BodyInv, ClaimInv, StepInv, KeptInv, FilesInv, Safe, Prepared, Claims
<1>8. CASE DeleteResult
  <2>1. /\ (vis'.rec = "accepted" => vis.rec = "accepted")
        /\ vis'.draft \in {Absent, vis.draft} /\ vis'.final \in {Absent, vis.final}
        /\ dur' = dur
        /\ pc = "d_rec" /\ pc' \in {"d_auth", "d_rec_sync", "none", "idle"}
        /\ mem' = mem
        /\ hist' = hist
    BY <1>0, <1>8, WithoutResultFields, RuinedTypes
       DEF DeleteResult, Goto, Change, Fail, files, quietDelete, Files
  <2>. QED BY <1>0, <1>a, <2>1, BodyFacts
     DEF BodyInv, ClaimInv, StepInv, KeptInv, FilesInv, Safe, Prepared, Claims
<1>9. CASE DeleteResultSync
  <2>1. /\ vis' = vis
        /\ (dur' = dur \/ IsSynced(dur', dur, vis'))
        /\ pc = "d_rec_sync" /\ pc' \in {"d_auth", "none", "idle"}
        /\ mem' = mem
        /\ hist' = hist
    BY <1>0, <1>9, SyncRecordsFields
       DEF DeleteResultSync, Goto, Barrier, Fail, files, quietDelete, Files
  <2>. QED BY <1>0, <1>a, <2>1, BodyFacts
     DEF BodyInv, ClaimInv, StepInv, KeptInv, FilesInv, Safe, Prepared, Claims
<1>10. CASE DeleteAuthority
  <2>1. /\ Is(vis', vis.tree, vis.rec, vis.bundle, vis.draft, vis.final, vis'.del)
        /\ vis'.del \in {"none", vis.del}
        /\ dur' = dur
        /\ pc = "d_auth" /\ pc' \in {"d_auth_sync", "none", "idle"}
        /\ mem' = mem
        /\ hist' = hist
    BY <1>0, <1>10
       DEF DeleteAuthority, Goto, Change, Fail, files, quietDelete, Files
  <2>. QED BY <1>0, <1>a, <2>1, BodyFacts
     DEF BodyInv, ClaimInv, StepInv, KeptInv, FilesInv, Safe, Prepared, Claims
<1>11. CASE DeleteDone
  <2>1. /\ vis' = vis
        /\ (dur' = dur \/ IsSynced(dur', dur, vis'))
        /\ pc = "d_auth_sync" /\ pc' \in {"b_check", "none", "idle"}
        /\ mem' = mem
        /\ (Kept' <=> Kept)
    BY <1>0, <1>11, SyncRecordsFields
       DEF DeleteDone, Goto, Barrier, Fail, files, quietDelete, Files
  <2>. QED BY <1>0, <1>a, <2>1, BodyFacts
     DEF BodyInv, ClaimInv, StepInv, KeptInv, FilesInv, Safe, Prepared, Claims
<1>. QED BY <1>1, <1>2, <1>3, <1>4, <1>5, <1>6, <1>7, <1>8, <1>9, <1>10, <1>11
   DEF DeleteNext

\* No step of a startup endangers the evidence of an accepted session.
LEMMA RecoveryEvidence ==
    ASSUME EvidenceInv, TypeOK', BodyInv', RecoveryNext
    PROVE  ClaimInv' /\ StepInv' /\ KeptInv' /\ FilesInv'
<1>. USE DEF Is, IsSynced, Held, Kept, BodySteps, DraftSteps, SubmitSteps,
            RunSteps, TerminalSteps, DeleteSteps
<1>0. vis \in Files /\ dur \in Files /\ vis' \in Files /\ dur' \in Files
  BY DEF EvidenceInv, TypeOK
<1>a. BodyInv /\ ClaimInv /\ StepInv /\ KeptInv /\ FilesInv
  BY DEF EvidenceInv
<1>1. CASE Boot
  <2>1. /\ vis' = vis
        /\ dur' = dur
        /\ pc' = "b_delete"
        /\ mem' = mem
        /\ hist' = hist
    BY <1>0, <1>1 DEF Boot, files, quietBoot, memory, Files
  <2>. QED BY <1>0, <1>a, <2>1, BodyFacts
     DEF BodyInv, ClaimInv, StepInv, KeptInv, FilesInv, Safe, Prepared, Claims
<1>2. CASE BootDelete
  <2>1. /\ Is(vis', vis.tree, vis.rec, vis.bundle, vis.draft, vis.final, vis'.del)
        /\ vis'.del \in {"none", vis.del}
        /\ (dur' = dur \/ IsSynced(dur', dur, vis'))
        /\ pc = "b_delete" /\ pc' \in {"d_tree", "b_check", "none", "idle"}
        /\ (pc' = "d_tree" => vis.del = "intent")
        /\ mem' = mem
        /\ hist' = hist
    BY <1>0, <1>2, SyncRecordsFields
       DEF BootDelete, Goto, Fail, files, quietBoot, memory, Files
  <2>. QED BY <1>0, <1>a, <2>1, BodyFacts
     DEF BodyInv, ClaimInv, StepInv, KeptInv, FilesInv, Safe, Prepared, Claims
<1>3. CASE BootCheck
  <2>1. /\ vis' = vis
        /\ dur' = dur
        /\ pc = "b_check" /\ pc' \in {"b_accept", "none"}
        /\ mem' = mem
        /\ hist' = hist
    BY <1>0, <1>3 DEF BootCheck, Goto, Refuse, files, quietBoot, memory, Files
  <2>. QED BY <1>0, <1>a, <2>1, BodyFacts
     DEF BodyInv, ClaimInv, StepInv, KeptInv, FilesInv, Safe, Prepared, Claims
<1>4. CASE BootAccept
  <2>1. /\ vis' = vis
        /\ dur' = dur
        /\ pc = "b_accept" /\ pc' \in {"b_open", "b_undo", "b_final", "none"}
        /\ (pc' = "b_undo" => vis.rec # "accepted")
        /\ (pc' = "b_open" => vis.rec = "accepted")
        /\ mem' = mem
        /\ hist' = hist
    BY <1>0, <1>4
       DEF BootAccept, Uncommitted, Goto, Refuse, files, quietBoot, memory, Files
  <2>. QED BY <1>0, <1>a, <2>1, BodyFacts
     DEF BodyInv, ClaimInv, StepInv, KeptInv, FilesInv, Safe, Prepared, Claims
<1>5. CASE BootUndo
  <2>1. /\ Is(vis', vis'.tree, vis.rec, vis.bundle, vis.draft, vis.final, vis.del)
        /\ dur' = dur
        /\ pc = "b_undo" /\ pc' \in {"b_undo_sync", "b_undo_rec", "none", "idle"}
        /\ mem' = mem
        /\ hist' = hist
    BY <1>0, <1>5, WithoutTreeFields, DamagedTypes
       DEF BootUndo, Goto, Change, Fail, files, quietBoot, memory, Files
  <2>. QED BY <1>0, <1>a, <2>1, BodyFacts
     DEF BodyInv, ClaimInv, StepInv, KeptInv, FilesInv, Safe, Prepared, Claims
<1>6. CASE BootUndoSync
  <2>1. /\ vis' = vis
        /\ (Is(dur', vis'.tree, dur.rec, dur.bundle, dur.draft, dur.final, dur.del)
           \/ dur' = dur)
        /\ pc = "b_undo_sync" /\ pc' \in {"b_undo_rec", "none", "idle"}
        /\ mem' = mem
        /\ hist' = hist
    BY <1>0, <1>6, SyncSessionsFields
       DEF BootUndoSync, Goto, Barrier, Fail, files, quietBoot, memory, Files
  <2>. QED BY <1>0, <1>a, <2>1, BodyFacts
     DEF BodyInv, ClaimInv, StepInv, KeptInv, FilesInv, Safe, Prepared, Claims
<1>7. CASE BootUndoResult
  <2>1. /\ vis'.rec # "accepted"
        /\ vis'.draft \in {Absent, vis.draft} /\ vis'.final \in {Absent, vis.final}
        /\ (dur' = dur \/ IsSynced(dur', dur, vis'))
        /\ pc = "b_undo_rec" /\ pc' \in {"b_final", "none", "idle"}
        /\ mem' = mem
        /\ hist' = hist
    BY <1>0, <1>a, <1>7, WithoutResultFields, SyncRecordsFields, RuinedTypes
       DEF BootUndoResult, StepInv, Goto, Change, Fail, quietBoot, memory, Files
  <2>. QED BY <1>0, <1>a, <2>1, BodyFacts
     DEF BodyInv, ClaimInv, StepInv, KeptInv, FilesInv, Safe, Prepared, Claims
<1>8. CASE BootCancel
  <2>1. /\ Is(vis', vis.tree, vis.rec, vis.bundle, vis.draft, vis.final, vis.del)
        /\ (Is(dur', dur.tree, vis'.rec, vis'.bundle, vis'.draft, vis'.final, dur.del)
           \/ dur' = dur)
        /\ pc = "b_cancel" /\ pc' \in {"b_final", "b_resume", "b_recover", "none", "idle"}
        /\ (pc' = "b_recover" => vis.final = Absent /\ vis.draft = Absent)
        /\ (pc' = "b_resume" => vis.draft # Absent)
        /\ mem' = mem
        /\ hist' = hist
    <3>1. CASE UNCHANGED files /\ Fail /\ pc = "b_cancel" /\ UNCHANGED quietBoot
      BY <1>0, <3>1 DEF Fail, Goto, files, quietBoot, memory, Files, Is
    <3>2. CASE ~(UNCHANGED files /\ Fail)
      BY <1>0, <1>8, <3>2, SyncResultFields
         DEF BootCancel, Goto, Fail, quietBoot, memory, Files
    <3>. QED BY <1>8, <3>1, <3>2 DEF BootCancel
  <2>. QED BY <1>0, <1>a, <2>1, BodyFacts
     DEF BodyInv, ClaimInv, StepInv, KeptInv, FilesInv, Safe, Prepared, Claims
<1>9. CASE BootResume
  <2>1. /\ vis' = vis
        /\ (Is(dur', dur.tree, vis'.rec, vis'.bundle, vis'.draft, vis'.final, dur.del)
           \/ dur' = dur)
        /\ pc = "b_resume" /\ pc' \in {"finish", "none", "idle"}
        /\ (pc' = "finish" =>
           mem' = vis.draft /\ dur'.draft = vis.draft /\ dur'.bundle = vis.bundle /\ ValidStorage(vis.draft, vis))
        /\ hist' = hist
    BY <1>0, <1>a, <1>9, SyncResultFields
       DEF BootResume, Goto, Barrier, Fail, Refuse, files, Files
  <2>. QED BY <1>0, <1>a, <2>1, BodyFacts
     DEF BodyInv, ClaimInv, StepInv, KeptInv, FilesInv, Safe, Prepared, Claims,
         ValidStorage
<1>10. CASE BootRecover
  <2>1. /\ Is(vis', vis'.tree, vis.rec, vis.bundle, vis.draft, vis.final, vis.del)
        /\ pc = "b_recover" /\ pc' \in {"teardown", "none", "idle"}
        /\ (pc' = "teardown" => vis'.tree = "full" /\ mem'.evidence = {})
        /\ vis'.tree \in {vis.tree, "full"}
        /\ dur'.tree \in {dur.tree, vis'.tree}
        /\ (vis.tree # "none" => dur'.tree = dur.tree)
        /\ (Is(dur', dur'.tree, vis'.rec, vis'.bundle, vis'.draft, vis'.final, dur.del)
           \/ dur' = dur)
        /\ hist' = hist
    <3>1. CASE pc' # "teardown"
      <4>1. /\ pc = "b_recover" /\ pc' \in {"none", "idle"} /\ hist' = hist
            /\ UNCHANGED files \/ PublishFails(vis)
        BY <1>10, <3>1 DEF BootRecover, Refuse, Fail, Goto
      <4>2. CASE UNCHANGED files
        BY <3>1, <4>1, <4>2 DEF files, Is
      <4>3. CASE PublishFails(vis)
        BY <1>0, <3>1, <4>1, <4>3, PublicationFields DEF Is
      <4>. QED BY <4>1, <4>2, <4>3
    <3>2. CASE pc' = "teardown"
      <4>1. /\ vis' = [vis EXCEPT !.tree = "full", !.progress = "agrees"]
            /\ dur' = SyncResult(IF vis.tree = "none" THEN SyncSessions(dur, vis') ELSE dur, vis')
            /\ mem'.evidence = {} /\ hist' = hist /\ pc = "b_recover"
        BY <1>10, <3>2 DEF BootRecover, Refuse, Fail, Goto
      <4>2. Is(vis', "full", vis.rec, vis.bundle, vis.draft, vis.final, vis.del)
        BY <1>0, <4>1 DEF Files, Is
      <4> DEFINE d == IF vis.tree = "none" THEN SyncSessions(dur, vis') ELSE dur
      <4>3. d \in Files /\ d.del = dur.del /\ d.tree \in {dur.tree, vis'.tree}
            /\ (vis.tree # "none" => d.tree = dur.tree)
        <5>1. SyncSessions(dur, vis') \in Files
          BY <1>0, SyncTypes
        <5>2. Is(SyncSessions(dur, vis'), vis'.tree, dur.rec, dur.bundle, dur.draft,
                 dur.final, dur.del)
          BY <1>0, SyncSessionsFields
        <5>. QED BY <1>0, <5>1, <5>2 DEF Is
      <4>4. dur' = SyncResult(d, vis')
        BY <4>1
      <4> HIDE DEF d
      <4>5. Is(dur', d.tree, vis'.rec, vis'.bundle, vis'.draft, vis'.final, d.del)
        BY <1>0, <4>3, <4>4, SyncResultFields
      <4>. QED BY <3>2, <4>1, <4>2, <4>3, <4>5 DEF Is
    <3>. QED BY <3>1, <3>2
  <2>. QED BY <1>0, <1>a, <2>1, BodyFacts
     DEF BodyInv, ClaimInv, StepInv, KeptInv, FilesInv, Safe, Prepared, Claims
<1>11. CASE BootFinal
  <2>1. /\ vis' = vis
        /\ (Is(dur', dur.tree, vis'.rec, vis'.bundle, vis'.draft, vis'.final, dur.del)
           \/ dur' = dur)
        /\ pc = "b_final" /\ pc' \in {"b_state", "b_unlink", "none", "idle"}
        /\ (pc' = "b_unlink" => vis.final # Absent)
        /\ (pc' \in {"b_unlink", "b_state"} /\ vis.final # Absent =>
           dur'.final = vis.final /\ dur'.bundle = vis.bundle)
        /\ mem' = mem
        /\ hist' = hist
    BY <1>0, <1>11, SyncResultFields
       DEF BootFinal, Goto, Barrier, Fail, Refuse, files, quietBoot, memory, Files
  <2>. QED BY <1>0, <1>a, <2>1, BodyFacts
     DEF BodyInv, ClaimInv, StepInv, KeptInv, FilesInv, Safe, Prepared, Claims
<1>12. CASE BootUnlink
  <2>1. /\ (Is(vis', vis.tree, vis.rec, vis.bundle, Absent, vis.final, vis.del) \/ vis' = vis)
        /\ dur' = dur
        /\ pc = "b_unlink" /\ pc' \in {"b_unlink_sync", "none", "idle"}
        /\ mem' = mem
        /\ hist' = hist
    BY <1>0, <1>12
       DEF BootUnlink, Goto, Change, Fail, files, quietBoot, memory, Files
  <2>. QED BY <1>0, <1>a, <2>1, BodyFacts
     DEF BodyInv, ClaimInv, StepInv, KeptInv, FilesInv, Safe, Prepared, Claims
<1>13. CASE BootUnlinkSync
  <2>1. /\ vis' = vis
        /\ (Is(dur', dur.tree, vis'.rec, vis'.bundle, vis'.draft, vis'.final, dur.del)
           \/ dur' = dur)
        /\ pc = "b_unlink_sync" /\ pc' \in {"b_state", "none", "idle"}
        /\ mem' = mem
        /\ hist' = hist
    BY <1>0, <1>13, SyncResultFields
       DEF BootUnlinkSync, Goto, Barrier, Fail, files, quietBoot, memory, Files
  <2>. QED BY <1>0, <1>a, <2>1, BodyFacts
     DEF BodyInv, ClaimInv, StepInv, KeptInv, FilesInv, Safe, Prepared, Claims
<1>14. CASE BootState
  <2>1. /\ Is(vis', vis'.tree, vis.rec, vis.bundle, vis.draft, vis.final, vis.del)
        /\ (Is(dur', vis'.tree, dur.rec, dur.bundle, dur.draft, dur.final, dur.del)
           \/ dur' = dur)
        /\ (vis'.tree = vis.tree \/ SweepTree(vis))
        /\ pc = "b_state" /\ pc' \in {"b_results", "none", "idle"}
        /\ mem' = mem
        /\ hist' = hist
    BY <1>0, <1>14, SyncSessionsFields, WithoutTreeFields, DamagedTypes
       DEF BootState, Goto, Change, Fail, Refuse, files, quietBoot, memory, Files
  <2>2. FilesInv'
    <3>1. ASSUME SweepTree(vis), vis.rec = "accepted"
          PROVE  /\ vis.final # Absent /\ dur.final # Absent
                 /\ vis.bundle = "full" /\ dur.bundle = "full"
      <4>1. vis.final \in Body
        BY <1>0, <3>1 DEF SweepTree, EmptyResult, Files
      <4>2. "bundle" \in vis.final.evidence
        BY <1>a, <3>1, <4>1, BodyFacts DEF SweepTree, FilesInv, Claims, Body
      <4>. QED BY <1>a, <2>1, <3>1, <4>1, <4>2, BodyFacts
         DEF SweepTree, ValidStorage, StepInv
    <3>. QED BY <1>0, <1>a, <2>1, <3>1
       DEF FilesInv, Safe, Prepared, Claims, Held, Kept, Is
  <2>3. ClaimInv' /\ StepInv' /\ KeptInv'
    BY <1>a, <2>1 DEF ClaimInv, StepInv, KeptInv, FilesInv, Safe
  <2>. QED BY <2>2, <2>3
<1>15. CASE BootResults
  <2>1. /\ (vis' = vis \/ (vis.rec # "accepted" /\ Is(vis', vis.tree, "none", "none", Absent, Absent, vis.del)))
        /\ (dur' = dur \/ IsSynced(dur', dur, vis'))
        /\ pc = "b_results" /\ pc' \in {"none", "idle"}
        /\ mem' = mem
        /\ hist' = hist
    BY <1>0, <1>15, SyncRecordsFields, WithoutResultFields
       DEF BootResults, EmptyResult, Fail, Refuse, files, quietBoot, Goto, memory,
           Files
  <2>. QED BY <1>0, <1>a, <2>1, BodyFacts
     DEF BodyInv, ClaimInv, StepInv, KeptInv, FilesInv, Safe, Prepared, Claims
<1>16. CASE BootOpen
  <2>1. /\ Is(vis', vis.tree, vis.rec, vis.bundle, vis.draft, vis.final, vis.del)
        /\ (Is(dur', dur.tree, vis'.rec, vis'.bundle, vis'.draft, vis'.final, dur.del)
           \/ dur' = dur)
        /\ pc = "b_open" /\ pc' \in {"b_cancel", "none", "idle"}
        /\ mem' = mem
        /\ hist' = hist
    BY <1>0, <1>16, SyncResultFields
       DEF BootOpen, Goto, Fail, files, quietBoot, memory, Files
  <2>. QED BY <1>0, <1>a, <2>1, BodyFacts
     DEF BodyInv, ClaimInv, StepInv, KeptInv, FilesInv, Safe, Prepared, Claims
<1>. QED BY <1>1, <1>2, <1>3, <1>4, <1>5, <1>6, <1>7, <1>8, <1>9, <1>10, <1>11,
   <1>12, <1>13, <1>14, <1>15, <1>16 DEF RecoveryNext

\* A crash or a power loss preserves the invariant.
LEMMA FailureStep ==
    ASSUME EvidenceInv, Crash \/ PowerLoss
    PROVE  EvidenceInv'
<1>0. vis \in Files /\ dur \in Files
  BY DEF EvidenceInv, TypeOK
<1>1. pc' = "none" /\ hist' = hist /\ mem' = Absent
  BY DEF Crash, PowerLoss, Forget
<1>2. vis' \in Files /\ dur' \in Files /\ FilesInv'
  <2>1. CASE Crash
    <3>1. /\ vis' \in Files /\ dur' = dur
          /\ Is(vis', vis.tree, vis.rec, vis.bundle, vis.draft, vis.final, vis.del)
      BY <1>0, <2>1, Values DEF Crash, Interrupted, Change, Files, Is
    <3>. QED BY <1>0, <1>1, <3>1 DEF EvidenceInv, FilesInv, Kept, Is, Safe, Prepared, Held, Claims
  <2>2. CASE PowerLoss
    <3>1. PICK k \in Either(vis, dur) : vis' = Pruned(k) /\ dur' = Pruned(k)
      BY <2>2 DEF PowerLoss
    <3>. QED BY <1>0, <1>1, <3>1, PowerLossViews DEF EvidenceInv, FilesInv, Kept
  <2>. QED BY <2>1, <2>2
<1>3. TypeOK'
  BY <1>2 DEF EvidenceInv, TypeOK, Crash, PowerLoss, Forget, Steps
<1>4. BodyInv'
  BY <1>1 DEF BodyInv, BodySteps, RunSteps, TerminalSteps
<1>5. ClaimInv' /\ StepInv' /\ KeptInv'
  BY <1>1 DEF ClaimInv, StepInv, KeptInv, BodySteps, DraftSteps, SubmitSteps,
              RunSteps, TerminalSteps, DeleteSteps
<1>. QED BY <1>2, <1>3, <1>4, <1>5 DEF EvidenceInv

\* The service starts from nothing.
LEMMA InitEvidence == Init => EvidenceInv
<1>. SUFFICES ASSUME Init PROVE EvidenceInv
  OBVIOUS
<1>1. Empty \in Files /\ Is(Empty, "none", "none", "none", Absent, Absent, "none")
  BY Values DEF Empty, Files, Is
<1>2. TypeOK
  BY <1>1 DEF Init, TypeOK, Steps
<1>3. BodyInv /\ ClaimInv /\ StepInv /\ KeptInv
  BY DEF Init, BodyInv, ClaimInv, StepInv, KeptInv, BodySteps, DraftSteps,
     SubmitSteps,
         RunSteps, TerminalSteps, DeleteSteps
<1>4. FilesInv
  BY <1>1, BodyFacts DEF Init, FilesInv, Claims, Safe, Is
<1>. QED BY <1>2, <1>3, <1>4 DEF EvidenceInv

-----------------------------------------------------------------------------
(* The theorems.                                                           *)

\* Every step of the service, and every failure, preserves the invariant.
LEMMA NextEvidence ==
    ASSUME EvidenceInv, [Next]_vars
    PROVE  EvidenceInv'
<1>1. CASE AcceptanceNext \/ RunNext \/ TerminalNext \/ CancelNext \/ DeleteNext \/ RecoveryNext
  <2>1. TypeOK' /\ BodyInv'
    BY <1>1, AcceptanceType, RunType, TerminalType, CancelType, DeleteType,
       RecoveryType
       DEF EvidenceInv
  <2>2. ClaimInv' /\ StepInv' /\ KeptInv' /\ FilesInv'
    BY <1>1, <2>1, AcceptanceEvidence, RunEvidence, TerminalEvidence,
       CancelEvidence,
       DeleteEvidence, RecoveryEvidence
  <2>. QED BY <2>1, <2>2 DEF EvidenceInv
<1>2. CASE Crash \/ PowerLoss
  BY <1>2, FailureStep
<1>3. CASE UNCHANGED vars
  BY <1>3
     DEF vars, EvidenceInv, TypeOK, BodyInv, ClaimInv, StepInv, KeptInv, FilesInv,
         Kept
<1>. QED BY <1>1, <1>2, <1>3 DEF Next

\* Safe implies what the property says of the views.
LEMMA EvidenceImplied == EvidenceInv => TypeOK /\ EvidenceSurvives
BY DEF EvidenceInv, FilesInv, Safe, EvidenceSurvives, Kept

\* The inductive invariant holds in every reachable state, whatever Answers
\* and Faults are: the step-by-step argument of the whole store.
THEOREM EvidenceInvariant == Spec => []EvidenceInv
BY InitEvidence, NextEvidence, PTL DEF Spec

\* Every variable keeps its type; in particular finished.json, which the
\* commit links from the draft, is never an unparseable file.
THEOREM TypeCorrect == Spec => []TypeOK
<1>1. EvidenceInv => TypeOK
  BY EvidenceImplied
<1>. QED BY <1>1, EvidenceInvariant, PTL

\* An accepted session that nobody may delete has its raw tree or its bundle
\* in both views of the file system, for every combination of crashes, power
\* losses and failing operations (run_one's evidence and the terminal
\* transaction, with the startup that resumes it).
THEOREM EvidenceNeverLost == Spec => []EvidenceSurvives
<1>1. EvidenceInv => EvidenceSurvives
  BY EvidenceImplied
<1>. QED BY <1>1, EvidenceInvariant, PTL
=============================================================================
