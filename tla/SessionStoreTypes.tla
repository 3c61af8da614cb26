-------------------------- MODULE SessionStoreTypes --------------------------
(***************************************************************************)
(* The types of SessionStore, for every set of answers and every set of    *)
(* faults: TypeOK is not inductive by itself, because a record is          *)
(* published by linking the draft, and a draft may be torn; BodyInv says    *)
(* when it is not.                                                         *)
(***************************************************************************)
EXTENDS SessionStore, TLAPS

-----------------------------------------------------------------------------
(* The operators the model is built from.                                  *)

\* The members of the field types, once, so that they need not be expanded.
LEMMA Values ==
    /\ {"none", "partial", "layout", "placed", "full"} \subseteq Trees
    /\ {"none", "torn", "unbundled", "bundled"} \subseteq Markers
    /\ {"none", "dir", "progress", "torn", "next", "accepted", "bare"} \subseteq Recs
    /\ {"none", "next", "intent"} \subseteq Intents
    /\ {"none", "partial", "full"} \subseteq Bundles
    /\ {"agrees", "next", "differs"} \subseteq Histories
BY DEF Trees, Markers, Recs, Intents, Bundles, Histories

\* A missing file, an unparseable one and a terminal body are told apart.
LEMMA BodyFacts ==
    /\ Absent \notin Body /\ Torn \notin Body /\ Absent # Torn
    /\ Absent.evidence = {} /\ Torn.evidence = {}
BY DEF Body, Absent, Torn

\* Every barrier yields a file system.
LEMMA SyncTypes ==
    ASSUME NEW d \in Files, NEW v \in Files
    PROVE  /\ SyncSessions(d, v) \in Files
           /\ SyncControl(d, v) \in Files
           /\ SyncResult(d, v) \in Files
           /\ SyncRecords(d, v) \in Files
<1>1. SyncSessions(d, v) \in Files
  BY Values DEF SyncSessions, Files
<1>2. SyncControl(d, v) \in Files
  BY DEF SyncControl, Files
<1>3. SyncResult(d, v) \in Files
  BY DEF SyncResult, Files
<1>4. SyncRecords(d, v) \in Files
  BY Values DEF SyncRecords, Files
<1>. QED BY <1>1, <1>2, <1>3, <1>4

\* So does every removal,
LEMMA WithoutTypes ==
    ASSUME NEW v \in Files
    PROVE  /\ WithoutTree(v) \in Files
           /\ WithoutResult(v) \in Files
BY Values DEF WithoutTree, WithoutResult, Files

\* a removal of the raw tree that stopped half-way, which leaves the records alone,
LEMMA DamagedTypes ==
    ASSUME NEW v \in Files, NEW w \in Damaged(v)
    PROVE  /\ w \in Files
           /\ w.tree = "partial" /\ w.rec = v.rec /\ w.cancel = v.cancel
           /\ w.bundle = v.bundle /\ w.draft = v.draft /\ w.final = v.final
           /\ w.del = v.del
<1>1. PICK m \in {"none", v.marker} : w = [v EXCEPT !.tree = "partial", !.marker = m]
  BY DEF Damaged
<1>. QED BY <1>1, Values DEF Files

\* and a removal of the result directory that stopped half-way, which leaves
\* the raw tree alone and accepts nothing.
LEMMA RuinedTypes ==
    ASSUME NEW v \in Files, NEW w \in Ruined(v)
    PROVE  /\ w \in Files
           /\ w.tree = v.tree /\ w.marker = v.marker /\ w.del = v.del
           /\ w.rec = "accepted" => v.rec = "accepted"
           /\ w.draft \in {Absent, v.draft} /\ w.final \in {Absent, v.final}
<1>1. PICK x \in Remains(v) :
        w = [v EXCEPT !.rec = x.rec, !.progress = x.progress, !.cancel = x.cancel,
                      !.bundle = x.bundle, !.draft = x.draft, !.final = x.final]
  BY DEF Ruined
<1>2. x.rec \in Recs
  BY Values DEF RecLeft, Remains, Files
<1>3. x.rec = "accepted" => v.rec = "accepted"
  BY DEF RecLeft, Remains, Files
<1>. QED BY <1>1, <1>2, <1>3, Values DEF Remains, Files

\* A publication of progress, good or bad, leaves every other entry alone,
\* but for what its barrier makes durable.
LEMMA PublicationTypes ==
    ASSUME NEW v \in Files, vis \in Files, dur \in Files,
           Publishes(v) \/ PublishFails(v)
    PROVE  /\ vis' \in Files /\ dur' \in Files
           /\ vis' = [v EXCEPT !.progress = vis'.progress]
           /\ dur' = dur \/ dur' = SyncResult(dur, vis')
<1>1. CASE Publishes(v)
  <2>1. vis' = [v EXCEPT !.progress = "agrees"] /\ dur' = SyncResult(dur, vis')
    BY <1>1 DEF Publishes
  <2>2. vis' \in Files /\ vis' = [v EXCEPT !.progress = vis'.progress]
    BY <2>1, Values DEF Files
  <2>. QED BY <2>1, <2>2, SyncTypes
<1>2. CASE PublishFails(v)
  <2>1. dur' = dur /\ (vis' = v \/ vis' = [v EXCEPT !.progress = "next"])
    BY <1>2 DEF PublishFails, Change
  <2>2. vis' \in Files /\ vis' = [v EXCEPT !.progress = vis'.progress]
    BY <2>1, Values DEF Files
  <2>. QED BY <2>1, <2>2
<1>. QED BY <1>1, <1>2

\* The same for the last one, after which the body may repeat another history.
LEMMA BehindTypes ==
    ASSUME vis \in Files, dur \in Files, HistoryBehind
    PROVE  /\ vis' \in Files /\ dur' \in Files
           /\ vis' = [vis EXCEPT !.progress = vis'.progress]
           /\ dur' = [dur EXCEPT !.progress = dur'.progress]
BY Values DEF HistoryBehind, Change, Files

\* What the supervisor and recovery do to a body leaves a body.
LEMMA BodyBuilt ==
    /\ \A a \in Answers \cup {NoAnswer} : \A s \in {"ended", "cancelled"} :
          [status |-> s, evidence |-> {}, answer |-> a] \in Body
    /\ \A b \in Body :
          /\ [b EXCEPT !.status = "cancelled"] \in Body
          /\ [b EXCEPT !.evidence = {"bundle"}] \in Body
          /\ [b EXCEPT !.evidence = @ \cup {"raw"}] \in Body
BY DEF Body

\* The history variable keeps its type.
LEMMA HistGrows ==
    ASSUME NEW h \in SUBSET {"accepted", "cancelled", "deleting", "deleted"},
           NEW x \in {"accepted", "cancelled", "deleting", "deleted"}
    PROVE  h \cup {x} \in SUBSET {"accepted", "cancelled", "deleting", "deleted"}
OBVIOUS

-----------------------------------------------------------------------------
(* One lemma per transaction, one case per action.                         *)

\* Every step of an acceptance keeps the types.
LEMMA AcceptanceType ==
    ASSUME TypeOK, BodyInv, AcceptanceNext
    PROVE  TypeOK' /\ BodyInv'
<1>. USE DEF TypeOK, Goto, Change, Barrier, files, control, memory, Steps,
            SubmitSteps, RunSteps, TerminalSteps, DeleteSteps, BootSteps,
            BodySteps
<1>1. CASE Submit
  BY <1>1, Values, BodyFacts
     DEF BodyInv, Submit, quietSubmit, Files
<1>2. CASE SubmitReplay
  BY <1>2, Values, BodyFacts
     DEF BodyInv, SubmitReplay, Running, Files
<1>3. CASE SubmitLayout
  BY <1>3, Values, BodyFacts, SyncTypes
     DEF BodyInv, SubmitLayout, quietSubmit, Files
<1>4. CASE SubmitPlace
  BY <1>4, Values, BodyFacts, SyncTypes
     DEF BodyInv, SubmitPlace, quietSubmit, Files
<1>5. CASE SubmitResult
  BY <1>5, Values, BodyFacts, SyncTypes
     DEF BodyInv, SubmitResult, quietSubmit, Files
<1>6. CASE SubmitProgress
  BY <1>6, Values, BodyFacts, SyncTypes
     DEF BodyInv, SubmitProgress, quietSubmit, Files
<1>7. CASE SubmitOpen
  BY <1>7, Values, BodyFacts
     DEF BodyInv, SubmitOpen, quietSubmit, Files
<1>8. CASE SubmitWrite
  BY <1>8, Values, BodyFacts, SyncTypes
     DEF BodyInv, SubmitWrite, quietSubmit, Files
<1>9. CASE SubmitPublish
  BY <1>9, Values, BodyFacts
     DEF BodyInv, SubmitPublish, quietSubmit, Files
<1>10. CASE SubmitBarrier
  <2>1. vis' \in Files /\ dur' \in Files
    BY <1>10, Values, SyncTypes DEF SubmitBarrier, Files
  <2>2. /\ mem' \in Body \cup {Absent}
        /\ pc' \in BodySteps => mem' \in Body
    BY <1>10, BodyBuilt DEF BodyInv, SubmitBarrier
  <2>3. TypeOK'
    BY <1>10, <2>1, <2>2, HistGrows DEF SubmitBarrier
  <2>4. BodyInv'
    BY <1>10, <2>2, BodyFacts DEF BodyInv, SubmitBarrier, Files
  <2>. QED BY <2>3, <2>4
<1>11. CASE SubmitFails
  BY <1>11, Values, BodyFacts
     DEF BodyInv, SubmitFails, quietSubmit, Files
<1>12. CASE SubmitRollback
  <2>1. vis' \in Files /\ dur' \in Files
    BY <1>12, Values, SyncTypes, WithoutTypes, DamagedTypes, RuinedTypes
       DEF SubmitRollback, Files
  <2>2. /\ mem' \in Body \cup {Absent}
        /\ pc' \in BodySteps => mem' \in Body
    BY <1>12, BodyBuilt DEF BodyInv, SubmitRollback, quietSubmit
  <2>3. TypeOK'
    BY <1>12, <2>1, <2>2, HistGrows DEF SubmitRollback, quietSubmit
  <2>4. BodyInv'
    BY <1>12, <2>2, BodyFacts, DamagedTypes, RuinedTypes
       DEF BodyInv, SubmitRollback, quietSubmit, Files, WithoutTree, WithoutResult
  <2>. QED BY <2>3, <2>4
<1>. QED BY <1>1, <1>2, <1>3, <1>4, <1>5, <1>6, <1>7, <1>8, <1>9, <1>10, <1>11,
   <1>12 DEF AcceptanceNext

\* Every step of an execution keeps the types.
LEMMA RunType ==
    ASSUME TypeOK, BodyInv, RunNext
    PROVE  TypeOK' /\ BodyInv'
<1>. USE DEF TypeOK, Goto, Change, Barrier, files, control, memory, Steps,
            SubmitSteps, RunSteps, TerminalSteps, DeleteSteps, BootSteps,
            BodySteps
<1>1. CASE Execute
  <2>1. vis' \in Files /\ dur' \in Files
    <3>. DEFINE v == [vis EXCEPT !.tree = "full"]
    <3>1. v \in Files
      BY Values DEF Files
    <3>2. Publishes(v) \/ PublishFails(v)
      BY <1>1 DEF Execute
    <3>. HIDE DEF v
    <3>. QED BY <3>1, <3>2, PublicationTypes
  <2>2. /\ mem' \in Body \cup {Absent}
        /\ pc' \in BodySteps => mem' \in Body
    BY <1>1, BodyBuilt DEF BodyInv, Execute, Ended
  <2>3. TypeOK'
    BY <1>1, <2>1, <2>2, HistGrows DEF Execute
  <2>4. BodyInv'
    BY <1>1, <2>2, BodyFacts DEF BodyInv, Execute
  <2>. QED BY <2>3, <2>4
<1>2. CASE ExecutionPanic
  <2>1. vis' \in Files /\ dur' \in Files
    BY <1>2, Values DEF ExecutionPanic, Files
  <2>2. /\ mem' \in Body \cup {Absent}
        /\ pc' \in BodySteps => mem' \in Body
    BY <1>2, BodyBuilt DEF BodyInv, ExecutionPanic, Ended
  <2>3. TypeOK'
    BY <1>2, <2>1, <2>2, HistGrows DEF ExecutionPanic
  <2>4. BodyInv'
    BY <1>2, <2>2, BodyFacts DEF BodyInv, ExecutionPanic, Files
  <2>. QED BY <2>3, <2>4
<1>3. CASE Teardown
  BY <1>3, Values, BodyFacts
     DEF BodyInv, Teardown, Files
<1>4. CASE BundleOpen
  BY <1>4, Values, BodyFacts
     DEF BodyInv, BundleOpen, Files
<1>5. CASE BundleSkip
  BY <1>5, Values, BodyFacts
     DEF BodyInv, BundleSkip, Files
<1>6. CASE BundleLink
  BY <1>6, Values, BodyFacts
     DEF BodyInv, BundleLink, Files
<1>7. CASE BundleAccept
  <2>1. vis' \in Files /\ dur' \in Files
    BY <1>7, Values, SyncTypes DEF BundleAccept, Files
  <2>2. /\ mem' \in Body \cup {Absent}
        /\ pc' \in BodySteps => mem' \in Body
    BY <1>7, BodyBuilt DEF BodyInv, BundleAccept
  <2>3. TypeOK'
    BY <1>7, <2>1, <2>2, HistGrows DEF BundleAccept
  <2>4. BodyInv'
    BY <1>7, <2>2, BodyFacts DEF BodyInv, BundleAccept, Files
  <2>. QED BY <2>3, <2>4
<1>8. CASE BundleFails
  BY <1>8, Values, BodyFacts
     DEF BodyInv, BundleFails, Files
<1>9. CASE Retain
  <2>1. vis' \in Files /\ dur' \in Files
    BY <1>9, Values DEF Retain, Files
  <2>2. /\ mem' \in Body \cup {Absent}
        /\ pc' \in BodySteps => mem' \in Body
    BY <1>9, BodyBuilt DEF BodyInv, Retain
  <2>3. TypeOK'
    BY <1>9, <2>1, <2>2, HistGrows DEF Retain
  <2>4. BodyInv'
    BY <1>9, <2>2, BodyFacts DEF BodyInv, Retain, Files
  <2>. QED BY <2>3, <2>4
<1>10. CASE Mark
  <2>1. vis' \in Files /\ dur' \in Files
    BY <1>10, Values, SyncTypes DEF Mark, Cause, Files
  <2>2. /\ mem' \in Body \cup {Absent}
        /\ pc' \in BodySteps => mem' \in Body
    BY <1>10, BodyBuilt DEF BodyInv, Mark, Cause
  <2>3. TypeOK'
    BY <1>10, <2>1, <2>2, HistGrows DEF Mark, Cause
  <2>4. BodyInv'
    BY <1>10, <2>2, BodyFacts DEF BodyInv, Mark, Cause, Files
  <2>. QED BY <2>3, <2>4
<1>11. CASE Decide
  <2>1. vis' \in Files /\ dur' \in Files
    BY <1>11, PublicationTypes, BehindTypes DEF Decide
  <2>2. /\ mem' \in Body \cup {Absent}
        /\ pc' \in BodySteps => mem' \in Body
    BY <1>11, BodyBuilt DEF BodyInv, Decide, Fail
  <2>3. TypeOK'
    BY <1>11, <2>1, <2>2, HistGrows DEF Decide, Fail
  <2>4. BodyInv'
    BY <1>11, <2>2, BodyFacts DEF BodyInv, Decide, Fail, Files
  <2>. QED BY <2>3, <2>4
<1>12. CASE PanicRecovery
  BY <1>12, Values, BodyFacts
     DEF BodyInv, PanicRecovery, Files
<1>. QED BY <1>1, <1>2, <1>3, <1>4, <1>5, <1>6, <1>7, <1>8, <1>9, <1>10, <1>11,
   <1>12 DEF RunNext

\* Every step of the terminal transaction keeps the types.
LEMMA TerminalType ==
    ASSUME TypeOK, BodyInv, TerminalNext
    PROVE  TypeOK' /\ BodyInv'
<1>. USE DEF TypeOK, Goto, Change, Barrier, files, control, memory, Steps,
            SubmitSteps, RunSteps, TerminalSteps, DeleteSteps, BootSteps,
            BodySteps
<1>1. CASE Prepare
  BY <1>1, Values, BodyFacts
     DEF BodyInv, Prepare, TerminalFails, Files
<1>2. CASE WriteDraft
  BY <1>2, Values, BodyFacts
     DEF BodyInv, WriteDraft, TerminalFails, Files
<1>3. CASE SyncDraft
  BY <1>3, Values, BodyFacts, SyncTypes
     DEF BodyInv, SyncDraft, TerminalFails, Files
<1>4. CASE Finish
  BY <1>4, Values, BodyFacts
     DEF BodyInv, Finish, TerminalFails, Files
<1>5. CASE Cleanup
  <2>1. vis' \in Files /\ dur' \in Files
    <3>1. dur' = dur /\ vis' \in Damaged(vis) \cup {vis, WithoutTree(vis)}
      BY <1>5 DEF Cleanup
    <3>2. WithoutTree(vis) \in Files
      BY WithoutTypes
    <3>3. Damaged(vis) \subseteq Files
      BY DamagedTypes
    <3>. QED BY <3>1, <3>2, <3>3
  <2>2. /\ mem' \in Body \cup {Absent}
        /\ pc' \in BodySteps => mem' \in Body
    <3>1. \/ mem' = mem /\ pc' = "cleanup_sync"
          \/ mem' = [mem EXCEPT !.evidence = @ \cup {"raw"}] /\ pc' = "rewrite"
          \/ mem' = Absent /\ pc' \in {"idle", "none"}
      BY <1>5 DEF Cleanup, TerminalFails
    <3>2. mem \in Body
      BY <1>5 DEF BodyInv, Cleanup
    <3>3. [mem EXCEPT !.evidence = @ \cup {"raw"}] \in Body
      BY <3>2, BodyBuilt
    <3>. QED BY <3>1, <3>2, <3>3
  <2>3. TypeOK'
    BY <1>5, <2>1, <2>2, HistGrows DEF Cleanup, TerminalFails
  <2>4. BodyInv'
    <3>1. /\ vis'.draft = vis.draft /\ pc = "cleanup"
          /\ pc' \in {"cleanup_sync", "rewrite", "idle", "none"}
      <4>1. vis \in Files OBVIOUS
      <4>2. WithoutTree(vis).draft = vis.draft BY DEF WithoutTree, Files
      <4>3. \A v \in Damaged(vis) \cup {vis} : v.draft = vis.draft BY <4>1, DamagedTypes
      <4>. QED BY <1>5, <4>2, <4>3 DEF Cleanup, TerminalFails
    <3>2. pc' = "cleanup_sync" => mem' = mem
      BY <1>5 DEF Cleanup, TerminalFails
    <3>. QED BY <2>2, <3>1, <3>2 DEF BodyInv
  <2>. QED BY <2>3, <2>4
<1>6. CASE SyncCleanup
  BY <1>6, Values, BodyFacts, SyncTypes
     DEF BodyInv, SyncCleanup, TerminalFails, Files
<1>7. CASE Rewrite
  BY <1>7, Values, BodyFacts
     DEF BodyInv, Rewrite, TerminalFails, Files
<1>8. CASE Rewriting
  BY <1>8, Values, BodyFacts
     DEF BodyInv, Rewriting, TerminalFails, Files
<1>9. CASE SyncRewrite
  BY <1>9, Values, BodyFacts, SyncTypes
     DEF BodyInv, SyncRewrite, TerminalFails, Files
<1>10. CASE Remark
  BY <1>10, Values, BodyFacts, SyncTypes
     DEF BodyInv, Remark, TerminalFails, Files
<1>11. CASE Commit
  BY <1>11, Values, BodyFacts
     DEF BodyInv, Commit, TerminalFails, Files
<1>12. CASE SyncCommit
  BY <1>12, Values, BodyFacts, SyncTypes
     DEF BodyInv, SyncCommit, TerminalFails, Files
<1>13. CASE UnlinkDraft
  BY <1>13, Values, BodyFacts
     DEF BodyInv, UnlinkDraft, TerminalFails, Files
<1>14. CASE SyncUnlink
  BY <1>14, Values, BodyFacts, SyncTypes
     DEF BodyInv, SyncUnlink, TerminalFails, Files
<1>. QED BY <1>1, <1>2, <1>3, <1>4, <1>5, <1>6, <1>7, <1>8, <1>9, <1>10, <1>11,
   <1>12, <1>13, <1>14 DEF TerminalNext

\* Every step of a cancellation or a shutdown keeps the types.
LEMMA CancelType ==
    ASSUME TypeOK, BodyInv, CancelNext
    PROVE  TypeOK' /\ BodyInv'
<1>. USE DEF TypeOK, Goto, Change, Barrier, files, control, memory, Steps,
            SubmitSteps, RunSteps, TerminalSteps, DeleteSteps, BootSteps,
            BodySteps
<1>1. CASE CancelBegin
  <2>1. vis' \in Files /\ dur' \in Files
    BY <1>1, Values, SyncTypes DEF CancelBegin, Recorded, NotRecorded, Files
  <2>2. /\ mem' \in Body \cup {Absent}
        /\ pc' \in BodySteps => mem' \in Body
    BY <1>1, BodyBuilt
       DEF BodyInv, CancelBegin, quietCancel, Recorded, NotRecorded, Open
  <2>3. TypeOK'
    BY <1>1, <2>1, <2>2, HistGrows
       DEF CancelBegin, quietCancel, Recorded, NotRecorded, Open
  <2>4. BodyInv'
    BY <1>1, <2>2, BodyFacts
       DEF BodyInv, CancelBegin, quietCancel, Recorded, NotRecorded, Open, Files
  <2>. QED BY <2>3, <2>4
<1>2. CASE CancelRollback
  <2>1. vis' \in Files /\ dur' \in Files
    BY <1>2, Values, SyncTypes DEF CancelRollback, NotRecorded, Files
  <2>2. /\ mem' \in Body \cup {Absent}
        /\ pc' \in BodySteps => mem' \in Body
    BY <1>2, BodyBuilt DEF BodyInv, CancelRollback, quietCancel, NotRecorded
  <2>3. TypeOK'
    BY <1>2, <2>1, <2>2, HistGrows DEF CancelRollback, quietCancel, NotRecorded
  <2>4. BodyInv'
    BY <1>2, <2>2, BodyFacts
       DEF BodyInv, CancelRollback, quietCancel, NotRecorded, Files
  <2>. QED BY <2>3, <2>4
<1>3. CASE CancelRename
  BY <1>3, Values, BodyFacts
     DEF BodyInv, CancelRename, quietCancel, Files
<1>4. CASE CancelBarrier
  <2>1. vis' \in Files /\ dur' \in Files
    BY <1>4, Values, SyncTypes DEF CancelBarrier, Recorded, Files
  <2>2. /\ mem' \in Body \cup {Absent}
        /\ pc' \in BodySteps => mem' \in Body
    BY <1>4, BodyBuilt DEF BodyInv, CancelBarrier, quietCancel, Recorded
  <2>3. TypeOK'
    BY <1>4, <2>1, <2>2, HistGrows DEF CancelBarrier, quietCancel, Recorded
  <2>4. BodyInv'
    BY <1>4, <2>2, BodyFacts
       DEF BodyInv, CancelBarrier, quietCancel, Recorded, Files
  <2>. QED BY <2>3, <2>4
<1>5. CASE Shutdown
  BY <1>5, Values, BodyFacts
     DEF BodyInv, Shutdown, Running, Files
<1>6. CASE ShutdownDrained
  BY <1>6, Values, BodyFacts
     DEF BodyInv, ShutdownDrained, Files
<1>. QED BY <1>1, <1>2, <1>3, <1>4, <1>5, <1>6 DEF CancelNext

\* Every step of a deletion keeps the types.
LEMMA DeleteType ==
    ASSUME TypeOK, BodyInv, DeleteNext
    PROVE  TypeOK' /\ BodyInv'
<1>. USE DEF TypeOK, Goto, Change, Barrier, files, control, memory, Steps,
            SubmitSteps, RunSteps, TerminalSteps, DeleteSteps, BootSteps,
            BodySteps
<1>1. CASE DeleteResume
  BY <1>1, Values, BodyFacts
     DEF BodyInv, DeleteResume, quietDelete, Files
<1>2. CASE DeleteBegin
  BY <1>2, Values, BodyFacts, SyncTypes
     DEF BodyInv, DeleteBegin, quietDelete, Cause, Files
<1>3. CASE DeleteRollback
  <2>1. vis' \in Files /\ dur' \in Files
    BY <1>3, Values, SyncTypes DEF DeleteRollback, Files
  <2>2. /\ mem' \in Body \cup {Absent}
        /\ pc' \in BodySteps => mem' \in Body
    BY <1>3, BodyBuilt DEF BodyInv, DeleteRollback, quietDelete
  <2>3. TypeOK'
    BY <1>3, <2>1, <2>2, HistGrows DEF DeleteRollback, quietDelete
  <2>4. BodyInv'
    BY <1>3, <2>2, BodyFacts DEF BodyInv, DeleteRollback, quietDelete, Files
  <2>. QED BY <2>3, <2>4
<1>4. CASE DeletePublish
  BY <1>4, Values, BodyFacts
     DEF BodyInv, DeletePublish, quietDelete, Files
<1>5. CASE DeleteBarrier
  BY <1>5, Values, BodyFacts, SyncTypes
     DEF BodyInv, DeleteBarrier, quietDelete, Fail, Files
<1>6. CASE DeleteTree
  BY <1>6, Values, BodyFacts, WithoutTypes, DamagedTypes
     DEF BodyInv, DeleteTree, quietDelete, Fail, Files
<1>7. CASE DeleteTreeSync
  BY <1>7, Values, BodyFacts, SyncTypes
     DEF BodyInv, DeleteTreeSync, quietDelete, Fail, Files
<1>8. CASE DeleteResult
  BY <1>8, Values, BodyFacts, WithoutTypes, RuinedTypes
     DEF BodyInv, DeleteResult, quietDelete, Fail, Files
<1>9. CASE DeleteResultSync
  BY <1>9, Values, BodyFacts, SyncTypes
     DEF BodyInv, DeleteResultSync, quietDelete, Fail, Files
<1>10. CASE DeleteAuthority
  BY <1>10, Values, BodyFacts
     DEF BodyInv, DeleteAuthority, quietDelete, Fail, Files
<1>11. CASE DeleteDone
  <2>1. vis' \in Files /\ dur' \in Files
    BY <1>11, Values, SyncTypes DEF DeleteDone, Files
  <2>2. /\ mem' \in Body \cup {Absent}
        /\ pc' \in BodySteps => mem' \in Body
    BY <1>11, BodyBuilt DEF BodyInv, DeleteDone, quietDelete, Fail
  <2>3. TypeOK'
    BY <1>11, <2>1, <2>2, HistGrows DEF DeleteDone, quietDelete, Fail
  <2>4. BodyInv'
    BY <1>11, <2>2, BodyFacts DEF BodyInv, DeleteDone, quietDelete, Fail, Files
  <2>. QED BY <2>3, <2>4
<1>. QED BY <1>1, <1>2, <1>3, <1>4, <1>5, <1>6, <1>7, <1>8, <1>9, <1>10, <1>11
   DEF DeleteNext

\* Every step of a startup keeps the types.
LEMMA RecoveryType ==
    ASSUME TypeOK, BodyInv, RecoveryNext
    PROVE  TypeOK' /\ BodyInv'
<1>. USE DEF TypeOK, Goto, Change, Barrier, files, control, memory, Steps,
            SubmitSteps, RunSteps, TerminalSteps, DeleteSteps, BootSteps,
            BodySteps
<1>1. CASE Boot
  BY <1>1, Values, BodyFacts
     DEF BodyInv, Boot, quietBoot, Files
<1>2. CASE BootDelete
  BY <1>2, Values, BodyFacts, SyncTypes
     DEF BodyInv, BootDelete, quietBoot, Fail, Files
<1>3. CASE BootCheck
  BY <1>3, Values, BodyFacts
     DEF BodyInv, BootCheck, quietBoot, Refuse, Files
<1>4. CASE BootAccept
  BY <1>4, Values, BodyFacts
     DEF BodyInv, BootAccept, quietBoot, Refuse, Files
<1>5. CASE BootUndo
  BY <1>5, Values, BodyFacts, WithoutTypes, DamagedTypes
     DEF BodyInv, BootUndo, quietBoot, Fail, Files
<1>6. CASE BootUndoSync
  BY <1>6, Values, BodyFacts, SyncTypes
     DEF BodyInv, BootUndoSync, quietBoot, Fail, Files
<1>7. CASE BootUndoResult
  <2>1. vis' \in Files /\ dur' \in Files
    BY <1>7, Values, SyncTypes, WithoutTypes, RuinedTypes DEF BootUndoResult, Files
  <2>2. /\ mem' \in Body \cup {Absent}
        /\ pc' \in BodySteps => mem' \in Body
    BY <1>7, BodyBuilt DEF BodyInv, BootUndoResult, quietBoot, Fail
  <2>3. TypeOK'
    BY <1>7, <2>1, <2>2 DEF BootUndoResult, quietBoot, Fail
  <2>4. BodyInv'
    BY <1>7, <2>2, BodyFacts, RuinedTypes
       DEF BodyInv, BootUndoResult, quietBoot, Fail, Files, WithoutResult
  <2>. QED BY <2>3, <2>4
<1>8. CASE BootCancel
  <2>1. vis' \in Files /\ dur' \in Files
    BY <1>8, Values, SyncTypes DEF BootCancel, Files
  <2>2. /\ mem' \in Body \cup {Absent}
        /\ pc' \in BodySteps => mem' \in Body
    BY <1>8, BodyBuilt DEF BodyInv, BootCancel, quietBoot, Fail
  <2>3. TypeOK'
    BY <1>8, <2>1, <2>2 DEF BootCancel, quietBoot, Fail
  <2>4. BodyInv'
    BY <1>8, <2>2, BodyFacts DEF BodyInv, BootCancel, quietBoot, Fail, Files
  <2>. QED BY <2>3, <2>4
<1>9. CASE BootResume
  <2>1. vis' \in Files /\ dur' \in Files
    BY <1>9, Values, SyncTypes DEF BootResume, Files
  <2>2. /\ mem' \in Body \cup {Absent}
        /\ pc' \in BodySteps => mem' \in Body
    BY <1>9, BodyFacts DEF BodyInv, BootResume, Fail, Refuse, Files
  <2>3. TypeOK'
    BY <1>9, <2>1, <2>2, HistGrows DEF BootResume, Fail, Refuse
  <2>4. BodyInv'
    BY <1>9, <2>2, BodyFacts DEF BodyInv, BootResume, Fail, Refuse, Files
  <2>. QED BY <2>3, <2>4
<1>10. CASE BootRecover
  <2>1. vis' \in Files /\ dur' \in Files
    <3>1. CASE PublishFails(vis) \/ UNCHANGED files
      BY <3>1, PublicationTypes
    <3>2. CASE ~(PublishFails(vis) \/ UNCHANGED files)
      <4>. DEFINE v == [vis EXCEPT !.tree = "full", !.progress = "agrees"]
                  d == IF vis.tree = "none" THEN SyncSessions(dur, v) ELSE dur
      <4>1. v \in Files
        BY Values DEF Files
      <4>2. vis' = v /\ dur' = SyncResult(d, v)
        BY <1>10, <3>2 DEF BootRecover
      <4>3. d \in Files
        BY <4>1, SyncTypes
      <4>. HIDE DEF v, d
      <4>. QED BY <4>1, <4>2, <4>3, SyncTypes
    <3>. QED BY <3>1, <3>2
  <2>2. /\ mem' \in Body \cup {Absent}
        /\ pc' \in BodySteps => mem' \in Body
    <3> DEFINE b == [status |-> IF vis.cancel = "intent" THEN "cancelled" ELSE "ended",
                     evidence |-> {}, answer |-> NoAnswer]
    <3>1. b \in Body BY BodyBuilt
    <3>2. mem' = b \/ (UNCHANGED mem /\ pc' \in {"none", "idle"})
      BY <1>10 DEF BootRecover, Fail, Refuse
    <3>3. mem \in Body \cup {Absent} OBVIOUS
    <3>4. {"none", "idle"} \cap BodySteps = {} OBVIOUS
    <3> HIDE DEF b
    <3> QED BY <3>1, <3>2, <3>3, <3>4
  <2>3. TypeOK'
    BY <1>10, <2>1, <2>2, HistGrows DEF BootRecover, Fail, Refuse
  <2>4. BodyInv'
    BY <1>10, <2>2, BodyFacts DEF BodyInv, BootRecover, Fail, Refuse, Files
  <2>. QED BY <2>3, <2>4
<1>11. CASE BootFinal
  BY <1>11, Values, BodyFacts, SyncTypes
     DEF BodyInv, BootFinal, quietBoot, Fail, Refuse, Files
<1>12. CASE BootUnlink
  BY <1>12, Values, BodyFacts
     DEF BodyInv, BootUnlink, quietBoot, Fail, Files
<1>13. CASE BootUnlinkSync
  BY <1>13, Values, BodyFacts, SyncTypes
     DEF BodyInv, BootUnlinkSync, quietBoot, Fail, Files
<1>14. CASE BootState
  <2>1. vis' \in Files /\ dur' \in Files
    BY <1>14, Values, SyncTypes, WithoutTypes, DamagedTypes DEF BootState, Files
  <2>2. /\ mem' \in Body \cup {Absent}
        /\ pc' \in BodySteps => mem' \in Body
    BY <1>14, BodyBuilt DEF BodyInv, BootState, quietBoot, Fail, Refuse
  <2>3. TypeOK'
    BY <1>14, <2>1, <2>2 DEF BootState, quietBoot, Fail, Refuse
  <2>4. BodyInv'
    BY <1>14, <2>2, BodyFacts, DamagedTypes
       DEF BodyInv, BootState, quietBoot, Fail, Refuse, Files, WithoutTree
  <2>. QED BY <2>3, <2>4
<1>15. CASE BootResults
  <2>1. vis' \in Files /\ dur' \in Files
    BY <1>15, Values, SyncTypes, WithoutTypes DEF BootResults, Files
  <2>2. /\ mem' \in Body \cup {Absent}
        /\ pc' \in BodySteps => mem' \in Body
    BY <1>15, BodyBuilt DEF BodyInv, BootResults, quietBoot, Fail, Refuse
  <2>3. TypeOK'
    BY <1>15, <2>1, <2>2 DEF BootResults, quietBoot, Fail, Refuse
  <2>4. BodyInv'
    BY <1>15, <2>2, BodyFacts
       DEF BodyInv, BootResults, quietBoot, Fail, Refuse, Files, WithoutResult
  <2>. QED BY <2>3, <2>4
<1>16. CASE BootOpen
  BY <1>16, Values, BodyFacts, SyncTypes
     DEF BodyInv, BootOpen, quietBoot, Fail, Files
<1>. QED BY <1>1, <1>2, <1>3, <1>4, <1>5, <1>6, <1>7, <1>8, <1>9, <1>10, <1>11,
   <1>12, <1>13, <1>14, <1>15, <1>16 DEF RecoveryNext
=============================================================================
