--------------------------- MODULE RegistryProofs ---------------------------
(***************************************************************************)
(* Proofs about the registry, for every set of clients, every bound on the *)
(* calls and the revisions and every choice of faults: RegistryInv is      *)
(* inductive, and with it the safety properties of RegistryService hold.   *)
(***************************************************************************)
EXTENDS RegistryMoves

-----------------------------------------------------------------------------
(* The steps of submit.                                                    *)

\* While one call holds the fence, or terminal_decision, no other is at a step
\* whose obligations its changes could break.
LEMMA OthersKeep ==
    ASSUME RegistryInv, NEW c \in Clients, NEW d \in Clients, d # c, Untouched(c),
           Holds(c, "admission") \/ Holds(c, "decision"),
           Up', gen' \in Nat, gen <= gen',
           gen' = gen /\ (running # 0 \/ decided) => running' # 0 \/ decided'
    PROVE  CallInv(d)'
<1>1. call'[d] = call[d] /\ CallInv(d) /\ call[d].gen \in Nat /\ gen \in Nat
  BY CallFacts DEF Untouched
<1>2. ~Holds(d, "admission")
  <2>1. CASE Holds(c, "admission") BY <2>1, FenceHeldOnce DEF Locks
  <2>2. CASE Holds(c, "decision")
    <3>1. running # 0 BY <2>2, CallFacts DEF Holds, CallInv
    <3> QED BY <3>1 DEF RegistryInv, EntryInv, FenceInv, Locks
  <2> QED BY <2>1, <2>2
<1>3. ~In(d, Deciding)
  <2>1. CASE Holds(c, "admission")
    <3>1. running = 0 BY <2>1 DEF RegistryInv, EntryInv, FenceInv, Locks
    <3> QED BY <3>1, <1>1 DEF CallInv
  <2>2. CASE Holds(c, "decision") BY <2>2, FenceHeldOnce DEF Locks, Holds
  <2> QED BY <2>1, <2>2
<1>4. /\ ~Fenced(d)
      /\ ~In(d, {"s_valid", "s_accept", "s_register", "d_intent", "d_tree", "d_files", "d_end", "d_mem"})
  BY <1>2 DEF Holds, In, Deleting
<1> QED
  BY <1>1, <1>3, <1>4 DEF CallInv, Serving, At, In, Fenced, Deciding, Reading, Judging

\* Whoever holds the fence finds no entry.
LEMMA FenceFacts ==
    ASSUME RegistryInv, NEW c \in Clients, Holds(c, "admission")
    PROVE  running = 0 /\ Up /\ spc = "none" /\ lock["admission"] = c /\ ~At(c, "c_decide")
<1>1. lock["admission"] = c BY DEF RegistryInv, FenceInv, Locks
<1>2. Serving(c) /\ ~At(c, "c_decide")
  BY DEF Holds, Fenced, In, At, Serving, Reading, Deleting
<1>3. running = 0 /\ Up BY <1>1, <1>2, CallFacts DEF RegistryInv, EntryInv, CallInv
<1> QED BY <1>1, <1>2, <1>3 DEF RegistryInv, EntryInv, Up

\* Whoever cancels finds the outcome open, and no shutdown past its wait.
LEMMA DecisionFacts ==
    ASSUME RegistryInv, NEW c \in Clients, In(c, Deciding)
    PROVE  /\ running # 0 /\ ~decided /\ spc \in Undecided /\ Up /\ Holds(c, "decision")
           /\ "accepted" \in disk /\ "intent" \notin disk /\ "finished" \notin disk /\ ~mem
           /\ events # <<>> /\ Begins(durable, events) /\ file # <<>> /\ synced # <<>>
           /\ hpc \in {"none", "closed"} /\ call[c].op = "cancel" /\ body.gen < gen
<1>1. running # 0 /\ ~decided BY CallFacts DEF CallInv
<1>2. spc \in Undecided /\ "accepted" \in disk /\ "intent" \notin disk /\ ~mem /\ body.gen < gen
  BY <1>1 DEF RegistryInv, EntryInv
<1>3. call[c].op = "cancel"
  BY CallFacts, StepsOfIs DEF In, AllOps, Reading, Deciding, Deleting
<1>4. hpc \in {"none", "closed"}
  BY <1>3 DEF RegistryInv, ShutInv, Active, In, Deciding, Mutations
<1>5. "finished" \notin disk /\ file # <<>> /\ synced # <<>>
  BY <1>2 DEF RegistryInv, DiskInv
<1>6. events # <<>> /\ Begins(durable, events)
  BY <1>2 DEF RegistryInv, HistoryInv, Undecided
<1>7. Up BY <1>2 DEF Up, Undecided, RecoverySteps
<1> QED BY <1>1, <1>2, <1>3, <1>4, <1>5, <1>6, <1>7 DEF Holds

\* A step of a call whose shape is known keeps the types.
LEMMA CallKeepsType ==
    ASSUME RegistryInv, NEW c \in Clients, CallType', lock' \in [Locks -> Owners], UNCHANGED calls,
           ProgressType', durable' \in Histories, UNCHANGED <<faults, ops, body>>, KeepShut,
           disk' \subseteq Names, spc' \in SupervisorSteps \cup RecoverySteps,
           gen' \in Nat, running' \in {0, gen'}, acked' \subseteq 0..gen',
           {mem', decided', token', broken'} \subseteq BOOLEAN, Witnessed
    PROVE  RegistryType'
<1>1. seen' \in [Clients -> SUBSET (ResourceStates \cup {"ending"})]
  BY WitnessedType DEF RegistryInv, RegistryType
<1> QED BY <1>1 DEF RegistryInv, RegistryType, CallType, Owners, KeepShut, shutState

LEMMA SubmitAcceptKeeps ==
    ASSUME RegistryInv, NEW c \in Clients, SubmitAccept(c), Witnessed, UNCHANGED <<faults, ops>>
    PROVE  RegistryInv'
<1>0. At(c, "s_accept") /\ call[c].op = "submit" /\ Free("inner")
  BY CallFacts, StepsOfIs DEF SubmitAccept, At, AllOps, Reading, Deciding, Deleting
<1>1. Holds(c, "admission") /\ lock["admission"] = c
  BY <1>0 DEF Holds, In, At, RegistryInv, FenceInv, Locks
<1>2. running = 0 /\ Up /\ spc = "none" /\ disk = {} /\ ~mem
  BY <1>0, <1>1, CallFacts DEF RegistryInv, EntryInv, CallInv, Serving, In, At, Up
<1>3. gen \in Nat /\ body.gen \in Nat /\ acked \subseteq 0..gen /\ body.gen <= gen
  BY DEF RegistryInv, RegistryType, Bodies, EntryInv
<1>4. CASE IoFails /\ Return(c, "error") /\ Breaks(TRUE) /\ UNCHANGED <<disk, progress, durable, gen>>
  <2>1. Inert
    BY <1>4
    DEF SubmitAccept, Inert, KeepManager, KeepShut, KeepAcks, files, Breaks, RegistryInv, RegistryType
  <2> QED BY <1>0, <1>4, <2>1, ReturnInert, PureKeeps DEF At, Answers
<1>5. CASE /\ disk' = disk \cup {"accepted", "tree"} /\ Created
           /\ call' = [call EXCEPT ![c].pc = "s_register"] /\ Taken(c, {"inner"})
           /\ gen' = gen + 1 /\ durable' = events' /\ UNCHANGED <<calls, broken>>
  <2>0. KeepShut /\ UNCHANGED <<running, mem, decided, token, acked, body, spc>>
    BY DEF SubmitAccept
  <2>1. CallType' /\ Untouched(c) /\ Stepped(c, "s_register")
    BY <1>5, CallFacts, StepMoves DEF CallSteps
  <2>2. LockMove(c)
    <3>1. \A l \in Locks : Holds(c, l)' <=> (Holds(c, l) \/ l \in {"inner"})
      BY <1>0, <2>1 DEF Holds, Fenced, In, At, Reading, Deciding, Deleting, Stepped
    <3>2. {"inner"} \in SUBSET Locks BY DEF Locks
    <3> QED BY <1>0, <1>5, <3>1, <3>2 DEF LockMove
  <2>3. FenceInv' /\ lock' \in [Locks -> Owners]
    BY <1>0, <2>0, <2>1, <2>2, StepsOfIs, FenceMoves
    DEF RegistryInv, KeepShut, shutState, Stepped
  <2>4. /\ ProgressType' /\ durable' \in Histories /\ Begins(durable', file') /\ events' # <<>>
        /\ file' = events' /\ synced' = events' /\ ~next' /\ ~unread'
    <3>1. [phase |-> "Accepted", count |-> 0] \in [phase : Phases, count : 0..MaxCount]
      BY ProgressAssumption DEF Phases
    <3>2. events' \in Histories /\ events' # <<>> /\ Len(events') = 1
      BY <1>5, <3>1 DEF Created, Histories
    <3>3. Begins(events', events') BY <3>2, BeginsItself
    <3>4. file' = events' /\ synced' = events' /\ durable' = events'
          /\ ~next' /\ ~unread' /\ ~failed' /\ {next', unread', failed'} \subseteq BOOLEAN
      BY <1>5 DEF Created
    <3> QED BY <3>2, <3>3, <3>4, ProgressAssumption DEF ProgressType
  <2>5. RegistryType'
    <3>1. disk' \subseteq Names BY <1>2, <1>5 DEF Names
    <3>2. /\ gen' \in Nat /\ running' \in {0, gen'} /\ acked' \subseteq 0..gen'
          /\ {mem', decided', token', broken'} \subseteq BOOLEAN
          /\ spc' \in SupervisorSteps \cup RecoverySteps
      BY <1>2, <1>3, <1>5, <2>0 DEF RegistryInv, RegistryType
    <3>3. UNCHANGED calls BY <1>5
    <3> QED BY <2>0, <2>1, <2>3, <2>4, <3>1, <3>2, <3>3, CallKeepsType
  <2>6. EntryInv'
    BY <1>2, <1>3, <1>5, <2>0
    DEF RegistryInv, EntryInv, KeepShut, shutState, Up
  <2>7. DiskInv'
    BY <1>2, <1>5, <2>0, <2>1, <2>4
    DEF RegistryInv, DiskInv, At, Stepped, Undecided, RecoverySteps
  <2>8. HistoryInv' BY <1>2, <1>5, <2>0, <2>4 DEF RegistryInv, HistoryInv
  <2>9. AckInv' BY <1>2, <1>3, <1>5, <2>0 DEF RegistryInv, AckInv
  <2>10. ShutInv'
    <3>1. Active' => Active
      BY <1>0, <2>1 DEF Active, Untouched, Stepped, At, Mutations
    <3> QED BY <1>2, <1>5, <2>0, <3>1 DEF RegistryInv, ShutInv, KeepShut, shutState
  <2>11. CallInv(c)'
    BY <1>0, <1>2, <1>3, <1>5, <2>0, <2>1, <2>4, CallFacts
    DEF CallInv, Stepped, At, In, Fenced, Reading, Deciding, Judging, Up
  <2>12. ASSUME NEW d \in Clients, d # c PROVE CallInv(d)'
    BY <1>1, <1>2, <1>3, <1>5, <2>0, <2>1, <2>12, OthersKeep DEF Up
  <2> QED
    BY <2>3, <2>5, <2>6, <2>7, <2>8, <2>9, <2>10, <2>11, <2>12 DEF RegistryInv
<1> QED BY <1>4, <1>5 DEF SubmitAccept

LEMMA SubmitRegisterKeeps ==
    ASSUME RegistryInv, NEW c \in Clients, SubmitRegister(c), Witnessed, UNCHANGED <<faults, ops>>
    PROVE  RegistryInv'
<1>0. At(c, "s_register") /\ call[c].op = "submit"
  BY CallFacts, StepsOfIs DEF SubmitRegister, At, AllOps, Reading, Deciding, Deleting
<1>1. Holds(c, "admission") BY <1>0 DEF Holds, In, At
<1>2. running = 0 /\ Up /\ spc = "none" /\ lock["admission"] = c BY <1>1, FenceFacts
<1>3. /\ disk = {"accepted", "tree"} /\ ~mem /\ body.gen < gen /\ gen \notin acked
      /\ events # <<>> /\ events = file /\ durable = events /\ ~unread
  BY <1>0, CallFacts DEF CallInv
<1>4. gen \in Nat /\ body.gen \in Nat /\ gen # 0
  BY <1>3 DEF RegistryInv, RegistryType, Bodies
<1>5. hpc \in {"none", "closed"} /\ ~stopping
  BY <1>0 DEF RegistryInv, ShutInv, Active, At, Mutations
<1>6. /\ running' = gen /\ ~decided' /\ decided' \in BOOLEAN /\ token' = stopping /\ spc' = "stage"
      /\ KeepShut /\ KeepAcks /\ UNCHANGED <<mem, gen, files, body>>
  BY DEF SubmitRegister
<1>7. broken' \in BOOLEAN /\ (broken => broken')
  <2>1. broken \in BOOLEAN BY DEF RegistryInv, RegistryType
  <2>2. broken' = broken \/ broken' = TRUE BY DEF SubmitRegister, Breaks
  <2> QED BY <2>1, <2>2
<1>8. /\ CallType' /\ Untouched(c) /\ call'[c].pc \in {"s_body", "done"} /\ call'[c].op = "submit"
      /\ call'[c].gen \in Nat /\ call'[c].gen <= gen /\ Dropped(c) /\ calls' = calls
  <2>1. CallType /\ call[c].gen <= gen /\ call[c].gen \in Nat BY CallFacts DEF CallInv
  <2>2. CASE Return(c, "error") BY <1>0, <1>4, <2>1, <2>2, ReturnMoves DEF Answers
  <2>3. CASE call' = [call EXCEPT ![c].pc = "s_body"] /\ Dropped(c) /\ UNCHANGED <<calls, broken>>
    <3>1. CallType' /\ Untouched(c) /\ Stepped(c, "s_body") BY <2>1, <2>3, StepMoves DEF CallSteps
    <3> QED BY <1>0, <2>1, <2>3, <3>1 DEF Stepped
  <2> QED BY <2>2, <2>3 DEF SubmitRegister
<1>9. FenceInv' /\ lock' \in [Locks -> Owners]
  <2>1. \A l \in Locks : ~Holds(c, l)'
    BY <1>8 DEF Holds, Fenced, In, At, Reading, Deciding, Deleting
  <2>2. call'[c].pc \in StepsOf[call'[c].op] \cup {"done"} BY <1>8, StepsOfIs
  <2> QED BY <1>2, <1>6, <1>8, <2>1, <2>2, FenceMoves DEF RegistryInv, KeepShut, shutState, LockMove
<1>10. RegistryType'
  <2>1. /\ ProgressType' /\ durable' \in Histories /\ disk' \subseteq Names
        /\ acked' \subseteq 0..gen' /\ gen' \in Nat
        /\ {mem', decided', token', broken'} \subseteq BOOLEAN /\ running' \in {0, gen'}
    BY <1>6, <1>7
    DEF RegistryInv, RegistryType, ProgressType, KeepAcks, files, progress
  <2>2. spc' \in SupervisorSteps \cup RecoverySteps BY <1>6 DEF SupervisorSteps
  <2> QED BY <1>6, <1>8, <1>9, <2>1, <2>2, CallKeepsType
<1>11. EntryInv'
  <2>1. lock'["admission"] \notin Clients
    BY <1>2, <1>8, RegistryAssumption DEF Dropped, Locks, Nobody
  <2> QED
    BY <1>2, <1>3, <1>4, <1>5, <1>6, <2>1
    DEF EntryInv, KeepShut, shutState, files, Undecided, RecoverySteps, Up
<1>12. DiskInv'
  BY <1>3, <1>6, <1>7
  DEF RegistryInv, DiskInv, files, progress, Undecided, RecoverySteps
<1>13. HistoryInv'
  <2>1. Begins(durable', events')
    <3>1. events' \in Histories BY <1>10 DEF RegistryType, ProgressType
    <3> QED BY <1>3, <1>6, <3>1, BeginsItself DEF KeepAcks, files, progress
  <2> QED
    BY <1>2, <1>3, <1>6, <1>7, <2>1 DEF RegistryInv, HistoryInv, files, progress, KeepAcks
<1>14. AckInv' BY <1>3, <1>6 DEF RegistryInv, AckInv, KeepAcks, files
<1>15. ShutInv'
  <2>1. Active BY <1>0 DEF Active, Mutations, At
  <2> QED
    BY <1>3, <1>5, <1>6, <2>1 DEF RegistryInv, ShutInv, KeepShut, shutState, files
<1>16. CallInv(c)'
  BY <1>4, <1>6, <1>8
  DEF CallInv, Serving, At, In, Fenced, Reading, Deciding, Judging, Up, RecoverySteps
<1>17. ASSUME NEW d \in Clients, d # c PROVE CallInv(d)'
  BY <1>1, <1>4, <1>6, <1>8, <1>17, OthersKeep DEF Up, RecoverySteps
<1> QED
  BY <1>9, <1>10, <1>11, <1>12, <1>13, <1>14, <1>15, <1>16, <1>17 DEF RegistryInv

-----------------------------------------------------------------------------
(* The steps of cancel that change something.                              *)

LEMMA CancelIntentKeeps ==
    ASSUME RegistryInv, NEW c \in Clients, CancelIntent(c), Witnessed, UNCHANGED <<faults, ops>>
    PROVE  RegistryInv'
<1>0. At(c, "c_intent") /\ In(c, Deciding) BY DEF CancelIntent, At, In, Deciding
<1>1. /\ running # 0 /\ ~decided /\ spc \in Undecided /\ Up /\ Holds(c, "decision")
      /\ "accepted" \in disk /\ hpc \in {"none", "closed"} /\ call[c].op = "cancel"
  BY <1>0, DecisionFacts
<1>2. KeepManager /\ KeepShut /\ KeepAcks /\ UNCHANGED <<progress, body, spc>> BY DEF CancelIntent
<1>3. CASE IoFails /\ Breaks(TRUE) /\ Return(c, "error") /\ UNCHANGED disk
  <2>1. Inert
    BY <1>2, <1>3 DEF Inert, files, Breaks, RegistryInv, RegistryType
  <2> QED BY <1>0, <1>3, <2>1, ReturnInert, PureKeeps DEF At, Answers
<1>4. CASE /\ disk' = disk \cup {"cancel"} /\ (broken' = broken \/ broken' = TRUE)
           /\ UNCHANGED <<calls, lock>>
           /\ CallType' /\ Untouched(c) /\ call'[c].pc = "c_token"
           /\ call'[c].op = call[c].op /\ call'[c].gen = call[c].gen
  <2>1. broken' \in BOOLEAN /\ (broken => broken')
    <3>1. broken \in BOOLEAN BY DEF RegistryInv, RegistryType
    <3>2. broken' = broken \/ broken' = TRUE BY <1>4
    <3> QED BY <3>1, <3>2
  <2>2. FenceInv' /\ lock' \in [Locks -> Owners]
    <3>1. \A l \in Locks : Holds(c, l)' <=> Holds(c, l)
      BY <1>0, <1>4 DEF Holds, Fenced, In, At, Reading, Deciding, Deleting
    <3>2. call'[c].pc \in StepsOf[call'[c].op] BY <1>1, <1>4, StepsOfIs DEF Deciding
    <3> QED
      BY <1>2, <1>4, <3>1, <3>2, FenceMoves DEF RegistryInv, KeepShut, shutState, LockMove
  <2>3. RegistryType'
    <3>1. /\ ProgressType' /\ durable' \in Histories /\ acked' \subseteq 0..gen' /\ gen' \in Nat
          /\ {mem', decided', token', broken'} \subseteq BOOLEAN /\ running' \in {0, gen'}
          /\ spc' \in SupervisorSteps \cup RecoverySteps
      BY <1>2, <2>1
      DEF RegistryInv, RegistryType, ProgressType, KeepAcks, KeepManager, progress
    <3>2. disk' \subseteq Names BY <1>4 DEF RegistryInv, RegistryType, Names
    <3> QED BY <1>2, <1>4, <2>2, <3>1, <3>2, CallKeepsType
  <2>4. EntryInv'
    BY <1>2, <1>4 DEF RegistryInv, EntryInv, KeepManager, KeepShut, shutState, Up
  <2>5. DiskInv'
    <3>1. \A d \in Clients : (At(d, "s_register") => At(d, "s_register")')
                             /\ (At(d, "d_mem") => At(d, "d_mem")')
      BY <1>0, <1>4 DEF Untouched, At
    <3> QED
      BY <1>1, <1>2, <1>4, <2>1, <3>1 DEF RegistryInv, DiskInv, KeepManager, progress
  <2>6. HistoryInv'
    BY <1>2, <1>4, <2>1 DEF RegistryInv, HistoryInv, KeepManager, KeepAcks, progress
  <2>7. AckInv' BY <1>2, <1>4 DEF RegistryInv, AckInv, KeepManager, KeepAcks
  <2>8. ShutInv'
    BY <1>1, <1>2, <1>4 DEF RegistryInv, ShutInv, KeepManager, KeepShut, shutState
  <2>9. CallInv(c)'
    BY <1>0, <1>1, <1>2, <1>4, CallFacts
    DEF CallInv, Serving, At, In, Fenced, Reading, Deciding, Judging, Up, KeepManager
  <2>10. ASSUME NEW d \in Clients, d # c PROVE CallInv(d)'
    <3>1. gen' = gen /\ gen \in Nat /\ running' = running /\ Up'
      BY <1>1, <1>2, CallFacts DEF KeepManager, Up
    <3> QED BY <1>1, <1>4, <2>10, <3>1, OthersKeep
  <2> QED BY <2>2, <2>3, <2>4, <2>5, <2>6, <2>7, <2>8, <2>9, <2>10 DEF RegistryInv
<1>5. CASE Go(c, "c_token") /\ disk' = disk \cup {"cancel"} /\ UNCHANGED broken
  <2>1. CallType' /\ Untouched(c) /\ Stepped(c, "c_token") /\ lock' = lock /\ calls' = calls
    BY <1>5, CallFacts, GoMoves DEF CallSteps
  <2> QED BY <1>4, <1>5, <2>1 DEF Stepped
<1>6. CASE /\ IoFails /\ Breaks(TRUE) /\ disk' = disk \cup {"cancel"}
           /\ call' = [call EXCEPT ![c].pc = "c_token", ![c].ans = "error"]
           /\ UNCHANGED <<calls, lock>>
  <2>1. /\ CallType' /\ Untouched(c) /\ call'[c].pc = "c_token"
        /\ call'[c].op = call[c].op /\ call'[c].gen = call[c].gen
    <3>1. CallType BY CallFacts
    <3> QED BY <1>6, <3>1, ErrorMoves DEF CallSteps, Answers
  <2> QED BY <1>4, <1>6, <2>1 DEF Breaks
<1> QED BY <1>3, <1>5, <1>6 DEF CancelIntent

LEMMA CancelTokenKeeps ==
    ASSUME RegistryInv, NEW c \in Clients, CancelToken(c), Witnessed, UNCHANGED <<faults, ops>>
    PROVE  RegistryInv'
<1>0. At(c, "c_token") /\ In(c, Deciding) BY DEF CancelToken, At, In, Deciding
<1>1. /\ running # 0 /\ ~decided /\ spc \in Undecided /\ Up /\ Holds(c, "decision")
      /\ events # <<>> /\ call[c].op = "cancel" /\ "cancel" \in disk
  BY <1>0, DecisionFacts, CallFacts DEF CallInv, In, At
<1>2. /\ token' = TRUE /\ KeepShut /\ KeepHistory
      /\ UNCHANGED <<calls, lock, running, mem, gen, decided, files, body, spc>>
  BY DEF CancelToken
<1>3. /\ CallType' /\ Untouched(c) /\ call'[c].pc = "c_publish"
      /\ call'[c].op = call[c].op /\ call'[c].gen = call[c].gen
  <2>1. CallType BY CallFacts
  <2>2. Latest.count \in 0..MaxCount BY <1>1, LatestType DEF RegistryInv, RegistryType
  <2>3. call' = [call EXCEPT ![c].pc = "c_publish", ![c].count = Latest.count] BY DEF CancelToken
  <2> QED BY <2>1, <2>2, <2>3, CountMoves DEF CallSteps
<1>4. FenceInv' /\ lock' \in [Locks -> Owners]
  <2>1. \A l \in Locks : Holds(c, l)' <=> Holds(c, l)
    BY <1>0, <1>3 DEF Holds, Fenced, In, At, Reading, Deciding, Deleting
  <2>2. call'[c].pc \in StepsOf[call'[c].op] BY <1>1, <1>3, StepsOfIs DEF Deciding
  <2> QED BY <1>2, <1>3, <2>1, <2>2, FenceMoves DEF RegistryInv, KeepShut, shutState, LockMove
<1>5. RegistryType'
  <2>1. /\ ProgressType' /\ durable' \in Histories /\ acked' \subseteq 0..gen' /\ gen' \in Nat
        /\ {mem', decided', token', broken'} \subseteq BOOLEAN /\ running' \in {0, gen'}
        /\ disk' \subseteq Names /\ spc' \in SupervisorSteps \cup RecoverySteps
    BY <1>2 DEF RegistryInv, RegistryType, ProgressType, KeepHistory, files, progress
  <2> QED BY <1>2, <1>3, <1>4, <2>1, CallKeepsType
<1>6. EntryInv' BY <1>2 DEF RegistryInv, EntryInv, KeepShut, shutState, files, Up
<1>7. DiskInv'
  <2>1. \A d \in Clients : (At(d, "s_register") => At(d, "s_register")')
                           /\ (At(d, "d_mem") => At(d, "d_mem")')
    BY <1>0, <1>3 DEF Untouched, At
  <2> QED BY <1>2, <2>1 DEF RegistryInv, DiskInv, KeepHistory, files, progress
<1>8. HistoryInv' BY <1>2 DEF RegistryInv, HistoryInv, KeepHistory, files, progress
<1>9. AckInv' BY <1>2 DEF RegistryInv, AckInv, KeepHistory, files
<1>10. ShutInv'
  <2>1. Active' => Active BY <1>0, <1>1, <1>3 DEF Active, Untouched, At, Mutations
  <2> QED BY <1>1, <1>2, <2>1 DEF RegistryInv, ShutInv, KeepShut, shutState, files
<1>11. CallInv(c)'
  BY <1>0, <1>1, <1>2, <1>3, CallFacts
  DEF CallInv, Serving, At, In, Fenced, Reading, Deciding, Judging, Up, files
<1>12. ASSUME NEW d \in Clients, d # c PROVE CallInv(d)'
  <2>1. gen' = gen /\ gen \in Nat /\ running' = running /\ Up' BY <1>1, <1>2, CallFacts DEF Up
  <2> QED BY <1>1, <1>3, <1>12, <2>1, OthersKeep
<1> QED BY <1>4, <1>5, <1>6, <1>7, <1>8, <1>9, <1>10, <1>11, <1>12 DEF RegistryInv

\* What a publication does to the files and histories of an open session.
LEMMA PublicationKeeps ==
    ASSUME RegistryInv, NEW fails \in BOOLEAN, HistoryMoved(fails), broken' = (broken \/ fails),
           running # 0, spc \in Undecided, spc' \in Undecided, UNCHANGED <<disk, mem, body>>,
           \A d \in Clients : At(d, "d_mem") => At(d, "d_mem")'
    PROVE  DiskInv' /\ HistoryInv' /\ broken' \in BOOLEAN
<1>0. broken \in BOOLEAN BY DEF RegistryInv, RegistryType
<1>1. /\ "accepted" \in disk /\ "intent" \notin disk /\ ~mem
      /\ "tree" \in disk /\ {"draft", "finished"} \cap disk = {} /\ file # <<>> /\ synced # <<>>
  BY DEF RegistryInv, EntryInv, DiskInv
<1>2. DiskInv'
  BY <1>1 DEF DiskInv, HistoryMoved, Undecided, RecoverySteps
<1>3. HistoryInv'
  BY <1>0, <1>1 DEF RegistryInv, HistoryInv, HistoryMoved, Undecided
<1> QED BY <1>0, <1>2, <1>3

LEMMA CancelPublishKeeps ==
    ASSUME RegistryInv, NEW c \in Clients, CancelPublish(c), Witnessed, UNCHANGED <<faults, ops>>
    PROVE  RegistryInv'
<1>0. At(c, "c_publish") /\ In(c, Deciding) BY DEF CancelPublish, At, In, Deciding
<1>1. /\ running # 0 /\ ~decided /\ spc \in Undecided /\ Up /\ Holds(c, "decision")
      /\ events # <<>> /\ Begins(durable, events) /\ call[c].op = "cancel"
      /\ "cancel" \in disk /\ token /\ body.gen < gen
  BY <1>0, DecisionFacts, CallFacts DEF CallInv, In, At
<1>2. KeepManager /\ KeepShut /\ UNCHANGED <<disk, body, spc>> BY DEF CancelPublish
<1>3. PICK ok \in BOOLEAN :
          /\ IF AlreadyCancelling THEN ok /\ UNCHANGED <<progress, durable>>
             ELSE Publish("Cancelling", call[c].count, IoFails, ok) /\ Acknowledged(ok)
          /\ Return(c, IF ok /\ call[c].ans = "none" THEN "running" ELSE "error")
          /\ acked' = IF ok /\ call[c].ans = "none" THEN acked \cup {gen} ELSE acked
          /\ Breaks(~ok /\ IoFails)
  BY DEF CancelPublish
<1>4. HistoryMoved(~ok /\ IoFails)
  <2>1. call[c].count \in 0..MaxCount /\ ProgressType /\ durable \in Histories
    BY DEF RegistryInv, RegistryType, CallRecords
  <2>2. IoFails \in BOOLEAN BY DEF IoFails
  <2> QED BY <1>1, <1>3, <2>1, <2>2, CancellingMoves
<1>5. /\ CallType' /\ Untouched(c) /\ call'[c].pc = "done" /\ call'[c].gen = 0
      /\ Dropped(c) /\ calls' = calls
  BY <1>3, CallFacts, ReturnMoves DEF Answers
<1>6. FenceInv' /\ lock' \in [Locks -> Owners]
  <2>1. \A l \in Locks : ~Holds(c, l)'
    BY <1>5 DEF Holds, Fenced, In, At, Reading, Deciding, Deleting
  <2> QED BY <1>2, <1>5, <2>1, FenceMoves DEF RegistryInv, KeepShut, shutState, LockMove
<1>7. DiskInv' /\ HistoryInv' /\ broken' \in BOOLEAN
  <2>1. \A d \in Clients : At(d, "d_mem") => At(d, "d_mem")'
    BY <1>0, <1>5 DEF Untouched, At
  <2>2. (~ok /\ IoFails) \in BOOLEAN OBVIOUS
  <2> QED BY <1>1, <1>2, <1>3, <1>4, <2>1, <2>2, PublicationKeeps DEF Breaks, KeepManager
<1>8. RegistryType'
  <2>1. /\ gen' \in Nat /\ {mem', decided', token', broken'} \subseteq BOOLEAN
        /\ running' \in {0, gen'} /\ disk' \subseteq Names
        /\ spc' \in SupervisorSteps \cup RecoverySteps
    BY <1>2, <1>7 DEF RegistryInv, RegistryType, KeepManager
  <2>2. acked' \subseteq 0..gen'
    <3>1. gen' = gen /\ gen \in 0..gen /\ acked \subseteq 0..gen
      BY <1>2, CallFacts DEF RegistryInv, RegistryType, KeepManager
    <3> QED BY <1>3, <3>1
  <2>3. ProgressType' /\ durable' \in Histories BY <1>4 DEF HistoryMoved
  <2> QED BY <1>2, <1>5, <1>6, <2>1, <2>2, <2>3, CallKeepsType
<1>9. EntryInv'
  <2>1. lock["admission"] \notin Clients BY <1>1 DEF RegistryInv, EntryInv
  <2>2. lock'["admission"] \notin Clients
    BY <1>5, <2>1, RegistryAssumption DEF Dropped, Locks, Nobody
  <2> QED
    BY <1>1, <1>2, <2>2 DEF RegistryInv, EntryInv, KeepManager, KeepShut, shutState, Up
<1>10. AckInv'
  <2>1. gen \in Nat /\ body.gen \in Nat BY DEF RegistryInv, RegistryType, Bodies
  <2> QED BY <1>1, <1>2, <1>3, <2>1 DEF RegistryInv, AckInv, KeepManager
<1>11. ShutInv'
  <2>1. Active' => Active BY <1>5 DEF Active, Untouched
  <2> QED BY <1>1, <1>2, <2>1 DEF RegistryInv, ShutInv, KeepManager, KeepShut, shutState
<1>12. CallInv(c)'
  <2>1. gen' \in Nat BY <1>8 DEF RegistryType
  <2> QED BY <1>5, <2>1 DEF CallInv, Serving, At, In, Fenced, Reading, Deciding, Judging
<1>13. ASSUME NEW d \in Clients, d # c PROVE CallInv(d)'
  <2>1. gen' = gen /\ gen \in Nat /\ running' = running /\ Up'
    BY <1>1, <1>2, CallFacts DEF KeepManager, Up
  <2> QED BY <1>1, <1>5, <1>13, <2>1, OthersKeep
<1> QED BY <1>6, <1>7, <1>8, <1>9, <1>10, <1>11, <1>12, <1>13 DEF RegistryInv

-----------------------------------------------------------------------------
(* The steps of delete that change something.                              *)

\* A deletion changes files and the body in memory only.
LEMMA DeletionKeeps ==
    ASSUME RegistryInv, NEW c \in Clients, Witnessed, UNCHANGED <<faults, ops>>,
           Holds(c, "admission"), call[c].op = "delete", CallType', Untouched(c), LockMove(c),
           call'[c].pc \in StepsOf["delete"] \cup {"done"}, call'[c].op = "delete",
           KeepShut, UNCHANGED <<running, gen, decided, token, acked, body, spc, calls>>,
           mem' \in BOOLEAN, broken' \in BOOLEAN, broken => broken', mem' => mem,
           disk' \subseteq Names, ProgressType', durable' \in Histories, unread' = unread, next' => next,
           lock'["admission"] \in {c, Nobody},
           IF "intent" \in disk' THEN TRUE ELSE disk' = {} /\ file' = <<>>,
           file' = <<>> <=> synced' = <<>>,
           mem' => "intent" \in disk' \/ At(c, "d_mem")',
           CallInv(c)'
    PROVE  RegistryInv'
<1>1. running = 0 /\ Up /\ spc = "none" /\ lock["admission"] = c BY FenceFacts
<1>2. FenceInv' /\ lock' \in [Locks -> Owners]
  BY FenceMoves DEF RegistryInv, KeepShut, shutState
<1>3. RegistryType'
  <2>1. /\ gen' \in Nat /\ running' \in {0, gen'} /\ acked' \subseteq 0..gen'
        /\ {mem', decided', token', broken'} \subseteq BOOLEAN
        /\ spc' \in SupervisorSteps \cup RecoverySteps
    BY DEF RegistryInv, RegistryType
  <2> QED BY <1>2, <2>1, CallKeepsType
<1>4. EntryInv' BY <1>1 DEF RegistryInv, EntryInv, KeepShut, shutState, Up
<1>5. DiskInv'
  BY <1>1 DEF RegistryInv, DiskInv, Undecided, RecoverySteps
<1>6. HistoryInv' BY <1>1 DEF RegistryInv, HistoryInv
<1>7. AckInv' BY <1>1 DEF RegistryInv, AckInv
<1>8. ShutInv'
  <2>1. Active
    <3>1. call[c].pc \notin {"idle", "done", "start"}
      BY DEF Holds, Fenced, In, At, Reading, Deleting, Deciding
    <3> QED BY <3>1 DEF Active, Mutations
  <2>2. hpc \in {"none", "closed"} BY <2>1 DEF RegistryInv, ShutInv
  <2> QED BY <1>1, <2>2 DEF RegistryInv, ShutInv, KeepShut, shutState
<1>9. ASSUME NEW d \in Clients, d # c PROVE CallInv(d)'
  <2>1. gen' = gen /\ gen \in Nat /\ Up' BY <1>1, CallFacts DEF Up
  <2> QED BY <1>9, <2>1, OthersKeep
<1> QED BY <1>2, <1>3, <1>4, <1>5, <1>6, <1>7, <1>8, <1>9 DEF RegistryInv

\* A deletion that goes on keeps its fence, ...
LEMMA DeletionStays ==
    ASSUME RegistryInv, NEW c \in Clients, call[c].op = "delete",
           call[c].pc \in {"d_intent"} \cup Deleting, NEW p \in Deleting, Go(c, p)
    PROVE  /\ CallType' /\ Untouched(c) /\ Stepped(c, p) /\ lock' = lock /\ calls' = calls
           /\ LockMove(c) /\ lock'["admission"] = c /\ Holds(c, "admission")
<1>1. CallType' /\ Untouched(c) /\ Stepped(c, p) /\ lock' = lock /\ calls' = calls
  BY CallFacts, GoMoves DEF CallSteps, Deleting
<1>2. \A l \in Locks : Holds(c, l)' <=> Holds(c, l)
  BY <1>1 DEF Holds, Fenced, In, At, Reading, Deciding, Deleting, Stepped
<1>3. Holds(c, "admission") BY DEF Holds, In
<1> QED BY <1>1, <1>2, <1>3, FenceFacts DEF LockMove

\* ... and one that returns drops it.
LEMMA DeletionReturns ==
    ASSUME RegistryInv, NEW c \in Clients, call[c].op = "delete",
           call[c].pc \in {"d_intent"} \cup Deleting, NEW a \in Answers, Return(c, a)
    PROVE  /\ CallType' /\ Untouched(c) /\ call'[c].pc = "done" /\ call'[c].op = "delete"
           /\ call'[c].gen = 0 /\ calls' = calls
           /\ LockMove(c) /\ lock'["admission"] = Nobody /\ Holds(c, "admission")
<1>1. /\ CallType' /\ Untouched(c) /\ call'[c].pc = "done" /\ call'[c].op = "delete"
      /\ call'[c].gen = 0 /\ calls' = calls /\ Dropped(c)
  BY CallFacts, ReturnMoves
<1>2. \A l \in Locks : ~Holds(c, l)'
  BY <1>1 DEF Holds, Fenced, In, At, Reading, Deciding, Deleting
<1>3. Holds(c, "admission") BY DEF Holds, In
<1>4. lock["admission"] = c BY <1>3, FenceFacts
<1> QED BY <1>1, <1>2, <1>3, <1>4 DEF LockMove, Dropped, Locks

LEMMA DeleteIntentKeeps ==
    ASSUME RegistryInv, NEW c \in Clients, DeleteIntent(c), Witnessed, UNCHANGED <<faults, ops>>
    PROVE  RegistryInv'
<1>0. call[c].pc = "d_intent" /\ call[c].op = "delete"
  BY CallFacts, StepsOfIs DEF DeleteIntent, At, AllOps, Reading, Deciding, Deleting
<1>1. KeepManager /\ KeepShut /\ KeepAcks /\ UNCHANGED <<progress, body, spc>> BY DEF DeleteIntent
<1>2. /\ ProgressType' /\ durable' \in Histories /\ mem' \in BOOLEAN /\ gen' \in Nat
      /\ unread' = unread /\ next' = next /\ (file' = <<>> <=> synced' = <<>>) /\ mem' = mem
  BY <1>1
  DEF RegistryInv, RegistryType, ProgressType, DiskInv, KeepManager, KeepAcks, progress
<1>3. CASE disk' = disk \cup {"intent"} /\ UNCHANGED broken /\ Go(c, "d_tree")
  <2>1. /\ CallType' /\ Untouched(c) /\ Stepped(c, "d_tree") /\ calls' = calls
        /\ LockMove(c) /\ lock'["admission"] = c /\ Holds(c, "admission")
    BY <1>0, <1>3, DeletionStays DEF Deleting
  <2>2. CallInv(c)'
    BY <1>0, <1>1, <1>3, <2>1, CallFacts
    DEF CallInv, Serving, At, In, Fenced, Reading, Deciding, Judging, Up, Stepped, KeepManager
  <2>3. disk' \subseteq Names /\ broken' \in BOOLEAN /\ "intent" \in disk'
    BY <1>3 DEF RegistryInv, RegistryType, Names
  <2>4. call'[c].pc \in StepsOf["delete"] /\ call'[c].op = "delete"
    BY <1>0, <2>1, StepsOfIs DEF Stepped, Deleting
  <2> QED
    BY <1>0, <1>1, <1>2, <1>3, <2>1, <2>2, <2>3, <2>4, DeletionKeeps DEF KeepManager, KeepAcks
<1>4. CASE /\ IoFails /\ Return(c, "error") /\ Breaks(TRUE)
           /\ disk' \in {disk, disk \cup {"intent"}}
  <2>1. CASE disk' = disk
    <3>1. Inert BY <1>1, <1>4, <2>1 DEF Inert, files, Breaks, RegistryInv, RegistryType
    <3> QED BY <1>0, <1>4, <3>1, ReturnInert, PureKeeps DEF At, Answers
  <2>2. CASE disk' = disk \cup {"intent"}
    <3>1. /\ CallType' /\ Untouched(c) /\ call'[c].pc = "done" /\ call'[c].op = "delete"
          /\ call'[c].gen = 0 /\ calls' = calls
          /\ LockMove(c) /\ lock'["admission"] = Nobody /\ Holds(c, "admission")
      BY <1>0, <1>4, DeletionReturns DEF Answers
    <3>2. CallInv(c)'
      BY <1>2, <3>1 DEF CallInv, Serving, At, In, Fenced, Reading, Deciding, Judging
    <3>3. disk' \subseteq Names /\ "intent" \in disk'
      BY <2>2 DEF RegistryInv, RegistryType, Names
    <3>4. broken' = TRUE BY <1>4 DEF Breaks
    <3> QED
      BY <1>0, <1>1, <1>2, <3>1, <3>2, <3>3, <3>4, DeletionKeeps DEF KeepManager, KeepAcks
  <2> QED BY <1>4, <2>1, <2>2
<1> QED BY <1>3, <1>4 DEF DeleteIntent

LEMMA DeleteTreeKeeps ==
    ASSUME RegistryInv, NEW c \in Clients, DeleteTree(c), Witnessed, UNCHANGED <<faults, ops>>
    PROVE  RegistryInv'
<1>0. call[c].pc = "d_tree" /\ call[c].op = "delete"
  BY CallFacts, StepsOfIs DEF DeleteTree, At, AllOps, Reading, Deciding, Deleting
<1>1. KeepManager /\ KeepShut /\ KeepAcks /\ UNCHANGED <<progress, body, spc>> BY DEF DeleteTree
<1>2. /\ ProgressType' /\ durable' \in Histories /\ mem' \in BOOLEAN /\ gen' \in Nat
      /\ unread' = unread /\ next' = next /\ (file' = <<>> <=> synced' = <<>>) /\ mem' = mem
  BY <1>1
  DEF RegistryInv, RegistryType, ProgressType, DiskInv, KeepManager, KeepAcks, progress
<1>3. CASE disk' = disk \ {"tree"} /\ UNCHANGED broken /\ Go(c, "d_files")
  <2>1. /\ CallType' /\ Untouched(c) /\ Stepped(c, "d_files") /\ calls' = calls
        /\ LockMove(c) /\ lock'["admission"] = c /\ Holds(c, "admission")
    BY <1>0, <1>3, DeletionStays DEF Deleting
  <2>2. CallInv(c)'
    BY <1>0, <1>1, <1>3, <2>1, CallFacts
    DEF CallInv, Serving, At, In, Fenced, Reading, Deciding, Judging, Up, Stepped, KeepManager
  <2>3. disk' \subseteq Names /\ broken' \in BOOLEAN BY <1>3 DEF RegistryInv, RegistryType
  <2>4. call'[c].pc \in StepsOf["delete"] /\ call'[c].op = "delete" /\ call'[c].pc = "d_files"
    BY <1>0, <2>1, StepsOfIs DEF Stepped, Deleting
  <2>5. "intent" \in disk' BY <2>2, <2>4 DEF CallInv, In
  <2> QED
    BY <1>0, <1>1, <1>2, <1>3, <2>1, <2>2, <2>3, <2>4, <2>5, DeletionKeeps DEF KeepManager, KeepAcks
<1>4. CASE IoFails /\ Return(c, "error") /\ Breaks(TRUE) /\ UNCHANGED disk
  <2>1. Inert BY <1>1, <1>4 DEF Inert, files, Breaks, RegistryInv, RegistryType
  <2> QED BY <1>0, <1>4, <2>1, ReturnInert, PureKeeps DEF At, Answers
<1> QED BY <1>3, <1>4 DEF DeleteTree

LEMMA DeleteFileKeeps ==
    ASSUME RegistryInv, NEW c \in Clients, DeleteFile(c), Witnessed, UNCHANGED <<faults, ops>>
    PROVE  RegistryInv'
<1>0. call[c].pc = "d_files" /\ call[c].op = "delete"
  BY CallFacts, StepsOfIs DEF DeleteFile, At, AllOps, Reading, Deciding, Deleting
<1>1. KeepManager /\ KeepShut /\ UNCHANGED <<acked, body, spc>> BY DEF DeleteFile
<1>2. CASE IoFails /\ Return(c, "error") /\ Breaks(TRUE) /\ UNCHANGED <<files, durable>>
  <2>1. Inert BY <1>1, <1>2 DEF Inert, Breaks, KeepAcks, RegistryInv, RegistryType
  <2> QED BY <1>0, <1>2, <2>1, ReturnInert, PureKeeps DEF At, Answers
<1>3. ASSUME NEW p \in {"d_files", "d_end"}, Go(c, p), disk' \subseteq disk, "intent" \in disk',
             UNCHANGED broken,
             UNCHANGED <<progress, durable>> \/ (Removed /\ durable' = <<>>),
             p = "d_end" => Records = {} /\ file = <<>> /\ UNCHANGED <<files, durable>>
      PROVE  RegistryInv'
  <2>1. /\ CallType' /\ Untouched(c) /\ Stepped(c, p) /\ calls' = calls
        /\ LockMove(c) /\ lock'["admission"] = c /\ Holds(c, "admission")
    BY <1>0, <1>3, DeletionStays DEF Deleting
  <2>2. "intent" \in disk' /\ "tree" \notin disk' /\ disk' \subseteq Names
    BY <1>0, <1>3, CallFacts DEF CallInv, In, RegistryInv, RegistryType
  <2>3. /\ ProgressType' /\ durable' \in Histories /\ unread' = unread /\ (next' => next)
        /\ (file' = <<>> <=> synced' = <<>>)
    <3>0. ProgressType /\ durable \in Histories /\ (file = <<>> <=> synced = <<>>)
      BY DEF RegistryInv, RegistryType, DiskInv
    <3>1. CASE UNCHANGED <<progress, durable>> BY <3>0, <3>1 DEF progress, ProgressType
    <3>2. CASE Removed /\ durable' = <<>>
      <4>1. <<>> \in Histories BY DEF Histories
      <4> QED BY <3>0, <3>2, <4>1, RemovedType DEF Removed
    <3> QED BY <1>3, <3>1, <3>2
  <2>4. CallInv(c)'
    BY <1>0, <1>1, <1>3, <2>1, <2>2, CallFacts
    DEF CallInv, Serving, At, In, Fenced, Reading, Deciding, Judging, Up, Stepped, KeepManager, Records,
        files, progress
  <2>5. mem' \in BOOLEAN /\ broken' \in BOOLEAN /\ mem' = mem
    BY <1>1, <1>3 DEF RegistryInv, RegistryType, KeepManager
  <2>6. call'[c].pc \in StepsOf["delete"] /\ call'[c].op = "delete"
    BY <1>0, <2>1, StepsOfIs DEF Stepped, Deleting
  <2> QED
    BY <1>0, <1>1, <1>3, <2>1, <2>2, <2>3, <2>4, <2>5, <2>6, DeletionKeeps DEF KeepManager
<1>4. "intent" \in disk BY <1>0, CallFacts DEF CallInv, In
<1>5. "intent" \notin Records BY DEF Records
<1> QED BY <1>2, <1>3, <1>4, <1>5 DEF DeleteFile, files

LEMMA DeleteEndKeeps ==
    ASSUME RegistryInv, NEW c \in Clients, DeleteEnd(c), Witnessed, UNCHANGED <<faults, ops>>
    PROVE  RegistryInv'
<1>0. call[c].pc = "d_end" /\ call[c].op = "delete"
  BY CallFacts, StepsOfIs DEF DeleteEnd, At, AllOps, Reading, Deciding, Deleting
<1>1. KeepManager /\ KeepShut /\ KeepAcks /\ UNCHANGED <<progress, body, spc>> BY DEF DeleteEnd
<1>2. /\ ProgressType' /\ durable' \in Histories /\ mem' \in BOOLEAN /\ gen' \in Nat
      /\ unread' = unread /\ next' = next /\ (file' = <<>> <=> synced' = <<>>) /\ mem' = mem
  BY <1>1
  DEF RegistryInv, RegistryType, ProgressType, DiskInv, KeepManager, KeepAcks, progress
<1>3. disk \ {"intent"} = {} /\ file' = <<>> /\ disk \subseteq Names
  <2>1. Records = {} /\ file = <<>> /\ "tree" \notin disk
    BY <1>0, CallFacts DEF CallInv, In, At
  <2>2. disk \subseteq Names BY DEF RegistryInv, RegistryType
  <2> QED BY <1>1, <2>1, <2>2 DEF Records, Names, progress
<1>4. CASE Go(c, "d_mem") /\ disk' = disk \ {"intent"} /\ UNCHANGED broken
  <2>1. /\ CallType' /\ Untouched(c) /\ Stepped(c, "d_mem") /\ calls' = calls
        /\ LockMove(c) /\ lock'["admission"] = c /\ Holds(c, "admission")
    BY <1>0, <1>4, DeletionStays DEF Deleting
  <2>2. disk' = {} /\ broken' \in BOOLEAN BY <1>3, <1>4 DEF RegistryInv, RegistryType
  <2>3. CallInv(c)'
    BY <1>0, <1>1, <1>3, <2>1, <2>2, CallFacts
    DEF CallInv, Serving, At, In, Fenced, Reading, Deciding, Judging, Up, Stepped, KeepManager
  <2>4. call'[c].pc \in StepsOf["delete"] /\ call'[c].op = "delete" /\ At(c, "d_mem")'
    BY <1>0, <2>1, StepsOfIs DEF Stepped, Deleting, At
  <2>5. disk' \subseteq Names BY <2>2
  <2> QED
    BY <1>0, <1>1, <1>2, <1>3, <1>4, <2>1, <2>2, <2>3, <2>4, <2>5, DeletionKeeps
    DEF KeepManager, KeepAcks
<1>5. CASE IoFails /\ Return(c, "error") /\ Breaks(TRUE) /\ disk' \in {disk, disk \ {"intent"}}
  <2>1. /\ CallType' /\ Untouched(c) /\ call'[c].pc = "done" /\ call'[c].op = "delete"
        /\ call'[c].gen = 0 /\ calls' = calls
        /\ LockMove(c) /\ lock'["admission"] = Nobody /\ Holds(c, "admission")
    BY <1>0, <1>5, DeletionReturns DEF Answers, Deleting
  <2>2. ~mem /\ broken' = TRUE BY <1>5 DEF IoFails, Breaks, RegistryInv, DiskInv
  <2>3. CallInv(c)'
    BY <1>2, <2>1 DEF CallInv, Serving, At, In, Fenced, Reading, Deciding, Judging
  <2>4. disk' \subseteq Names /\ (IF "intent" \in disk' THEN TRUE ELSE disk' = {} /\ file' = <<>>)
    BY <1>3, <1>5
  <2>5. call'[c].pc \in StepsOf["delete"] \cup {"done"} BY <2>1
  <2> QED
    BY <1>0, <1>1, <1>2, <2>1, <2>2, <2>3, <2>4, <2>5, DeletionKeeps DEF KeepManager, KeepAcks
<1> QED BY <1>4, <1>5 DEF DeleteEnd

LEMMA DeleteMemKeeps ==
    ASSUME RegistryInv, NEW c \in Clients, DeleteMem(c), Witnessed, UNCHANGED <<faults, ops>>
    PROVE  RegistryInv'
<1>0. call[c].pc = "d_mem" /\ call[c].op = "delete"
  BY CallFacts, StepsOfIs DEF DeleteMem, At, AllOps, Reading, Deciding, Deleting
<1>1. /\ mem' = FALSE /\ Return(c, "deleted") /\ KeepShut /\ KeepHistory
      /\ UNCHANGED <<running, gen, decided, token, files, body, spc>>
  BY DEF DeleteMem
<1>2. /\ ProgressType' /\ durable' \in Histories /\ broken' \in BOOLEAN /\ disk' \subseteq Names
      /\ unread' = unread /\ next' = next /\ (file' = <<>> <=> synced' = <<>>) /\ gen' \in Nat
  BY <1>1
  DEF RegistryInv, RegistryType, ProgressType, DiskInv, KeepHistory, files, progress
<1>3. /\ CallType' /\ Untouched(c) /\ call'[c].pc = "done" /\ call'[c].op = "delete"
      /\ call'[c].gen = 0 /\ calls' = calls
      /\ LockMove(c) /\ lock'["admission"] = Nobody /\ Holds(c, "admission")
  BY <1>0, <1>1, DeletionReturns DEF Answers, Deleting
<1>4. disk' = {} /\ file' = <<>>
  BY <1>0, <1>1, CallFacts DEF CallInv, At, files, progress
<1>5. CallInv(c)'
  BY <1>2, <1>3 DEF CallInv, Serving, At, In, Fenced, Reading, Deciding, Judging
<1> QED
  BY <1>0, <1>1, <1>2, <1>3, <1>4, <1>5, DeletionKeeps DEF KeepHistory

-----------------------------------------------------------------------------
(* Steps of the supervisor, the shutdown and the recovery: the calls stay  *)
(* as they are.                                                            *)

\* The types, when the calls do not change.
LEMMA SystemKeepsType ==
    ASSUME RegistryInv, UNCHANGED <<call, calls, ops>>, faults' \subseteq faults,
           lock' \in [Locks -> Owners], ProgressType', durable' \in Histories, body' \in Bodies,
           disk' \subseteq Names, spc' \in SupervisorSteps \cup RecoverySteps,
           gen' = gen, running' \in {0, gen}, acked' = acked,
           {mem', decided', token', broken', open', stopping', herr'} \subseteq BOOLEAN,
           hpc' \in {"none", "closed", "decision", "launch", "intent", "publish", "fence", "wait", "done"},
           Witnessed
    PROVE  RegistryType'
<1>1. seen' \in [Clients -> SUBSET (ResourceStates \cup {"ending"})]
  BY WitnessedType DEF RegistryInv, RegistryType
<1> QED BY <1>1 DEF RegistryInv, RegistryType, Owners

\* The locks, when nobody takes or drops one.
LEMMA FenceSame ==
    ASSUME RegistryInv, UNCHANGED <<call, lock, hpc>>, spc' = "launching" <=> spc = "launching"
    PROVE  FenceInv' /\ lock' \in [Locks -> Owners]
<1>1. \A c \in Clients, l \in Locks : Holds(c, l)' <=> Holds(c, l)
  BY DEF Holds, Fenced, In, At
<1>2. \A l \in Locks : ShutHolds(l)' <=> ShutHolds(l) BY DEF ShutHolds
<1> QED BY <1>1, <1>2 DEF RegistryInv, RegistryType, FenceInv, Owners

\* While there is an entry no call is at a step that holds the fence.
LEMMA EntryFacts ==
    ASSUME RegistryInv, running # 0
    PROVE  /\ lock["admission"] \notin Clients
           /\ \A d \in Clients : ~Fenced(d) /\
                 ~In(d, {"s_valid", "s_accept", "s_register", "d_intent", "d_tree", "d_files", "d_end", "d_mem"})
<1>1. lock["admission"] \notin Clients BY DEF RegistryInv, EntryInv
<1>2. \A d \in Clients : ~Holds(d, "admission") BY <1>1 DEF RegistryInv, FenceInv, Locks
<1> QED BY <1>1, <1>2 DEF Holds, In, Deleting

\* What a step of the supervisor leaves of the calls.
LEMMA SupervisorLeaves ==
    ASSUME RegistryInv, running # 0, UNCHANGED <<call, gen>>, Up', NEW d \in Clients,
           running' # 0 \/ decided',
           In(d, Deciding) => running' # 0 /\ ~decided' /\ (token => token')
                              /\ ("cancel" \in disk => "cancel" \in disk')
    PROVE  CallInv(d)'
BY EntryFacts, CallFacts
DEF CallInv, Serving, At, In, Fenced, Deciding, Reading, Judging

\* While the outcome is open.
LEMMA OpenStepKeeps ==
    ASSUME RegistryInv, spc \in Undecided, spc' \in Undecided,
           Supervises, KeepManager, UNCHANGED <<disk, body, faults, ops>>,
           FenceInv', lock' \in [Locks -> Owners], lock'["admission"] = lock["admission"],
           NEW fails \in BOOLEAN, HistoryMoved(fails), broken' = (broken \/ fails), Witnessed
    PROVE  RegistryInv'
<1>0. running # 0 /\ ~decided /\ Up'
  BY DEF RegistryInv, EntryInv, Undecided, RecoverySteps, Up
<1>1. DiskInv' /\ HistoryInv' /\ broken' \in BOOLEAN
  BY <1>0, PublicationKeeps DEF Supervises, KeepCalls, callState, At, KeepManager
<1>2. RegistryType'
  <2>1. spc' \in SupervisorSteps BY DEF Undecided, SupervisorSteps
  <2>2. ProgressType' /\ durable' \in Histories BY DEF HistoryMoved
  <2> QED
    BY <1>1, <2>1, <2>2, SystemKeepsType
    DEF RegistryInv, RegistryType, Supervises, KeepCalls, callState, KeepShut, shutState, KeepManager
<1>3. EntryInv'
  BY <1>0
  DEF RegistryInv, EntryInv, KeepManager, Supervises, KeepShut, shutState, Undecided, RecoverySteps, Up
<1>4. AckInv' BY DEF RegistryInv, AckInv, KeepManager, Supervises
<1>5. ShutInv'
  <2>1. spc # "none" /\ (Active' <=> Active)
    BY DEF Undecided, Active, Supervises, KeepCalls, callState
  <2> QED BY <2>1 DEF RegistryInv, ShutInv, KeepManager, Supervises, KeepShut, shutState
<1>6. ASSUME NEW d \in Clients PROVE CallInv(d)'
  BY <1>0, SupervisorLeaves DEF KeepManager, Supervises, KeepCalls, callState
<1> QED BY <1>1, <1>2, <1>3, <1>4, <1>5, <1>6 DEF RegistryInv

\* The histories while a supervisor or a recovery runs.
LEMMA SupervisorHistory ==
    ASSUME RegistryInv, spc \notin {"none", "down"}
    PROVE  /\ ProgressType /\ durable \in Histories /\ events # <<>> /\ Begins(durable, events)
           /\ Latest.count \in 0..MaxCount
BY LatestType DEF RegistryInv, RegistryType, HistoryInv

LEMMA PublishedMoves ==
    ASSUME RegistryInv, spc \notin {"none", "down"}, NEW phase \in Phases, NEW count \in 0..MaxCount,
           NEW ok \in BOOLEAN, Published(phase, count, ok)
    PROVE  /\ HistoryMoved(~ok /\ IoFails) /\ (ok => file' = events')
           /\ broken' = (broken \/ (~ok /\ IoFails)) /\ (~ok /\ IoFails) \in BOOLEAN
<1>1. IoFails \in BOOLEAN BY DEF IoFails
<1> QED BY <1>1, SupervisorHistory, PublishMoves DEF Published, Breaks

LEMMA SupervisorStagesKeeps ==
    ASSUME RegistryInv, SupervisorStages, Witnessed, UNCHANGED <<faults, ops>>
    PROVE  RegistryInv'
<1>0. /\ spc = "stage" /\ spc \in Undecided
      /\ Supervises /\ KeepManager /\ UNCHANGED <<lock, disk, body>>
  BY DEF SupervisorStages, Undecided, manager, KeepManager
<1>1. spc' \in {"stage", "decide", "launch"} BY DEF SupervisorStages
<1>2. FenceInv' /\ lock' \in [Locks -> Owners]
  BY <1>0, <1>1, FenceSame DEF Supervises, KeepCalls, callState, KeepShut, shutState
<1>3. spc' \in Undecided BY <1>1 DEF Undecided
<1>4. CASE UNCHANGED <<progress, broken, durable>>
  <2>1. HistoryMoved(FALSE) BY <1>0, <1>4, SupervisorHistory, HistoryStays
  <2>2. broken' = (broken \/ FALSE)
    <3>1. broken \in BOOLEAN BY DEF RegistryInv, RegistryType
    <3> QED BY <3>1, <1>4
  <2> QED BY <1>0, <1>2, <1>3, <2>1, <2>2, OpenStepKeeps
<1>5. CASE \E ok \in BOOLEAN : Latest.count < MaxCount /\ Published("Staging", Latest.count + 1, ok)
  <2>1. PICK ok \in BOOLEAN : Latest.count < MaxCount /\ Published("Staging", Latest.count + 1, ok)
    BY <1>5
  <2>2. Latest.count + 1 \in 0..MaxCount
    BY <1>0, <2>1, SupervisorHistory, ProgressAssumption
  <2>3. "Staging" \in Phases /\ spc \notin {"none", "down"} BY <1>0 DEF Phases
  <2>4. /\ HistoryMoved(~ok /\ IoFails) /\ broken' = (broken \/ (~ok /\ IoFails))
        /\ (~ok /\ IoFails) \in BOOLEAN
    BY <2>1, <2>2, <2>3, PublishedMoves
  <2> QED BY <1>0, <1>2, <1>3, <2>4, OpenStepKeeps
<1> QED BY <1>4, <1>5 DEF SupervisorStages

LEMMA SupervisorLaunchesKeeps ==
    ASSUME RegistryInv, SupervisorLaunches, Witnessed, UNCHANGED <<faults, ops>>
    PROVE  RegistryInv'
<1>0. /\ spc \in {"launch", "launching"} /\ spc' \in {"launching", "decide", "work"}
      /\ Supervises /\ KeepManager /\ UNCHANGED <<files, body, broken, durable>>
  BY DEF SupervisorLaunches
<1>1. spc \in Undecided /\ spc' \in Undecided BY <1>0 DEF Undecided
<1>2. /\ \A c \in Clients, l \in Locks : Holds(c, l)' <=> Holds(c, l)
      /\ \A l \in Locks : ShutHolds(l)' <=> ShutHolds(l)
  BY <1>0 DEF Holds, Fenced, In, At, ShutHolds, Supervises, KeepCalls, callState, KeepShut, shutState
<1>3. lock \in [Locks -> Owners] /\ FenceInv BY DEF RegistryInv, RegistryType, Owners
<1>4. "supervisor" \notin Clients /\ Nobody \notin Clients \cup {"supervisor", "shutdown"}
  BY RegistryAssumption DEF Nobody
<1>5. call' = call BY <1>0 DEF Supervises, KeepCalls, callState
<1>6. FenceInv' /\ lock' \in [Locks -> Owners] /\ lock'["admission"] = lock["admission"]
  <2>1. CASE spc = "launch" /\ Free("launch") /\ Taken("supervisor", {"launch"}) /\ spc' = "launching"
    BY <2>1, <1>2, <1>3, <1>4, <1>5 DEF FenceInv, Free, Taken, Owners, Locks
  <2>2. CASE spc = "launching" /\ Dropped("supervisor") /\ spc' # "launching"
    <3>1. lock["admission"] # "supervisor" BY <1>3 DEF FenceInv, Locks
    <3>2. \A l \in Locks : lock[l] # "supervisor" => lock'[l] = lock[l] BY <2>2 DEF Dropped
    <3>3. \A l \in Locks : lock[l] = "supervisor" => lock'[l] = Nobody BY <2>2 DEF Dropped
    <3>4. lock' \in [Locks -> Owners] BY <2>2, <1>3 DEF Dropped, Owners
    <3>5. FenceInv' BY <2>2, <3>2, <3>3, <1>2, <1>3, <1>4, <1>5 DEF FenceInv
    <3> QED BY <3>1, <3>2, <3>4, <3>5 DEF Locks
  <2> QED BY <2>1, <2>2 DEF SupervisorLaunches
<1>7. HistoryMoved(FALSE)
  BY <1>0, SupervisorHistory, HistoryStays DEF files
<1>8. broken' = (broken \/ FALSE)
  <2>1. broken \in BOOLEAN BY DEF RegistryInv, RegistryType
  <2> QED BY <2>1, <1>0
<1>9. UNCHANGED disk BY <1>0 DEF files
<1> QED BY <1>0, <1>1, <1>6, <1>7, <1>8, <1>9, OpenStepKeeps

LEMMA SupervisorWorksKeeps ==
    ASSUME RegistryInv, SupervisorWorks, Witnessed, UNCHANGED <<faults, ops>>
    PROVE  RegistryInv'
<1>0. /\ spc = "work" /\ spc' = "decide" /\ spc \in Undecided /\ spc' \in Undecided
      /\ Supervises /\ KeepManager /\ UNCHANGED <<lock, disk, body>>
  BY DEF SupervisorWorks, Undecided, manager, KeepManager
<1>1. FenceInv' /\ lock' \in [Locks -> Owners]
  BY <1>0, FenceSame DEF Supervises, KeepCalls, callState, KeepShut, shutState
<1>2. PICK ok \in BOOLEAN : Published("TearingDown", Latest.count, ok) BY DEF SupervisorWorks
<1>3. "TearingDown" \in Phases /\ spc \notin {"none", "down"} BY <1>0 DEF Phases
<1>4. Latest.count \in 0..MaxCount BY <1>3, SupervisorHistory
<1>5. /\ HistoryMoved(~ok /\ IoFails) /\ broken' = (broken \/ (~ok /\ IoFails))
      /\ (~ok /\ IoFails) \in BOOLEAN
  BY <1>2, <1>3, <1>4, PublishedMoves
<1> QED BY <1>0, <1>1, <1>5, OpenStepKeeps

\* From the decision on: the outcome, once decided, only travels to disk.
LEMMA SupervisorDecidesKeeps ==
    ASSUME RegistryInv, SupervisorDecides, Witnessed, UNCHANGED <<faults, ops>>
    PROVE  RegistryInv'
<1>0. /\ spc = "decide" /\ Free("decision") /\ spc' = "persisting" /\ decided' = TRUE
      /\ body' = Body(IF token THEN "cancelled" ELSE "ended")
      /\ Supervises /\ UNCHANGED <<lock, running, mem, gen, token, files, broken, durable>>
  BY DEF SupervisorDecides
<1>1. /\ running # 0 /\ ~decided /\ "accepted" \in disk /\ "intent" \notin disk /\ ~mem
      /\ "tree" \in disk /\ {"draft", "finished"} \cap disk = {} /\ file # <<>> /\ synced # <<>>
  BY <1>0 DEF RegistryInv, EntryInv, DiskInv, Undecided, RecoverySteps
<1>2. /\ body' \in Bodies /\ body'.gen = gen
      /\ body'.status = (IF token THEN "cancelled" ELSE "ended")
  <2>1. <<>> \in Histories /\ gen \in Nat BY DEF Histories, RegistryInv, RegistryType
  <2> QED BY <1>0, <2>1 DEF Body, Bodies
<1>3. FenceInv' /\ lock' \in [Locks -> Owners]
  BY <1>0, FenceSame DEF Supervises, KeepCalls, callState, KeepShut, shutState
<1>4. /\ \A d \in Clients : ~In(d, Deciding)
      /\ hpc \notin {"launch", "intent", "publish"}
  BY <1>0, RegistryAssumption DEF RegistryInv, FenceInv, Locks, Holds, ShutHolds, Free, Nobody
<1>5. RegistryType'
  <2>1. spc' \in SupervisorSteps BY <1>0 DEF SupervisorSteps
  <2> QED
    BY <1>0, <1>2, <1>3, <2>1, SystemKeepsType
    DEF RegistryInv, RegistryType, Supervises, KeepCalls, callState, KeepShut, shutState, files,
        progress, ProgressType
<1>6. EntryInv'
  BY <1>0, <1>1, <1>2, <1>4
  DEF RegistryInv, RegistryType, EntryInv, Supervises, KeepShut, shutState, files, Undecided,
      RecoverySteps, Up
<1>7. DiskInv'
  BY <1>0, <1>1 DEF RegistryInv, DiskInv, files, progress, Undecided, RecoverySteps
<1>8. HistoryInv' BY <1>0, <1>1 DEF RegistryInv, HistoryInv, files, progress
<1>9. AckInv' BY <1>0, <1>1, <1>2 DEF RegistryInv, AckInv, Supervises, files
<1>10. ShutInv'
  <2>1. Active' <=> Active BY <1>0 DEF Active, Supervises, KeepCalls, callState
  <2> QED
    BY <1>0, <1>1, <1>2, <2>1 DEF RegistryInv, ShutInv, Supervises, KeepShut, shutState, files
<1>11. ASSUME NEW d \in Clients PROVE CallInv(d)'
  <2>1. Up' BY <1>0 DEF Up, RecoverySteps
  <2> QED BY <1>0, <1>1, <1>4, <2>1, SupervisorLeaves DEF Supervises, KeepCalls, callState
<1> QED BY <1>3, <1>5, <1>6, <1>7, <1>8, <1>9, <1>10, <1>11 DEF RegistryInv

Persisting == {"persisting", "terminal", "draft", "cleanup", "commit", "undraft", "evict", "abandon"}

\* What does not depend on the files while the outcome is persisted.
LEMMA PersistingKeeps ==
    ASSUME RegistryInv, spc \in Persisting, spc' \in Persisting, Supervises, UNCHANGED manager,
           UNCHANGED <<faults, ops>>, Witnessed,
           disk' \subseteq Names, ProgressType', durable' \in Histories, broken' \in BOOLEAN,
           body' \in Bodies, body'.gen = body.gen, body'.status = body.status,
           "accepted" \in disk', "intent" \notin disk', "cancel" \in disk => "cancel" \in disk',
           DiskInv', HistoryInv'
    PROVE  RegistryInv'
<1>0. running # 0 /\ decided /\ hpc # "done" /\ Up' /\ "intent" \notin disk
  BY DEF RegistryInv, EntryInv, ShutInv, Persisting, Undecided, RecoverySteps, Up
<1>1. FenceInv' /\ lock' \in [Locks -> Owners]
  BY FenceSame DEF Supervises, KeepCalls, callState, KeepShut, shutState, manager, Persisting
<1>2. RegistryType'
  <2>1. spc' \in SupervisorSteps BY DEF SupervisorSteps, Persisting
  <2> QED
    BY <1>1, <2>1, SystemKeepsType
    DEF RegistryInv, RegistryType, Supervises, KeepCalls, callState, KeepShut, shutState, manager
<1>3. EntryInv'
  BY <1>0
  DEF RegistryInv, EntryInv, Supervises, KeepShut, shutState, manager, Undecided, Persisting,
      RecoverySteps, Up
<1>4. AckInv' BY <1>0 DEF RegistryInv, AckInv, EntryInv, Supervises, manager
<1>5. ShutInv'
  <2>1. Active' <=> Active BY DEF Active, Supervises, KeepCalls, callState
  <2> QED
    BY <1>0, <2>1 DEF RegistryInv, ShutInv, Supervises, KeepShut, shutState, manager
<1>6. ASSUME NEW d \in Clients PROVE CallInv(d)'
  BY <1>0, SupervisorLeaves, CallFacts DEF Supervises, KeepCalls, callState, manager, CallInv
<1> QED BY <1>1, <1>2, <1>3, <1>4, <1>5, <1>6 DEF RegistryInv

\* The facts of an entry whose outcome is being persisted.
LEMMA PersistingFacts ==
    ASSUME RegistryInv, spc \in Persisting
    PROVE  /\ running # 0 /\ "accepted" \in disk /\ "intent" \notin disk /\ ~mem /\ body.gen = gen
           /\ file # <<>> /\ synced # <<>> /\ events # <<>> /\ Begins(durable, events)
           /\ Begins(durable, file) /\ Begins(durable, synced) /\ (~unread => events = file)
<1>1. /\ running # 0 /\ "accepted" \in disk /\ "intent" \notin disk /\ ~mem /\ body.gen = gen
  BY DEF RegistryInv, EntryInv, Persisting, Undecided, RecoverySteps
<1>2. file # <<>> /\ synced # <<>> BY <1>1 DEF RegistryInv, DiskInv
<1> QED BY <1>1, <1>2 DEF RegistryInv, HistoryInv, Persisting

LEMMA SupervisorPublishesKeeps ==
    ASSUME RegistryInv, SupervisorPublishes, Witnessed, UNCHANGED <<faults, ops>>
    PROVE  RegistryInv'
<1>0. /\ \/ spc = "persisting" /\ spc' = "terminal" /\ body' = body
         \/ /\ spc = "terminal" /\ spc' = "draft"
            /\ \E r \in BOOLEAN : body' = [body EXCEPT !.events = events', !.retained = r]
      /\ Supervises /\ UNCHANGED <<manager, disk>>
  <2>1. IoFails \in BOOLEAN BY DEF IoFails
  <2> QED BY <2>1 DEF SupervisorPublishes
<1>1. PICK ok \in BOOLEAN, phase \in Phases : Published(phase, Latest.count, ok)
  BY DEF SupervisorPublishes, Phases
<1>2. spc \in Persisting /\ spc' \in Persisting /\ spc \notin {"none", "down"}
  BY <1>0 DEF Persisting
<1>3. /\ HistoryMoved(~ok /\ IoFails) /\ broken' = (broken \/ (~ok /\ IoFails))
      /\ (~ok /\ IoFails) \in BOOLEAN
  BY <1>1, <1>2, SupervisorHistory, PublishedMoves
<1>4. broken \in BOOLEAN /\ broken' \in BOOLEAN BY <1>3 DEF RegistryInv, RegistryType
<1>5. "tree" \in disk /\ {"draft", "finished"} \cap disk = {}
  BY <1>0 DEF RegistryInv, DiskInv
<1>6. DiskInv'
  BY <1>0, <1>2, <1>3, <1>4, <1>5, PersistingFacts
  DEF DiskInv, HistoryMoved, manager, Undecided, RecoverySteps
<1>7. /\ body' \in Bodies /\ body'.gen = body.gen /\ body'.status = body.status
      /\ (spc' = "draft" => body'.events = events')
  <2>1. body \in Bodies /\ events' \in Histories
    BY <1>3 DEF RegistryInv, RegistryType, HistoryMoved, ProgressType
  <2> QED BY <1>0, <2>1 DEF Bodies
<1>8. HistoryInv'
  <2>1. (unread => broken) /\ (next => broken)
    BY <1>2 DEF RegistryInv, HistoryInv
  <2>2. (unread' => broken') /\ (next' => broken')
    BY <1>3, <1>4, <2>1 DEF HistoryMoved
  <2>3. /\ Begins(durable', file') /\ Begins(durable', synced')
        /\ events' # <<>> /\ Begins(durable', events') /\ (~unread' => events' = file')
    BY <1>2, <1>3, PersistingFacts DEF HistoryMoved
  <2> QED BY <1>0, <1>5, <1>7, <2>2, <2>3 DEF HistoryInv
<1>9. ProgressType' /\ durable' \in Histories /\ disk' \subseteq Names
  BY <1>0, <1>3 DEF HistoryMoved, RegistryInv, RegistryType
<1>10. "accepted" \in disk' /\ "intent" \notin disk' BY <1>0, <1>2, PersistingFacts
<1> QED
  BY <1>0, <1>2, <1>4, <1>6, <1>7, <1>8, <1>9, <1>10, PersistingKeeps

LEMMA SupervisorPersistsKeeps ==
    ASSUME RegistryInv, SupervisorPersists, Witnessed, UNCHANGED <<faults, ops>>
    PROVE  RegistryInv'
<1> USE DEF manager
<1>0. /\ spc \in {"draft", "cleanup", "commit", "undraft"}
      /\ spc' \in {"cleanup", "commit", "undraft", "evict", "abandon"}
      /\ spc \in Persisting /\ spc' \in Persisting
      /\ Supervises /\ UNCHANGED <<manager, durable>>
  BY DEF SupervisorPersists, Persisting
<1>1. /\ running # 0 /\ "accepted" \in disk /\ "intent" \notin disk /\ ~mem /\ body.gen = gen
      /\ file # <<>> /\ synced # <<>> /\ events # <<>> /\ Begins(durable, events)
      /\ Begins(durable, file) /\ Begins(durable, synced) /\ (~unread => events = file)
  BY <1>0, PersistingFacts
<1>2. /\ disk \subseteq Names /\ ProgressType /\ durable \in Histories /\ broken \in BOOLEAN
      /\ body \in Bodies
  BY DEF RegistryInv, RegistryType
<1>3. DiskInv /\ HistoryInv BY DEF RegistryInv
<1>4. CASE /\ spc = "draft" /\ spc' = "cleanup"
           /\ disk' = disk \cup {"draft"} /\ DirectorySynced /\ UNCHANGED <<body, broken>>
  <2>1. DiskInv'
    BY <1>0, <1>1, <1>3, <1>4 DEF DiskInv, DirectorySynced, Undecided, RecoverySteps
  <2>2. HistoryInv' BY <1>0, <1>1, <1>3, <1>4 DEF HistoryInv, DiskInv, DirectorySynced
  <2>3. disk' \subseteq Names /\ ProgressType' BY <1>2, <1>4, SyncedType DEF Names
  <2> QED BY <1>0, <1>1, <1>2, <1>4, <2>1, <2>2, <2>3, PersistingKeeps
<1>5. CASE /\ spc = "cleanup" /\ spc' = "commit"
           /\ disk' = IF body.retained THEN disk ELSE disk \ {"tree"}
           /\ UNCHANGED <<progress, body, broken>>
  <2>1. DiskInv'
    BY <1>0, <1>1, <1>3, <1>5 DEF DiskInv, progress, Undecided, RecoverySteps
  <2>2. HistoryInv' BY <1>0, <1>1, <1>3, <1>5 DEF HistoryInv, DiskInv, progress
  <2>3. disk' \subseteq Names /\ ProgressType' BY <1>2, <1>5 DEF ProgressType, progress
  <2> QED BY <1>0, <1>1, <1>2, <1>5, <2>1, <2>2, <2>3, PersistingKeeps
<1>6. CASE /\ spc = "cleanup" /\ spc' = "commit" /\ IoFails /\ Breaks(TRUE)
           /\ body' = [body EXCEPT !.retained = TRUE] /\ UNCHANGED <<progress, disk>>
  <2>0. /\ body' \in Bodies /\ body'.gen = body.gen /\ body'.status = body.status
        /\ body'.events = body.events /\ body'.retained = TRUE /\ broken' = TRUE
    BY <1>2, <1>6 DEF Bodies, Breaks
  <2>1. DiskInv'
    BY <1>0, <1>1, <1>3, <1>6, <2>0 DEF DiskInv, progress, Undecided, RecoverySteps
  <2>2. HistoryInv' BY <1>0, <1>1, <1>3, <1>6, <2>0 DEF HistoryInv, DiskInv, progress
  <2>3. disk' \subseteq Names /\ ProgressType' BY <1>2, <1>6 DEF ProgressType, progress
  <2> QED BY <1>0, <1>1, <1>2, <1>6, <2>0, <2>1, <2>2, <2>3, PersistingKeeps
<1>7. CASE /\ spc = "commit" /\ spc' = "undraft"
           /\ disk' = disk \cup {"finished"} /\ UNCHANGED <<progress, body, broken>>
  <2>1. DiskInv'
    BY <1>0, <1>1, <1>3, <1>7 DEF DiskInv, progress, Undecided, RecoverySteps
  <2>2. HistoryInv' BY <1>0, <1>1, <1>3, <1>7 DEF HistoryInv, progress
  <2>3. disk' \subseteq Names /\ ProgressType' BY <1>2, <1>7 DEF ProgressType, progress, Names
  <2> QED BY <1>0, <1>1, <1>2, <1>7, <2>1, <2>2, <2>3, PersistingKeeps
<1>8. CASE /\ spc = "undraft" /\ spc' = "evict"
           /\ disk' = disk \ {"draft"} /\ DirectorySynced /\ UNCHANGED <<body, broken>>
  <2>1. DiskInv'
    BY <1>0, <1>1, <1>3, <1>8 DEF DiskInv, DirectorySynced, Undecided, RecoverySteps
  <2>2. HistoryInv' BY <1>0, <1>1, <1>3, <1>8 DEF HistoryInv, DirectorySynced
  <2>3. disk' \subseteq Names /\ ProgressType' BY <1>2, <1>8, SyncedType
  <2> QED BY <1>0, <1>1, <1>2, <1>8, <2>1, <2>2, <2>3, PersistingKeeps
<1>9. CASE /\ spc \in {"draft", "commit", "undraft"} /\ spc' = "abandon" /\ IoFails /\ Breaks(TRUE)
           /\ UNCHANGED <<progress, disk, body>>
  <2>0. broken' = TRUE BY <1>9 DEF Breaks
  <2>1. DiskInv'
    BY <1>0, <1>1, <1>3, <1>9, <2>0 DEF DiskInv, progress, Undecided, RecoverySteps
  <2>2. HistoryInv' BY <1>0, <1>1, <1>3, <1>9, <2>0 DEF HistoryInv, DiskInv, progress
  <2>3. disk' \subseteq Names /\ ProgressType' BY <1>2, <1>9 DEF ProgressType, progress
  <2> QED BY <1>0, <1>1, <1>2, <1>9, <2>0, <2>1, <2>2, <2>3, PersistingKeeps
<1> QED BY <1>4, <1>5, <1>6, <1>7, <1>8, <1>9 DEF SupervisorPersists

LEMMA SupervisorEvictsKeeps ==
    ASSUME RegistryInv, SupervisorEvicts, Witnessed, UNCHANGED <<faults, ops>>
    PROVE  RegistryInv'
<1>0. /\ spc \in {"evict", "abandon"} /\ Free("admission") /\ Free("inner")
      /\ running' = 0 /\ mem' = (spc = "abandon") /\ token' = FALSE /\ spc' = "none"
      /\ Supervises /\ UNCHANGED <<lock, gen, decided, files, body, broken, durable>>
  BY DEF SupervisorEvicts
<1>1. /\ running # 0 /\ "accepted" \in disk /\ "intent" \notin disk /\ ~mem /\ body.gen = gen
      /\ file # <<>> /\ synced # <<>> /\ events # <<>> /\ Begins(durable, events)
      /\ Begins(durable, file) /\ Begins(durable, synced) /\ (~unread => events = file)
  BY <1>0, PersistingFacts DEF Persisting
<1>2. decided BY <1>0, <1>1 DEF RegistryInv, EntryInv, Undecided
<1>3. hpc \notin {"decision", "launch", "intent", "publish", "fence"}
  BY <1>0, RegistryAssumption DEF RegistryInv, FenceInv, Locks, ShutHolds, Free, Nobody
<1>4. FenceInv' /\ lock' \in [Locks -> Owners]
  BY <1>0, FenceSame DEF Supervises, KeepCalls, callState, KeepShut, shutState
<1>5. RegistryType'
  <2>1. spc' \in SupervisorSteps /\ {mem', token'} \subseteq BOOLEAN BY <1>0 DEF SupervisorSteps
  <2> QED
    BY <1>0, <1>4, <2>1, SystemKeepsType
    DEF RegistryInv, RegistryType, Supervises, KeepCalls, callState, KeepShut, shutState, files,
        progress, ProgressType
<1>6. EntryInv'
  BY <1>0, <1>1, <1>2, <1>3
  DEF RegistryInv, EntryInv, Supervises, KeepShut, shutState, files, RecoverySteps, Up
<1>7. DiskInv'
  BY <1>0, <1>1 DEF RegistryInv, DiskInv, files, progress, Undecided, RecoverySteps
<1>8. HistoryInv' BY <1>0, <1>1 DEF RegistryInv, HistoryInv, files, progress
<1>9. AckInv' BY <1>0, <1>1 DEF RegistryInv, AckInv, Supervises, files
<1>10. ShutInv'
  <2>1. Active' <=> Active BY <1>0 DEF Active, Supervises, KeepCalls, callState
  <2> QED
    BY <1>0, <1>1, <1>2, <2>1 DEF RegistryInv, ShutInv, Supervises, KeepShut, shutState, files
<1>11. ASSUME NEW d \in Clients PROVE CallInv(d)'
  <2>1. Up' BY <1>0 DEF Up, RecoverySteps
  <2>2. ~In(d, Deciding) BY <1>2, CallFacts DEF CallInv
  <2> QED BY <1>0, <1>1, <1>2, <2>1, <2>2, SupervisorLeaves DEF Supervises, KeepCalls, callState
<1> QED BY <1>4, <1>5, <1>6, <1>7, <1>8, <1>9, <1>10, <1>11 DEF RegistryInv

-----------------------------------------------------------------------------
(* The shutdown.                                                           *)

\* Once the calls under way have been waited for, no call has an obligation.
LEMMA DrainedCalls ==
    ASSUME RegistryInv, ~Active, UNCHANGED <<call, gen>>, Up', NEW d \in Clients
    PROVE  CallInv(d)'
<1>1. /\ CallInv(d) /\ gen \in Nat /\ call[d].op \in AllOps \cup {"none"}
      /\ call[d].pc \in StepsOf[call[d].op] \cup {"done"}
  BY CallFacts
<1>2. call[d].op \in Mutations => call[d].pc \in {"idle", "done", "start"} BY DEF Active
<1>3. /\ ~At(d, "c_decide") /\ ~In(d, Deciding) /\ ~Fenced(d)
      /\ ~In(d, {"s_valid", "s_accept", "s_register", "d_intent", "d_tree", "d_files", "d_end", "d_mem"})
  BY <1>1, <1>2, StepsOfIs
  DEF AllOps, Mutations, At, In, Fenced, Deciding, Reading, Deleting
<1> QED BY <1>1, <1>3 DEF CallInv, At, In, Serving, Deciding, Fenced, Reading

\* The locks the shutdown takes and drops.
LEMMA ShutFence ==
    ASSUME RegistryInv, UNCHANGED <<call, spc>>, NEW ls \in SUBSET Locks, NEW ms \in SUBSET Locks,
           lock' = [l \in Locks |-> IF l \in ls THEN "shutdown" ELSE IF l \in ms THEN Nobody ELSE lock[l]],
           \A l \in ls : Free(l), \A l \in ms : lock[l] = "shutdown",
           \A l \in Locks : ShutHolds(l)' <=> ((ShutHolds(l) \/ l \in ls) /\ l \notin ms \ ls)
    PROVE  FenceInv' /\ lock' \in [Locks -> Owners] /\ (lock'["admission"] \in Clients => lock["admission"] \in Clients)
<1>1. lock \in [Locks -> Owners] /\ FenceInv BY DEF RegistryInv, RegistryType, Owners
<1>2. "shutdown" \notin Clients \cup {"supervisor", Nobody} /\ Nobody \notin Clients \cup {"supervisor"}
  BY RegistryAssumption DEF Nobody
<1>3. lock' \in [Locks -> Owners] BY <1>1 DEF Owners
<1>4. \A c \in Clients, l \in Locks : Holds(c, l)' <=> Holds(c, l)
  BY DEF Holds, Fenced, In, At
<1>5. ASSUME NEW l \in Locks
      PROVE  /\ \A c \in Clients : lock'[l] = c <=> lock[l] = c
             /\ lock'[l] = "shutdown" <=> ((lock[l] = "shutdown" \/ l \in ls) /\ l \notin ms \ ls)
             /\ lock'[l] = "supervisor" <=> lock[l] = "supervisor"
  BY <1>1, <1>2 DEF Free
<1>6. FenceInv' BY <1>1, <1>4, <1>5 DEF FenceInv
<1>7. "admission" \in Locks BY DEF Locks
<1> QED BY <1>3, <1>5, <1>6, <1>7

\* A step of the shutdown that moves no lock.
LEMMA ShutFenceStays ==
    ASSUME RegistryInv, UNCHANGED <<call, spc, lock>>,
           \A l \in Locks : ShutHolds(l)' <=> ShutHolds(l)
    PROVE  FenceInv' /\ lock' \in [Locks -> Owners]
<1>1. FenceInv /\ lock \in [Locks -> Owners] BY DEF RegistryInv, RegistryType, Owners
<1>2. \A c \in Clients, l \in Locks : Holds(c, l)' <=> Holds(c, l)
  BY DEF Holds, Fenced, In, At
<1>3. FenceInv' BY <1>1, <1>2 DEF FenceInv
<1> QED BY <1>1, <1>3

ShutPoints == {"none", "closed", "decision", "launch", "intent", "publish", "fence", "wait", "done"}

\* A step of the shutdown that changes no file and no history.
LEMMA ShutQuietKeeps ==
    ASSUME RegistryInv, Shuts, UNCHANGED <<files, broken, durable, faults, ops>>, Witnessed,
           FenceInv', lock' \in [Locks -> Owners],
           lock'["admission"] \in Clients => lock["admission"] \in Clients,
           hpc' \in ShutPoints, {token', open', stopping', herr'} \subseteq BOOLEAN,
           token => token', Up, ShutInv',
           hpc' \in {"decision", "launch", "intent", "publish"} => running # 0,
           hpc' \in {"launch", "intent", "publish"} => ~decided
    PROVE  RegistryInv'
<1>1. RegistryType'
  BY SystemKeepsType
  DEF RegistryInv, RegistryType, Shuts, KeepCalls, callState, files, progress, ProgressType, ShutPoints
<1>2. EntryInv' BY DEF RegistryInv, EntryInv, Shuts, files, Up
<1>3. DiskInv'
  BY DEF RegistryInv, DiskInv, Shuts, KeepCalls, callState, files, progress, At
<1>4. HistoryInv' BY DEF RegistryInv, HistoryInv, Shuts, files, progress
<1>5. AckInv' BY DEF RegistryInv, AckInv, Shuts, files
<1>6. ASSUME NEW d \in Clients PROVE CallInv(d)'
  BY CallFacts
  DEF CallInv, Shuts, KeepCalls, callState, files, progress, At, In, Fenced, Serving, Up, Records
<1> QED BY <1>1, <1>2, <1>3, <1>4, <1>5, <1>6 DEF RegistryInv

LEMMA ShutdownBeginsKeeps ==
    ASSUME RegistryInv, ShutdownBegins, Witnessed, UNCHANGED <<faults, ops>>
    PROVE  RegistryInv'
<1>0. /\ Up /\ hpc = "none" /\ hpc' = "closed" /\ open' = FALSE /\ Shuts
      /\ UNCHANGED <<lock, token, files, stopping, herr, broken, durable>>
  BY DEF ShutdownBegins, ShutTo
<1>1. FenceInv' /\ lock' \in [Locks -> Owners]
  <2>1. \A l \in Locks : ShutHolds(l)' <=> ShutHolds(l) BY <1>0 DEF ShutHolds
  <2>2. UNCHANGED <<call, spc, lock>> BY <1>0 DEF Shuts, KeepCalls, callState
  <2> QED BY <2>1, <2>2, ShutFenceStays
<1>2. ShutInv'
  <2>1. ~stopping /\ ~herr BY <1>0 DEF RegistryInv, ShutInv
  <2> QED BY <1>0, <2>1 DEF RegistryInv, ShutInv, Shuts, files
<1>3. {token', open', stopping', herr'} \subseteq BOOLEAN /\ hpc' \in ShutPoints
  BY <1>0 DEF RegistryInv, RegistryType, ShutPoints
<1> QED BY <1>0, <1>1, <1>2, <1>3, ShutQuietKeeps

LEMMA ShutdownDrainedKeeps ==
    ASSUME RegistryInv, ShutdownDrained, Witnessed, UNCHANGED <<faults, ops>>
    PROVE  RegistryInv'
<1>0. /\ hpc = "closed" /\ ~Active /\ Free("admission")
      /\ Taken("shutdown", {"admission"}) /\ hpc' = (IF running = 0 THEN "fence" ELSE "decision")
      /\ Shuts /\ UNCHANGED <<token, files, open, stopping, herr, broken, durable>>
  BY DEF ShutdownDrained, ShutTo
<1>1. FenceInv' /\ lock' \in [Locks -> Owners]
      /\ (lock'["admission"] \in Clients => lock["admission"] \in Clients)
  <2>1. \A l \in Locks : ShutHolds(l)' <=> ((ShutHolds(l) \/ l \in {"admission"}) /\ l \notin {} \ {"admission"})
    BY <1>0 DEF ShutHolds
  <2>2. lock' = [l \in Locks |-> IF l \in {"admission"} THEN "shutdown" ELSE IF l \in {} THEN Nobody ELSE lock[l]]
    BY <1>0 DEF Taken
  <2>3. {"admission"} \in SUBSET Locks BY DEF Locks
  <2> QED BY <1>0, <2>1, <2>2, <2>3, ShutFence DEF Shuts, KeepCalls, callState
<1>2. ShutInv'
  <2>1. ~stopping /\ ~herr /\ ~open BY <1>0 DEF RegistryInv, ShutInv
  <2>2. ~Active' BY <1>0 DEF Active, Shuts, KeepCalls, callState
  <2> QED BY <1>0, <2>1, <2>2 DEF RegistryInv, ShutInv, Shuts, files
<1>3. {token', open', stopping', herr'} \subseteq BOOLEAN /\ hpc' \in ShutPoints /\ Up
  BY <1>0 DEF RegistryInv, RegistryType, ShutPoints, EntryInv
<1> QED BY <1>0, <1>1, <1>2, <1>3, ShutQuietKeeps

LEMMA ShutdownDecidesKeeps ==
    ASSUME RegistryInv, ShutdownDecides, Witnessed, UNCHANGED <<faults, ops>>
    PROVE  RegistryInv'
<1>0. Shuts /\ UNCHANGED <<token, files, open, stopping, herr, broken, durable>>
  BY DEF ShutdownDecides
<1>1. /\ hpc \in {"decision", "launch"} /\ hpc' \in {"fence", "launch", "intent"}
      /\ (hpc' = "fence" <=> decided) /\ running # 0
  BY DEF ShutdownDecides, ShutTo, RegistryInv, EntryInv
<1>2. FenceInv' /\ lock' \in [Locks -> Owners]
      /\ (lock'["admission"] \in Clients => lock["admission"] \in Clients)
  <2>0. UNCHANGED <<call, spc>> BY <1>0 DEF Shuts, KeepCalls, callState
  <2>1. CASE hpc = "decision" /\ hpc' = "fence" /\ UNCHANGED lock
    <3>1. \A l \in Locks : ShutHolds(l)' <=> ShutHolds(l) BY <2>1 DEF ShutHolds
    <3> QED BY <2>0, <2>1, <3>1, ShutFenceStays
  <2>2. CASE hpc = "decision" /\ Free("decision") /\ Taken("shutdown", {"decision"}) /\ hpc' = "launch"
    <3>1. \A l \in Locks : ShutHolds(l)' <=> ((ShutHolds(l) \/ l \in {"decision"}) /\ l \notin {} \ {"decision"})
      BY <2>2 DEF ShutHolds
    <3>2. lock' = [l \in Locks |-> IF l \in {"decision"} THEN "shutdown" ELSE IF l \in {} THEN Nobody ELSE lock[l]]
      BY <2>2 DEF Taken
    <3>3. {"decision"} \in SUBSET Locks BY DEF Locks
    <3> QED BY <2>0, <2>2, <3>1, <3>2, <3>3, ShutFence
  <2>3. CASE hpc = "launch" /\ Free("launch") /\ Taken("shutdown", {"launch"}) /\ hpc' = "intent"
    <3>1. \A l \in Locks : ShutHolds(l)' <=> ((ShutHolds(l) \/ l \in {"launch"}) /\ l \notin {} \ {"launch"})
      BY <2>3 DEF ShutHolds
    <3>2. lock' = [l \in Locks |-> IF l \in {"launch"} THEN "shutdown" ELSE IF l \in {} THEN Nobody ELSE lock[l]]
      BY <2>3 DEF Taken
    <3>3. {"launch"} \in SUBSET Locks BY DEF Locks
    <3> QED BY <2>0, <2>3, <3>1, <3>2, <3>3, ShutFence
  <2> QED BY <2>1, <2>2, <2>3 DEF ShutdownDecides, ShutTo
<1>3. ShutInv'
  <2>1. ~stopping /\ ~herr /\ ~open /\ ~Active BY <1>1 DEF RegistryInv, ShutInv
  <2>2. ~Active' BY <1>0, <2>1 DEF Active, Shuts, KeepCalls, callState
  <2> QED BY <1>0, <1>1, <2>1, <2>2 DEF RegistryInv, ShutInv, Shuts, files
<1>4. {token', open', stopping', herr'} \subseteq BOOLEAN /\ hpc' \in ShutPoints /\ Up
  BY <1>0, <1>1 DEF RegistryInv, RegistryType, ShutPoints, EntryInv
<1> QED BY <1>0, <1>1, <1>2, <1>3, <1>4, ShutQuietKeeps

LEMMA ShutdownFenceKeeps ==
    ASSUME RegistryInv, ShutdownFence, Witnessed, UNCHANGED <<faults, ops>>
    PROVE  RegistryInv'
<1>0. /\ hpc = "fence" /\ hpc' = "wait" /\ stopping' = TRUE /\ token' = (token \/ running # 0)
      /\ Dropped("shutdown") /\ Shuts /\ UNCHANGED <<files, open, herr, broken, durable>>
  BY DEF ShutdownFence, ShutTo
<1>1. FenceInv' /\ lock' \in [Locks -> Owners]
      /\ (lock'["admission"] \in Clients => lock["admission"] \in Clients)
  <2> DEFINE ms == {l \in Locks : lock[l] = "shutdown"}
  <2>1. \A l \in Locks : ShutHolds(l)' <=> ((ShutHolds(l) \/ l \in {}) /\ l \notin ms \ {})
    BY <1>0 DEF ShutHolds, RegistryInv, FenceInv
  <2>2. lock' = [l \in Locks |-> IF l \in {} THEN "shutdown" ELSE IF l \in ms THEN Nobody ELSE lock[l]]
    BY <1>0 DEF Dropped
  <2> QED BY <1>0, <2>1, <2>2, ShutFence DEF Shuts, KeepCalls, callState
<1>2. ShutInv'
  <2>1. ~open /\ ~Active BY <1>0 DEF RegistryInv, ShutInv
  <2>2. ~Active' BY <1>0, <2>1 DEF Active, Shuts, KeepCalls, callState
  <2> QED BY <1>0, <2>1, <2>2 DEF RegistryInv, ShutInv, Shuts, files
<1>3. {open', stopping', herr'} \subseteq BOOLEAN /\ hpc' \in ShutPoints /\ Up
  BY <1>0 DEF RegistryInv, RegistryType, ShutPoints, EntryInv
<1>4. token' \in BOOLEAN /\ (token => token') BY <1>0
<1> QED BY <1>0, <1>1, <1>2, <1>3, <1>4, ShutQuietKeeps

LEMMA ShutdownDoneKeeps ==
    ASSUME RegistryInv, ShutdownDone, Witnessed, UNCHANGED <<faults, ops>>
    PROVE  RegistryInv'
<1>0. /\ hpc = "wait" /\ spc = "none" /\ hpc' = "done"
      /\ Shuts /\ UNCHANGED <<lock, token, files, open, stopping, herr, broken, durable>>
  BY DEF ShutdownDone, ShutTo
<1>1. FenceInv' /\ lock' \in [Locks -> Owners]
  <2>1. \A l \in Locks : ShutHolds(l)' <=> ShutHolds(l) BY <1>0 DEF ShutHolds
  <2>2. UNCHANGED <<call, spc, lock>> BY <1>0 DEF Shuts, KeepCalls, callState
  <2> QED BY <2>1, <2>2, ShutFenceStays
<1>2. ShutInv'
  <2>1. ~open /\ ~Active BY <1>0 DEF RegistryInv, ShutInv
  <2>2. ~Active' BY <1>0, <2>1 DEF Active, Shuts, KeepCalls, callState
  <2> QED BY <1>0, <2>1, <2>2 DEF RegistryInv, ShutInv, Shuts, files
<1>3. {token', open', stopping', herr'} \subseteq BOOLEAN /\ hpc' \in ShutPoints /\ Up
  BY <1>0 DEF RegistryInv, RegistryType, ShutPoints, EntryInv
<1> QED BY <1>0, <1>1, <1>2, <1>3, ShutQuietKeeps

\* For an open outcome the shutdown holds both decisions while it records it.
LEMMA ShutdownOpen ==
    ASSUME RegistryInv, hpc \in {"intent", "publish"}
    PROVE  /\ running # 0 /\ ~decided /\ spc \in Undecided /\ Up /\ ~Active
           /\ "accepted" \in disk /\ "intent" \notin disk /\ ~open /\ ~stopping
           /\ events # <<>> /\ Begins(durable, events)
<1>1. running # 0 /\ ~decided /\ Up BY DEF RegistryInv, EntryInv
<1>2. spc \in Undecided /\ "accepted" \in disk /\ "intent" \notin disk
  BY <1>1 DEF RegistryInv, EntryInv
<1>3. events # <<>> /\ Begins(durable, events) BY <1>2 DEF RegistryInv, HistoryInv, Undecided
<1>4. ~Active /\ ~open /\ ~stopping BY DEF RegistryInv, ShutInv
<1> QED BY <1>1, <1>2, <1>3, <1>4

\* Dropping both decisions.
LEMMA DecisionsDropped ==
    ASSUME RegistryInv, hpc \in {"intent", "publish"}, hpc' = "fence", UNCHANGED <<call, spc>>,
           lock' = [lock EXCEPT !["decision"] = Nobody, !["launch"] = Nobody]
    PROVE  FenceInv' /\ lock' \in [Locks -> Owners]
           /\ (lock'["admission"] \in Clients => lock["admission"] \in Clients)
<1> DEFINE ms == {"decision", "launch"}
<1>1. ms \in SUBSET Locks /\ \A l \in ms : lock[l] = "shutdown"
  BY DEF Locks, RegistryInv, FenceInv, ShutHolds
<1>2. \A l \in Locks : ShutHolds(l)' <=> ((ShutHolds(l) \/ l \in {}) /\ l \notin ms \ {})
  BY DEF ShutHolds
<1>3. lock' = [l \in Locks |-> IF l \in {} THEN "shutdown" ELSE IF l \in ms THEN Nobody ELSE lock[l]]
  <2>1. lock \in [Locks -> Owners] BY DEF RegistryInv, RegistryType, Owners
  <2> QED BY <2>1 DEF Locks
<1> QED BY <1>1, <1>2, <1>3, ShutFence

LEMMA ShutdownIntentKeeps ==
    ASSUME RegistryInv, ShutdownIntent, Witnessed, UNCHANGED <<faults, ops>>
    PROVE  RegistryInv'
<1>0. hpc = "intent" /\ Shuts /\ UNCHANGED <<progress, open, stopping, durable>>
  BY DEF ShutdownIntent
<1>1. /\ running # 0 /\ ~decided /\ spc \in Undecided /\ Up /\ ~Active
      /\ "accepted" \in disk /\ "intent" \notin disk /\ ~open /\ ~stopping /\ ~herr
  BY <1>0, ShutdownOpen DEF RegistryInv, ShutInv
<1>2. UNCHANGED <<call, calls, spc, gen, running, mem, decided, body, acked>>
  BY <1>0 DEF Shuts, KeepCalls, callState
<1>3. broken \in BOOLEAN /\ herr \in BOOLEAN BY DEF RegistryInv, RegistryType
<1>4. CASE /\ disk' = disk \cup {"cancel"} /\ token' = TRUE /\ hpc' = "publish"
           /\ herr' \in {herr, IoFails} /\ Breaks(herr') /\ UNCHANGED lock
  <2>0. herr' \in BOOLEAN /\ broken' \in BOOLEAN /\ (broken => broken')
    <3>1. IoFails \in BOOLEAN BY DEF IoFails
    <3>2. herr' \in BOOLEAN BY <1>3, <1>4, <3>1
    <3>3. broken' = (broken \/ herr') BY <1>4 DEF Breaks
    <3> QED BY <1>3, <3>2, <3>3
  <2>1. FenceInv' /\ lock' \in [Locks -> Owners]
    <3>1. \A l \in Locks : ShutHolds(l)' <=> ShutHolds(l) BY <1>0, <1>4 DEF ShutHolds
    <3>2. UNCHANGED <<call, spc, lock>> BY <1>2, <1>4
    <3> QED BY <3>1, <3>2, ShutFenceStays
  <2>2. disk' \subseteq Names BY <1>4 DEF RegistryInv, RegistryType, Names
  <2>3. RegistryType'
    BY <1>0, <1>2, <1>4, <2>0, <2>1, <2>2, SystemKeepsType
    DEF RegistryInv, RegistryType, progress, ProgressType
  <2>4. EntryInv' BY <1>1, <1>2, <1>4 DEF RegistryInv, EntryInv, Up
  <2>5. DiskInv'
    BY <1>0, <1>1, <1>2, <1>4, <2>0 DEF RegistryInv, DiskInv, progress, At
  <2>6. HistoryInv'
    BY <1>0, <1>1, <1>2, <1>4, <2>0 DEF RegistryInv, HistoryInv, progress
  <2>7. AckInv' BY <1>1, <1>2, <1>4 DEF RegistryInv, AckInv
  <2>8. ShutInv'
    <3>1. ~Active' BY <1>1, <1>2 DEF Active
    <3> QED BY <1>0, <1>1, <1>2, <1>4, <3>1 DEF RegistryInv, ShutInv
  <2>9. ASSUME NEW d \in Clients PROVE CallInv(d)'
    BY <1>1, <1>2, DrainedCalls DEF Up
  <2> QED BY <2>1, <2>3, <2>4, <2>5, <2>6, <2>7, <2>8, <2>9 DEF RegistryInv
<1>5. CASE /\ IoFails /\ Breaks(TRUE) /\ herr' = TRUE /\ hpc' = "fence"
           /\ lock' = [lock EXCEPT !["decision"] = Nobody, !["launch"] = Nobody]
           /\ UNCHANGED <<disk, token>>
  <2>0. broken' = TRUE BY <1>5 DEF Breaks
  <2>1. FenceInv' /\ lock' \in [Locks -> Owners]
        /\ (lock'["admission"] \in Clients => lock["admission"] \in Clients)
    BY <1>0, <1>2, <1>5, DecisionsDropped
  <2>3. RegistryType'
    BY <1>0, <1>2, <1>5, <2>0, <2>1, SystemKeepsType
    DEF RegistryInv, RegistryType, progress, ProgressType
  <2>4. EntryInv' BY <1>1, <1>2, <1>5, <2>1 DEF RegistryInv, EntryInv, Up
  <2>5. DiskInv'
    BY <1>0, <1>1, <1>2, <1>5, <2>0 DEF RegistryInv, DiskInv, progress, At
  <2>6. HistoryInv'
    BY <1>0, <1>1, <1>2, <1>5, <2>0 DEF RegistryInv, HistoryInv, progress
  <2>7. AckInv' BY <1>1, <1>2, <1>5 DEF RegistryInv, AckInv
  <2>8. ShutInv'
    <3>1. ~Active' BY <1>1, <1>2 DEF Active
    <3> QED BY <1>0, <1>1, <1>2, <1>5, <3>1 DEF RegistryInv, ShutInv
  <2>9. ASSUME NEW d \in Clients PROVE CallInv(d)'
    BY <1>1, <1>2, DrainedCalls DEF Up
  <2> QED BY <2>1, <2>3, <2>4, <2>5, <2>6, <2>7, <2>8, <2>9 DEF RegistryInv
<1> QED BY <1>4, <1>5 DEF ShutdownIntent, ShutTo

LEMMA ShutdownPublishesKeeps ==
    ASSUME RegistryInv, ShutdownPublishes, Witnessed, UNCHANGED <<faults, ops>>
    PROVE  RegistryInv'
<1>0. /\ hpc = "publish" /\ hpc' = "fence" /\ Shuts /\ UNCHANGED <<token, disk, open, stopping>>
      /\ lock' = [lock EXCEPT !["decision"] = Nobody, !["launch"] = Nobody]
  BY DEF ShutdownPublishes, ShutTo
<1>1. /\ running # 0 /\ ~decided /\ spc \in Undecided /\ Up /\ ~Active
      /\ "accepted" \in disk /\ "intent" \notin disk /\ ~open /\ ~stopping
      /\ events # <<>> /\ Begins(durable, events) /\ "cancel" \in disk
  BY <1>0, ShutdownOpen DEF RegistryInv, ShutInv
<1>2. UNCHANGED <<call, calls, spc, gen, running, mem, decided, body, acked>>
  BY <1>0 DEF Shuts, KeepCalls, callState
<1>3. PICK ok \in BOOLEAN :
          /\ IF AlreadyCancelling THEN ok /\ UNCHANGED <<progress, durable>>
             ELSE Publish("Cancelling", Latest.count, IoFails, ok) /\ Acknowledged(ok)
          /\ herr' = (herr \/ ~ok) /\ Breaks(~ok /\ IoFails)
  BY DEF ShutdownPublishes
<1>4. HistoryMoved(~ok /\ IoFails)
  <2>1. Latest.count \in 0..MaxCount /\ ProgressType /\ durable \in Histories
    BY <1>1, LatestType DEF RegistryInv, RegistryType
  <2>2. IoFails \in BOOLEAN BY DEF IoFails
  <2> QED BY <1>1, <1>3, <2>1, <2>2, CancellingMoves
<1>5. DiskInv' /\ HistoryInv' /\ broken' \in BOOLEAN
  <2>1. (~ok /\ IoFails) \in BOOLEAN OBVIOUS
  <2> QED BY <1>0, <1>1, <1>2, <1>3, <1>4, <2>1, PublicationKeeps DEF Breaks, At
<1>6. FenceInv' /\ lock' \in [Locks -> Owners]
      /\ (lock'["admission"] \in Clients => lock["admission"] \in Clients)
  BY <1>0, <1>2, DecisionsDropped
<1>7. herr' \in BOOLEAN BY <1>3
<1>8. RegistryType'
  BY <1>0, <1>2, <1>4, <1>5, <1>6, <1>7, SystemKeepsType
  DEF RegistryInv, RegistryType, HistoryMoved
<1>9. EntryInv' BY <1>0, <1>1, <1>2, <1>6 DEF RegistryInv, EntryInv, Up
<1>10. AckInv' BY <1>0, <1>2 DEF RegistryInv, AckInv
<1>11. ShutInv'
  <2>1. ~Active' BY <1>1, <1>2 DEF Active
  <2> QED BY <1>0, <1>1, <1>2, <2>1 DEF RegistryInv, ShutInv
<1>12. ASSUME NEW d \in Clients PROVE CallInv(d)'
  BY <1>1, <1>2, DrainedCalls DEF Up
<1> QED BY <1>5, <1>6, <1>8, <1>9, <1>10, <1>11, <1>12 DEF RegistryInv

-----------------------------------------------------------------------------
(* Power loss and recovery.                                                *)

\* A call that is not being served has no obligation.
LEMMA RestingCall ==
    ASSUME NEW d \in Clients, ~Serving(d)', gen' \in Nat, call'[d].gen <= gen'
    PROVE  CallInv(d)'
BY DEF CallInv, Serving, At, In, Fenced, Reading, Deciding

LEMMA PowerLossKeeps ==
    ASSUME RegistryInv, PowerLoss, Witnessed, UNCHANGED ops
    PROVE  RegistryInv'
<1>0. /\ Lost /\ lock' = [l \in Locks |-> Nobody]
      /\ running' = 0 /\ mem' = FALSE /\ decided' = FALSE /\ token' = FALSE /\ spc' = "down"
      /\ open' = TRUE /\ stopping' = FALSE /\ hpc' = "none" /\ herr' = FALSE
      /\ faults' \subseteq faults /\ UNCHANGED <<gen, calls, disk, body, broken, acked, durable>>
  BY DEF PowerLoss
<1>1. /\ CallType'
      /\ \A d \in Clients : /\ call'[d].pc \in {"idle", "done"} /\ call'[d].gen <= gen
                            /\ call'[d].pc \in StepsOf[call'[d].op] \cup {"done"}
  <2>1. CallType /\ gen \in Nat BY DEF RegistryInv, RegistryType, CallType
  <2>2. call' = [c \in Clients |-> IF call[c].pc \in {"idle", "done"} THEN call[c]
                                   ELSE [Idle EXCEPT !.op = call[c].op, !.pc = "done", !.ans = "lost"]]
    BY DEF PowerLoss
  <2>3. ASSUME NEW d \in Clients, call[d].pc \in {"idle", "done"}
        PROVE  /\ call'[d] \in CallRecords /\ call'[d].gen <= gen
               /\ call'[d].pc \in {"idle", "done"}
               /\ call'[d].pc \in StepsOf[call'[d].op] \cup {"done"}
    <3>1. call'[d] = call[d] BY <2>2, <2>3
    <3> QED BY <2>1, <2>3, <3>1, CallFacts DEF CallType, CallInv
  <2>4. ASSUME NEW d \in Clients, call[d].pc \notin {"idle", "done"}
        PROVE  /\ call'[d] \in CallRecords /\ call'[d].gen <= gen
               /\ call'[d].pc = "done"
    <3> DEFINE r == [Idle EXCEPT !.op = call[d].op, !.pc = "done", !.ans = "lost"]
    <3>1. call'[d] = r BY <2>2, <2>4
    <3>2. call[d].op \in AllOps \cup {"none"} BY CallFacts
    <3>3. r \in CallRecords BY <3>2, IdleType DEF CallRecords, CallSteps, Answers
    <3>4. r.gen = 0 /\ r.pc = "done" BY DEF Idle
    <3> HIDE DEF r
    <3> QED BY <2>1, <3>1, <3>3, <3>4
  <2>5. call' = [c \in Clients |-> call'[c]] BY <2>2
  <2> QED BY <2>3, <2>4, <2>5 DEF CallType
<1>2. lock' \in [Locks -> Owners] BY <1>0 DEF Owners
<1>3. FenceInv'
  <2>1. \A d \in Clients, l \in Locks : ~Holds(d, l)'
    BY <1>1 DEF Holds, Fenced, In, At, Reading, Deciding, Deleting
  <2>2. \A l \in Locks : ~ShutHolds(l)' BY <1>0 DEF ShutHolds
  <2>3. Nobody \notin Clients \cup {"supervisor", "shutdown"} BY RegistryAssumption DEF Nobody
  <2> QED BY <1>0, <1>1, <2>1, <2>2, <2>3 DEF FenceInv
<1>4. RegistryType'
  <2>1. ProgressType' BY <1>0, LostType DEF RegistryInv, RegistryType
  <2>2. spc' \in RecoverySteps BY <1>0 DEF RecoverySteps
  <2>3. seen' \in [Clients -> SUBSET (ResourceStates \cup {"ending"})]
    BY <1>0, WitnessedType DEF RegistryInv, RegistryType
  <2> QED BY <1>0, <1>1, <1>2, <2>1, <2>2, <2>3 DEF RegistryInv, RegistryType, CallType, Owners
<1>5. EntryInv'
  <2>1. lock'["admission"] \notin Clients BY <1>0, RegistryAssumption DEF Nobody, Locks
  <2> QED BY <1>0, <2>1 DEF RegistryInv, EntryInv, RecoverySteps
<1>6. DiskInv' BY <1>0 DEF RegistryInv, DiskInv, Lost, Undecided, RecoverySteps
<1>7. HistoryInv' BY <1>0 DEF RegistryInv, HistoryInv, Lost
<1>8. AckInv' BY <1>0 DEF RegistryInv, AckInv
<1>9. ShutInv' BY <1>0 DEF RegistryInv, ShutInv
<1>10. ASSUME NEW d \in Clients PROVE CallInv(d)'
  BY <1>0, <1>1, RestingCall, CallFacts DEF Serving
<1> QED BY <1>3, <1>4, <1>5, <1>6, <1>7, <1>8, <1>9, <1>10 DEF RegistryInv

\* A step of the recovery: there is no entry, no call and no shutdown.
LEMMA RecoveryKeeps ==
    ASSUME RegistryInv, spc \in RecoverySteps, spc' \in RecoverySteps \cup {"none"}, Recovers,
           UNCHANGED <<faults, ops>>, Witnessed,
           disk' \subseteq Names, ProgressType', durable' \in Histories, broken' \in BOOLEAN,
           body' \in Bodies, body'.gen <= gen, DiskInv', HistoryInv', AckInv'
    PROVE  RegistryInv'
<1>0. ~Up /\ hpc = "none" /\ ~mem /\ ~decided /\ running = 0
  BY DEF RegistryInv, EntryInv, Up
<1>1. UNCHANGED <<call, calls, lock, running, mem, gen, decided, token, acked, open, stopping, hpc, herr>>
  BY DEF Recovers, KeepCalls, callState, KeepShut, shutState, manager
<1>2. FenceInv' /\ lock' \in [Locks -> Owners] BY <1>1, FenceSame DEF RecoverySteps
<1>3. RegistryType'
  <2>1. spc' \in SupervisorSteps \cup RecoverySteps BY DEF SupervisorSteps
  <2> QED BY <1>1, <1>2, <2>1, SystemKeepsType DEF RegistryInv, RegistryType
<1>4. EntryInv' BY <1>0, <1>1 DEF RegistryInv, EntryInv
<1>5. ShutInv'
  <2>1. Active' <=> Active BY <1>1 DEF Active
  <2> QED BY <1>0, <1>1, <2>1 DEF RegistryInv, ShutInv
<1>6. ASSUME NEW d \in Clients PROVE CallInv(d)'
  <2>1. ~Serving(d) /\ call[d].gen <= gen /\ gen \in Nat BY <1>0, CallFacts DEF CallInv
  <2> QED BY <1>1, <2>1, RestingCall DEF Serving
<1> QED BY <1>2, <1>3, <1>4, <1>5, <1>6 DEF RegistryInv

LEMMA RestartKeeps ==
    ASSUME RegistryInv, Restart, Witnessed, UNCHANGED <<faults, ops>>
    PROVE  RegistryInv'
<1>0. spc = "down" /\ spc \in RecoverySteps /\ Recovers /\ UNCHANGED <<body, broken>>
  BY DEF Restart, RecoverySteps
<1>1. /\ disk \subseteq Names /\ ProgressType /\ durable \in Histories /\ broken \in BOOLEAN
      /\ body \in Bodies /\ body.gen <= gen /\ DiskInv /\ HistoryInv /\ AckInv
  BY DEF RegistryInv, RegistryType, EntryInv
<1>2. running = 0 /\ ~mem /\ UNCHANGED <<running, gen, decided, token, acked, mem>>
  BY <1>0 DEF RegistryInv, EntryInv, Up, Recovers, manager
<1>3. CASE "intent" \in disk \/ "accepted" \notin disk
  <2>1. disk' = {} /\ Removed /\ durable' = <<>> /\ spc' = "none" BY <1>3 DEF Restart
  <2>2. ProgressType' /\ file' = <<>> /\ synced' = <<>> /\ durable' \in Histories
    BY <1>1, <2>1, RemovedType DEF Histories
  <2>3. DiskInv' BY <1>2, <2>1, <2>2 DEF DiskInv, Undecided, RecoverySteps
  <2>4. HistoryInv' BY <1>0, <1>1, <2>1, <2>2 DEF HistoryInv, Removed
  <2>5. AckInv' BY <1>0, <1>1, <1>2, <2>1 DEF AckInv
  <2> QED BY <1>0, <1>1, <1>2, <2>1, <2>2, <2>3, <2>4, <2>5, RecoveryKeeps
<1>4. CASE "intent" \notin disk /\ "accepted" \in disk
  <2>1. /\ Opened /\ durable' = durable
        /\ disk' = IF "finished" \in disk THEN disk \ {"draft"} ELSE disk
        /\ spc' = IF "finished" \in disk THEN "none"
                  ELSE IF "draft" \notin disk THEN "r_tearing"
                  ELSE IF body.events = file THEN "r_commit" ELSE "down"
    BY <1>4 DEF Restart
  <2>2. file # <<>> /\ synced # <<>> /\ Begins(durable, file) /\ Begins(durable, synced)
    BY <1>1, <1>4 DEF DiskInv, HistoryInv
  <2>3. /\ events' = file /\ file' = file /\ synced' = synced /\ ~next' /\ unread' = unread
        /\ ProgressType'
    BY <1>1, <2>1, OpenedType DEF Opened
  <2>4. spc' \in RecoverySteps \cup {"none"} BY <2>1 DEF RecoverySteps
  <2>5. DiskInv'
    BY <1>0, <1>1, <1>2, <1>4, <2>1, <2>2, <2>3 DEF DiskInv, Undecided, RecoverySteps
  <2>6. HistoryInv' BY <1>0, <1>1, <1>4, <2>1, <2>2, <2>3 DEF HistoryInv
  <2>7. AckInv' BY <1>0, <1>1, <1>2, <1>4, <2>1 DEF AckInv
  <2>8. disk' \subseteq Names BY <1>1, <2>1
  <2> QED BY <1>0, <1>1, <1>2, <2>1, <2>3, <2>4, <2>5, <2>6, <2>7, <2>8, RecoveryKeeps
<1> QED BY <1>3, <1>4

\* The phases of the recovery, one by one.
LEMMA RecoveryPhases ==
    /\ DOMAIN RecoveryPhase = {"r_tearing", "r_persisting", "r_terminal"}
    /\ \A p \in {"r_tearing", "r_persisting", "r_terminal"} :
          RecoveryPhase[p] \in Phases /\ RecoveryNext[p] \in {"r_persisting", "r_terminal", "r_commit"}
BY DEF RecoveryPhase, RecoveryNext, Phases

LEMMA RecoveryPublishesKeeps ==
    ASSUME RegistryInv, RecoveryPublishes, Witnessed, UNCHANGED <<faults, ops>>
    PROVE  RegistryInv'
<1>0. /\ spc \in {"r_tearing", "r_persisting", "r_terminal"} /\ spc \in RecoverySteps
      /\ RecoveryPhase[spc] \in Phases /\ RecoveryNext[spc] \in {"r_persisting", "r_terminal", "r_commit"}
      /\ Recovers /\ UNCHANGED disk
  BY RecoveryPhases DEF RecoveryPublishes, RecoverySteps
<1>1. PICK ok \in BOOLEAN : /\ Published(RecoveryPhase[spc], Latest.count, ok)
                            /\ spc' = IF ok THEN RecoveryNext[spc] ELSE "down"
  BY DEF RecoveryPublishes
<1>2. /\ HistoryMoved(~ok /\ IoFails) /\ (ok => file' = events')
      /\ broken' = (broken \/ (~ok /\ IoFails)) /\ (~ok /\ IoFails) \in BOOLEAN
  BY <1>0, <1>1, SupervisorHistory, PublishedMoves
<1>3. /\ disk \subseteq Names /\ broken \in BOOLEAN /\ gen \in Nat
      /\ DiskInv /\ HistoryInv /\ AckInv
  BY DEF RegistryInv, RegistryType
<1>4. broken' \in BOOLEAN /\ (broken => broken') BY <1>2, <1>3
<1>5. /\ body' \in Bodies /\ body'.gen = gen /\ body'.events = events'
      /\ body'.status = (IF "cancel" \in disk THEN "cancelled" ELSE "ended")
  <2>1. events' \in Histories BY <1>2 DEF HistoryMoved, ProgressType
  <2>2. body' = [gen |-> gen, status |-> IF "cancel" \in disk THEN "cancelled" ELSE "ended",
                 events |-> events', retained |-> "tree" \in disk]
    BY DEF RecoveryPublishes
  <2> QED BY <1>3, <2>1, <2>2 DEF Bodies
<1>6. running = 0 /\ ~mem /\ UNCHANGED <<running, gen, decided, token, acked, mem>>
  BY <1>0 DEF RegistryInv, EntryInv, Up, Recovers, manager
<1>7. /\ "accepted" \in disk /\ {"intent", "finished"} \cap disk = {}
      /\ file # <<>> /\ synced # <<>> /\ Begins(durable, file) /\ Begins(durable, synced)
      /\ (~unread => events = file) /\ (unread => broken) /\ (next => broken)
  BY <1>0, <1>3 DEF DiskInv, HistoryInv
<1>8. spc' \in {"r_persisting", "r_terminal", "r_commit", "down"} /\ (spc' # "down" => ok)
  BY <1>0, <1>1
<1>9. DiskInv'
  BY <1>0, <1>2, <1>3, <1>4, <1>5, <1>6, <1>7, <1>8
  DEF DiskInv, HistoryMoved, Undecided, RecoverySteps
<1>10. HistoryInv'
  <2>1. (unread' => broken') /\ (next' => broken')
    BY <1>2, <1>3, <1>7 DEF HistoryMoved
  <2> QED BY <1>0, <1>2, <1>5, <1>7, <1>8, <2>1 DEF HistoryInv, HistoryMoved
<1>11. AckInv' BY <1>0, <1>3, <1>5, <1>6, <1>7 DEF AckInv
<1>12. ProgressType' /\ durable' \in Histories /\ disk' \subseteq Names
       /\ spc' \in RecoverySteps \cup {"none"} /\ body'.gen <= gen
  BY <1>0, <1>2, <1>3, <1>5, <1>8 DEF HistoryMoved, RecoverySteps
<1> QED BY <1>0, <1>4, <1>5, <1>9, <1>10, <1>11, <1>12, RecoveryKeeps

LEMMA RecoveryCommitsKeeps ==
    ASSUME RegistryInv, RecoveryCommits, Witnessed, UNCHANGED <<faults, ops>>
    PROVE  RegistryInv'
<1>0. /\ spc = "r_commit" /\ spc \in RecoverySteps /\ spc' = "none" /\ DirectorySynced
      /\ Recovers /\ UNCHANGED <<broken, durable>>
  BY DEF RecoveryCommits, RecoverySteps
<1>1. PICK r \in BOOLEAN :
          /\ r => "tree" \in disk
          /\ body' = [body EXCEPT !.retained = r]
          /\ disk' = (disk \ ({"draft"} \cup IF r THEN {} ELSE {"tree"})) \cup {"finished"}
  BY DEF RecoveryCommits
<1>2. /\ disk \subseteq Names /\ broken \in BOOLEAN /\ gen \in Nat /\ body \in Bodies
      /\ ProgressType /\ durable \in Histories /\ DiskInv /\ HistoryInv /\ AckInv
  BY DEF RegistryInv, RegistryType
<1>3. /\ body' \in Bodies /\ body'.gen = body.gen /\ body'.status = body.status
      /\ body'.events = body.events /\ body'.retained = r /\ body.gen \in Nat
  BY <1>1, <1>2 DEF Bodies
<1>4. running = 0 /\ ~mem /\ UNCHANGED <<running, gen, decided, token, acked, mem>>
  BY <1>0 DEF RegistryInv, EntryInv, Up, Recovers, manager
<1>5. /\ "accepted" \in disk /\ {"intent", "finished"} \cap disk = {} /\ body.gen = gen
      /\ file # <<>> /\ Begins(durable, file) /\ body.events = file /\ (unread => broken)
      /\ (next => broken)
  BY <1>0, <1>2 DEF DiskInv, HistoryInv, RecoverySteps
<1>6. synced' = file /\ UNCHANGED <<events, file, next, unread>> /\ ProgressType'
  BY <1>0, <1>2, SyncedType DEF DirectorySynced
<1>7. /\ "accepted" \in disk' /\ "intent" \notin disk' /\ "draft" \notin disk' /\ "finished" \in disk'
      /\ ("tree" \in disk' <=> r) /\ ("cancel" \in disk' <=> "cancel" \in disk) /\ disk' \subseteq Names
  BY <1>1, <1>2, <1>5 DEF Names
<1>8. DiskInv' BY <1>0, <1>3, <1>4, <1>5, <1>6, <1>7 DEF DiskInv, Undecided, RecoverySteps
<1>9. HistoryInv' BY <1>0, <1>3, <1>5, <1>6, <1>7 DEF HistoryInv
<1>10. AckInv' BY <1>2, <1>3, <1>4, <1>5, <1>7 DEF AckInv
<1>11. durable' \in Histories /\ broken' \in BOOLEAN /\ body'.gen <= gen
  BY <1>0, <1>2, <1>3, <1>5
<1> QED BY <1>0, <1>3, <1>6, <1>7, <1>8, <1>9, <1>10, <1>11, RecoveryKeeps

-----------------------------------------------------------------------------
(* The invariant and what follows from it.                                 *)

LEMMA InitEstablishes ==
    ASSUME Init
    PROVE  RegistryInv
<1> USE DEF Init, RegistryInit, ProgressInit
<1>1. <<>> \in Histories /\ Len(<<>>) = 0 BY DEF Histories
<1>2. PICK m \in Modes : faults = m.faults /\ ops = m.ops /\ calls = m.calls OBVIOUS
<1>3. faults \subseteq FaultKinds /\ ops \subseteq AllOps /\ calls \in 0..MaxCalls
  BY <1>2, RegistryAssumption
<1>4. \A c \in Clients : call[c] = Idle OBVIOUS
<1>5. Idle.op = "none" /\ Idle.pc = "idle" /\ Idle.gen = 0 BY DEF Idle
<1>6. RegistryType
  <2>1. ProgressType
    <3>1. events = <<>> /\ file = <<>> /\ synced = <<>> OBVIOUS
    <3>2. {events, file, synced} \subseteq Histories BY <1>1, <3>1
    <3>3. 0 <= MaxRevisions BY ProgressAssumption
    <3>4. \A history \in {events, file, synced} : Len(history) <= MaxRevisions BY <1>1, <3>1, <3>3
    <3>5. failed = FALSE /\ next = FALSE /\ unread = FALSE OBVIOUS
    <3> QED BY <3>2, <3>4, <3>5 DEF ProgressType
  <2>2. lock \in [Locks -> Clients \cup {"supervisor", "shutdown", Nobody}] OBVIOUS
  <2>3. call \in [Clients -> CallRecords] /\ body \in Bodies BY IdleType
  <2>4. spc \in SupervisorSteps BY DEF SupervisorSteps
  <2> QED BY <1>1, <1>3, <2>1, <2>2, <2>3, <2>4 DEF RegistryType
<1>7. FenceInv
  <2>1. \A c \in Clients, l \in Locks : ~Holds(c, l)
    BY <1>4, <1>5 DEF Holds, Fenced, In, At, Reading, Deciding, Deleting
  <2>2. \A l \in Locks : ~ShutHolds(l) BY DEF ShutHolds
  <2>3. Nobody \notin Clients \cup {"supervisor", "shutdown"} BY RegistryAssumption DEF Nobody
  <2>4. \A c \in Clients : call[c].pc \in StepsOf[call[c].op] BY <1>4, <1>5, StepsOfIs
  <2> QED BY <2>1, <2>2, <2>3, <2>4 DEF FenceInv
<1>8. EntryInv
  <2>1. lock["admission"] \notin Clients BY RegistryAssumption DEF Nobody, Locks
  <2>2. body.gen = 0 BY DEF NoBody
  <2> QED BY <2>1, <2>2 DEF EntryInv, RecoverySteps, Up
<1>9. DiskInv /\ HistoryInv /\ AckInv /\ ShutInv
  BY DEF DiskInv, HistoryInv, AckInv, ShutInv, Undecided, RecoverySteps
<1>10. \A c \in Clients : CallInv(c)
  BY <1>4, <1>5 DEF CallInv, Serving, At, In, Fenced, Reading, Deciding
<1> QED BY <1>6, <1>7, <1>8, <1>9, <1>10 DEF RegistryInv

\* Every step of a call keeps the invariant.
LEMMA CallsKeep ==
    ASSUME RegistryInv, NEW c \in Clients, CallArrives(c) \/ CallStep(c), Witnessed,
           UNCHANGED <<faults, ops>>
    PROVE  RegistryInv'
<1>1. CASE CallArrives(c) \/ LifecycleStart(c) \/ ListIds(c)
  BY <1>1, CallArrivesPure, LifecycleStartPure, ListIdsPure, PureKeeps
<1>2. CASE ReadStep(c)
  BY <1>2, GetFastPure, GetFencedPure, GetBodyPure, GetCheckPure, GetUnfencedPure, ReadDraftPure,
     ReadFinishedPure, ReadRecordsPure, ReadStoragePure, PureKeeps DEF ReadStep
<1>3. CASE SubmitStep(c)
  BY <1>3, SubmitLookPure, SubmitValidatePure, SubmitBodyPure, PureKeeps, SubmitAcceptKeeps,
     SubmitRegisterKeeps
  DEF SubmitStep
<1>4. CASE CancelStep(c)
  BY <1>4, CancelLookPure, CancelDecidePure, CancelFinalPure, CancelCheckPure, CancelLaunchPure,
     PureKeeps, CancelIntentKeeps, CancelTokenKeeps, CancelPublishKeeps DEF CancelStep
<1>5. CASE DeleteStep(c)
  BY <1>5, DeleteLookPure, PureKeeps, DeleteIntentKeeps, DeleteTreeKeeps, DeleteFileKeeps,
     DeleteEndKeeps, DeleteMemKeeps DEF DeleteStep
<1> QED BY <1>1, <1>2, <1>3, <1>4, <1>5 DEF CallStep

LEMMA NextKeeps ==
    ASSUME RegistryInv, [Next]_vars
    PROVE  RegistryInv'
<1>1. CASE UNCHANGED vars
  <2> USE <1>1 DEF vars, manager, files, progress, callState, shutState
  <2>1. RegistryType' BY DEF RegistryInv, RegistryType, ProgressType
  <2>2. FenceInv' /\ EntryInv'
    BY DEF RegistryInv, FenceInv, EntryInv, Holds, ShutHolds, Fenced, In, At, Up
  <2>3. DiskInv' /\ HistoryInv' /\ AckInv'
    BY DEF RegistryInv, DiskInv, HistoryInv, AckInv, At
  <2>4. ShutInv' BY DEF RegistryInv, ShutInv, Active
  <2>5. \A c \in Clients : CallInv(c)'
    BY DEF RegistryInv, CallInv, Serving, Up, Fenced, In, At, Records
  <2> QED BY <2>1, <2>2, <2>3, <2>4, <2>5 DEF RegistryInv
<1>2. CASE Next
  <2> USE DEF Next
  <2>1. CASE PowerLoss BY <1>2, <2>1, PowerLossKeeps
  <2>2. ASSUME NEW c \in Clients, CallArrives(c) \/ CallStep(c), UNCHANGED faults PROVE RegistryInv'
    BY <1>2, <2>2, CallsKeep
  <2>3. CASE SupervisorStep /\ UNCHANGED faults
    BY <1>2, <2>3, SupervisorStagesKeeps, SupervisorLaunchesKeeps, SupervisorWorksKeeps,
       SupervisorDecidesKeeps, SupervisorPublishesKeeps, SupervisorPersistsKeeps, SupervisorEvictsKeeps
    DEF SupervisorStep
  <2>4. CASE (ShutdownBegins \/ ShutdownStep) /\ UNCHANGED faults
    BY <1>2, <2>4, ShutdownBeginsKeeps, ShutdownDrainedKeeps, ShutdownDecidesKeeps,
       ShutdownIntentKeeps, ShutdownPublishesKeeps, ShutdownFenceKeeps, ShutdownDoneKeeps
    DEF ShutdownStep
  <2>5. CASE RecoveryStep /\ UNCHANGED faults
    BY <1>2, <2>5, RestartKeeps, RecoveryPublishesKeeps, RecoveryCommitsKeeps DEF RecoveryStep
  <2> QED BY <1>2, <2>1, <2>2, <2>3, <2>4, <2>5
<1> QED BY <1>1, <1>2

\* In every behaviour of the manager its locks are held by whoever is at a step
\* that holds them, an entry exists exactly while its supervisor runs, the files
\* are what each step of a call, the supervisor or the recovery expects, and the
\* histories, acknowledgements and reports agree with them.
THEOREM RegistryInvariant == Spec => []RegistryInv
BY InitEstablishes, NextKeeps, PTL DEF Spec

-----------------------------------------------------------------------------
(* The safety properties.                                                  *)

\* A history that begins another is that one's prefix of its length.
LEMMA BeginsIsPrefix ==
    ASSUME NEW s \in Histories, NEW t \in Histories, Begins(s, t)
    PROVE  SubSeq(t, 1, IF Len(s) < Len(t) THEN Len(s) ELSE Len(t)) = s
<1> DEFINE E == [phase : Phases, count : 0..MaxCount]
<1> HIDE DEF E
<1>1. s \in Seq(E) /\ t \in Seq(E) BY DEF Histories, E
<1>2. Len(s) \in Nat /\ Len(t) \in Nat /\ Len(s) <= Len(t) BY <1>1 DEF Begins
<1>3. (IF Len(s) < Len(t) THEN Len(s) ELSE Len(t)) = Len(s) BY <1>2
<1>4. \A i \in 1..Len(s) : t[i] = s[i] BY DEF Begins
<1>5. SubSeq(t, 1, Len(s)) = s BY <1>1, <1>2, <1>4
<1> QED BY <1>3, <1>5

\* The terminal record, which the supervisor or the recovery writes, carries
\* the history of progress.json, whichever barrier of a publication failed.
THEOREM TerminalHistoryAgrees == Spec => []TerminalAgrees
<1>1. RegistryInv => TerminalAgrees BY DEF RegistryInv, HistoryInv, TerminalAgrees
<1> QED BY <1>1, RegistryInvariant, PTL

\* What publish reported as durable is the beginning of progress.json in every
\* later state of the session, a power loss and a recovery included.
THEOREM DurableRevisionsStay == Spec => []DurableRevisionsSurvive
<1>1. RegistryInv => DurableRevisionsSurvive
  <2>1. RegistryInv => durable \in Histories /\ file \in Histories
    BY DEF RegistryInv, RegistryType, ProgressType
  <2>2. RegistryInv /\ "accepted" \in disk /\ "intent" \notin disk => Begins(durable, file)
    BY DEF RegistryInv, HistoryInv
  <2> QED BY <2>1, <2>2, BeginsIsPrefix DEF DurableRevisionsSurvive
<1> QED BY <1>1, RegistryInvariant, PTL

\* A cancellation the manager acknowledged is the outcome, in memory and on
\* disk, for any number of concurrent calls.
THEOREM AckedCancelIsOutcome == Spec => []AckedCancelDecides
<1>1. RegistryInv => AckedCancelDecides BY DEF RegistryInv, AckInv, AckedCancelDecides
<1> QED BY <1>1, RegistryInvariant, PTL

\* A shutdown that returned without an error recorded the intent of every
\* session it cancelled.
THEOREM ShutdownIsHonest == Spec => []ShutdownReportsUnrecorded
<1>1. RegistryInv => ShutdownReportsUnrecorded
  BY DEF RegistryInv, ShutInv, ShutdownReportsUnrecorded
<1> QED BY <1>1, RegistryInvariant, PTL

\* A call step after the shutdown has returned only reads.
LEMMA DrainedOnlyReads ==
    ASSUME RegistryInv, ~Active, NEW c \in Clients, CallStep(c)
    PROVE  UNCHANGED <<disk, progress, running, mem>>
<1>1. /\ call[c].pc \in StepsOf[call[c].op] \cup {"done"} /\ call[c].op \in AllOps \cup {"none"}
  BY CallFacts
<1>2. call[c].op \in Mutations => call[c].pc \in {"idle", "done", "start"} BY DEF Active
<1>3. ~In(c, {"s_accept", "s_register", "c_intent", "c_token", "c_publish", "d_intent", "d_tree", "d_files",
              "d_end", "d_mem"})
  BY <1>1, <1>2, StepsOfIs DEF AllOps, Mutations, In, Deciding, Reading, Deleting
<1>4. ~SubmitAccept(c) /\ ~SubmitRegister(c) /\ ~CancelIntent(c) /\ ~CancelToken(c)
      /\ ~CancelPublish(c) /\ ~DeleteIntent(c) /\ ~DeleteTree(c) /\ ~DeleteFile(c)
      /\ ~DeleteEnd(c) /\ ~DeleteMem(c)
  BY <1>3 DEF SubmitAccept, SubmitRegister, CancelIntent, CancelToken, CancelPublish, DeleteIntent,
              DeleteTree, DeleteFile, DeleteEnd, DeleteMem, In, At
<1>5. Pure
  BY <1>4 DEF CallStep, ReadStep, SubmitStep, CancelStep, DeleteStep, LifecycleStart, ListIds,
              GetFast, GetFenced, GetBody, GetCheck, GetUnfenced, ReadDraft, ReadFinished,
              ReadAccepted, ReadProgress, ReadStorage, SubmitLook, SubmitValidate, SubmitBody, CancelLook, CancelDecide,
              CancelFinal, CancelCheck, CancelLaunch, DeleteLook
<1> QED BY <1>5 DEF Pure, KeepManager, files

\* Once shutdown has returned no call, supervisor or recovery changes the
\* files or the maps while the process lasts.
THEOREM ShutdownIsFinal == Spec => ShutdownLeavesNobody
<1>1. ASSUME RegistryInv, [Next]_vars, hpc = "done", hpc' = "done"
      PROVE  UNCHANGED <<disk, progress, running, mem>>
  <2>1. spc = "none" /\ ~Active BY <1>1 DEF RegistryInv, ShutInv
  <2>2. ~PowerLoss BY <1>1 DEF PowerLoss
  <2>3. ~SupervisorStep
    BY <2>1 DEF SupervisorStep, SupervisorStages, SupervisorLaunches, SupervisorWorks,
       SupervisorDecides, SupervisorPublishes, SupervisorPersists, SupervisorEvicts
  <2>4. ~ShutdownBegins /\ ~ShutdownStep
    BY <1>1 DEF ShutdownBegins, ShutdownStep, ShutdownDrained, ShutdownDecides, ShutdownIntent,
       ShutdownPublishes, ShutdownFence, ShutdownDone
  <2>5. ~RecoveryStep
    BY <2>1 DEF RecoveryStep, Restart, RecoveryPublishes, RecoveryCommits, RecoveryPhase
  <2>6. ASSUME NEW c \in Clients, CallArrives(c) PROVE UNCHANGED <<disk, progress, running, mem>>
    BY <2>6 DEF CallArrives, KeepManager, files
  <2>7. ASSUME NEW c \in Clients, CallStep(c) PROVE UNCHANGED <<disk, progress, running, mem>>
    BY <1>1, <2>1, <2>7, DrainedOnlyReads
  <2>8. CASE UNCHANGED vars BY <2>8 DEF vars, files, manager
  <2> QED BY <1>1, <2>2, <2>3, <2>4, <2>5, <2>6, <2>7, <2>8 DEF Next
<1> QED BY <1>1, RegistryInvariant, PTL DEF Spec, ShutdownLeavesNobody
=============================================================================
