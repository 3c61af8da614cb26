--------------------------- MODULE RegistryMoves ---------------------------
(***************************************************************************)
(* Lemmas about the registry: what a publication does to the histories,    *)
(* what a step of a call does to the call and to its locks, and that the   *)
(* steps which only look keep RegistryInv.                                 *)
(***************************************************************************)
EXTENDS RegistryService, TLAPS

-----------------------------------------------------------------------------
(* Moves of one call.                                                      *)

CallType == call \in [Clients -> CallRecords]
Untouched(c) == \A d \in Clients \ {c} : call'[d] = call[d]

\* The call goes on at step p, all else of it as before.
Stepped(c, p) ==
    /\ call'[c].pc = p /\ call'[c].op = call[c].op /\ call'[c].gen = call[c].gen
    /\ call'[c].count = call[c].count /\ call'[c].body = call[c].body /\ call'[c].ans = call[c].ans

\* Changing the step of a call leaves the other calls and its fields alone.
LEMMA GoMoves ==
    ASSUME CallType, NEW c \in Clients, NEW p \in CallSteps, Go(c, p)
    PROVE  CallType' /\ Untouched(c) /\ Stepped(c, p) /\ lock' = lock /\ calls' = calls
BY DEF CallType, CallRecords, Go, Untouched, Stepped

\* So does going on with a new step and new locks.
LEMMA StepMoves ==
    ASSUME CallType, NEW c \in Clients, NEW p \in CallSteps,
           call' = [call EXCEPT ![c].pc = p]
    PROVE  CallType' /\ Untouched(c) /\ Stepped(c, p)
BY DEF CallType, CallRecords, Untouched, Stepped

\* A cancellation remembers an error to report, and the counters it has read.
LEMMA ErrorMoves ==
    ASSUME CallType, NEW c \in Clients, NEW p \in CallSteps, NEW a \in Answers,
           call' = [call EXCEPT ![c].pc = p, ![c].ans = a]
    PROVE  /\ CallType' /\ Untouched(c)
           /\ call'[c].pc = p /\ call'[c].op = call[c].op /\ call'[c].gen = call[c].gen
BY DEF CallType, CallRecords, Untouched

LEMMA CountMoves ==
    ASSUME CallType, NEW c \in Clients, NEW p \in CallSteps, NEW n \in 0..MaxCount,
           call' = [call EXCEPT ![c].pc = p, ![c].count = n]
    PROVE  /\ CallType' /\ Untouched(c)
           /\ call'[c].pc = p /\ call'[c].op = call[c].op /\ call'[c].gen = call[c].gen
BY DEF CallType, CallRecords, Untouched

\* An empty record of a call is one.
LEMMA IdleType == Idle \in CallRecords /\ NoBody \in Bodies
<1>1. <<>> \in Histories BY DEF Histories
<1>2. NoBody \in Bodies BY <1>1 DEF NoBody, Bodies
<1>3. 0 \in 0..MaxCount BY ProgressAssumption
<1> QED BY <1>2, <1>3 DEF Idle, CallRecords, CallSteps, Answers

\* A call that returns keeps its operation and has an answer.
LEMMA ReturnMoves ==
    ASSUME CallType, NEW c \in Clients, NEW a \in Answers, Return(c, a)
    PROVE  /\ CallType' /\ Untouched(c)
           /\ call'[c].pc = "done" /\ call'[c].op = call[c].op /\ call'[c].gen = 0
           /\ call'[c].ans = (IF call[c].op = "list" /\ a = "absent" THEN "empty" ELSE a)
           /\ Dropped(c) /\ calls' = calls
<1> DEFINE b == IF call[c].op = "list" /\ a = "absent" THEN "empty" ELSE a
           r == [Idle EXCEPT !.op = call[c].op, !.pc = "done", !.ans = b]
<1>1. call[c].op \in AllOps \cup {"none"} BY DEF CallType, CallRecords
<1>2. b \in Answers BY DEF Answers
<1>3. r \in CallRecords
  BY <1>1, <1>2, IdleType DEF CallRecords, CallSteps
<1>4. r.pc = "done" /\ r.op = call[c].op /\ r.gen = 0 /\ r.ans = b
  BY DEF Idle
<1>5. call' = [call EXCEPT ![c] = r] BY DEF Return
<1> HIDE DEF r
<1>6. CallType' /\ Untouched(c) /\ call'[c] = r BY <1>3, <1>5 DEF CallType, Untouched
<1> QED BY <1>4, <1>6 DEF Return

\* A call that arrives starts at the first step of its operation.
LEMMA ArriveMoves ==
    ASSUME CallType, NEW c \in Clients, NEW o \in AllOps,
           call' = [call EXCEPT ![c] = [Idle EXCEPT !.op = o, !.pc = FirstStep[o]]]
    PROVE  /\ CallType' /\ Untouched(c)
           /\ call'[c].pc = FirstStep[o] /\ call'[c].op = o /\ call'[c].gen = 0
           /\ call'[c].ans = "none"
<1> DEFINE r == [Idle EXCEPT !.op = o, !.pc = FirstStep[o]]
<1>1. FirstStep[o] \in CallSteps BY DEF FirstStep, AllOps, CallSteps
<1>2. r \in CallRecords BY <1>1, IdleType DEF CallRecords
<1>3. r.pc = FirstStep[o] /\ r.op = o /\ r.gen = 0 /\ r.ans = "none" BY DEF Idle
<1> HIDE DEF r
<1>4. CallType' /\ Untouched(c) /\ call'[c] = r BY <1>2 DEF CallType, Untouched, r
<1> QED BY <1>3, <1>4

\* The steps of each operation, one by one.
LEMMA StepsOfIs ==
    /\ StepsOf["none"] = {"idle"}
    /\ StepsOf["submit"] = {"start", "s_look", "s_valid", "s_accept", "s_register", "s_body", "u_look"}
                               \cup Reading
    /\ StepsOf["get"] = {"g_fast", "g_fence", "g_body", "g_check"} \cup Reading
    /\ StepsOf["list"] = {"l_ids", "g_fast", "g_fence", "g_body", "g_check"} \cup Reading
    /\ StepsOf["cancel"] = {"start", "c_fast", "c_fence", "c_decide", "c_final", "u_look"}
                               \cup Deciding \cup Reading
    /\ StepsOf["delete"] = {"start", "d_look", "u_look", "d_intent"} \cup Deleting \cup Reading
BY DEF StepsOf

-----------------------------------------------------------------------------
(* Locks.                                                                  *)

\* A step of a call keeps the locks it has, drops all of them or takes free
\* ones, as its next step needs.
LockMove(c) ==
    \/ lock' = lock /\ \A l \in Locks : Holds(c, l)' <=> Holds(c, l)
    \/ Dropped(c) /\ \A l \in Locks : ~Holds(c, l)'
    \/ \E ls \in SUBSET Locks :
          /\ Taken(c, ls) /\ \A l \in ls : Free(l)
          /\ \A l \in Locks : Holds(c, l)' <=> (Holds(c, l) \/ l \in ls)

Owners == Clients \cup {"supervisor", "shutdown", Nobody}
Relocked(c) ==
    /\ lock' \in [Locks -> Owners]
    /\ \A l \in Locks :
          /\ lock'[l] = IF Holds(c, l)' THEN c ELSE IF lock[l] = c THEN Nobody ELSE lock[l]
          /\ Holds(c, l)' => lock[l] \in {c, Nobody}

\* Then every lock is still held by whoever is at a step that holds it.
LEMMA FenceMoves ==
    ASSUME RegistryType, FenceInv, NEW c \in Clients, CallType', Untouched(c),
           UNCHANGED hpc, spc' = "launching" <=> spc = "launching", LockMove(c),
           call'[c].pc \in StepsOf[call'[c].op] \cup {"done"}
    PROVE  FenceInv' /\ lock' \in [Locks -> Owners]
<1>0. c \notin {"supervisor", "shutdown", Nobody} BY RegistryAssumption DEF Nobody
<1>1. lock \in [Locks -> Owners] BY DEF RegistryType, Owners
<1>2. \A l \in Locks : lock[l] = c <=> Holds(c, l) BY DEF FenceInv
<1>3. Relocked(c)
  <2> USE DEF Relocked
  <2>1. CASE lock' = lock /\ \A l \in Locks : Holds(c, l)' <=> Holds(c, l)
    BY <2>1, <1>1, <1>2
  <2>2. CASE Dropped(c) /\ \A l \in Locks : ~Holds(c, l)'
    BY <2>2, <1>1, <1>2 DEF Dropped, Owners
  <2>3. ASSUME NEW ls \in SUBSET Locks, Taken(c, ls), \A l \in ls : Free(l),
               \A l \in Locks : Holds(c, l)' <=> (Holds(c, l) \/ l \in ls)
        PROVE  Relocked(c)
    BY <2>3, <1>0, <1>1, <1>2 DEF Taken, Free, Owners
  <2> QED BY <2>1, <2>2, <2>3 DEF LockMove
<1>4. ASSUME NEW d \in Clients, NEW l \in Locks PROVE lock'[l] = d <=> Holds(d, l)'
  <2>1. CASE d = c BY <2>1, <1>0, <1>3 DEF Relocked
  <2>2. CASE d # c
    <3>1. call'[d] = call[d] BY <2>2 DEF Untouched
    <3>2. Holds(d, l)' <=> Holds(d, l)
      BY <3>1 DEF Holds, Fenced, In, At
    <3>3. d # Nobody BY RegistryAssumption DEF Nobody
    <3>4. lock[l] = d <=> Holds(d, l) BY DEF FenceInv
    <3> QED BY <2>2, <3>2, <3>3, <3>4, <1>3 DEF Relocked
  <2> QED BY <2>1, <2>2
<1>5. ASSUME NEW l \in Locks
      PROVE  /\ lock'[l] = "shutdown" <=> ShutHolds(l)'
             /\ lock'[l] = "supervisor" <=> l = "launch" /\ spc' = "launching"
  <2>1. ShutHolds(l)' <=> ShutHolds(l) BY DEF ShutHolds
  <2>2. /\ lock[l] = "shutdown" <=> ShutHolds(l)
        /\ lock[l] = "supervisor" <=> l = "launch" /\ spc = "launching"
    BY DEF FenceInv
  <2>3. Nobody \notin {"supervisor", "shutdown"} BY DEF Nobody
  <2> QED BY <2>1, <2>2, <2>3, <1>0, <1>3 DEF Relocked
<1>6. \A d \in Clients : call'[d].pc \in StepsOf[call'[d].op] \cup {"done"}
  BY DEF FenceInv, Untouched
<1> QED BY <1>3, <1>4, <1>5, <1>6 DEF FenceInv, Relocked

-----------------------------------------------------------------------------
(* Steps that change nothing but the call and its locks.                   *)

\* The call is one the shutdown waits for.
Counts(c) == call[c].op \in Mutations /\ call[c].pc \notin {"idle", "done", "start"}

\* Nothing else changes, except that an operation may have failed.
Inert ==
    /\ KeepManager /\ KeepShut /\ KeepAcks /\ UNCHANGED <<files, body, spc>>
    /\ broken' \in BOOLEAN /\ (broken => broken')

LEMMA PureIsInert ==
    ASSUME RegistryInv, Pure
    PROVE  Inert
BY DEF RegistryInv, RegistryType, Pure, KeepHistory, KeepAcks, Inert

PureMove(c) ==
    /\ Inert /\ CallType' /\ Untouched(c) /\ LockMove(c)
    /\ calls' \in 0..MaxCalls
    /\ call'[c].pc \in StepsOf[call'[c].op] \cup {"done"}
    /\ ~At(c, "s_register") /\ ~At(c, "d_mem")
    /\ Counts(c)' => Counts(c) \/ hpc = "none"
    /\ lock'["admission"] = c => running = 0
    /\ CallInv(c)'

\* The states the interface presents.
LEMMA ResourceStateType ==
    ASSUME body \in Bodies
    PROVE  ResourceState \in ResourceStates
BY DEF ResourceState, ResourceStates, Bodies

\* What a call has seen is a set of such states.
LEMMA WitnessedType ==
    ASSUME RegistryType, (body \in Bodies)', Witnessed
    PROVE  seen' \in [Clients -> SUBSET (ResourceStates \cup {"ending"})]
<1>1. ResourceState' \in ResourceStates
  BY DEF ResourceState, ResourceStates, Bodies
<1>2. Sights' \subseteq ResourceStates \cup {"ending"} BY <1>1 DEF Sights
<1>3. seen \in [Clients -> SUBSET (ResourceStates \cup {"ending"})] BY DEF RegistryType
<1> QED BY <1>2, <1>3 DEF Witnessed

\* Such a step keeps the invariant.
LEMMA PureKeeps ==
    ASSUME RegistryInv, NEW c \in Clients, PureMove(c), Witnessed,
           UNCHANGED <<faults, ops>>
    PROVE  RegistryInv'
<1>0. FenceInv' /\ lock' \in [Locks -> Owners]
  BY FenceMoves DEF PureMove, RegistryInv, Inert, KeepShut, shutState
<1>1. RegistryType'
  <2>1. seen' \in [Clients -> SUBSET (ResourceStates \cup {"ending"})]
    BY WitnessedType DEF RegistryInv, RegistryType, PureMove, Inert
  <2> QED BY <1>0, <2>1
      DEF RegistryInv, RegistryType, PureMove, Inert, KeepManager, KeepShut, KeepAcks, files,
          progress, shutState, ProgressType, CallType, Owners
<1>2. \A d \in Clients : (At(d, "s_register") => At(d, "s_register")')
                         /\ (At(d, "d_mem") => At(d, "d_mem")')
  BY DEF PureMove, Untouched, At
<1>3. EntryInv'
  <2>1. lock'["admission"] \in Clients => running = 0
    <3>1. ASSUME NEW d \in Clients, d # c, lock'["admission"] = d PROVE running = 0
      <4>1. Holds(d, "admission")' BY <3>1, <1>0 DEF FenceInv, Locks
      <4>2. Holds(d, "admission")
        BY <4>1, <3>1 DEF PureMove, Untouched, Holds, Fenced, In, At
      <4>3. lock["admission"] = d BY <4>2 DEF RegistryInv, FenceInv, Locks
      <4> QED BY <4>3 DEF RegistryInv, EntryInv
    <3> QED BY <3>1 DEF PureMove
  <2> QED BY <2>1
      DEF RegistryInv, EntryInv, PureMove, Inert, KeepManager, KeepShut, shutState, files, Up
<1>4. DiskInv'
  BY <1>2
  DEF RegistryInv, DiskInv, PureMove, Inert, KeepManager, KeepAcks, files, progress
<1>5. HistoryInv'
  BY DEF RegistryInv, HistoryInv, PureMove, Inert, KeepManager, KeepAcks, files, progress, Begins
<1>6. AckInv'
  BY DEF RegistryInv, AckInv, PureMove, Inert, KeepManager, KeepAcks, files
<1>7. ShutInv'
  <2>1. Active' => Active \/ hpc = "none"
    BY DEF Active, PureMove, Untouched, Counts
  <2> QED BY <2>1
      DEF RegistryInv, ShutInv, PureMove, Inert, KeepManager, KeepShut, shutState, files
<1>8. \A d \in Clients : CallInv(d)'
  <2>1. ASSUME NEW d \in Clients, d # c PROVE CallInv(d)'
    BY <2>1
    DEF RegistryInv, CallInv, PureMove, Untouched, Inert, KeepManager, KeepAcks, files, progress,
        At, In, Fenced, Up, Serving, Records
  <2> QED BY <2>1 DEF PureMove
<1> QED BY <1>0, <1>1, <1>3, <1>4, <1>5, <1>6, <1>7, <1>8 DEF RegistryInv

\* A call that returns, having changed nothing, is such a step.
LEMMA ReturnInert ==
    ASSUME RegistryInv, NEW c \in Clients, NEW a \in Answers, Return(c, a), Inert,
           ~At(c, "s_register"), ~At(c, "d_mem")
    PROVE  PureMove(c)
<1>0. CallType BY DEF RegistryInv, RegistryType, CallType
<1>1. /\ CallType' /\ Untouched(c)
      /\ call'[c].pc = "done" /\ call'[c].gen = 0 /\ Dropped(c) /\ calls' = calls
  BY <1>0, ReturnMoves
<1>2. \A l \in Locks : ~Holds(c, l)'
  BY <1>1 DEF Holds, Fenced, In, At, Reading, Deciding, Deleting
<1>3. CallInv(c)'
  <2>1. gen' \in Nat BY DEF RegistryInv, RegistryType, Inert, KeepManager
  <2> QED BY <1>1, <2>1 DEF CallInv, Serving, At, In, Fenced, Reading, Deciding, Judging
<1>4. lock'["admission"] = c => running = 0
  <2>1. c # Nobody BY RegistryAssumption DEF Nobody
  <2> QED BY <1>1, <2>1 DEF Dropped, Locks
<1>5. ~Counts(c)' BY <1>1 DEF Counts
<1>6. calls' \in 0..MaxCalls BY <1>1 DEF RegistryInv, RegistryType
<1> QED BY <1>1, <1>2, <1>3, <1>4, <1>5, <1>6 DEF PureMove, LockMove

LEMMA ReturnPure ==
    ASSUME RegistryInv, NEW c \in Clients, NEW a \in Answers, Return(c, a), Pure,
           ~At(c, "s_register"), ~At(c, "d_mem")
    PROVE  PureMove(c)
BY PureIsInert, ReturnInert

\* So is one that goes on with the locks it has.
LEMMA GoPure ==
    ASSUME RegistryInv, NEW c \in Clients, CallType', Untouched(c), Pure, UNCHANGED <<calls, lock>>,
           call'[c].op = call[c].op, call'[c].pc \in StepsOf[call'[c].op],
           \A l \in Locks : Holds(c, l)' <=> Holds(c, l),
           ~At(c, "s_register"), ~At(c, "d_mem"), Counts(c)' => Counts(c) \/ hpc = "none",
           CallInv(c)'
    PROVE  PureMove(c)
<1>1. lock'["admission"] = c => running = 0 BY DEF RegistryInv, EntryInv
<1>2. calls' \in 0..MaxCalls BY DEF RegistryInv, RegistryType
<1> QED BY <1>1, <1>2, PureIsInert DEF PureMove, LockMove

\* And one that takes free locks; the fence is free only while nobody who
\* could register an entry has it.
LEMMA TakePure ==
    ASSUME RegistryInv, NEW c \in Clients, CallType', Untouched(c), Pure, UNCHANGED calls,
           NEW ls \in SUBSET Locks, Taken(c, ls), \A l \in ls : Free(l),
           "admission" \in ls => running = 0,
           call'[c].op = call[c].op, call'[c].pc \in StepsOf[call'[c].op],
           \A l \in Locks : Holds(c, l)' <=> (Holds(c, l) \/ l \in ls),
           ~At(c, "s_register"), ~At(c, "d_mem"), Counts(c)' => Counts(c) \/ hpc = "none",
           CallInv(c)'
    PROVE  PureMove(c)
<1>1. lock'["admission"] = c => running = 0 BY DEF RegistryInv, EntryInv, Taken, Locks
<1>2. calls' \in 0..MaxCalls BY DEF RegistryInv, RegistryType
<1> QED BY <1>1, <1>2, PureIsInert DEF PureMove, LockMove

-----------------------------------------------------------------------------
(* The pure steps of the calls.                                            *)

\* The values a call starts from.
LEMMA CallFacts ==
    ASSUME RegistryInv, NEW c \in Clients
    PROVE  /\ CallType /\ CallInv(c) /\ gen \in Nat /\ running \in Nat /\ running <= gen
           /\ call[c].pc \in StepsOf[call[c].op] \cup {"done"}
           /\ call[c].op \in AllOps \cup {"none"} /\ call[c].gen \in Nat
           /\ body.status \in {"ended", "cancelled"}
BY DEF RegistryInv, RegistryType, FenceInv, CallType, CallRecords, Bodies

LEMMA CallArrivesPure ==
    ASSUME RegistryInv, NEW c \in Clients, CallArrives(c)
    PROVE  PureMove(c)
<1>0. CallType /\ gen \in Nat BY CallFacts
<1>1. PICK o \in AllOps :
        call' = [call EXCEPT ![c] = [Idle EXCEPT !.op = o, !.pc = FirstStep[o]]]
  BY DEF CallArrives, RegistryInv, RegistryType
<1>2. /\ CallType' /\ Untouched(c)
      /\ call'[c].pc = FirstStep[o] /\ call'[c].op = o /\ call'[c].gen = 0
  BY <1>0, <1>1, ArriveMoves
<1>3. FirstStep[o] \in {"start", "g_fast", "l_ids"} /\ FirstStep[o] \in StepsOf[o]
      /\ (o \in Mutations => FirstStep[o] = "start")
  BY StepsOfIs DEF FirstStep, AllOps, Mutations
<1>4. call[c].pc \in {"idle", "done"} /\ Up /\ lock' = lock /\ Pure
  BY DEF CallArrives, Pure
<1>5. \A l \in Locks : ~Holds(c, l)' /\ ~Holds(c, l)
  BY <1>2, <1>3, <1>4 DEF Holds, Fenced, In, At, Reading, Deciding, Deleting
<1>6. CallInv(c)'
  BY <1>0, <1>2, <1>3, <1>4
  DEF CallInv, Serving, At, In, Fenced, Reading, Deciding, Judging, Up, Pure, KeepManager
<1>7. calls' \in 0..MaxCalls BY RegistryAssumption DEF CallArrives, RegistryInv, RegistryType
<1>8. ~Counts(c)' BY <1>2, <1>3 DEF Counts
<1>9. lock'["admission"] = c => running = 0 BY <1>4 DEF RegistryInv, EntryInv
<1> QED
  BY <1>2, <1>3, <1>4, <1>5, <1>6, <1>7, <1>8, <1>9, PureIsInert DEF PureMove, LockMove, At

LEMMA LifecycleStartPure ==
    ASSUME RegistryInv, NEW c \in Clients, LifecycleStart(c)
    PROVE  PureMove(c)
<1> USE CallFacts
<1>0. At(c, "start") /\ call[c].op \in Mutations /\ Pure
  BY StepsOfIs
  DEF LifecycleStart, At, AllOps, Mutations, Reading
<1>1. CASE ~open
  BY <1>0, <1>1, ReturnPure DEF LifecycleStart, At, Answers
<1>2. CASE open
  <2>1. PICK p \in {"s_look", "c_fast", "d_look"} : Go(c, p) /\ p \in StepsOf[call[c].op]
    BY <1>0, <1>2, StepsOfIs DEF LifecycleStart, Mutations
  <2>2. CallType' /\ Untouched(c) /\ Stepped(c, p) /\ lock' = lock /\ calls' = calls
    BY <2>1, GoMoves DEF CallSteps
  <2>3. \A l \in Locks : Holds(c, l)' <=> Holds(c, l)
    BY <1>0, <2>1, <2>2 DEF Holds, Fenced, In, At, Reading, Deciding, Deleting, Stepped
  <2>4. CallInv(c)'
    BY <1>0, <2>2
    DEF CallInv, Serving, At, In, Fenced, Reading, Deciding, Judging, Up, Pure, KeepManager, Stepped
  <2>5. hpc = "none" BY <1>2 DEF RegistryInv, ShutInv
  <2> QED BY <1>0, <2>1, <2>2, <2>3, <2>4, <2>5, GoPure DEF Stepped, At
<1> QED BY <1>1, <1>2

\* A read that goes on at a step without obligations.
LEMMA ReadGoes ==
    ASSUME RegistryInv, NEW c \in Clients, Pure, CallType', Untouched(c), UNCHANGED <<calls, lock>>,
           call'[c].op = call[c].op, call[c].op \in {"get", "list"},
           call'[c].pc \in {"g_fast", "g_fence", "g_body", "g_check"} \cup Reading, call'[c].gen <= gen,
           call[c].pc \in {"l_ids", "g_fast", "g_fence", "g_body", "g_check"} \cup Reading
    PROVE  PureMove(c)
<1>1. \A l \in Locks : Holds(c, l)' <=> Holds(c, l)
  BY DEF Holds, Fenced, In, At, Reading, Deciding, Deleting
<1>2. CallInv(c)'
  <2>1. Up BY CallFacts DEF CallInv, Serving, Reading
  <2> QED BY <2>1 DEF CallInv, Serving, At, In, Fenced, Reading, Deciding, Judging, Up, Pure, KeepManager
<1>3. call'[c].pc \in StepsOf[call'[c].op] BY StepsOfIs
<1>4. ~Counts(c)' /\ ~At(c, "s_register") /\ ~At(c, "d_mem")
  BY DEF Counts, At, Reading, Mutations
<1> QED BY <1>1, <1>2, <1>3, <1>4, GoPure

LEMMA GetFastPure ==
    ASSUME RegistryInv, NEW c \in Clients, GetFast(c)
    PROVE  PureMove(c)
<1> USE CallFacts
<1>0. At(c, "g_fast") /\ call[c].op \in {"get", "list"} /\ Pure
  BY StepsOfIs DEF GetFast, At, AllOps, Reading, Deciding, Deleting
<1>1. CASE running = 0
  <2>1. Go(c, "g_fence") BY <1>1 DEF GetFast
  <2>2. CallType' /\ Untouched(c) /\ Stepped(c, "g_fence") /\ lock' = lock /\ calls' = calls
    BY <2>1, GoMoves DEF CallSteps
  <2> QED BY <1>0, <2>2, ReadGoes DEF Stepped, CallInv, At
<1>2. CASE running # 0
  <2>1. call' = [call EXCEPT ![c].pc = "g_body", ![c].gen = running] /\ UNCHANGED <<calls, lock>>
    BY <1>2 DEF GetFast
  <2>2. /\ CallType' /\ Untouched(c) /\ call'[c].op = call[c].op
        /\ call'[c].pc = "g_body" /\ call'[c].gen = running
    <3>1. CallType /\ running \in Nat BY CallFacts
    <3>2. "g_body" \in CallSteps BY DEF CallSteps
    <3> HIDE CallFacts
    <3> QED BY <2>1, <3>1, <3>2 DEF CallType, CallRecords, Untouched
  <2>3. running <= gen BY CallFacts
  <2> QED BY <1>0, <2>1, <2>2, <2>3, ReadGoes DEF At
<1> QED BY <1>1, <1>2

LEMMA GetFencedPure ==
    ASSUME RegistryInv, NEW c \in Clients, GetFenced(c)
    PROVE  PureMove(c)
<1> USE CallFacts
<1>0. At(c, "g_fence") /\ call[c].op \in {"get", "list"} /\ Pure
  BY StepsOfIs DEF GetFenced, At, AllOps, Reading, Deciding, Deleting
<1>1. CASE \E a \in Answers : Return(c, a)
  BY <1>0, <1>1, ReturnPure DEF At
<1>2. CASE call' = [call EXCEPT ![c].pc = "g_body", ![c].gen = running] /\ UNCHANGED <<calls, lock>>
  <2>2. /\ CallType' /\ Untouched(c) /\ call'[c].op = call[c].op
        /\ call'[c].pc = "g_body" /\ call'[c].gen = running
    <3>1. CallType /\ running \in Nat BY CallFacts
    <3>2. "g_body" \in CallSteps BY DEF CallSteps
    <3> HIDE CallFacts
    <3> QED BY <1>2, <3>1, <3>2 DEF CallType, CallRecords, Untouched
  <2>3. running <= gen BY CallFacts
  <2> QED BY <1>0, <1>2, <2>2, <2>3, ReadGoes DEF At
<1>3. CASE Go(c, "t_draft")
  <2>2. CallType' /\ Untouched(c) /\ Stepped(c, "t_draft") /\ lock' = lock /\ calls' = calls
    BY <1>3, GoMoves DEF CallSteps
  <2> QED BY <1>0, <2>2, ReadGoes DEF Stepped, CallInv, At, Reading
<1>4. {"deleting", "error", "absent", body.status} \subseteq Answers BY DEF Answers
<1> QED BY <1>1, <1>2, <1>3, <1>4 DEF GetFenced

\* The answers a running session's body may have.
LEMMA RunningAnswers == RunningBody \subseteq {"running", "error"} /\ RunningBody \subseteq Answers
BY DEF RunningBody, Answers

LEMMA GetBodyPure ==
    ASSUME RegistryInv, NEW c \in Clients, GetBody(c)
    PROVE  PureMove(c)
<1>0. At(c, "g_body") /\ call[c].op \in {"get", "list"} /\ Pure /\ UNCHANGED <<calls, lock>>
  BY CallFacts, StepsOfIs DEF GetBody, At, AllOps, Reading, Deciding, Deleting
<1>1. PICK a \in Answers : call' = [call EXCEPT ![c].pc = "g_check", ![c].ans = a]
  BY RunningAnswers DEF GetBody
<1>2. /\ CallType' /\ Untouched(c)
      /\ call'[c].pc = "g_check" /\ call'[c].op = call[c].op /\ call'[c].gen = call[c].gen
  <2>1. CallType /\ "g_check" \in CallSteps BY CallFacts DEF CallSteps
  <2> QED BY <1>1, <2>1, ErrorMoves
<1>3. call[c].gen <= gen BY CallFacts DEF CallInv
<1> QED BY <1>0, <1>2, <1>3, ReadGoes DEF At

LEMMA GetCheckPure ==
    ASSUME RegistryInv, NEW c \in Clients, GetCheck(c)
    PROVE  PureMove(c)
<1> USE CallFacts
<1>0. At(c, "g_check") /\ call[c].op \in {"get", "list"} /\ Pure
  BY StepsOfIs DEF GetCheck, At, AllOps, Reading, Deciding, Deleting
<1>1. CASE \E a \in Answers : Return(c, a)
  BY <1>0, <1>1, ReturnPure DEF At
<1>3. CASE Go(c, "t_draft")
  <2>2. CallType' /\ Untouched(c) /\ Stepped(c, "t_draft") /\ lock' = lock /\ calls' = calls
    BY <1>3, GoMoves DEF CallSteps
  <2> QED BY <1>0, <2>2, ReadGoes DEF Stepped, CallInv, At, Reading
<1>4. {call[c].ans, body.status} \subseteq Answers BY DEF Answers, CallType, CallRecords
<1> QED BY <1>1, <1>3, <1>4 DEF GetCheck

LEMMA ListIdsPure ==
    ASSUME RegistryInv, NEW c \in Clients, ListIds(c)
    PROVE  PureMove(c)
<1> USE CallFacts
<1>0. At(c, "l_ids") /\ call[c].op \in {"get", "list"} /\ Pure
  BY StepsOfIs DEF ListIds, At, AllOps, Reading, Deciding, Deleting
<1>1. CASE \E a \in Answers : Return(c, a)
  BY <1>0, <1>1, ReturnPure DEF At
<1>3. CASE Go(c, "g_fast")
  <2>2. CallType' /\ Untouched(c) /\ Stepped(c, "g_fast") /\ lock' = lock /\ calls' = calls
    BY <1>3, GoMoves DEF CallSteps
  <2> QED BY <1>0, <2>2, ReadGoes DEF Stepped, CallInv, At
<1>4. "empty" \in Answers BY DEF Answers
<1> QED BY <1>1, <1>3, <1>4 DEF ListIds

\* A read that goes on, whatever call it belongs to.
LEMMA ReadingGoes ==
    ASSUME RegistryInv, NEW c \in Clients, Pure, CallType', Untouched(c), UNCHANGED <<calls, lock>>,
           call'[c].op = call[c].op, call'[c].gen = call[c].gen,
           call[c].pc \in {"u_look"} \cup Reading, call'[c].pc \in Reading,
           In(c, Judging)' => "finished" \in disk
    PROVE  PureMove(c)
<1>0. call[c].op \in AllOps /\ (call[c].pc = "u_look" => call[c].op \in Mutations)
  BY CallFacts, StepsOfIs DEF AllOps, Mutations, Reading, Deciding, Deleting
<1>1. \A l \in Locks : Holds(c, l)' <=> Holds(c, l)
  BY <1>0 DEF Holds, Fenced, In, At, Reading, Deciding, Deleting
<1>2. CallInv(c)'
  BY CallFacts
  DEF CallInv, Serving, At, In, Fenced, Reading, Deciding, Judging, Up, Pure, KeepManager, files
<1>3. call'[c].pc \in StepsOf[call'[c].op] BY <1>0, StepsOfIs DEF AllOps
<1>4. (Counts(c)' => Counts(c)) /\ ~At(c, "s_register") /\ ~At(c, "d_mem")
  BY DEF Counts, At, Reading
<1> QED BY <1>1, <1>2, <1>3, <1>4, GoPure

\* A deletion goes on once it has found a terminal, in memory or on disk.
LEMMA DeletionGoes ==
    ASSUME RegistryInv, NEW c \in Clients, Pure, Go(c, "d_intent"), call[c].op = "delete",
           call[c].pc \in {"u_look"} \cup Reading,
           "accepted" \in disk, mem \/ "finished" \in disk
    PROVE  PureMove(c)
<1>1. CallType' /\ Untouched(c) /\ Stepped(c, "d_intent") /\ lock' = lock /\ calls' = calls
  BY CallFacts, GoMoves DEF CallSteps
<1>2. \A l \in Locks : Holds(c, l)' <=> Holds(c, l)
  BY <1>1 DEF Holds, Fenced, In, At, Reading, Deciding, Deleting, Stepped
<1>3. CallInv(c)'
  BY CallFacts, <1>1
  DEF CallInv, Serving, At, In, Fenced, Reading, Deciding, Judging, Up, Pure, KeepManager, files,
      Stepped
<1>4. call'[c].pc \in StepsOf[call'[c].op] BY <1>1, StepsOfIs DEF Stepped
<1>5. (Counts(c)' => Counts(c)) /\ ~At(c, "s_register") /\ ~At(c, "d_mem")
  BY DEF Counts, At, Reading, Mutations
<1> QED BY <1>1, <1>2, <1>3, <1>4, <1>5, GoPure DEF Stepped

\* Nobody else is at a step that holds the fence.
LEMMA FenceHeldOnce ==
    ASSUME RegistryInv, NEW c \in Clients, NEW d \in Clients, NEW l \in Locks, Holds(c, l), Holds(d, l)
    PROVE  c = d
BY DEF RegistryInv, FenceInv

LEMMA GetUnfencedPure ==
    ASSUME RegistryInv, NEW c \in Clients, GetUnfenced(c)
    PROVE  PureMove(c)
<1>0. At(c, "u_look") /\ Pure BY DEF GetUnfenced
<1>1. CASE \E a \in Answers : Return(c, a)
  BY <1>0, <1>1, ReturnPure DEF At
<1>2. CASE Go(c, "t_draft")
  <2>1. CallType' /\ Untouched(c) /\ Stepped(c, "t_draft") /\ lock' = lock /\ calls' = calls
    BY <1>2, CallFacts, GoMoves DEF CallSteps
  <2> QED BY <1>0, <2>1, ReadingGoes DEF Stepped, At, Reading, In, Judging
<1>3. CASE mem /\ call[c].op = "delete" /\ Go(c, "d_intent")
  <2>1. "intent" \notin disk BY <1>0, <1>3, CallFacts DEF CallInv, Fenced, In, At
  <2>2. ASSUME NEW d \in Clients, At(d, "d_mem") PROVE FALSE
    <3>1. Holds(c, "admission") BY <1>0, <1>3 DEF Holds, Fenced, In, At
    <3>2. Holds(d, "admission") BY <2>2 DEF Holds, In, At, Deleting
    <3>3. c = d BY <3>1, <3>2, FenceHeldOnce DEF Locks
    <3> QED BY <3>3, <2>2, <1>0 DEF At
  <2>3. "accepted" \in disk BY <1>3, <2>1, <2>2 DEF RegistryInv, DiskInv
  <2> QED BY <1>0, <1>3, <2>3, DeletionGoes DEF At
<1>4. {"busy", body.status} \subseteq Answers BY CallFacts DEF Answers
<1>5. CASE running # 0
  <2>1. PICK a \in RunningBody : Return(c, IF call[c].op = "delete" THEN "busy" ELSE a)
    BY <1>5 DEF GetUnfenced
  <2> QED BY <1>1, <1>4, <2>1, RunningAnswers
<1>6. CASE running = 0 BY <1>1, <1>2, <1>3, <1>4, <1>6 DEF GetUnfenced
<1> QED BY <1>5, <1>6

LEMMA ReadDraftPure ==
    ASSUME RegistryInv, NEW c \in Clients, ReadDraft(c)
    PROVE  PureMove(c)
<1>0. At(c, "t_draft") /\ Pure BY DEF ReadDraft
<1>1. CASE Return(c, "error")
  BY <1>0, <1>1, ReturnPure DEF At, Answers
<1>2. CASE Go(c, "t_finished")
  <2>1. CallType' /\ Untouched(c) /\ Stepped(c, "t_finished") /\ lock' = lock /\ calls' = calls
    BY <1>2, CallFacts, GoMoves DEF CallSteps
  <2> QED BY <1>0, <2>1, ReadingGoes DEF Stepped, At, Reading, In, Judging
<1> QED BY <1>1, <1>2 DEF ReadDraft

\* A call that meets a body remembers it.
LEMMA BodyMoves ==
    ASSUME CallType, NEW c \in Clients, NEW p \in CallSteps, NEW b \in Bodies,
           call' = [call EXCEPT ![c].pc = p, ![c].body = b]
    PROVE  /\ CallType' /\ Untouched(c)
           /\ call'[c].pc = p /\ call'[c].op = call[c].op /\ call'[c].gen = call[c].gen
           /\ call'[c].body = b /\ call'[c].ans = call[c].ans
BY DEF CallType, CallRecords, Untouched

LEMMA ReadFinishedPure ==
    ASSUME RegistryInv, NEW c \in Clients, ReadFinished(c)
    PROVE  PureMove(c)
<1>0. At(c, "t_finished") /\ Pure BY DEF ReadFinished
<1>1. CASE "finished" \notin disk
  BY <1>0, <1>1, ReturnPure DEF ReadFinished, At, Answers
<1>2. CASE "finished" \in disk
  <2>1. call' = [call EXCEPT ![c].pc = "t_accepted", ![c].body = body] /\ UNCHANGED <<calls, lock>>
    BY <1>2 DEF ReadFinished
  <2>2. /\ CallType' /\ Untouched(c)
        /\ call'[c].pc = "t_accepted" /\ call'[c].op = call[c].op /\ call'[c].gen = call[c].gen
    <3>1. CallType /\ body \in Bodies BY DEF RegistryInv, RegistryType, CallType
    <3> QED BY <2>1, <3>1, BodyMoves DEF CallSteps
  <2> QED BY <1>0, <1>2, <2>1, <2>2, ReadingGoes DEF At, Reading
<1> QED BY <1>1, <1>2

LEMMA ReadRecordsPure ==
    ASSUME RegistryInv, NEW c \in Clients, ReadAccepted(c) \/ ReadProgress(c)
    PROVE  PureMove(c)
<1>0. call[c].pc \in {"t_accepted", "t_progress"} /\ Pure BY DEF ReadAccepted, ReadProgress, At
<1>1. CASE Return(c, "error")
  BY <1>0, <1>1, ReturnPure DEF At, Answers
<1>2. ASSUME NEW p \in {"t_progress", "t_storage"}, Go(c, p) PROVE PureMove(c)
  <2>1. CallType' /\ Untouched(c) /\ Stepped(c, p) /\ lock' = lock /\ calls' = calls
    BY <1>2, CallFacts, GoMoves DEF CallSteps
  <2>2. CASE Fenced(c)
    <3>1. "finished" \in disk
      BY <1>0, <2>2, CallFacts DEF CallInv, In, Judging
    <3> QED BY <1>0, <2>1, <3>1, ReadingGoes DEF Stepped, At, Reading, In
  <2>3. CASE ~Fenced(c)
    <3>1. call[c].op \in {"get", "list", "cancel"}
      BY <1>0, <2>3, CallFacts, StepsOfIs DEF AllOps, Fenced, In, Reading, Deciding, Deleting
    <3>2. \A l \in Locks : Holds(c, l)' <=> Holds(c, l)
      BY <1>0, <2>1, <3>1 DEF Holds, Fenced, In, At, Reading, Deciding, Deleting, Stepped
    <3>3. CallInv(c)'
      BY CallFacts, <1>0, <2>1, <3>1
      DEF CallInv, Serving, At, In, Fenced, Reading, Deciding, Judging, Up, Pure, KeepManager, Stepped
    <3>4. call'[c].pc \in StepsOf[call'[c].op] BY <2>1, <3>1, StepsOfIs DEF Stepped, Reading
    <3>5. (Counts(c)' => Counts(c)) /\ ~At(c, "s_register") /\ ~At(c, "d_mem")
      BY <1>0, <2>1 DEF Counts, At, Stepped
    <3> QED BY <1>0, <2>1, <3>2, <3>3, <3>4, <3>5, GoPure DEF Stepped
  <2> QED BY <2>2, <2>3
<1> QED BY <1>1, <1>2 DEF ReadAccepted, ReadProgress

LEMMA ReadStoragePure ==
    ASSUME RegistryInv, NEW c \in Clients, ReadStorage(c)
    PROVE  PureMove(c)
<1>0. At(c, "t_storage") /\ Pure BY DEF ReadStorage
<1>1. CASE \E a \in Answers : Return(c, a)
  BY <1>0, <1>1, ReturnPure DEF At
<1>2. CASE call[c].op = "delete" /\ Go(c, "d_intent")
  <2>1. "finished" \in disk /\ "intent" \notin disk
    BY <1>0, <1>2, CallFacts DEF CallInv, Fenced, In, At, Reading, Judging
  <2>2. "accepted" \in disk BY <2>1 DEF RegistryInv, DiskInv
  <2> QED BY <1>0, <1>2, <2>1, <2>2, DeletionGoes DEF At, Reading
<1>3. {"error", call[c].body.status} \subseteq Answers
  BY DEF RegistryInv, RegistryType, CallRecords, Bodies, Answers
<1> QED BY <1>1, <1>2, <1>3 DEF ReadStorage

LEMMA SubmitLookPure ==
    ASSUME RegistryInv, NEW c \in Clients, SubmitLook(c)
    PROVE  PureMove(c)
<1>0. At(c, "s_look") /\ Pure /\ call[c].op = "submit"
  BY CallFacts, StepsOfIs DEF SubmitLook, At, AllOps, Reading, Deciding, Deleting
<1>1. CASE \E a \in Answers : Return(c, a)
  BY <1>0, <1>1, ReturnPure DEF At
<1>2. CASE /\ "intent" \notin disk /\ running = 0 /\ Free("admission") /\ Free("inner")
           /\ call' = [call EXCEPT ![c].pc = IF "accepted" \in disk THEN "u_look" ELSE "s_valid"]
           /\ Taken(c, {"admission"}) /\ UNCHANGED calls
  <2> DEFINE p == IF "accepted" \in disk THEN "u_look" ELSE "s_valid"
  <2>1. CallType' /\ Untouched(c) /\ Stepped(c, p)
    BY <1>2, CallFacts, StepMoves DEF CallSteps
  <2>2. \A l \in Locks : Holds(c, l)' <=> (Holds(c, l) \/ l \in {"admission"})
    BY <1>0, <2>1 DEF Holds, Fenced, In, At, Reading, Deciding, Deleting, Stepped
  <2>3. ASSUME "accepted" \notin disk PROVE disk = {} /\ ~mem
    <3>1. ASSUME NEW d \in Clients PROVE ~At(d, "d_mem")
      BY <1>2, RegistryAssumption
      DEF RegistryInv, FenceInv, Locks, Holds, In, At, Deleting, Free, Nobody
    <3> QED BY <1>2, <2>3, <3>1 DEF RegistryInv, DiskInv
  <2>4. CallInv(c)'
    BY CallFacts, <1>0, <1>2, <2>1, <2>3
    DEF CallInv, Serving, At, In, Fenced, Reading, Deciding, Judging, Up, Pure, KeepManager, files,
        Stepped
  <2>5. call'[c].pc \in StepsOf[call'[c].op] BY <1>0, <2>1, StepsOfIs DEF Stepped
  <2>6. (Counts(c)' => Counts(c)) /\ ~At(c, "s_register") /\ ~At(c, "d_mem")
    BY <1>0, <2>1 DEF Counts, At, Stepped
  <2>7. {"admission"} \in SUBSET Locks BY DEF Locks
  <2> QED BY <1>0, <1>2, <2>1, <2>2, <2>4, <2>5, <2>6, <2>7, TakePure DEF Stepped
<1>3. {"down", "deleting", "conflict"} \cup RunningBody \subseteq Answers
  BY RunningAnswers DEF Answers
<1>4. CASE stopping \/ "intent" \in disk BY <1>1, <1>3, <1>4 DEF SubmitLook
<1>5. CASE ~stopping /\ "intent" \notin disk /\ running # 0
  <2>1. PICK a \in RunningBody \cup {"conflict"} : Return(c, a) BY <1>5 DEF SubmitLook
  <2> QED BY <1>1, <1>3, <2>1
<1>6. CASE ~stopping /\ "intent" \notin disk /\ running = 0
  BY <1>1, <1>2, <1>3, <1>6 DEF SubmitLook
<1> QED BY <1>4, <1>5, <1>6

LEMMA SubmitBodyPure ==
    ASSUME RegistryInv, NEW c \in Clients, SubmitBody(c)
    PROVE  PureMove(c)
<1>1. PICK a \in Answers : Return(c, a) BY RunningAnswers DEF SubmitBody
<1>2. Pure /\ ~At(c, "s_register") /\ ~At(c, "d_mem") BY DEF SubmitBody, At
<1> QED BY <1>1, <1>2, ReturnPure

LEMMA SubmitValidatePure ==
    ASSUME RegistryInv, NEW c \in Clients, SubmitValidate(c)
    PROVE  PureMove(c)
<1>0. At(c, "s_valid") /\ Pure /\ call[c].op = "submit"
  BY CallFacts, StepsOfIs DEF SubmitValidate, At, AllOps, Reading, Deciding, Deleting
<1>1. CASE Return(c, "invalid")
  BY <1>0, <1>1, ReturnPure DEF At, Answers
<1>2. CASE Go(c, "s_accept")
  <2>1. CallType' /\ Untouched(c) /\ Stepped(c, "s_accept") /\ lock' = lock /\ calls' = calls
    BY <1>2, CallFacts, GoMoves DEF CallSteps
  <2>2. \A l \in Locks : Holds(c, l)' <=> Holds(c, l)
    BY <1>0, <2>1 DEF Holds, Fenced, In, At, Reading, Deciding, Deleting, Stepped
  <2>3. CallInv(c)'
    BY CallFacts, <1>0, <2>1
    DEF CallInv, Serving, At, In, Fenced, Reading, Deciding, Judging, Up, Pure, KeepManager, files,
        Stepped
  <2>4. call'[c].pc \in StepsOf[call'[c].op] BY <1>0, <2>1, StepsOfIs DEF Stepped
  <2>5. (Counts(c)' => Counts(c)) /\ ~At(c, "s_register") /\ ~At(c, "d_mem")
    BY <1>0, <2>1 DEF Counts, At, Stepped
  <2> QED BY <1>0, <2>1, <2>2, <2>3, <2>4, <2>5, GoPure DEF Stepped
<1> QED BY <1>1, <1>2 DEF SubmitValidate

\* The steps of a cancellation that only look.
LEMMA CancelGoes ==
    ASSUME RegistryInv, NEW c \in Clients, Pure, CallType', Untouched(c), UNCHANGED <<calls, lock>>,
           call'[c].op = call[c].op, call[c].op = "cancel",
           call[c].pc \in {"c_fast", "c_fence", "c_decide", "c_final"},
           call'[c].pc \in {"c_fence", "c_decide", "c_final", "u_look"}, call'[c].gen <= gen,
           call'[c].pc = "c_decide" => running # 0
    PROVE  PureMove(c)
<1>1. \A l \in Locks : Holds(c, l)' <=> Holds(c, l)
  BY DEF Holds, Fenced, In, At, Reading, Deciding, Deleting
<1>2. CallInv(c)'
  BY CallFacts
  DEF CallInv, Serving, At, In, Fenced, Reading, Deciding, Judging, Up, Pure, KeepManager
<1>3. call'[c].pc \in StepsOf[call'[c].op] BY StepsOfIs
<1>4. (Counts(c)' => Counts(c)) /\ ~At(c, "s_register") /\ ~At(c, "d_mem")
  BY DEF Counts, At
<1> QED BY <1>1, <1>2, <1>3, <1>4, GoPure

LEMMA CancelLookPure ==
    ASSUME RegistryInv, NEW c \in Clients, CancelLook(c)
    PROVE  PureMove(c)
<1>0. call[c].pc \in {"c_fast", "c_fence"} /\ Pure /\ call[c].op = "cancel"
  BY CallFacts, StepsOfIs DEF CancelLook, At, AllOps, Reading, Deciding, Deleting
<1>1. CASE running # 0
  <2>1. call' = [call EXCEPT ![c].pc = "c_decide", ![c].gen = running] /\ UNCHANGED <<calls, lock>>
    BY <1>1 DEF CancelLook
  <2>2. CallType /\ running \in Nat /\ running <= gen BY CallFacts
  <2>3. /\ CallType' /\ Untouched(c) /\ call'[c].op = call[c].op
        /\ call'[c].pc = "c_decide" /\ call'[c].gen = running
    <3>1. "c_decide" \in CallSteps BY DEF CallSteps
    <3> QED BY <2>1, <2>2, <3>1 DEF CallType, CallRecords, Untouched
  <2> QED BY <1>0, <1>1, <2>1, <2>2, <2>3, CancelGoes
<1>2. CASE running = 0
  <2>1. PICK p \in {"c_fence", "u_look"} : Go(c, p) BY <1>2 DEF CancelLook
  <2>2. CallType' /\ Untouched(c) /\ Stepped(c, p) /\ lock' = lock /\ calls' = calls
    BY <2>1, CallFacts, GoMoves DEF CallSteps
  <2>3. call'[c].gen <= gen BY <2>2, CallFacts DEF Stepped, CallInv
  <2> QED BY <1>0, <2>2, <2>3, CancelGoes DEF Stepped
<1> QED BY <1>1, <1>2

LEMMA CancelDecidePure ==
    ASSUME RegistryInv, NEW c \in Clients, CancelDecide(c)
    PROVE  PureMove(c)
<1>0. At(c, "c_decide") /\ Pure /\ call[c].op = "cancel"
  BY CallFacts, StepsOfIs DEF CancelDecide, At, AllOps, Reading, Deciding, Deleting
<1>1. CASE Go(c, "c_final")
  <2>2. CallType' /\ Untouched(c) /\ Stepped(c, "c_final") /\ lock' = lock /\ calls' = calls
    BY <1>1, CallFacts, GoMoves DEF CallSteps
  <2>3. call'[c].gen <= gen BY <2>2, CallFacts DEF Stepped, CallInv
  <2> QED BY <1>0, <2>2, <2>3, CancelGoes DEF Stepped, At
<1>2. CASE /\ call[c].gen = gen /\ ~decided /\ Free("decision") /\ Taken(c, {"decision"})
           /\ call' = [call EXCEPT ![c].pc = "c_check"] /\ UNCHANGED calls
  <2>1. CallType' /\ Untouched(c) /\ Stepped(c, "c_check")
    BY <1>2, CallFacts, StepMoves DEF CallSteps
  <2>2. \A l \in Locks : Holds(c, l)' <=> (Holds(c, l) \/ l \in {"decision"})
    BY <1>0, <2>1 DEF Holds, Fenced, In, At, Reading, Deciding, Deleting, Stepped
  <2>4. CallInv(c)'
    BY CallFacts, <1>0, <1>2, <2>1
    DEF CallInv, Serving, At, In, Fenced, Reading, Deciding, Judging, Up, Pure, KeepManager, Stepped
  <2>5. call'[c].pc \in StepsOf[call'[c].op] BY <1>0, <2>1, StepsOfIs DEF Stepped, Deciding
  <2>6. (Counts(c)' => Counts(c)) /\ ~At(c, "s_register") /\ ~At(c, "d_mem")
    BY <1>0, <2>1 DEF Counts, At, Stepped
  <2>7. {"decision"} \in SUBSET Locks /\ "admission" \notin {"decision"} BY DEF Locks
  <2> QED BY <1>0, <1>2, <2>1, <2>2, <2>4, <2>5, <2>6, <2>7, TakePure DEF Stepped
<1> QED BY <1>1, <1>2 DEF CancelDecide

LEMMA CancelFinalPure ==
    ASSUME RegistryInv, NEW c \in Clients, CancelFinal(c)
    PROVE  PureMove(c)
<1>0. At(c, "c_final") /\ Pure /\ call[c].op = "cancel"
  BY CallFacts, StepsOfIs DEF CancelFinal, At, AllOps, Reading, Deciding, Deleting
<1>1. CASE Return(c, "finalizing")
  BY <1>0, <1>1, ReturnPure DEF At, Answers
<1>2. CASE Go(c, "u_look")
  <2>2. CallType' /\ Untouched(c) /\ Stepped(c, "u_look") /\ lock' = lock /\ calls' = calls
    BY <1>2, CallFacts, GoMoves DEF CallSteps
  <2>3. call'[c].gen <= gen BY <2>2, CallFacts DEF Stepped, CallInv
  <2> QED BY <1>0, <2>2, <2>3, CancelGoes DEF Stepped, At
<1> QED BY <1>1, <1>2 DEF CancelFinal

\* The entry cannot be gone while terminal_decision is held.
LEMMA CancelCheckPure ==
    ASSUME RegistryInv, NEW c \in Clients, CancelCheck(c)
    PROVE  PureMove(c)
<1>0. At(c, "c_check") /\ Pure /\ call[c].op = "cancel" /\ running # 0
  BY CallFacts, StepsOfIs
  DEF CancelCheck, At, AllOps, Reading, Deciding, Deleting, CallInv, In
<1>2. Go(c, "c_launch") BY <1>0 DEF CancelCheck
<1>3. CallType' /\ Untouched(c) /\ Stepped(c, "c_launch") /\ lock' = lock /\ calls' = calls
  BY <1>2, CallFacts, GoMoves DEF CallSteps
<1>4. \A l \in Locks : Holds(c, l)' <=> Holds(c, l)
  BY <1>0, <1>3 DEF Holds, Fenced, In, At, Reading, Deciding, Deleting, Stepped
<1>5. CallInv(c)'
  BY CallFacts, <1>0, <1>3
  DEF CallInv, Serving, At, In, Fenced, Reading, Deciding, Judging, Up, Pure, KeepManager, Stepped
<1>6. call'[c].pc \in StepsOf[call'[c].op] BY <1>0, <1>3, StepsOfIs DEF Stepped, Deciding
<1>7. (Counts(c)' => Counts(c)) /\ ~At(c, "s_register") /\ ~At(c, "d_mem")
  BY <1>0, <1>3 DEF Counts, At, Stepped
<1> QED BY <1>0, <1>3, <1>4, <1>5, <1>6, <1>7, GoPure DEF Stepped

LEMMA CancelLaunchPure ==
    ASSUME RegistryInv, NEW c \in Clients, CancelLaunch(c)
    PROVE  PureMove(c)
<1>0. At(c, "c_launch") /\ Pure /\ call[c].op = "cancel"
  BY CallFacts, StepsOfIs DEF CancelLaunch, At, AllOps, Reading, Deciding, Deleting
<1>1. CallType' /\ Untouched(c) /\ Stepped(c, "c_intent")
  BY CallFacts, StepMoves DEF CallSteps, CancelLaunch
<1>2. \A l \in Locks : Holds(c, l)' <=> (Holds(c, l) \/ l \in {"launch"})
  BY <1>0, <1>1 DEF Holds, Fenced, In, At, Reading, Deciding, Deleting, Stepped
<1>3. CallInv(c)'
  BY CallFacts, <1>0, <1>1
  DEF CallInv, Serving, At, In, Fenced, Reading, Deciding, Judging, Up, Pure, KeepManager, Stepped
<1>4. call'[c].pc \in StepsOf[call'[c].op] BY <1>0, <1>1, StepsOfIs DEF Stepped, Deciding
<1>5. (Counts(c)' => Counts(c)) /\ ~At(c, "s_register") /\ ~At(c, "d_mem")
  BY <1>0, <1>1 DEF Counts, At, Stepped
<1>6. /\ {"launch"} \in SUBSET Locks /\ "admission" \notin {"launch"}
      /\ Free("launch") /\ Taken(c, {"launch"}) /\ UNCHANGED calls
  BY DEF Locks, CancelLaunch
<1> QED BY <1>0, <1>1, <1>2, <1>3, <1>4, <1>5, <1>6, TakePure DEF Stepped

LEMMA DeleteLookPure ==
    ASSUME RegistryInv, NEW c \in Clients, DeleteLook(c)
    PROVE  PureMove(c)
<1>0. At(c, "d_look") /\ Pure /\ call[c].op = "delete"
  BY CallFacts, StepsOfIs DEF DeleteLook, At, AllOps, Reading, Deciding, Deleting
<1>1. CASE Return(c, "busy")
  BY <1>0, <1>1, ReturnPure DEF At, Answers
<1>2. CASE /\ running = 0 /\ Free("admission") /\ Free("inner")
           /\ call' = [call EXCEPT ![c].pc = IF "intent" \in disk THEN "d_tree" ELSE "u_look"]
           /\ Taken(c, {"admission"}) /\ UNCHANGED calls
  <2> DEFINE p == IF "intent" \in disk THEN "d_tree" ELSE "u_look"
  <2>1. CallType' /\ Untouched(c) /\ Stepped(c, p)
    BY <1>2, CallFacts, StepMoves DEF CallSteps
  <2>2. \A l \in Locks : Holds(c, l)' <=> (Holds(c, l) \/ l \in {"admission"})
    BY <1>0, <2>1 DEF Holds, Fenced, In, At, Reading, Deciding, Deleting, Stepped
  <2>4. CallInv(c)'
    BY CallFacts, <1>0, <1>2, <2>1
    DEF CallInv, Serving, At, In, Fenced, Reading, Deciding, Judging, Up, Pure, KeepManager, files,
        Stepped
  <2>5. call'[c].pc \in StepsOf[call'[c].op] BY <1>0, <2>1, StepsOfIs DEF Stepped, Deleting
  <2>6. (Counts(c)' => Counts(c)) /\ ~At(c, "s_register") /\ ~At(c, "d_mem")
    BY <1>0, <2>1 DEF Counts, At, Stepped
  <2>7. {"admission"} \in SUBSET Locks BY DEF Locks
  <2> QED BY <1>0, <1>2, <2>1, <2>2, <2>4, <2>5, <2>6, <2>7, TakePure DEF Stepped
<1> QED BY <1>1, <1>2 DEF DeleteLook

-----------------------------------------------------------------------------
(* Publications.                                                           *)

\* Appending to a sequence, and its last element.
LEMMA AppendSeq ==
    ASSUME NEW S, NEW s \in Seq(S), NEW e \in S
    PROVE  Append(s, e) \in Seq(S) /\ Append(s, e) # <<>> /\ Len(Append(s, e)) = Len(s) + 1
<1>1. Append(s, e) \in Seq(S) /\ Len(Append(s, e)) = Len(s) + 1 /\ Len(s) \in Nat OBVIOUS
<1>2. Len(<<>>) = 0 OBVIOUS
<1>3. Len(Append(s, e)) # Len(<<>>) BY <1>1, <1>2
<1> QED BY <1>1, <1>3

LEMMA LastOfSeq ==
    ASSUME NEW S, NEW s \in Seq(S), s # <<>>
    PROVE  s[Len(s)] \in S
OBVIOUS

\* A history begins itself and whatever extends it.
LEMMA BeginsItself ==
    ASSUME NEW h \in Histories
    PROVE  Begins(h, h)
BY DEF Begins, Histories

LEMMA BeginsExtended ==
    ASSUME NEW s \in Histories, NEW t \in Histories, Begins(s, t),
           NEW e \in [phase : Phases, count : 0..MaxCount]
    PROVE  Begins(s, Append(t, e))
BY DEF Begins, Histories

\* What a publication, whatever comes of it, leaves of the histories.
HistoryMoved(fails) ==
    /\ ProgressType' /\ durable' \in Histories
    /\ events' # <<>> /\ Begins(durable', events')
    /\ Begins(durable, file) => Begins(durable', file')
    /\ Begins(durable, synced) => Begins(durable', synced')
    /\ (~unread => events = file) => (~unread' => events' = file')
    /\ unread' => unread \/ fails
    /\ next' => next \/ fails
    /\ file # <<>> => file' # <<>>
    /\ synced # <<>> => synced' # <<>>

LEMMA PublishMoves ==
    ASSUME ProgressType, durable \in Histories, events # <<>>, Begins(durable, events),
           NEW phase \in Phases, NEW count \in 0..MaxCount, NEW io \in BOOLEAN, NEW ok \in BOOLEAN,
           Publish(phase, count, io, ok), Acknowledged(ok)
    PROVE  HistoryMoved(~ok /\ io) /\ (ok => file' = events')
<1> DEFINE new == Extended(phase, count)
<1>0. [phase |-> phase, count |-> count] \in [phase : Phases, count : 0..MaxCount]
  OBVIOUS
<1>1. new \in Histories /\ new # <<>> /\ Len(new) = Len(events) + 1
  <2>1. events \in Seq([phase : Phases, count : 0..MaxCount]) BY DEF Histories, ProgressType
  <2> QED BY <1>0, <2>1, AppendSeq DEF Extended, Histories
<1>2. Begins(durable, new)
  BY <1>0, BeginsExtended DEF Extended, ProgressType
<1>3. Begins(new, new) BY <1>1, BeginsItself
<1>4. {events, file, synced} \subseteq Histories /\ Len(events) <= MaxRevisions /\ Len(events) \in Nat
  BY DEF ProgressType, Histories
<1> HIDE DEF new
<1>5. CASE ok /\ PublishOk(phase, count)
  <2>1. /\ events' = new /\ file' = new /\ synced' = new /\ durable' = new
        /\ UNCHANGED <<failed, next, unread>> /\ Len(events) < MaxRevisions
    BY <1>5 DEF PublishOk, Replaced, MayPublish, Acknowledged, new
  <2>2. ProgressType'
    BY <1>1, <1>4, <2>1, ProgressAssumption DEF ProgressType
  <2> QED BY <1>1, <1>3, <1>5, <2>1, <2>2 DEF HistoryMoved
<1>6. CASE ~ok /\ PublishError(phase, count, io)
  <2>0. durable' = durable BY <1>6 DEF Acknowledged
  <2>1. CASE events' = events /\ UNCHANGED <<file, synced, unread, next>> /\ failed' \in BOOLEAN
    BY <1>6, <2>0, <2>1 DEF HistoryMoved, ProgressType
  <2>2. CASE io /\ MayPublish(count) /\ PublishedUnsynced(new)
    BY <1>1, <1>2, <1>4, <1>6, <2>0, <2>2, ProgressAssumption
    DEF HistoryMoved, ProgressType, PublishedUnsynced, MayPublish
  <2>3. CASE io /\ MayPublish(count) /\ PublishedUnread(new)
    BY <1>1, <1>2, <1>4, <1>6, <2>0, <2>3, ProgressAssumption
    DEF HistoryMoved, ProgressType, PublishedUnread, MayPublish
  <2>4. CASE io /\ MayPublish(count) /\ Unpublished
    BY <1>6, <2>0, <2>4 DEF HistoryMoved, ProgressType, Unpublished
  <2> QED
    BY <1>6, <2>1, <2>2, <2>3, <2>4 DEF PublishError, progress, ProgressType, new
<1> QED BY <1>5, <1>6 DEF Publish

\* The counters of the latest revision are counters.
LEMMA LatestType ==
    ASSUME ProgressType, events # <<>>
    PROVE  Latest.count \in 0..MaxCount
<1>1. events \in Seq([phase : Phases, count : 0..MaxCount]) BY DEF Histories, ProgressType
<1>2. Latest \in [phase : Phases, count : 0..MaxCount] BY <1>1, LastOfSeq DEF Latest
<1> QED BY <1>2

\* A publication of a cancellation, unless there already is one.
LEMMA CancellingMoves ==
    ASSUME ProgressType, durable \in Histories, events # <<>>, Begins(durable, events),
           NEW count \in 0..MaxCount, NEW io \in BOOLEAN, NEW ok \in BOOLEAN,
           IF AlreadyCancelling THEN ok /\ UNCHANGED <<progress, durable>>
           ELSE Publish("Cancelling", count, io, ok) /\ Acknowledged(ok)
    PROVE  HistoryMoved(~ok /\ io)
<1>1. CASE AlreadyCancelling
  BY <1>1 DEF HistoryMoved, ProgressType, progress
<1>2. CASE ~AlreadyCancelling
  BY <1>2, PublishMoves DEF Phases
<1> QED BY <1>1, <1>2

\* What the other operations on the file do to the types.
LEMMA RemovedType ==
    ASSUME ProgressType, Removed
    PROVE  ProgressType' /\ file' = <<>> /\ synced' = <<>>
<1>1. /\ events' = events /\ file' = <<>> /\ synced' = <<>>
      /\ next' = FALSE /\ failed' = failed /\ unread' = unread
  BY DEF Removed
<1>2. /\ events \in Histories /\ Len(events) <= MaxRevisions /\ 0 <= MaxRevisions
      /\ {failed, unread} \subseteq BOOLEAN
  BY ProgressAssumption DEF ProgressType
<1>3. <<>> \in Histories /\ Len(<<>>) = 0 BY DEF Histories
<1>4. \A history \in {events', file', synced'} : Len(history) <= MaxRevisions
  BY <1>1, <1>2, <1>3
<1>5. {failed', next', unread'} \subseteq BOOLEAN BY <1>1, <1>2
<1>6. {events', file', synced'} \subseteq Histories BY <1>1, <1>2, <1>3
<1> QED BY <1>1, <1>4, <1>5, <1>6 DEF ProgressType

LEMMA LostType ==
    ASSUME ProgressType, Lost
    PROVE  ProgressType'
<1>1. /\ events' = <<>> /\ file' \in {file, synced} /\ synced' = file'
      /\ next' \in BOOLEAN /\ failed' = FALSE /\ unread' = unread
  BY DEF Lost
<1>2. /\ {file, synced} \subseteq Histories /\ Len(file) <= MaxRevisions /\ Len(synced) <= MaxRevisions
      /\ 0 <= MaxRevisions /\ unread \in BOOLEAN
  BY ProgressAssumption DEF ProgressType
<1>3. <<>> \in Histories /\ Len(<<>>) = 0 BY DEF Histories
<1>4. \A history \in {events', file', synced'} : Len(history) <= MaxRevisions
  BY <1>1, <1>2, <1>3
<1>5. {failed', next', unread'} \subseteq BOOLEAN BY <1>1, <1>2
<1>6. {events', file', synced'} \subseteq Histories BY <1>1, <1>2, <1>3
<1> QED BY <1>4, <1>5, <1>6 DEF ProgressType

LEMMA OpenedType ==
    ASSUME ProgressType, Opened
    PROVE  ProgressType'
BY DEF Opened, ProgressType

LEMMA SyncedType ==
    ASSUME ProgressType, DirectorySynced
    PROVE  ProgressType'
BY DEF DirectorySynced, ProgressType

\* Where nothing is published the histories stay as they are.
LEMMA HistoryStays ==
    ASSUME ProgressType, durable \in Histories, events # <<>>, Begins(durable, events),
           UNCHANGED <<progress, durable>>
    PROVE  HistoryMoved(FALSE)
BY DEF HistoryMoved, ProgressType, progress
=============================================================================
