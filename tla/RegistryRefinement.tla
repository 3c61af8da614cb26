------------------------- MODULE RegistryRefinement -------------------------
(***************************************************************************)
(* The manager implements the resource of SessionResource: every step of   *)
(* it is a step of the resource's life or leaves it alone, and every       *)
(* answer is one that what the call has seen explains.                     *)
(***************************************************************************)
EXTENDS RegistryProofs

\* A step of the resource's life, or none.
Lives ==
    /\ ResourceState' = ResourceState \/ Resource!Follows(ResourceState, ResourceState')
    /\ Ending => Ending' \/ ResourceState' \in {"ended", "cancelled"}
    /\ broken => broken'

\* What such a step may do to what a call relies on.
Turns ==
    /\ Lives
    /\ gen' # gen => ResourceState = "absent"
    /\ body'.status = body.status \/ ResourceState = "running"
    /\ Settled => (Settled' /\ body' = body) \/ ResourceState' = "deleting"

\* A call at a step where it does not hold a running session's body.
NoSnapshot(c) ==
    ~In(c, {"g_body", "g_check", "s_body"}) /\ ~In(c, {"g_body", "g_check"}) /\ ~At(c, "g_check")

\* What becomes of one call in a step.
Explained(c) == Resource!Explains(call[c].op, seen'[c], call'[c].ans)
Moves(c) ==
    \/ ~Serving(c) /\ call'[c] = call[c]
    \/ ~Serving(c) /\ Serving(c)' /\ SeenBy(c)'
    \/ /\ Serving(c) /\ call'[c].op = call[c].op
       /\ IF Serving(c)' THEN SeenBy(c)' ELSE Explained(c)

-----------------------------------------------------------------------------
(* What each state of the resource says of the files and the maps.         *)

LEMMA StateFacts ==
    ASSUME RegistryInv
    PROVE  /\ running # 0 => ResourceState = "running" /\ ~mem
           /\ "intent" \in disk => ResourceState = "deleting"
           /\ ResourceState = "absent" => disk = {} /\ ~mem /\ running = 0
           /\ ResourceState \in {"ended", "cancelled"} =>
                 /\ "accepted" \in disk /\ "intent" \notin disk /\ running = 0
                 /\ ResourceState = body.status
           /\ Settled => "finished" \in disk
           /\ disk = {} /\ ~mem /\ running = 0 => ResourceState = "absent"
           /\ body.status \in {"ended", "cancelled"} /\ body \in Bodies
           /\ ResourceState \in ResourceStates
<1>1. body.status \in {"ended", "cancelled"} /\ body \in Bodies
  BY DEF RegistryInv, RegistryType, Bodies
<1>2. ResourceState \in ResourceStates BY <1>1, ResourceStateType
<1>3. running # 0 => "intent" \notin disk /\ ~mem /\ "accepted" \in disk BY DEF RegistryInv, EntryInv
<1>4. "intent" \notin disk /\ "accepted" \notin disk => disk = {} BY DEF RegistryInv, DiskInv
<1> QED BY <1>1, <1>2, <1>3, <1>4 DEF ResourceState, Settled

\* A resource that is served and has no entry is settled, or absent, unless a
\* deletion is under way, a body is in memory or a call registers an entry.
LEMMA ServedFacts ==
    ASSUME RegistryInv, NEW c \in Clients, Serving(c), running = 0
    PROVE  /\ spc = "none"
           /\ "intent" \notin disk /\ ~mem /\ lock["inner"] \notin Clients =>
                 /\ "draft" \notin disk
                 /\ IF "accepted" \in disk THEN "finished" \in disk /\ Settled
                    ELSE ResourceState = "absent"
           /\ mem /\ "intent" \notin disk =>
                 \/ "accepted" \in disk /\ ResourceState = body.status
                 \/ ResourceState = "deleting" /\ lock["admission"] \in Clients
           /\ Settled => "draft" \notin disk
<1>1. spc = "none" BY DEF RegistryInv, CallInv, EntryInv, Up
<1>2. \A d \in Clients : At(d, "s_register") => lock["inner"] = d
  BY DEF RegistryInv, FenceInv, Holds, Locks
<1>3. \A d \in Clients : At(d, "d_mem") => lock["admission"] = d
  BY DEF RegistryInv, FenceInv, Holds, Locks, In, Deleting, At
<1>4. mem => "accepted" \in disk \/ "intent" \in disk \/ lock["admission"] \in Clients
  BY <1>3 DEF RegistryInv, DiskInv
<1>5. "intent" \notin disk /\ ~mem => "draft" \notin disk BY <1>1 DEF RegistryInv, DiskInv
<1>6. "intent" \notin disk /\ ~mem /\ lock["inner"] \notin Clients /\ "accepted" \in disk =>
        "finished" \in disk
  BY <1>1, <1>2 DEF RegistryInv, DiskInv
<1>7. Settled => "intent" \notin disk /\ ~mem BY StateFacts DEF Settled
<1>8. "intent" \notin disk /\ "accepted" \notin disk => disk = {} BY DEF RegistryInv, DiskInv
<1>9. body.status \in {"ended", "cancelled"} BY StateFacts
<1> QED BY <1>1, <1>4, <1>5, <1>6, <1>7, <1>8, <1>9 DEF ResourceState, Settled

-----------------------------------------------------------------------------
(* A call that does not move.                                              *)

LEMMA BystanderMoves ==
    ASSUME RegistryInv, SeenInv, Witnessed, NEW d \in Clients, call'[d] = call[d], Turns,
           Fenced(d) => ResourceState' = ResourceState
    PROVE  Moves(d)
<1>1. CASE ~Serving(d) BY <1>1 DEF Moves
<1>2. CASE Serving(d)
  <2>1. SeenBy(d) BY <1>2 DEF SeenInv
  <2>2. seen[d] \cup {ResourceState'} \subseteq seen'[d] BY <1>2 DEF Witnessed, Sights
  <2>3. /\ Serving(d)' <=> Serving(d)
        /\ Fenced(d)' <=> Fenced(d)
        /\ In(d, Deleting)' <=> In(d, Deleting)
        /\ In(d, Reading)' <=> In(d, Reading)
        /\ In(d, Judging)' <=> In(d, Judging)
        /\ At(d, "g_check")' <=> At(d, "g_check")
        /\ In(d, {"g_body", "g_check"})' <=> In(d, {"g_body", "g_check"})
        /\ In(d, {"g_body", "g_check", "s_body"})' <=> In(d, {"g_body", "g_check", "s_body"})
    BY DEF Serving, Fenced, In, At, Deleting, Reading, Judging
  <2>4. ResourceState' \in seen'[d] BY <2>2
  <2>5. /\ In(d, {"g_body", "g_check", "s_body"}) => "running" \in seen'[d]
        /\ In(d, {"g_body", "g_check"}) =>
              \/ "deleting" \in seen'[d]
              \/ call'[d].gen = gen' /\ ResourceState' \in {"running", "ended", "cancelled"}
        /\ At(d, "g_check") =>
              \/ call'[d].ans = "running"
              \/ call'[d].ans = "error" /\ ("ending" \in seen'[d] \/ broken')
    <3>1. broken => broken' BY DEF Turns, Lives
    <3>2. In(d, {"g_body", "g_check", "s_body"}) => "running" \in seen'[d] BY <2>1, <2>2 DEF SeenBy
    <3>3. In(d, {"g_body", "g_check"}) =>
            \/ "deleting" \in seen'[d]
            \/ call'[d].gen = gen' /\ ResourceState' \in {"running", "ended", "cancelled"}
      BY <2>1, <2>2 DEF SeenBy, Turns, Lives, Resource!Follows
    <3>4. At(d, "g_check") =>
            \/ call'[d].ans = "running"
            \/ call'[d].ans = "error" /\ ("ending" \in seen'[d] \/ broken')
      BY <2>1, <2>2, <3>1 DEF SeenBy
    <3> QED BY <3>2, <3>3, <3>4
  <2>6. In(d, Reading) =>
          \/ "deleting" \in seen'[d] /\ ~Fenced(d)
          \/ Settled' /\ (In(d, Judging) => call'[d].body = body')
          \/ call[d].op \in {"cancel", "delete"} /\ ResourceState' = "absent" /\ ~In(d, Judging)
          \/ call[d].op = "cancel" /\ {"absent", "running"} \subseteq seen'[d]
    <3>1. CASE "deleting" \in seen[d] /\ ~Fenced(d) BY <2>2, <3>1
    <3>2. CASE Settled /\ (In(d, Judging) => call[d].body = body)
      <4>1. ResourceState # "deleting" BY <3>2 DEF Settled
      <4> QED BY <2>2, <3>2, <4>1 DEF Turns
    <3>3. CASE /\ call[d].op \in {"cancel", "delete"} /\ ResourceState = "absent" /\ ~In(d, Judging)
               /\ In(d, Reading)
      <4>1. ResourceState' \in {"absent", "running"}
        BY <3>3 DEF Turns, Lives, Resource!Follows
      <4>2. call[d].op = "delete" => ResourceState' = ResourceState
        BY <3>3 DEF Fenced, In
      <4>3. ResourceState \in seen[d] BY <2>1 DEF SeenBy
      <4> QED BY <2>2, <3>3, <4>1, <4>2, <4>3
    <3>4. CASE call[d].op = "cancel" /\ {"absent", "running"} \subseteq seen[d] BY <2>2, <3>4
    <3> QED BY <2>1, <3>1, <3>2, <3>3, <3>4 DEF SeenBy
  <2>7. In(d, Reading) /\ call[d].op \in {"get", "list"} =>
          "running" \in seen'[d]
          \/ (IF In(d, Judging) THEN call'[d].body ELSE body').status \in seen'[d]
    BY <2>1, <2>2 DEF SeenBy, Turns
  <2>8. SeenBy(d)' BY <2>1, <2>2, <2>3, <2>4, <2>5, <2>6, <2>7 DEF SeenBy
  <2> QED BY <1>2, <2>3, <2>8 DEF Moves
<1> QED BY <1>1, <1>2

-----------------------------------------------------------------------------
(* A call that moves.                                                      *)

Obliged == {"g_body", "g_check", "s_body"} \cup Reading \cup Deleting

\* It goes on at a step where it relies on nothing it has seen.
LEMMA PlainMoves ==
    ASSUME Witnessed, NEW c \in Clients, Serving(c), call'[c].op = call[c].op,
           call'[c].pc \notin {"idle", "done"} \cup Obliged
    PROVE  Moves(c)
<1>1. seen[c] \cup {ResourceState'} \subseteq seen'[c] BY DEF Witnessed, Sights
<1>2. SeenBy(c)' BY <1>1 DEF SeenBy, In, At, Obliged
<1> QED BY <1>2 DEF Moves, Serving

\* It returns an answer that is explained.
LEMMA AnswerMoves ==
    ASSUME CallType, Witnessed, NEW c \in Clients, Serving(c), NEW a \in Answers, Return(c, a),
           Resource!Explains(call[c].op, seen[c] \cup Sights',
                             IF call[c].op = "list" /\ a = "absent" THEN "empty" ELSE a)
    PROVE  Moves(c)
<1>1. seen'[c] = seen[c] \cup Sights' BY DEF Witnessed
<1>2. /\ call'[c].pc = "done" /\ call'[c].op = call[c].op
      /\ call'[c].ans = (IF call[c].op = "list" /\ a = "absent" THEN "empty" ELSE a)
  BY ReturnMoves
<1>3. ~Serving(c)' BY <1>2 DEF Serving
<1> QED BY <1>1, <1>2, <1>3 DEF Moves, Explained

\* The answers that need no more than one state, an error after a failed
\* operation, and those that need none.
LEMMA SimpleAnswers ==
    ASSUME RegistryInv, Witnessed, NEW c \in Clients, Serving(c), NEW a \in Answers, Return(c, a),
           \/ a \in seen[c] \cup {ResourceState'} /\ a # "absent"
           \/ a \in {"absent", "empty"} /\ "absent" \in seen[c]
           \/ a \in {"busy", "finalizing"} /\ "running" \in seen[c]
           \/ a \in {"absent", "empty", "deleted", "error"} /\ "deleting" \in seen[c]
           \/ a = "error" /\ (broken' \/ "ending" \in seen[c] \cup Sights')
           \/ a = "conflict" /\ seen[c] \cap {"running", "ended", "cancelled"} # {}
           \/ a \in {"invalid", "down", "lost"}
    PROVE  Moves(c)
<1>1. CallType BY DEF RegistryInv, RegistryType, CallType
<1> DEFINE b == IF call[c].op = "list" /\ a = "absent" THEN "empty" ELSE a
<1>2. ResourceState' \in Sights' BY DEF Sights
<1>3. Resource!Explains(call[c].op, seen[c] \cup Sights', b) BY <1>2 DEF Resource!Explains
<1> QED BY <1>1, <1>3, AnswerMoves

\* A step that changes nothing but a call leaves the resource alone.
LEMMA InertTurns ==
    ASSUME Inert
    PROVE  Turns /\ ResourceState' = ResourceState /\ Settled' = Settled
BY DEF Inert, KeepManager, KeepAcks, files, Turns, Lives, ResourceState, Ending, Settled

\* When one call moves, the others stand by.
LEMMA OthersMove ==
    ASSUME RegistryInv, SeenInv, Witnessed, NEW c \in Clients, Untouched(c), Turns, Moves(c),
           ResourceState' = ResourceState \/ lock["admission"] = c
    PROVE  Lives /\ \A d \in Clients : Moves(d)
<1>1. ASSUME NEW d \in Clients, d # c PROVE Moves(d)
  <2>1. call'[d] = call[d] BY <1>1 DEF Untouched
  <2>2. Fenced(d) => lock["admission"] = d BY DEF RegistryInv, FenceInv, Holds, Locks
  <2>3. Fenced(d) => ResourceState' = ResourceState BY <1>1, <2>2
  <2> QED BY <2>1, <2>3, BystanderMoves
<1> QED BY <1>1 DEF Turns

LEMMA PureMoves ==
    ASSUME RegistryInv, SeenInv, Witnessed, NEW c \in Clients, PureMove(c), Moves(c)
    PROVE  Lives /\ \A d \in Clients : Moves(d)
BY InertTurns, OthersMove DEF PureMove

\* The values a call that is served starts from.
LEMMA ServingFacts ==
    ASSUME RegistryInv, SeenInv, NEW c \in Clients, call[c].pc \notin {"idle", "done"}
    PROVE  /\ Serving(c) /\ SeenBy(c) /\ ResourceState \in seen[c] /\ CallType /\ CallInv(c)
           /\ call[c].pc \in StepsOf[call[c].op] /\ call[c].op \in AllOps
           /\ running \in {0, gen}
<1>1. Serving(c) BY DEF Serving
<1>2. SeenBy(c) BY <1>1 DEF SeenInv
<1>3. call[c].op # "none" BY CallFacts, StepsOfIs
<1> QED BY <1>1, <1>2, <1>3, CallFacts DEF SeenBy, RegistryInv, RegistryType

-----------------------------------------------------------------------------
(* The pure steps.                                                         *)

LEMMA CallArrivesMoves ==
    ASSUME RegistryInv, SeenInv, Witnessed, NEW c \in Clients, CallArrives(c)
    PROVE  Moves(c)
<1>1. CallType BY CallFacts
<1>2. PICK o \in AllOps :
        call' = [call EXCEPT ![c] = [Idle EXCEPT !.op = o, !.pc = FirstStep[o]]]
  BY DEF CallArrives, RegistryInv, RegistryType
<1>3. call'[c].pc = FirstStep[o] BY <1>1, <1>2, ArriveMoves
<1>4. FirstStep[o] \in {"start", "g_fast", "l_ids"} BY DEF FirstStep, AllOps
<1>5. ~Serving(c) /\ Serving(c)' BY <1>3, <1>4 DEF CallArrives, Serving
<1>6. ResourceState' \in seen'[c] BY <1>5 DEF Witnessed, Sights
<1>7. SeenBy(c)' BY <1>3, <1>4, <1>6 DEF SeenBy, In, At, Deleting, Reading
<1> QED BY <1>5, <1>7 DEF Moves

LEMMA LifecycleStartMoves ==
    ASSUME RegistryInv, SeenInv, Witnessed, NEW c \in Clients, LifecycleStart(c)
    PROVE  Moves(c)
<1>0. call[c].pc = "start" BY DEF LifecycleStart, At
<1>1. Serving(c) /\ CallType /\ call[c].pc \in StepsOf[call[c].op] /\ call[c].op \in AllOps
  BY <1>0, ServingFacts
<1>2. call[c].op \in Mutations BY <1>0, <1>1, StepsOfIs DEF AllOps, Mutations, Reading
<1>3. CASE Return(c, "down") BY <1>1, <1>3, SimpleAnswers DEF Answers
<1>4. ASSUME NEW p \in {"s_look", "c_fast", "d_look"}, Go(c, p) PROVE Moves(c)
  <2>1. Stepped(c, p) BY <1>1, <1>4, GoMoves DEF CallSteps
  <2> QED BY <1>1, <2>1, <1>4, PlainMoves DEF Stepped, Obliged, Reading, Deleting
<1> QED BY <1>2, <1>3, <1>4 DEF LifecycleStart, Mutations

LEMMA ListIdsMoves ==
    ASSUME RegistryInv, SeenInv, Witnessed, NEW c \in Clients, ListIds(c)
    PROVE  Moves(c)
<1>0. call[c].pc = "l_ids" BY DEF ListIds, At
<1>1. Serving(c) /\ CallType /\ ResourceState \in seen[c] BY <1>0, ServingFacts
<1>2. CASE Go(c, "g_fast")
  <2>1. Stepped(c, "g_fast") BY <1>1, <1>2, GoMoves DEF CallSteps
  <2> QED BY <1>1, <2>1, PlainMoves DEF Stepped, Obliged, Reading, Deleting
<1>3. CASE /\ ~("intent" \notin disk /\ (running # 0 \/ mem \/ disk \ {"tree"} # {} \/ file # <<>>))
           /\ Return(c, "empty")
  <2>1. "intent" \in disk => ResourceState = "deleting" BY StateFacts
  <2>2. "intent" \notin disk => "accepted" \notin disk /\ running = 0 /\ ~mem BY <1>3
  <2>3. "intent" \notin disk => disk = {} BY <2>2 DEF RegistryInv, DiskInv
  <2>4. ResourceState \in {"deleting", "absent"} BY <2>1, <2>2, <2>3, StateFacts
  <2> QED BY <1>1, <1>3, <2>4, SimpleAnswers DEF Answers
<1> QED BY <1>2, <1>3 DEF ListIds

\* A read that meets the entry has seen the session running.
LEMMA MeetsEntry ==
    ASSUME RegistryInv, SeenInv, Witnessed, NEW c \in Clients, Serving(c), running # 0, Inert,
           call' = [call EXCEPT ![c].pc = "g_body", ![c].gen = running]
    PROVE  Moves(c)
<1>1. CallType /\ running \in Nat BY CallFacts
<1>2. running = gen /\ ResourceState = "running" BY StateFacts DEF RegistryInv, RegistryType
<1>3. call'[c].pc = "g_body" /\ call'[c].op = call[c].op /\ call'[c].gen = running
  <2>1. "g_body" \in CallSteps BY DEF CallSteps
  <2> QED BY <1>1, <2>1 DEF CallType, CallRecords
<1>4. seen[c] \cup {ResourceState'} \subseteq seen'[c] BY DEF Witnessed, Sights
<1>5. ResourceState' = "running" /\ gen' = gen BY <1>2, InertTurns DEF Inert, KeepManager
<1>6. SeenBy(c)' BY <1>2, <1>3, <1>4, <1>5 DEF SeenBy, In, At, Reading, Deleting
<1> QED BY <1>3, <1>6 DEF Moves, Serving

LEMMA GetFastMoves ==
    ASSUME RegistryInv, SeenInv, Witnessed, NEW c \in Clients, GetFast(c)
    PROVE  Moves(c)
<1>0. call[c].pc = "g_fast" /\ Inert BY PureIsInert DEF GetFast, At
<1>1. Serving(c) /\ CallType BY <1>0, ServingFacts
<1>2. CASE Go(c, "g_fence")
  <2>1. Stepped(c, "g_fence") BY <1>1, <1>2, GoMoves DEF CallSteps
  <2> QED BY <1>1, <2>1, PlainMoves DEF Stepped, Obliged, Reading, Deleting
<1>3. CASE running # 0 BY <1>0, <1>1, <1>3, MeetsEntry DEF GetFast
<1> QED BY <1>2, <1>3 DEF GetFast

\* A read of a settled outcome.
LEMMA ReadsSettled ==
    ASSUME RegistryInv, SeenInv, Witnessed, NEW c \in Clients, Serving(c), Settled, Inert,
           Go(c, "t_draft")
    PROVE  Moves(c)
<1>1. Stepped(c, "t_draft") BY CallFacts, GoMoves DEF CallSteps
<1>2. seen[c] \cup {ResourceState'} \subseteq seen'[c] BY DEF Witnessed, Sights
<1>3. Settled' /\ ResourceState' = ResourceState /\ body' = body BY InertTurns DEF Inert
<1>4. ResourceState = body.status BY StateFacts DEF Settled
<1>5. ~In(c, Judging)' /\ ~In(c, Deleting)' /\ NoSnapshot(c)'
  BY <1>1 DEF Stepped, In, At, Judging, Deleting, NoSnapshot
<1>6. SeenBy(c)' BY <1>2, <1>3, <1>4, <1>5 DEF SeenBy, NoSnapshot
<1> QED BY <1>1, <1>6 DEF Moves, Stepped, Serving

LEMMA GetFencedMoves ==
    ASSUME RegistryInv, SeenInv, Witnessed, NEW c \in Clients, GetFenced(c)
    PROVE  Moves(c)
<1>0. call[c].pc = "g_fence" /\ Inert /\ Free("admission") /\ Free("inner")
  BY PureIsInert DEF GetFenced, At
<1>1. Serving(c) /\ CallType /\ ResourceState \in seen[c] BY <1>0, ServingFacts
<1>2. lock["admission"] \notin Clients /\ lock["inner"] \notin Clients
  BY <1>0, RegistryAssumption DEF Free, Nobody
<1>3. CASE "intent" \in disk
  <2>1. ResourceState = "deleting" BY <1>3, StateFacts
  <2> QED BY <1>1, <1>3, <2>1, SimpleAnswers DEF GetFenced, Answers
<1>4. CASE "intent" \notin disk /\ running # 0 BY <1>0, <1>1, <1>4, MeetsEntry DEF GetFenced
<1>5. CASE "intent" \notin disk /\ running = 0 /\ mem
  <2>1. ResourceState = body.status BY <1>1, <1>2, <1>5, ServedFacts
  <2>2. body.status \in {"ended", "cancelled"} BY CallFacts
  <2>3. Return(c, body.status) BY <1>5 DEF GetFenced
  <2> QED BY <1>1, <2>1, <2>2, <2>3, SimpleAnswers DEF Answers
<1>6. CASE "intent" \notin disk /\ running = 0 /\ ~mem
  <2>1. /\ "draft" \notin disk
        /\ IF "accepted" \in disk THEN "finished" \in disk /\ Settled ELSE ResourceState = "absent"
    BY <1>1, <1>2, <1>6, ServedFacts
  <2>2. CASE "accepted" \in disk
    <3>1. Settled /\ disk \cap {"finished", "draft"} # {} BY <2>1, <2>2
    <3>2. Go(c, "t_draft") BY <1>6, <3>1 DEF GetFenced
    <3> QED BY <1>0, <1>1, <3>1, <3>2, ReadsSettled
  <2>3. CASE "accepted" \notin disk
    <3>1. ResourceState = "absent" BY <2>1, <2>3
    <3>2. disk = {} BY <3>1, StateFacts
    <3>3. Return(c, "absent") BY <1>6, <3>2 DEF GetFenced
    <3> QED BY <1>1, <3>1, <3>3, SimpleAnswers DEF Answers
  <2> QED BY <2>2, <2>3
<1> QED BY <1>3, <1>4, <1>5, <1>6

\* The evidence is torn only while the session ends, or after a failure.
LEMMA TornFacts ==
    ASSUME RegistryInv, Inert, "error" \in RunningBody
    PROVE  broken' \/ "ending" \in Sights'
<1>1. TreeTorn BY DEF RunningBody
<1>2. CASE broken BY <1>2 DEF Inert
<1>3. CASE spc = "cleanup"
  <2>1. running # 0 /\ "draft" \in disk BY <1>3 DEF RegistryInv, EntryInv, DiskInv, RecoverySteps
  <2>2. ResourceState = "running" BY <2>1, StateFacts
  <2>3. ResourceState' = "running" /\ "draft" \in disk' BY <2>1, <2>2, InertTurns DEF Inert, files
  <2> QED BY <2>3 DEF Sights, Ending
<1> QED BY <1>1, <1>2, <1>3 DEF TreeTorn

LEMMA GetBodyMoves ==
    ASSUME RegistryInv, SeenInv, Witnessed, NEW c \in Clients, GetBody(c)
    PROVE  Moves(c)
<1>0. call[c].pc = "g_body" /\ Inert BY PureIsInert DEF GetBody, At
<1>1. Serving(c) /\ CallType /\ SeenBy(c) BY <1>0, ServingFacts
<1>2. PICK a \in RunningBody : call' = [call EXCEPT ![c].pc = "g_check", ![c].ans = a] BY DEF GetBody
<1>3. /\ call'[c].pc = "g_check" /\ call'[c].op = call[c].op /\ call'[c].gen = call[c].gen
      /\ call'[c].ans = a
  <2>1. a \in Answers /\ "g_check" \in CallSteps BY RunningAnswers DEF CallSteps
  <2> QED BY <1>1, <1>2, <2>1 DEF CallType, CallRecords
<1>4. seen[c] \cup Sights' \subseteq seen'[c] /\ ResourceState' \in Sights'
  BY <1>1 DEF Witnessed, Sights
<1>5. gen' = gen /\ ResourceState' = ResourceState BY <1>0, InertTurns DEF Inert, KeepManager
<1>6. /\ "running" \in seen[c]
      /\ \/ "deleting" \in seen[c]
         \/ call[c].gen = gen /\ ResourceState \in {"running", "ended", "cancelled"}
  BY <1>0, <1>1 DEF SeenBy, In
<1>7. a = "running" \/ (a = "error" /\ ("ending" \in seen'[c] \/ broken'))
  BY <1>0, <1>4, TornFacts, RunningAnswers
<1>8. SeenBy(c)' BY <1>3, <1>4, <1>5, <1>6, <1>7 DEF SeenBy, In, At, Reading, Deleting
<1> QED BY <1>1, <1>3, <1>8 DEF Moves, Serving

LEMMA GetCheckMoves ==
    ASSUME RegistryInv, SeenInv, Witnessed, NEW c \in Clients, GetCheck(c)
    PROVE  Moves(c)
<1>0. call[c].pc = "g_check" /\ Inert /\ Free("inner") BY PureIsInert DEF GetCheck, At
<1>1. /\ Serving(c) /\ CallType /\ ResourceState \in seen[c] /\ SeenBy(c) /\ running \in {0, gen}
      /\ call[c].pc \in StepsOf[call[c].op] /\ call[c].op \in AllOps
  BY <1>0, ServingFacts
<1>2. call[c].op \in {"get", "list"}
  BY <1>0, <1>1, StepsOfIs DEF AllOps, Reading, Deciding, Deleting
<1>3. lock["inner"] \notin Clients BY <1>0, RegistryAssumption DEF Free, Nobody
<1>4. /\ "running" \in seen[c]
      /\ \/ "deleting" \in seen[c]
         \/ call[c].gen = gen /\ ResourceState \in {"running", "ended", "cancelled"}
      /\ call[c].ans = "running" \/ (call[c].ans = "error" /\ ("ending" \in seen[c] \/ broken))
  BY <1>0, <1>1 DEF SeenBy, In, At
<1>5. body.status \in {"ended", "cancelled"} BY CallFacts
<1>6. CASE Return(c, call[c].ans)
  <2>1. broken => broken' BY <1>0 DEF Inert
  <2>2. call[c].ans \in Answers BY <1>4 DEF Answers
  <2>3. CASE call[c].ans = "running" BY <1>1, <1>4, <1>6, <2>2, <2>3, SimpleAnswers
  <2>4. CASE call[c].ans = "error" BY <1>1, <1>4, <1>6, <2>1, <2>2, <2>4, SimpleAnswers
  <2> QED BY <1>4, <2>3, <2>4
<1>7. CASE ~(running # 0 /\ running = call[c].gen) /\ mem /\ Return(c, body.status)
  <2>1. running = 0 BY <1>7, StateFacts
  <2>2. CASE "deleting" \in seen[c]
    <3>1. Resource!Explains(call[c].op, seen[c] \cup Sights',
                            IF call[c].op = "list" /\ body.status = "absent" THEN "empty" ELSE body.status)
      BY <1>4, <1>5, <2>2 DEF Resource!Explains
    <3> QED BY <1>1, <1>5, <1>7, <3>1, AnswerMoves DEF Answers
  <2>3. CASE ResourceState \in {"running", "ended", "cancelled"}
    <3>1. "intent" \notin disk BY <2>3, StateFacts
    <3>2. ResourceState = body.status BY <1>1, <1>7, <2>1, <2>3, <3>1, ServedFacts
    <3> QED BY <1>1, <1>5, <1>7, <3>2, SimpleAnswers DEF Answers
  <2> QED BY <1>4, <2>2, <2>3
<1>8. CASE ~(running # 0 /\ running = call[c].gen) /\ ~mem /\ Go(c, "t_draft")
  <2>1. Stepped(c, "t_draft") BY <1>1, <1>8, GoMoves DEF CallSteps
  <2>2. CASE "deleting" \in seen[c]
    <3>1. seen[c] \cup {ResourceState'} \subseteq seen'[c] BY <1>1 DEF Witnessed, Sights
    <3>2. ~Fenced(c)' /\ ~In(c, Deleting)' /\ NoSnapshot(c)'
      BY <1>2, <2>1 DEF Stepped, Fenced, In, At, Deleting, NoSnapshot
    <3>3. SeenBy(c)' BY <1>4, <2>2, <3>1, <3>2 DEF SeenBy, NoSnapshot
    <3> QED BY <1>1, <2>1, <3>3 DEF Moves, Stepped, Serving
  <2>3. CASE call[c].gen = gen /\ ResourceState \in {"running", "ended", "cancelled"}
    <3>1. running = 0 BY <1>1, <1>8, <2>3
    <3>2. "intent" \notin disk BY <2>3, StateFacts
    <3>3. Settled BY <1>1, <1>3, <1>8, <2>3, <3>1, <3>2, ServedFacts
    <3> QED BY <1>0, <1>1, <1>8, <3>3, ReadsSettled
  <2> QED BY <1>4, <2>2, <2>3
<1> QED BY <1>6, <1>7, <1>8 DEF GetCheck

\* What a reading step that goes on relies on.
Relies(c) ==
    \/ "deleting" \in seen[c] /\ ~Fenced(c)
    \/ Settled
    \/ call[c].op \in {"cancel", "delete"} /\ ResourceState = "absent"
    \/ call[c].op = "cancel" /\ {"absent", "running"} \subseteq seen[c]

\* A read that starts without the fence, or with its own.
LEMMA ReadsOn ==
    ASSUME RegistryInv, SeenInv, Witnessed, NEW c \in Clients, Serving(c), Inert, Relies(c),
           NEW p \in {"t_draft", "t_finished"}, Go(c, p), In(c, {"u_look"} \cup Reading),
           call[c].op \in {"get", "list"} => "running" \in seen[c] \/ body.status \in seen[c]
    PROVE  Moves(c)
<1>1. Stepped(c, p) BY CallFacts, GoMoves DEF CallSteps
<1>2. seen[c] \cup {ResourceState'} \subseteq seen'[c] BY DEF Witnessed, Sights
<1>3. Settled' = Settled /\ ResourceState' = ResourceState /\ body' = body BY InertTurns DEF Inert
<1>4. ~In(c, Judging)' /\ ~In(c, Deleting)' /\ NoSnapshot(c)' /\ Fenced(c)' = Fenced(c)
  BY <1>1 DEF Stepped, In, At, Judging, Deleting, Fenced, Reading, NoSnapshot
<1>5. call'[c].op = call[c].op BY <1>1 DEF Stepped
<1>6. SeenBy(c)' BY <1>2, <1>3, <1>4, <1>5 DEF SeenBy, Relies, NoSnapshot
<1> QED BY <1>1, <1>6 DEF Moves, Stepped, Serving

\* A cancellation's answer that overlaps a deletion or an acceptance.
LEMMA CancelAnswers ==
    ASSUME RegistryInv, Witnessed, NEW c \in Clients, Serving(c), call[c].op = "cancel",
           NEW a \in {"ended", "cancelled", "error"}, Return(c, a),
           \/ "deleting" \in seen[c]
           \/ {"absent", "running"} \subseteq seen[c]
           \/ a = "error" /\ "running" \in seen[c]
    PROVE  Moves(c)
<1>1. CallType /\ a \in Answers BY CallFacts DEF Answers
<1>2. Resource!Explains(call[c].op, seen[c] \cup Sights',
                        IF call[c].op = "list" /\ a = "absent" THEN "empty" ELSE a)
  BY DEF Resource!Explains
<1> QED BY <1>1, <1>2, AnswerMoves

\* The body of a running session, as an answer.
LEMMA BodyAnswers ==
    ASSUME RegistryInv, SeenInv, Witnessed, NEW c \in Clients, Serving(c), Inert, "running" \in seen[c],
           NEW a \in RunningBody, Return(c, a)
    PROVE  Moves(c)
<1>1. a \in Answers /\ a \in {"running", "error"} BY RunningAnswers
<1>2. CASE a = "running" BY <1>1, <1>2, SimpleAnswers
<1>3. CASE a = "error"
  <2>1. broken' \/ "ending" \in Sights' BY <1>3, TornFacts
  <2> QED BY <1>1, <1>3, <2>1, SimpleAnswers
<1> QED BY <1>1, <1>2, <1>3

LEMMA GetUnfencedMoves ==
    ASSUME RegistryInv, SeenInv, Witnessed, NEW c \in Clients, GetUnfenced(c)
    PROVE  Moves(c)
<1>0. call[c].pc = "u_look" /\ Inert /\ Free("inner") BY PureIsInert DEF GetUnfenced, At
<1>1. /\ Serving(c) /\ CallType /\ ResourceState \in seen[c] /\ CallInv(c)
      /\ call[c].pc \in StepsOf[call[c].op] /\ call[c].op \in AllOps
  BY <1>0, ServingFacts
<1>2. call[c].op \in Mutations
  BY <1>0, <1>1, StepsOfIs DEF AllOps, Reading, Deciding, Deleting, Mutations
<1>3. lock["inner"] \notin Clients BY <1>0, RegistryAssumption DEF Free, Nobody
<1>4. /\ Fenced(c) <=> call[c].op # "cancel"
      /\ call[c].op # "cancel" => "intent" \notin disk
      /\ call[c].op = "submit" => "accepted" \in disk
  BY <1>0, <1>1, <1>2 DEF Fenced, In, Mutations, CallInv
<1>5. CASE running # 0
  <2>1. ResourceState = "running" BY <1>5, StateFacts
  <2>2. PICK a \in RunningBody : Return(c, IF call[c].op = "delete" THEN "busy" ELSE a)
    BY <1>5 DEF GetUnfenced
  <2>3. CASE call[c].op = "delete" BY <1>1, <2>1, <2>2, <2>3, SimpleAnswers DEF Answers
  <2>4. CASE call[c].op # "delete" BY <1>0, <1>1, <2>1, <2>2, <2>4, BodyAnswers
  <2> QED BY <2>3, <2>4
<1>6. CASE running = 0 /\ ~mem
  <2>1. Go(c, "t_draft") BY <1>6 DEF GetUnfenced
  <2>2. Relies(c)
    <3>1. CASE "intent" \in disk BY <1>1, <1>4, <3>1, StateFacts DEF Relies
    <3>2. CASE "intent" \notin disk
      BY <1>1, <1>2, <1>3, <1>4, <1>6, <3>2, ServedFacts DEF Relies, Mutations
    <3> QED BY <3>1, <3>2
  <2> QED BY <1>0, <1>1, <1>2, <2>1, <2>2, ReadsOn DEF In, Mutations
<1>7. CASE running = 0 /\ mem /\ call[c].op = "delete"
  <2>1. Go(c, "d_intent") BY <1>7 DEF GetUnfenced
  <2>2. Stepped(c, "d_intent") BY <1>1, <2>1, GoMoves DEF CallSteps
  <2> QED BY <1>1, <2>2, PlainMoves DEF Stepped, Obliged, Reading, Deleting
<1>8. CASE running = 0 /\ mem /\ call[c].op # "delete"
  <2>1. Return(c, body.status) BY <1>8 DEF GetUnfenced
  <2>2. body.status \in {"ended", "cancelled"} BY CallFacts
  <2>3. CASE ResourceState = "deleting"
    <3>1. call[c].op = "cancel"
      BY <1>2, <1>4, <1>8, <2>3, StateFacts DEF ResourceState, Mutations
    <3> QED BY <1>1, <2>1, <2>2, <2>3, <3>1, CancelAnswers
  <2>4. CASE ResourceState # "deleting"
    <3>1. ResourceState = body.status BY <1>1, <1>8, <2>4, StateFacts, ServedFacts
    <3> QED BY <1>1, <2>1, <2>2, <3>1, SimpleAnswers DEF Answers
  <2> QED BY <2>3, <2>4
<1> QED BY <1>5, <1>6, <1>7, <1>8

\* What a read relies on while it looks at one file after the other, and the
\* errors that explains.
LEMMA ReadingFacts ==
    ASSUME RegistryInv, SeenInv, NEW c \in Clients, In(c, Reading)
    PROVE  /\ Serving(c) /\ CallType /\ SeenBy(c) /\ ResourceState \in seen[c] /\ call[c].op \in AllOps
           /\ \/ "deleting" \in seen[c] /\ ~Fenced(c)
              \/ Settled /\ (In(c, Judging) => call[c].body = body)
              \/ call[c].op \in {"cancel", "delete"} /\ ResourceState = "absent" /\ ~In(c, Judging)
              \/ call[c].op = "cancel" /\ {"absent", "running"} \subseteq seen[c]
           /\ call[c].op \in {"get", "list"} =>
                 "running" \in seen[c]
                 \/ (IF In(c, Judging) THEN call[c].body ELSE body).status \in seen[c]
           /\ Settled => "draft" \notin disk /\ "finished" \in disk /\ "accepted" \in disk
           /\ ResourceState = "absent" => disk = {}
<1>1. call[c].pc \notin {"idle", "done"} BY DEF In, Reading
<1>2. Serving(c) /\ SeenBy(c) /\ ResourceState \in seen[c] /\ CallType /\ call[c].op \in AllOps
  BY <1>1, ServingFacts
<1>3. Settled => running = 0 /\ "finished" \in disk /\ "accepted" \in disk
  BY StateFacts DEF Settled
<1>4. Settled => "draft" \notin disk BY <1>2, <1>3, ServedFacts
<1>5. ResourceState = "absent" => disk = {} BY StateFacts
<1> QED BY <1>2, <1>3, <1>4, <1>5 DEF SeenBy

LEMMA ReadErrors ==
    ASSUME RegistryInv, SeenInv, Witnessed, NEW c \in Clients, In(c, Reading), Return(c, "error"),
           \/ "deleting" \in seen[c]
           \/ call[c].op = "cancel" /\ {"absent", "running"} \subseteq seen[c]
           \/ broken'
    PROVE  Moves(c)
<1>1. Serving(c) /\ "error" \in Answers BY ReadingFacts DEF Answers
<1> QED BY <1>1, SimpleAnswers, CancelAnswers

LEMMA ReadDraftMoves ==
    ASSUME RegistryInv, SeenInv, Witnessed, NEW c \in Clients, ReadDraft(c)
    PROVE  Moves(c)
<1>0. call[c].pc = "t_draft" /\ Inert BY PureIsInert DEF ReadDraft, At
<1>1. In(c, Reading) /\ ~In(c, Judging) BY <1>0 DEF In, Reading, Judging
<1>2. CASE "draft" \in disk /\ Return(c, "error") BY <1>1, <1>2, ReadingFacts, ReadErrors
<1>3. CASE Go(c, "t_finished")
  <2>1. Relies(c) BY <1>1, ReadingFacts DEF Relies
  <2>2. call[c].op \in {"get", "list"} => "running" \in seen[c] \/ body.status \in seen[c]
    BY <1>1, ReadingFacts
  <2>3. In(c, {"u_look"} \cup Reading) /\ Serving(c) BY <1>1, ReadingFacts DEF In
  <2> QED BY <1>0, <1>3, <2>1, <2>2, <2>3, ReadsOn
<1> QED BY <1>2, <1>3 DEF ReadDraft

LEMMA ReadFinishedMoves ==
    ASSUME RegistryInv, SeenInv, Witnessed, NEW c \in Clients, ReadFinished(c)
    PROVE  Moves(c)
<1>0. call[c].pc = "t_finished" /\ Inert BY PureIsInert DEF ReadFinished, At
<1>1. In(c, Reading) /\ ~In(c, Judging) BY <1>0 DEF In, Reading, Judging
<1>2. Serving(c) /\ CallType /\ ResourceState \in seen[c] BY <1>1, ReadingFacts
<1>3. CASE "finished" \notin disk
  <2>1. Return(c, "absent") /\ "absent" \in Answers BY <1>3 DEF ReadFinished, Answers
  <2>2. "deleting" \in seen[c] \/ "absent" \in seen[c] BY <1>1, <1>3, ReadingFacts
  <2> QED BY <1>2, <2>1, <2>2, SimpleAnswers
<1>4. CASE "finished" \in disk
  <2>1. call' = [call EXCEPT ![c].pc = "t_accepted", ![c].body = body] BY <1>4 DEF ReadFinished
  <2>2. body \in Bodies BY StateFacts
  <2>a. CallType /\ "t_accepted" \in CallSteps BY <1>2 DEF CallSteps
  <2>3. call'[c].pc = "t_accepted" /\ call'[c].op = call[c].op /\ call'[c].body = body
    <3>1. call[c] \in CallRecords /\ DOMAIN call = Clients BY <2>a DEF CallType
    <3>2. call'[c] = [call[c] EXCEPT !.pc = "t_accepted", !.body = body] BY <2>1, <3>1
    <3> QED BY <3>1, <3>2 DEF CallRecords
  <2>4. seen[c] \cup {ResourceState'} \subseteq seen'[c] BY <1>2 DEF Witnessed, Sights
  <2>5. Settled' = Settled /\ ResourceState' = ResourceState /\ body' = body
    BY <1>0, InertTurns DEF Inert
  <2>6. /\ In(c, Reading)' /\ In(c, Judging)' /\ ~In(c, Deleting)' /\ NoSnapshot(c)'
        /\ Fenced(c)' = Fenced(c)
    BY <1>0, <2>3 DEF In, At, Reading, Judging, Deleting, Fenced, NoSnapshot
  <2>7. \/ "deleting" \in seen[c] /\ ~Fenced(c)
        \/ Settled
        \/ call[c].op = "cancel" /\ {"absent", "running"} \subseteq seen[c]
    BY <1>1, <1>4, ReadingFacts
  <2>8. call[c].op \in {"get", "list"} => "running" \in seen[c] \/ body.status \in seen[c]
    BY <1>1, ReadingFacts
  <2>9. SeenBy(c)' BY <2>3, <2>4, <2>5, <2>6, <2>7, <2>8 DEF SeenBy, NoSnapshot
  <2> QED BY <1>2, <2>3, <2>9 DEF Moves, Serving
<1> QED BY <1>3, <1>4

\* A read of the terminal record goes on to the next file.
LEMMA JudgesOn ==
    ASSUME RegistryInv, SeenInv, Witnessed, NEW c \in Clients, In(c, Judging), Inert,
           NEW p \in {"t_progress", "t_storage"}, Go(c, p)
    PROVE  Moves(c)
<1>0. In(c, Reading) BY DEF In, Reading, Judging
<1>1. Serving(c) /\ CallType /\ SeenBy(c) BY <1>0, ReadingFacts
<1>2. Stepped(c, p) BY <1>1, GoMoves DEF CallSteps
<1>3. seen[c] \cup {ResourceState'} \subseteq seen'[c] BY <1>1 DEF Witnessed, Sights
<1>4. Settled' = Settled /\ ResourceState' = ResourceState /\ body' = body BY InertTurns DEF Inert
<1>5. /\ In(c, Reading)' /\ In(c, Judging)' /\ ~In(c, Deleting)' /\ NoSnapshot(c)'
      /\ Fenced(c)' = Fenced(c) /\ call'[c].op = call[c].op /\ call'[c].body = call[c].body
  BY <1>0, <1>2 DEF In, At, Reading, Judging, Deleting, Fenced, Stepped, NoSnapshot
<1>6. SeenBy(c)' BY <1>0, <1>1, <1>3, <1>4, <1>5 DEF SeenBy, NoSnapshot
<1> QED BY <1>1, <1>2, <1>6 DEF Moves, Serving, Stepped

\* A record that a fence or a settled outcome vouches for is consistent, but
\* for a failed operation.
LEMMA SettledRecord ==
    ASSUME RegistryInv, Settled, Up
    PROVE  /\ next \/ file # body.events => broken
           /\ file # <<>> /\ gen = body.gen /\ ("tree" \in disk <=> body.retained)
<1>1. "accepted" \in disk /\ "intent" \notin disk /\ running = 0 /\ "finished" \in disk /\ ~mem
  BY StateFacts DEF Settled
<1>2. {"draft", "finished"} \cap disk # {} BY <1>1
<1>3. file # <<>> /\ gen = body.gen /\ ("tree" \in disk <=> body.retained)
  BY <1>1, <1>2 DEF RegistryInv, DiskInv
<1>4. file # body.events => broken BY <1>1 DEF RegistryInv, HistoryInv
<1>5. next => broken BY DEF RegistryInv, HistoryInv, Up, RecoverySteps
<1> QED BY <1>3, <1>4, <1>5

LEMMA ReadAcceptedMoves ==
    ASSUME RegistryInv, SeenInv, Witnessed, NEW c \in Clients, ReadAccepted(c)
    PROVE  Moves(c)
<1>0. call[c].pc = "t_accepted" /\ Inert BY PureIsInert DEF ReadAccepted, At
<1>1. In(c, Reading) /\ In(c, Judging) BY <1>0 DEF In, Reading, Judging
<1>2. CASE "accepted" \notin disk /\ Return(c, "error")
  <2>1. \/ "deleting" \in seen[c]
        \/ call[c].op = "cancel" /\ {"absent", "running"} \subseteq seen[c]
    BY <1>1, <1>2, ReadingFacts
  <2> QED BY <1>1, <1>2, <2>1, ReadErrors
<1>3. CASE Go(c, "t_progress") BY <1>0, <1>1, <1>3, JudgesOn
<1> QED BY <1>2, <1>3 DEF ReadAccepted

LEMMA ReadProgressMoves ==
    ASSUME RegistryInv, SeenInv, Witnessed, NEW c \in Clients, ReadProgress(c)
    PROVE  Moves(c)
<1>0. call[c].pc = "t_progress" /\ Inert BY PureIsInert DEF ReadProgress, At
<1>1. In(c, Reading) /\ In(c, Judging) BY <1>0 DEF In, Reading, Judging
<1>2. CASE /\ next \/ file = <<>> \/ file # call[c].body.events \/ gen # call[c].body.gen
           /\ Return(c, "error")
  <2>1. Up BY <1>1, ReadingFacts DEF RegistryInv, CallInv
  <2>2. Settled /\ call[c].body = body => broken BY <1>2, <2>1, SettledRecord
  <2>3. broken => broken' BY <1>0 DEF Inert
  <2>4. \/ "deleting" \in seen[c]
        \/ call[c].op = "cancel" /\ {"absent", "running"} \subseteq seen[c]
        \/ broken'
    BY <1>1, <2>2, <2>3, ReadingFacts
  <2> QED BY <1>1, <1>2, <2>4, ReadErrors
<1>3. CASE Go(c, "t_storage") BY <1>0, <1>1, <1>3, JudgesOn
<1> QED BY <1>2, <1>3 DEF ReadProgress

LEMMA ReadStorageMoves ==
    ASSUME RegistryInv, SeenInv, Witnessed, NEW c \in Clients, ReadStorage(c)
    PROVE  Moves(c)
<1>0. call[c].pc = "t_storage" /\ Inert BY PureIsInert DEF ReadStorage, At
<1>1. In(c, Reading) /\ In(c, Judging) BY <1>0 DEF In, Reading, Judging
<1>2. Serving(c) /\ CallType /\ ResourceState \in seen[c] /\ call[c].op \in AllOps BY <1>1, ReadingFacts
<1>3. CASE ("tree" \in disk) # call[c].body.retained
  <2>1. Return(c, "error") BY <1>3 DEF ReadStorage
  <2>2. Up BY <1>2 DEF RegistryInv, CallInv
  <2>3. Settled => body \in Bodies /\ ("tree" \in disk <=> body.retained)
    BY <2>2, SettledRecord, StateFacts
  <2>4. Settled => call[c].body # body BY <1>3, <2>3 DEF Bodies
  <2>5. \/ "deleting" \in seen[c]
        \/ call[c].op = "cancel" /\ {"absent", "running"} \subseteq seen[c]
    BY <1>1, <2>4, ReadingFacts
  <2> QED BY <1>1, <2>1, <2>5, ReadErrors
<1>4. CASE ("tree" \in disk) = call[c].body.retained /\ call[c].op = "delete"
  <2>1. Go(c, "d_intent") BY <1>4 DEF ReadStorage
  <2>2. Stepped(c, "d_intent") BY <1>2, <2>1, GoMoves DEF CallSteps
  <2> QED BY <1>2, <2>2, PlainMoves DEF Stepped, Obliged, Reading, Deleting
<1>5. CASE ("tree" \in disk) = call[c].body.retained /\ call[c].op # "delete"
  <2>1. Return(c, call[c].body.status) BY <1>5 DEF ReadStorage
  <2>2. call[c].body.status \in {"ended", "cancelled"} BY <1>2 DEF CallType, CallRecords, Bodies
  <2>3. CASE call[c].body.status \in seen[c] BY <1>2, <2>1, <2>2, <2>3, SimpleAnswers DEF Answers
  <2>4. CASE Settled /\ call[c].body = body
    <3>1. ResourceState = call[c].body.status BY <2>4, StateFacts DEF Settled
    <3> QED BY <1>2, <2>1, <2>2, <3>1, SimpleAnswers DEF Answers
  <2>5. CASE /\ call[c].op = "cancel"
             /\ "deleting" \in seen[c] \/ {"absent", "running"} \subseteq seen[c]
    BY <1>2, <2>1, <2>2, <2>5, CancelAnswers
  <2>6. CASE {"deleting", "running"} \subseteq seen[c]
    <3>1. Resource!Explains(call[c].op, seen[c] \cup Sights',
             IF call[c].op = "list" /\ call[c].body.status = "absent" THEN "empty"
             ELSE call[c].body.status)
      BY <2>2, <2>6 DEF Resource!Explains
    <3> QED BY <1>2, <2>1, <2>2, <3>1, AnswerMoves DEF Answers
  <2>7. call[c].op = "submit" => Fenced(c) BY <1>1 DEF Fenced, In
  <2>8. call[c].op \in {"get", "list"} => "running" \in seen[c] \/ call[c].body.status \in seen[c]
    BY <1>1, ReadingFacts
  <2>9. call[c].op \in {"submit", "get", "list", "cancel"} BY <1>2, <1>5 DEF AllOps
  <2>10. \/ "deleting" \in seen[c] /\ ~Fenced(c)
         \/ Settled /\ call[c].body = body
         \/ call[c].op = "cancel" /\ {"absent", "running"} \subseteq seen[c]
    BY <1>1, ReadingFacts
  <2> QED BY <2>3, <2>4, <2>5, <2>6, <2>7, <2>8, <2>9, <2>10
<1>6. ("tree" \in disk) \in BOOLEAN /\ call[c].body.retained \in BOOLEAN
  BY <1>2 DEF CallType, CallRecords, Bodies
<1> QED BY <1>3, <1>4, <1>5, <1>6

\* The looks of submit, cancel and delete.
LEMMA PlainSteps ==
    ASSUME RegistryInv, SeenInv, Witnessed, NEW c \in Clients, call[c].pc \notin {"idle", "done"},
           NEW p \in CallSteps \ ({"idle", "done"} \cup Obliged), call' = [call EXCEPT ![c].pc = p]
    PROVE  Moves(c)
<1>1. Serving(c) /\ CallType BY ServingFacts
<1>2. Stepped(c, p) BY <1>1, StepMoves
<1> QED BY <1>1, <1>2, PlainMoves DEF Stepped

LEMMA SubmitLookMoves ==
    ASSUME RegistryInv, SeenInv, Witnessed, NEW c \in Clients, SubmitLook(c)
    PROVE  Moves(c)
<1>0. call[c].pc = "s_look" /\ Inert BY PureIsInert DEF SubmitLook, At
<1>1. Serving(c) /\ ResourceState \in seen[c] BY <1>0, ServingFacts
<1>2. CASE stopping BY <1>1, <1>2, SimpleAnswers DEF SubmitLook, Answers
<1>3. CASE ~stopping /\ "intent" \in disk
  <2>1. ResourceState = "deleting" BY <1>3, StateFacts
  <2> QED BY <1>1, <1>3, <2>1, SimpleAnswers DEF SubmitLook, Answers
<1>4. ASSUME ResourceState \in {"running", "ended", "cancelled"}, Return(c, "conflict") PROVE Moves(c)
  BY <1>1, <1>4, SimpleAnswers DEF Answers
<1>5. CASE ~stopping /\ "intent" \notin disk /\ running # 0
  <2>1. ResourceState = "running" BY <1>5, StateFacts
  <2>2. PICK a \in RunningBody \cup {"conflict"} : Return(c, a) BY <1>5 DEF SubmitLook
  <2>3. CASE a = "conflict" BY <1>4, <2>1, <2>2, <2>3
  <2>4. CASE a \in RunningBody BY <1>0, <1>1, <2>1, <2>2, <2>4, BodyAnswers
  <2> QED BY <2>3, <2>4
<1>6. CASE ~stopping /\ "intent" \notin disk /\ running = 0
  <2>1. CASE \E p \in {"u_look", "s_valid"} : call' = [call EXCEPT ![c].pc = p]
    BY <1>0, <2>1, PlainSteps DEF CallSteps, Obliged, Reading, Deleting
  <2>2. CASE "accepted" \in disk /\ Return(c, "conflict")
    <3>1. body.status \in {"ended", "cancelled"} BY StateFacts
    <3>2. ResourceState \in {"running", "ended", "cancelled"} BY <1>6, <2>2, <3>1 DEF ResourceState
    <3> QED BY <1>4, <2>2, <3>2
  <2> QED BY <1>6, <2>1, <2>2 DEF SubmitLook
<1> QED BY <1>2, <1>3, <1>5, <1>6

LEMMA SubmitBodyMoves ==
    ASSUME RegistryInv, SeenInv, Witnessed, NEW c \in Clients, SubmitBody(c)
    PROVE  Moves(c)
<1>0. call[c].pc = "s_body" /\ Inert BY PureIsInert DEF SubmitBody, At
<1>1. Serving(c) /\ SeenBy(c) BY <1>0, ServingFacts
<1>2. "running" \in seen[c] BY <1>0, <1>1 DEF SeenBy, In
<1> QED BY <1>0, <1>1, <1>2, BodyAnswers DEF SubmitBody

LEMMA SubmitValidateMoves ==
    ASSUME RegistryInv, SeenInv, Witnessed, NEW c \in Clients, SubmitValidate(c)
    PROVE  Moves(c)
<1>0. call[c].pc = "s_valid" BY DEF SubmitValidate, At
<1>1. Serving(c) BY <1>0, ServingFacts
<1>2. CASE Go(c, "s_accept")
  BY <1>0, <1>2, PlainSteps DEF Go, CallSteps, Obliged, Reading, Deleting
<1>3. CASE Return(c, "invalid") BY <1>1, <1>3, SimpleAnswers DEF Answers
<1> QED BY <1>2, <1>3 DEF SubmitValidate

LEMMA CancelLooksMove ==
    ASSUME RegistryInv, SeenInv, Witnessed, NEW c \in Clients,
           CancelLook(c) \/ CancelDecide(c) \/ CancelFinal(c) \/ CancelCheck(c) \/ CancelLaunch(c)
    PROVE  Moves(c)
<1>0. call[c].pc \in {"c_fast", "c_fence", "c_decide", "c_final", "c_check", "c_launch"}
  BY DEF CancelLook, CancelDecide, CancelFinal, CancelCheck, CancelLaunch, At
<1>1. Serving(c) /\ CallType /\ ResourceState \in seen[c] BY <1>0, ServingFacts
<1>2. CASE running # 0 /\ call' = [call EXCEPT ![c].pc = "c_decide", ![c].gen = running]
  <2>1. running \in Nat BY CallFacts
  <2>2. call'[c].pc = "c_decide" /\ call'[c].op = call[c].op
    BY <1>1, <1>2, <2>1 DEF CallType, CallRecords
  <2> QED BY <1>1, <2>2, PlainMoves DEF Obliged, Reading, Deleting
<1>3. ASSUME NEW p \in {"c_fence", "u_look", "c_final", "c_check", "c_launch", "c_intent"},
             call' = [call EXCEPT ![c].pc = p]
      PROVE  Moves(c)
  BY <1>0, <1>3, PlainSteps DEF CallSteps, Obliged, Reading, Deleting
<1>4. CASE running # 0 /\ Return(c, "finalizing")
  <2>1. ResourceState = "running" BY <1>4, StateFacts
  <2> QED BY <1>1, <1>4, <2>1, SimpleAnswers DEF Answers
<1>5. CASE CancelLook(c) BY <1>2, <1>3, <1>5 DEF CancelLook, Go
<1>6. CASE CancelDecide(c) BY <1>3, <1>6 DEF CancelDecide, Go
<1>7. CASE CancelFinal(c) BY <1>3, <1>4, <1>7 DEF CancelFinal, Go
<1>8. CASE CancelCheck(c) \/ CancelLaunch(c) BY <1>3, <1>8 DEF CancelCheck, CancelLaunch, Go
<1> QED BY <1>5, <1>6, <1>7, <1>8

LEMMA DeleteLookMoves ==
    ASSUME RegistryInv, SeenInv, Witnessed, NEW c \in Clients, DeleteLook(c)
    PROVE  Moves(c)
<1>0. call[c].pc = "d_look" /\ Inert BY PureIsInert DEF DeleteLook, At
<1>1. Serving(c) /\ CallType /\ ResourceState \in seen[c] BY <1>0, ServingFacts
<1>2. CASE running # 0
  <2>1. ResourceState = "running" BY <1>2, StateFacts
  <2> QED BY <1>1, <1>2, <2>1, SimpleAnswers DEF DeleteLook, Answers
<1>3. CASE running = 0 /\ "intent" \notin disk
  BY <1>0, <1>3, PlainSteps DEF DeleteLook, CallSteps, Obliged, Reading, Deleting
<1>4. CASE running = 0 /\ "intent" \in disk
  <2>1. call' = [call EXCEPT ![c].pc = "d_tree"] BY <1>4 DEF DeleteLook
  <2>2. Stepped(c, "d_tree") BY <1>1, <2>1, StepMoves DEF CallSteps
  <2>3. seen[c] \cup {ResourceState'} \subseteq seen'[c] BY <1>1 DEF Witnessed, Sights
  <2>4. ResourceState = "deleting" BY <1>4, StateFacts
  <2>5. SeenBy(c)' BY <1>1, <2>2, <2>3, <2>4 DEF SeenBy, Stepped, In, At, Reading, Deleting
  <2> QED BY <1>1, <2>2, <2>5 DEF Moves, Serving, Stepped
<1> QED BY <1>2, <1>3, <1>4

-----------------------------------------------------------------------------
(* The calls that change the session.                                      *)

\* A step that leaves the files the interface looks at alone leaves the
\* resource alone.
LEMMA SteadyTurns ==
    ASSUME UNCHANGED <<running, mem, gen, body>>, broken => broken',
           \A n \in {"accepted", "draft", "finished", "intent"} : n \in disk' <=> n \in disk
    PROVE  Turns /\ ResourceState' = ResourceState
<1>1. ResourceState' = ResourceState BY DEF ResourceState
<1>2. Ending => Ending' BY <1>1 DEF Ending
<1> QED BY <1>1, <1>2 DEF Turns, Lives, Settled

\* A failed operation stays one.
LEMMA StaysBroken ==
    ASSUME NEW fails, Breaks(fails)
    PROVE  broken => broken'
BY DEF Breaks

LEMMA FenceOf ==
    ASSUME RegistryInv, NEW c \in Clients,
           In(c, {"s_accept", "s_register", "d_intent"} \cup Deleting)
    PROVE  lock["admission"] = c /\ running = 0
BY DEF RegistryInv, FenceInv, EntryInv, Holds, Locks, In, Deleting

\* A step that returns or goes on concerns its own call only.
LEMMA GoesAlone ==
    ASSUME RegistryInv, NEW c \in Clients,
           \/ \E p \in CallSteps : call' = [call EXCEPT ![c].pc = p]
           \/ \E p \in CallSteps : Go(c, p)
           \/ \E a \in Answers : Return(c, a)
    PROVE  Untouched(c)
<1>1. CallType BY CallFacts
<1> QED BY <1>1, StepMoves, GoMoves, ReturnMoves

LEMMA SubmitAcceptLives ==
    ASSUME RegistryInv, SeenInv, Witnessed, NEW c \in Clients, SubmitAccept(c)
    PROVE  Lives /\ \A d \in Clients : Moves(d)
<1>0. call[c].pc = "s_accept" /\ At(c, "s_accept") BY DEF SubmitAccept, At
<1>1. Serving(c) /\ CallType /\ CallInv(c) BY <1>0, ServingFacts
<1>2. lock["admission"] = c /\ running = 0 BY <1>0, FenceOf DEF In
<1>3. disk = {} /\ ~mem BY <1>0, <1>1 DEF CallInv, In
<1>4. ResourceState = "absent" BY <1>2, <1>3, StateFacts
<1>5. UNCHANGED <<running, mem, body>> BY DEF SubmitAccept
<1>6. CASE disk' = disk \cup {"accepted", "tree"} /\ call' = [call EXCEPT ![c].pc = "s_register"]
           /\ UNCHANGED broken
  <2>1. ResourceState' = "running" BY <1>2, <1>3, <1>5, <1>6 DEF ResourceState
  <2>2. Lives BY <1>4, <1>6, <2>1 DEF Lives, Ending, Resource!Follows
  <2>3. Turns BY <1>4, <1>5, <2>2 DEF Turns, Settled
  <2>4. Moves(c) BY <1>0, <1>6, PlainSteps DEF CallSteps, Obliged, Reading, Deleting
  <2>5. Untouched(c) BY <1>6, GoesAlone DEF CallSteps
  <2> QED BY <1>2, <2>3, <2>4, <2>5, OthersMove
<1>7. CASE Return(c, "error") /\ Breaks(TRUE) /\ UNCHANGED <<disk, gen>>
  <2>1. broken' BY <1>7 DEF Breaks
  <2>2. Turns /\ ResourceState' = ResourceState BY <1>5, <1>7, <2>1, SteadyTurns
  <2>3. Moves(c) BY <1>1, <1>7, <2>1, SimpleAnswers DEF Answers
  <2>4. Untouched(c) BY <1>7, GoesAlone DEF Answers
  <2> QED BY <2>2, <2>3, <2>4, OthersMove
<1> QED BY <1>6, <1>7 DEF SubmitAccept

LEMMA SubmitRegisterLives ==
    ASSUME RegistryInv, SeenInv, Witnessed, NEW c \in Clients, SubmitRegister(c)
    PROVE  Lives /\ \A d \in Clients : Moves(d)
<1>0. call[c].pc = "s_register" /\ At(c, "s_register") BY DEF SubmitRegister, At
<1>1. Serving(c) /\ CallType /\ CallInv(c) BY <1>0, ServingFacts
<1>2. lock["admission"] = c /\ running = 0 BY <1>0, FenceOf DEF In
<1>3. disk = {"accepted", "tree"} /\ ~mem BY <1>0, <1>1 DEF CallInv
<1>4. UNCHANGED <<disk, mem, gen, body>> BY DEF SubmitRegister, files
<1>5. ResourceState = "running" /\ ResourceState' = "running"
  BY <1>2, <1>3, <1>4 DEF ResourceState
<1>6. CASE call' = [call EXCEPT ![c].pc = "s_body"] /\ UNCHANGED broken
  <2>1. Turns BY <1>3, <1>4, <1>5, <1>6 DEF Turns, Lives, Ending, Settled
  <2>2. Moves(c)
    <3>1. Stepped(c, "s_body") BY <1>1, <1>6, StepMoves DEF CallSteps
    <3>2. seen[c] \cup {ResourceState'} \subseteq seen'[c] BY <1>1 DEF Witnessed, Sights
    <3>3. SeenBy(c)' BY <1>5, <3>1, <3>2 DEF SeenBy, Stepped, In, At, Reading, Deleting
    <3> QED BY <1>1, <3>1, <3>3 DEF Moves, Serving, Stepped
  <2>3. Untouched(c) BY <1>6, GoesAlone DEF CallSteps
  <2> QED BY <1>5, <2>1, <2>2, <2>3, OthersMove
<1>7. CASE Return(c, "error") /\ Breaks(TRUE)
  <2>0. broken' BY <1>7 DEF Breaks
  <2>1. Turns BY <1>3, <1>4, <1>5, <2>0 DEF Turns, Lives, Ending, Settled
  <2>2. Moves(c) BY <1>1, <1>7, <2>0, SimpleAnswers DEF Answers
  <2>3. Untouched(c) BY <1>7, GoesAlone DEF Answers
  <2> QED BY <1>5, <2>1, <2>2, <2>3, OthersMove
<1> QED BY <1>6, <1>7 DEF SubmitRegister

LEMMA CancelIntentLives ==
    ASSUME RegistryInv, SeenInv, Witnessed, NEW c \in Clients, CancelIntent(c)
    PROVE  Lives /\ \A d \in Clients : Moves(d)
<1>0. call[c].pc = "c_intent" BY DEF CancelIntent, At
<1>1. Serving(c) /\ CallType BY <1>0, ServingFacts
<1>2. UNCHANGED <<running, mem, gen, body>> /\ disk' \in {disk, disk \cup {"cancel"}}
  BY DEF CancelIntent, KeepManager
<1>3. broken => broken' BY DEF CancelIntent, Breaks
<1>4. Turns /\ ResourceState' = ResourceState BY <1>2, <1>3, SteadyTurns
<1>5. CASE Go(c, "c_token")
  <2>1. Moves(c) BY <1>0, <1>5, PlainSteps DEF Go, CallSteps, Obliged, Reading, Deleting
  <2>2. Untouched(c) BY <1>5, GoesAlone DEF CallSteps
  <2> QED BY <1>4, <2>1, <2>2, OthersMove
<1>6. CASE call' = [call EXCEPT ![c].pc = "c_token", ![c].ans = "error"]
  <2>1. Untouched(c) /\ call'[c].pc = "c_token" /\ call'[c].op = call[c].op
    BY <1>1, <1>6, ErrorMoves DEF CallSteps, Answers
  <2>2. Moves(c) BY <1>1, <2>1, PlainMoves DEF Obliged, Reading, Deleting
  <2> QED BY <1>4, <2>1, <2>2, OthersMove
<1>7. CASE Breaks(TRUE) /\ Return(c, "error")
  <2>0. broken' BY <1>7 DEF Breaks
  <2>1. Moves(c) BY <1>1, <1>7, <2>0, SimpleAnswers DEF Answers
  <2>2. Untouched(c) BY <1>7, GoesAlone DEF Answers
  <2> QED BY <1>4, <2>1, <2>2, OthersMove
<1> QED BY <1>5, <1>6, <1>7 DEF CancelIntent

LEMMA CancelTokenLives ==
    ASSUME RegistryInv, SeenInv, Witnessed, NEW c \in Clients, CancelToken(c)
    PROVE  Lives /\ \A d \in Clients : Moves(d)
<1>0. call[c].pc = "c_token" BY DEF CancelToken, At
<1>1. Serving(c) /\ CallType /\ CallInv(c) BY <1>0, ServingFacts
<1>2. UNCHANGED <<running, mem, gen, body, broken, disk>> BY DEF CancelToken, files, KeepHistory
<1>3. Turns /\ ResourceState' = ResourceState BY <1>2, SteadyTurns
<1>4. Latest.count \in 0..MaxCount
  <2>1. running # 0 BY <1>0, <1>1 DEF CallInv, In, Deciding
  <2>2. spc \notin {"none", "down"} BY <2>1 DEF RegistryInv, EntryInv, RecoverySteps
  <2> QED BY <2>2, LatestType DEF RegistryInv, RegistryType, ProgressType, HistoryInv
<1>5. call' = [call EXCEPT ![c].pc = "c_publish", ![c].count = Latest.count] BY DEF CancelToken
<1>6. Untouched(c) /\ call'[c].pc = "c_publish" /\ call'[c].op = call[c].op
  BY <1>1, <1>4, <1>5, CountMoves DEF CallSteps
<1>7. Moves(c) BY <1>1, <1>6, PlainMoves DEF Obliged, Reading, Deleting
<1> QED BY <1>3, <1>6, <1>7, OthersMove

LEMMA CancelPublishLives ==
    ASSUME RegistryInv, SeenInv, Witnessed, NEW c \in Clients, CancelPublish(c)
    PROVE  Lives /\ \A d \in Clients : Moves(d)
<1>0. call[c].pc = "c_publish" BY DEF CancelPublish, At
<1>1. /\ Serving(c) /\ CallType /\ CallInv(c) /\ ResourceState \in seen[c]
      /\ call[c].pc \in StepsOf[call[c].op] /\ call[c].op \in AllOps
  BY <1>0, ServingFacts
<1>2. UNCHANGED <<running, mem, gen, body, disk>> BY DEF CancelPublish, KeepManager
<1>3. broken => broken' BY DEF CancelPublish, Breaks
<1>4. Turns /\ ResourceState' = ResourceState BY <1>2, <1>3, SteadyTurns
<1>5. running # 0 BY <1>0, <1>1 DEF CallInv, In, Deciding
<1>6. ResourceState = "running" BY <1>5, StateFacts
<1>7. call[c].op = "cancel" BY <1>0, <1>1, StepsOfIs DEF AllOps, Reading, Deleting
<1>8. PICK a \in {"running", "error"} : Return(c, a) BY DEF CancelPublish
<1>9. Moves(c) BY <1>1, <1>6, <1>7, <1>8, SimpleAnswers, CancelAnswers DEF Answers
<1>10. Untouched(c) BY <1>8, GoesAlone DEF Answers
<1> QED BY <1>4, <1>9, <1>10, OthersMove

\* A deletion that goes on has seen the resource being deleted.
LEMMA DeletesOn ==
    ASSUME RegistryInv, SeenInv, Witnessed, NEW c \in Clients, call[c].pc \notin {"idle", "done"},
           "deleting" \in seen[c] \cup {ResourceState'}, NEW p \in Deleting, Go(c, p)
    PROVE  Moves(c) /\ Untouched(c)
<1>1. Serving(c) /\ CallType BY ServingFacts
<1>2. Stepped(c, p) /\ Untouched(c) BY <1>1, GoMoves DEF CallSteps, Deleting
<1>3. seen[c] \cup {ResourceState'} \subseteq seen'[c] BY <1>1 DEF Witnessed, Sights
<1>4. call'[c].pc \in Deleting BY <1>2 DEF Stepped
<1>5. SeenBy(c)' BY <1>3, <1>4 DEF SeenBy, In, At, Reading, Deleting
<1> QED BY <1>1, <1>2, <1>5 DEF Moves, Serving, Stepped, Deleting

LEMMA DeleteIntentLives ==
    ASSUME RegistryInv, SeenInv, Witnessed, NEW c \in Clients, DeleteIntent(c)
    PROVE  Lives /\ \A d \in Clients : Moves(d)
<1>0. call[c].pc = "d_intent" /\ At(c, "d_intent") BY DEF DeleteIntent, At
<1>1. Serving(c) /\ CallType /\ CallInv(c) BY <1>0, ServingFacts
<1>2. lock["admission"] = c /\ running = 0 BY <1>0, FenceOf DEF In
<1>3. "accepted" \in disk /\ "intent" \notin disk /\ (mem \/ "finished" \in disk)
  BY <1>0, <1>1 DEF CallInv
<1>4. ResourceState \in {"ended", "cancelled"} BY <1>2, <1>3, StateFacts DEF ResourceState
<1>5. UNCHANGED <<running, mem, gen, body>> BY DEF DeleteIntent, KeepManager
<1>6. broken => broken' BY DEF DeleteIntent, Breaks
<1>7. CASE disk' = disk \cup {"intent"}
  <2>1. ResourceState' = "deleting" BY <1>7 DEF ResourceState
  <2>2. Lives BY <1>4, <1>6, <2>1 DEF Lives, Ending, Resource!Follows
  <2>3. Turns BY <1>5, <2>1, <2>2 DEF Turns
  <2>4. Moves(c) /\ Untouched(c)
    <3>1. CASE Go(c, "d_tree") BY <1>0, <2>1, <3>1, DeletesOn DEF Deleting
    <3>2. CASE Return(c, "error") /\ Breaks(TRUE)
      <4>1. broken' BY <3>2 DEF Breaks
      <4> QED BY <1>1, <3>2, <4>1, SimpleAnswers, GoesAlone DEF Answers
    <3> QED BY <3>1, <3>2 DEF DeleteIntent
  <2> QED BY <1>2, <2>3, <2>4, OthersMove
<1>8. CASE disk' = disk /\ Return(c, "error") /\ Breaks(TRUE)
  <2>1. broken' BY <1>8 DEF Breaks
  <2>2. Turns /\ ResourceState' = ResourceState BY <1>5, <1>6, <1>8, SteadyTurns
  <2>3. Moves(c) /\ Untouched(c) BY <1>1, <1>8, <2>1, SimpleAnswers, GoesAlone DEF Answers
  <2> QED BY <2>2, <2>3, OthersMove
<1> QED BY <1>7, <1>8 DEF DeleteIntent

\* The steps of a deletion with its intent on disk.
LEMMA DeletionLives ==
    ASSUME RegistryInv, SeenInv, Witnessed, NEW c \in Clients, DeleteTree(c) \/ DeleteFile(c)
    PROVE  Lives /\ \A d \in Clients : Moves(d)
<1>0. call[c].pc \in {"d_tree", "d_files"} BY DEF DeleteTree, DeleteFile, At
<1>1. Serving(c) /\ SeenBy(c) /\ CallType /\ CallInv(c) BY <1>0, ServingFacts
<1>2. "intent" \in disk BY <1>0, <1>1 DEF CallInv, In
<1>3. "deleting" \in seen[c] BY <1>0, <1>1 DEF SeenBy, In, Deleting
<1>4. "intent" \in disk' BY <1>2 DEF DeleteTree, DeleteFile, Records, files
<1>5. ResourceState = "deleting" /\ ResourceState' = "deleting" BY <1>2, <1>4 DEF ResourceState
<1>6. UNCHANGED <<gen, body>> /\ (broken => broken')
  <2>1. gen' = gen /\ body' = body BY DEF DeleteTree, DeleteFile, KeepManager
  <2>2. CASE broken' = broken BY <2>1, <2>2
  <2>3. CASE Breaks(TRUE)
    <3>1. broken => broken' BY <2>3, StaysBroken
    <3> QED BY <2>1, <3>1
  <2> QED BY <2>2, <2>3 DEF DeleteTree, DeleteFile
<1>7. Turns BY <1>5, <1>6 DEF Turns, Lives, Ending
<1>8. CASE DeleteTree(c)
  <2>1. CASE Go(c, "d_files")
    <3>1. Moves(c) /\ Untouched(c) BY <1>0, <1>3, <2>1, DeletesOn DEF Deleting
    <3> QED BY <1>5, <1>7, <3>1, OthersMove
  <2>2. CASE Return(c, "error")
    <3>1. Moves(c) /\ Untouched(c) BY <1>1, <1>3, <2>2, SimpleAnswers, GoesAlone DEF Answers
    <3> QED BY <1>5, <1>7, <3>1, OthersMove
  <2> QED BY <1>8, <2>1, <2>2 DEF DeleteTree
<1>9. CASE DeleteFile(c)
  <2>1. ASSUME NEW p \in {"d_files", "d_end"}, Go(c, p) PROVE Moves(c) /\ Untouched(c)
    BY <1>0, <1>3, <2>1, DeletesOn DEF Deleting
  <2>2. CASE Return(c, "error")
    <3>1. Moves(c) /\ Untouched(c) BY <1>1, <1>3, <2>2, SimpleAnswers, GoesAlone DEF Answers
    <3> QED BY <1>5, <1>7, <3>1, OthersMove
  <2>3. CASE \E p \in {"d_files", "d_end"} : Go(c, p)
    <3>1. Moves(c) /\ Untouched(c) BY <2>1, <2>3
    <3> QED BY <1>5, <1>7, <3>1, OthersMove
  <2>4. Go(c, "d_files") \/ Go(c, "d_end") \/ Return(c, "error") BY <1>9 DEF DeleteFile
  <2> QED BY <2>2, <2>3, <2>4
<1> QED BY <1>8, <1>9

LEMMA DeleteEndsLives ==
    ASSUME RegistryInv, SeenInv, Witnessed, NEW c \in Clients, DeleteEnd(c) \/ DeleteMem(c)
    PROVE  Lives /\ \A d \in Clients : Moves(d)
<1>0. call[c].pc \in {"d_end", "d_mem"} BY DEF DeleteEnd, DeleteMem, At
<1>1. Serving(c) /\ SeenBy(c) /\ CallType /\ CallInv(c) BY <1>0, ServingFacts
<1>2. lock["admission"] = c /\ running = 0 BY <1>0, FenceOf DEF In, Deleting
<1>3. "deleting" \in seen[c] BY <1>0, <1>1 DEF SeenBy, In, Deleting
<1>4. UNCHANGED <<running, gen, body>> BY DEF DeleteEnd, DeleteMem, KeepManager
<1>5. CASE DeleteEnd(c)
  <2>1. "intent" \in disk /\ "tree" \notin disk /\ Records = {} /\ disk \subseteq Names
    BY <1>1, <1>5 DEF DeleteEnd, CallInv, In, At, RegistryInv, RegistryType
  <2>2. disk' \in {disk, {}} BY <1>5, <2>1 DEF DeleteEnd, Records, Names
  <2>3. ResourceState = "deleting" /\ ResourceState' \in {"deleting", "absent"}
    BY <1>2, <1>4, <2>1, <2>2 DEF ResourceState
  <2>4. broken => broken'
    <3>1. CASE UNCHANGED broken BY <3>1
    <3>2. CASE Breaks(TRUE) BY <3>2 DEF Breaks
    <3> QED BY <1>5, <3>1, <3>2 DEF DeleteEnd
  <2>5. Turns BY <1>4, <2>3, <2>4 DEF Turns, Lives, Ending, Settled, Resource!Follows
  <2>6. CASE Go(c, "d_mem") BY <1>0, <1>2, <1>3, <2>5, <2>6, DeletesOn, OthersMove DEF Deleting
  <2>7. CASE Return(c, "error")
    <3>1. Moves(c) /\ Untouched(c) BY <1>1, <1>3, <2>7, SimpleAnswers, GoesAlone DEF Answers
    <3> QED BY <1>2, <2>5, <3>1, OthersMove
  <2> QED BY <1>5, <2>6, <2>7 DEF DeleteEnd
<1>6. CASE DeleteMem(c)
  <2>1. disk = {} /\ disk' = {} BY <1>1, <1>6 DEF DeleteMem, CallInv, At, files
  <2>2. ResourceState \in {"deleting", "absent"} /\ ResourceState' = "absent"
    BY <1>2, <1>4, <1>6, <2>1 DEF ResourceState, DeleteMem
  <2>3. broken' = broken BY <1>6 DEF DeleteMem, KeepHistory
  <2>4. Turns BY <1>4, <2>2, <2>3 DEF Turns, Lives, Ending, Settled, Resource!Follows
  <2>5. Return(c, "deleted") BY <1>6 DEF DeleteMem
  <2>6. Moves(c) /\ Untouched(c) BY <1>1, <1>3, <2>5, SimpleAnswers, GoesAlone DEF Answers
  <2> QED BY <1>2, <2>4, <2>6, OthersMove
<1> QED BY <1>5, <1>6

\* Every step of a call.
LEMMA CallsLive ==
    ASSUME RegistryInv, SeenInv, Witnessed, NEW c \in Clients, CallArrives(c) \/ CallStep(c)
    PROVE  Lives /\ \A d \in Clients : Moves(d)
<1>1. CASE CallArrives(c) \/ LifecycleStart(c) \/ ListIds(c)
  BY <1>1, CallArrivesPure, CallArrivesMoves, LifecycleStartPure, LifecycleStartMoves, ListIdsPure,
     ListIdsMoves, PureMoves
<1>2. CASE ReadStep(c)
  <2>1. PureMove(c)
    BY <1>2, GetFastPure, GetFencedPure, GetBodyPure, GetCheckPure, GetUnfencedPure, ReadDraftPure,
       ReadFinishedPure, ReadRecordsPure, ReadStoragePure DEF ReadStep
  <2>2. Moves(c)
    BY <1>2, GetFastMoves, GetFencedMoves, GetBodyMoves, GetCheckMoves, GetUnfencedMoves,
       ReadDraftMoves, ReadFinishedMoves, ReadAcceptedMoves, ReadProgressMoves, ReadStorageMoves DEF ReadStep
  <2> QED BY <2>1, <2>2, PureMoves
<1>3. CASE SubmitStep(c)
  BY <1>3, SubmitLookPure, SubmitLookMoves, SubmitValidatePure, SubmitValidateMoves, PureMoves,
     SubmitAcceptLives, SubmitRegisterLives, SubmitBodyPure, SubmitBodyMoves DEF SubmitStep
<1>4. CASE CancelStep(c)
  BY <1>4, CancelLookPure, CancelDecidePure, CancelFinalPure, CancelCheckPure, CancelLaunchPure,
     CancelLooksMove, PureMoves, CancelIntentLives, CancelTokenLives, CancelPublishLives
  DEF CancelStep
<1>5. CASE DeleteStep(c)
  BY <1>5, DeleteLookPure, DeleteLookMoves, PureMoves, DeleteIntentLives, DeletionLives,
     DeleteEndsLives DEF DeleteStep
<1> QED BY <1>1, <1>2, <1>3, <1>4, <1>5 DEF CallStep

-----------------------------------------------------------------------------
(* The supervisor, the shutdown, a power loss and the recovery.            *)

\* They leave the calls alone, and the shutdown the resource, too.
LEMMA NobodyMoves ==
    ASSUME RegistryInv, SeenInv, Witnessed, UNCHANGED call, Turns,
           \A d \in Clients : Fenced(d) => ResourceState' = ResourceState
    PROVE  Lives /\ \A d \in Clients : Moves(d)
BY BystanderMoves DEF Turns

\* While the entry exists the resource is running, and nobody has the fence.
LEMMA EntryAlone ==
    ASSUME RegistryInv, running # 0
    PROVE  /\ ResourceState = "running" /\ ~mem /\ "accepted" \in disk /\ "intent" \notin disk
           /\ \A d \in Clients : ~Fenced(d)
           /\ body.status \in {"ended", "cancelled"}
<1>1. \A d \in Clients : Fenced(d) => lock["admission"] = d
  BY DEF RegistryInv, FenceInv, Holds, Locks
<1>2. lock["admission"] \notin Clients BY DEF RegistryInv, EntryInv
<1>3. "accepted" \in disk /\ "intent" \notin disk BY DEF RegistryInv, EntryInv
<1> QED BY <1>1, <1>2, <1>3, StateFacts

LEMMA SupervisorLives ==
    ASSUME RegistryInv, SeenInv, Witnessed, SupervisorStep
    PROVE  Lives /\ \A d \in Clients : Moves(d)
<1>0. spc \notin {"none"} \cup RecoverySteps
  BY DEF SupervisorStep, SupervisorStages, SupervisorLaunches, SupervisorWorks, SupervisorDecides,
         SupervisorPublishes, SupervisorPersists, SupervisorEvicts, RecoverySteps
<1>1. running # 0 BY <1>0 DEF RegistryInv, EntryInv
<1>2. call' = call /\ gen' = gen
  BY DEF SupervisorStep, SupervisorStages, SupervisorLaunches, SupervisorWorks, SupervisorDecides,
         SupervisorPublishes, SupervisorPersists, SupervisorEvicts, Supervises, KeepCalls, callState,
         manager, KeepManager
<1>3. /\ ResourceState = "running" /\ ~mem /\ "accepted" \in disk /\ "intent" \notin disk
      /\ \A d \in Clients : ~Fenced(d)
      /\ body.status \in {"ended", "cancelled"}
  BY <1>1, EntryAlone
<1>4. ~Settled BY <1>3 DEF Settled
<1>5. CASE SupervisorEvicts
  <2>1. running' = 0 /\ mem' = (spc = "abandon") /\ UNCHANGED <<disk, body, broken>>
    BY <1>5 DEF SupervisorEvicts, files
  <2>2. spc \in {"evict", "abandon"} BY <1>5 DEF SupervisorEvicts
  <2>3. spc = "evict" => "finished" \in disk BY DEF RegistryInv, DiskInv
  <2>4. ResourceState' = body.status BY <1>3, <2>1, <2>2, <2>3 DEF ResourceState
  <2>5. Lives BY <1>3, <2>1, <2>4 DEF Lives, Resource!Follows
  <2>6. Turns BY <1>2, <1>3, <1>4, <2>5 DEF Turns
  <2> QED BY <1>2, <1>3, <2>6, NobodyMoves
<1>6. CASE SupervisorStep /\ ~SupervisorEvicts
  <2>1. running' = running
    BY <1>6 DEF SupervisorStep, SupervisorStages, SupervisorLaunches, SupervisorWorks,
       SupervisorDecides, SupervisorPublishes, SupervisorPersists, manager, KeepManager
  <2>2. mem' = mem
    BY <1>6 DEF SupervisorStep, SupervisorStages, SupervisorLaunches, SupervisorWorks,
       SupervisorDecides, SupervisorPublishes, SupervisorPersists, manager, KeepManager
  <2>3. disk' \subseteq disk \cup {"draft", "finished"} /\ disk \ {"tree", "draft"} \subseteq disk'
    BY <1>6 DEF SupervisorStep, SupervisorStages, SupervisorLaunches, SupervisorWorks,
       SupervisorDecides, SupervisorPublishes, SupervisorPersists, files
  <2>4. broken => broken'
    <3>1. CASE SupervisorStages BY <3>1 DEF SupervisorStages, Published, Breaks
    <3>2. CASE SupervisorLaunches \/ SupervisorDecides BY <3>2 DEF SupervisorLaunches, SupervisorDecides
    <3>3. CASE SupervisorWorks BY <3>3 DEF SupervisorWorks, Published, Breaks
    <3>4. CASE SupervisorPublishes BY <3>4 DEF SupervisorPublishes, Published, Breaks
    <3>5. CASE SupervisorPersists BY <3>5 DEF SupervisorPersists, Breaks
    <3> QED BY <1>6, <3>1, <3>2, <3>3, <3>4, <3>5 DEF SupervisorStep
  <2>5. ResourceState' = "running" BY <1>1, <1>3, <2>1, <2>2, <2>3 DEF ResourceState
  <2>6. {"draft", "finished"} \cap disk # {} => {"draft", "finished"} \cap disk' # {}
    <3>1. CASE SupervisorPersists
      <4>1. spc = "undraft" => "finished" \in disk BY DEF RegistryInv, DiskInv
      <4> QED BY <3>1, <4>1 DEF SupervisorPersists
    <3>2. CASE disk' = disk BY <3>2
    <3> QED BY <1>6, <3>1, <3>2 DEF SupervisorStep, SupervisorStages, SupervisorLaunches,
       SupervisorWorks, SupervisorDecides, SupervisorPublishes, files
  <2>7. Ending => Ending' BY <2>5, <2>6 DEF Ending
  <2>8. Turns BY <1>2, <1>3, <1>4, <2>4, <2>5, <2>7 DEF Turns, Lives
  <2> QED BY <1>2, <1>3, <2>8, NobodyMoves
<1> QED BY <1>5, <1>6

LEMMA ShutdownLives ==
    ASSUME RegistryInv, SeenInv, Witnessed, ShutdownBegins \/ ShutdownStep
    PROVE  Lives /\ \A d \in Clients : Moves(d)
<1>1. UNCHANGED <<call, gen, running, mem, body>>
  BY DEF ShutdownBegins, ShutdownStep, ShutdownDrained, ShutdownDecides, ShutdownIntent,
         ShutdownPublishes, ShutdownFence, ShutdownDone, Shuts, KeepCalls, callState
<1>2. disk' \in {disk, disk \cup {"cancel"}}
  BY DEF ShutdownBegins, ShutdownStep, ShutdownDrained, ShutdownDecides, ShutdownIntent,
         ShutdownPublishes, ShutdownFence, ShutdownDone, files
<1>3. broken => broken'
  <2>1. CASE ShutdownBegins \/ ShutdownDrained \/ ShutdownDecides \/ ShutdownFence \/ ShutdownDone
    BY <2>1 DEF ShutdownBegins, ShutdownDrained, ShutdownDecides, ShutdownFence, ShutdownDone
  <2>2. CASE ShutdownIntent BY <2>2 DEF ShutdownIntent, Breaks
  <2>3. CASE ShutdownPublishes BY <2>3 DEF ShutdownPublishes, Breaks
  <2> QED BY <2>1, <2>2, <2>3 DEF ShutdownStep
<1>4. Turns /\ ResourceState' = ResourceState BY <1>1, <1>2, <1>3, SteadyTurns
<1> QED BY <1>1, <1>4, NobodyMoves

\* A power loss ends every call; a body that was in memory only is lost.
LEMMA PowerLossLives ==
    ASSUME RegistryInv, SeenInv, Witnessed, PowerLoss
    PROVE  Lives /\ \A d \in Clients : Moves(d)
<1>1. running' = 0 /\ mem' = FALSE /\ UNCHANGED <<disk, body, broken>> BY DEF PowerLoss
<1>2. Lives
  <2>1. body.status \in {"ended", "cancelled"} BY StateFacts
  <2>2. mem => broken BY DEF RegistryInv, DiskInv
  <2>3. "intent" \notin disk /\ "accepted" \notin disk => disk = {} BY DEF RegistryInv, DiskInv
  <2>4. running # 0 => "accepted" \in disk /\ "intent" \notin disk /\ ~mem
    BY DEF RegistryInv, EntryInv
  <2>5. CASE "intent" \in disk BY <1>1, <2>5 DEF Lives, Ending, ResourceState
  <2>6. CASE "intent" \notin disk /\ "accepted" \notin disk
    <3>1. ResourceState' = "absent" /\ ResourceState \in {"deleting", "absent"}
      BY <1>1, <2>3, <2>4, <2>6 DEF ResourceState
    <3> QED BY <1>1, <3>1 DEF Lives, Ending, Resource!Follows
  <2>7. CASE "intent" \notin disk /\ "accepted" \in disk /\ running # 0
    <3>1. ResourceState = "running" /\ ResourceState' \in {"running", body.status}
      BY <1>1, <2>4, <2>7 DEF ResourceState
    <3> QED BY <1>1, <2>1, <3>1 DEF Lives, Ending, Resource!Follows
  <2>8. CASE "intent" \notin disk /\ "accepted" \in disk /\ running = 0 /\ mem
    <3>1. ResourceState = body.status /\ ResourceState' \in {"running", body.status}
      BY <1>1, <2>8 DEF ResourceState
    <3> QED BY <1>1, <2>1, <2>2, <2>8, <3>1 DEF Lives, Ending, Resource!Follows
  <2>9. CASE "intent" \notin disk /\ "accepted" \in disk /\ running = 0 /\ ~mem
    <3>1. ResourceState' = ResourceState BY <1>1, <2>9 DEF ResourceState
    <3> QED BY <1>1, <3>1 DEF Lives, Ending
  <2> QED BY <2>5, <2>6, <2>7, <2>8, <2>9
<1>3. ASSUME NEW d \in Clients PROVE Moves(d)
  <2>1. CASE ~Serving(d) BY <2>1 DEF PowerLoss, Moves, Serving
  <2>2. CASE Serving(d)
    <3> DEFINE r == [Idle EXCEPT !.op = call[d].op, !.pc = "done", !.ans = "lost"]
    <3>1. call'[d] = r BY <2>2 DEF PowerLoss, Serving
    <3>2. r.op = call[d].op /\ r.pc = "done" /\ r.ans = "lost" BY DEF Idle
    <3>3. ~Serving(d)' BY <3>1, <3>2 DEF Serving
    <3>4. Explained(d) BY <3>1, <3>2 DEF Explained, Resource!Explains
    <3> QED BY <2>2, <3>1, <3>2, <3>3, <3>4 DEF Moves
  <2> QED BY <2>1, <2>2
<1> QED BY <1>2, <1>3

\* Nobody is served before the recovery has ended.
LEMMA RecoveryLives ==
    ASSUME RegistryInv, SeenInv, Witnessed, RecoveryStep
    PROVE  Lives /\ \A d \in Clients : Moves(d)
<1>0. spc \in RecoverySteps
  BY DEF RecoveryStep, Restart, RecoveryPublishes, RecoveryCommits, RecoveryPhase, RecoverySteps
<1>1. running = 0 /\ ~mem BY <1>0 DEF RegistryInv, EntryInv, Up
<1>2. \A d \in Clients : ~Serving(d) BY <1>0 DEF RegistryInv, CallInv, Up
<1>3. UNCHANGED <<call, running, mem>>
  BY DEF RecoveryStep, Restart, RecoveryPublishes, RecoveryCommits, Recovers, KeepCalls, callState, manager
<1>4. \A d \in Clients : Moves(d) BY <1>2, <1>3 DEF Moves
<1>5. body.status \in {"ended", "cancelled"} /\ body \in Bodies BY StateFacts
<1>6. CASE Restart
  <2>1. UNCHANGED <<body, broken>> BY <1>6 DEF Restart
  <2>2. CASE "intent" \in disk \/ "accepted" \notin disk
    <3>1. disk' = {} BY <1>6, <2>2 DEF Restart
    <3>2. "intent" \notin disk => disk = {} BY <2>2 DEF RegistryInv, DiskInv
    <3>3. ResourceState' = "absent" /\ ResourceState \in {"deleting", "absent"}
      BY <1>1, <1>3, <2>2, <3>1, <3>2 DEF ResourceState
    <3> QED BY <1>4, <2>1, <3>3 DEF Lives, Ending, Resource!Follows
  <2>3. CASE "intent" \notin disk /\ "accepted" \in disk
    <3>1. disk' = IF "finished" \in disk THEN disk \ {"draft"} ELSE disk BY <1>6, <2>3 DEF Restart
    <3>2. ResourceState' = ResourceState BY <1>1, <1>3, <2>1, <3>1 DEF ResourceState
    <3>3. Ending => Ending' BY <3>1, <3>2 DEF Ending
    <3> QED BY <1>4, <2>1, <3>2, <3>3 DEF Lives
  <2> QED BY <2>2, <2>3
<1>7. CASE RecoveryPublishes
  <2>1. spc \in RecoverySteps \ {"down"} BY <1>7 DEF RecoveryPublishes, RecoveryPhase, RecoverySteps
  <2>2. "accepted" \in disk /\ "intent" \notin disk /\ "finished" \notin disk
    BY <2>1 DEF RegistryInv, DiskInv
  <2>3. disk' = disk BY <1>7 DEF RecoveryPublishes
  <2>4. ResourceState = "running" /\ ResourceState' = "running"
    BY <1>1, <1>3, <2>2, <2>3 DEF ResourceState
  <2>5. broken => broken' BY <1>7 DEF RecoveryPublishes, Published, Breaks
  <2> QED BY <1>4, <2>3, <2>4, <2>5 DEF Lives, Ending
<1>8. CASE RecoveryCommits
  <2>1. spc \in RecoverySteps \ {"down"} BY <1>8 DEF RecoveryCommits, RecoverySteps
  <2>2. "accepted" \in disk /\ "intent" \notin disk /\ "finished" \notin disk
    BY <2>1 DEF RegistryInv, DiskInv
  <2>3. PICK r \in BOOLEAN :
          /\ body' = [body EXCEPT !.retained = r]
          /\ disk' = (disk \ ({"draft"} \cup IF r THEN {} ELSE {"tree"})) \cup {"finished"}
    BY <1>8 DEF RecoveryCommits
  <2>4. body'.status = body.status BY <1>5, <2>3 DEF Bodies
  <2>5. ResourceState = "running" BY <1>1, <2>2 DEF ResourceState
  <2>6. ResourceState' = body.status BY <1>1, <1>3, <2>2, <2>3, <2>4 DEF ResourceState
  <2>7. broken' = broken BY <1>8 DEF RecoveryCommits
  <2> QED BY <1>4, <1>5, <2>5, <2>6, <2>7 DEF Lives, Resource!Follows
<1> QED BY <1>6, <1>7, <1>8 DEF RecoveryStep

-----------------------------------------------------------------------------
(* The refinement.                                                         *)

\* What the calls have seen is kept by every step, each of which is a step of
\* the resource.
LEMMA StepLives ==
    ASSUME RegistryInv, SeenInv, Next
    PROVE  Witnessed /\ Lives /\ \A c \in Clients : Moves(c)
BY CallsLive, SupervisorLives, ShutdownLives, PowerLossLives, RecoveryLives DEF Next

LEMMA SeenKept ==
    ASSUME RegistryInv, SeenInv, [Next]_vars
    PROVE  SeenInv'
<1>1. CASE Next
  <2>1. \A c \in Clients : Moves(c) BY <1>1, StepLives
  <2>2. ASSUME NEW c \in Clients PROVE (Serving(c) => SeenBy(c))'
    <3>1. ~Serving(c) /\ call'[c] = call[c] => ~Serving(c)' BY DEF Serving
    <3> QED BY <2>1, <3>1 DEF Moves
  <2> QED BY <2>2 DEF SeenInv
<1>2. CASE UNCHANGED vars
  BY <1>2 DEF vars, manager, files, callState, SeenInv, SeenBy, Serving, ResourceState, Settled,
     Fenced, In, At
<1> QED BY <1>1, <1>2

\* What each call has seen is what it relies on, whatever the others do
\* meanwhile.
THEOREM ResourceInvariant == Spec => []ResourceInv
<1>1. Init => SeenInv BY DEF Init, RegistryInit, SeenInv, Serving, Idle
<1>2. RegistryInv /\ SeenInv /\ [Next]_vars => SeenInv' BY SeenKept
<1> QED BY <1>1, <1>2, RegistryInvariant, PTL DEF Spec, ResourceInv

\* A step of the manager is one of the resource.
LEMMA SightsMapped == (Resource!Sights)' = Sights'
BY DEF Resource!Sights, Sights

LEMMA StepImplements ==
    ASSUME RegistryInv, SeenInv, Next
    PROVE  Resource!Next
<1>1. Witnessed /\ Lives /\ \A c \in Clients : Moves(c) BY StepLives
<1>2. ResourceState' = ResourceState \/ Resource!Follows(ResourceState, ResourceState')
  BY <1>1 DEF Lives
<1>3. ASSUME NEW c \in Clients
      PROVE  Resource!Resting(c) \/ Resource!Invoked(c) \/ Resource!Served(c)
  <2>1. CASE ~Serving(c) /\ call'[c] = call[c]
    <3>1. ~Serving(c)' BY <2>1 DEF Serving
    <3>2. seen'[c] = seen[c] BY <1>1, <2>1, <3>1 DEF Witnessed
    <3> QED BY <2>1, <3>1, <3>2 DEF Resource!Resting
  <2>2. CASE ~Serving(c) /\ Serving(c)'
    <3>1. seen'[c] = Sights' BY <1>1, <2>2 DEF Witnessed
    <3> QED BY <2>2, <3>1, SightsMapped DEF Resource!Invoked
  <2>3. CASE /\ Serving(c) /\ call'[c].op = call[c].op
             /\ IF Serving(c)' THEN SeenBy(c)' ELSE Explained(c)
    <3>1. seen'[c] = seen[c] \cup Sights' BY <1>1, <2>3 DEF Witnessed
    <3>2. CASE Serving(c)' BY <2>3, <3>1, <3>2, SightsMapped DEF Resource!Served
    <3>3. CASE ~Serving(c)' BY <2>3, <3>1, <3>3, SightsMapped DEF Resource!Served, Explained
    <3> QED BY <3>2, <3>3
  <2> QED BY <1>1, <2>1, <2>2, <2>3 DEF Moves
<1>4. Resource!Ends BY <1>1 DEF Lives, Resource!Ends, Ending
<1> QED BY <1>1, <1>2, <1>3, <1>4 DEF Resource!Next, Lives

\* The manager implements the resource: its life has no other steps, and every
\* answer to every call, of any number of clients and in whatever order they
\* take the locks, is one that the states during the call explain.
THEOREM ManagerImplementsResource == Spec => ImplementsResource
<1>1. Init => Resource!Init
  <2> SUFFICES ASSUME Init PROVE Resource!Init OBVIOUS
  <2>1. ResourceState = "absent" /\ Ending = FALSE BY DEF Init, RegistryInit, ResourceState, Ending
  <2>2. \A c \in Clients : Serving(c) = FALSE /\ call[c].op = "none" /\ call[c].ans = "none"
    BY DEF Init, RegistryInit, Serving, Idle
  <2>3. broken = FALSE /\ seen = [c \in Clients |-> {}] BY DEF Init, RegistryInit
  <2>4. [c \in Clients |-> Serving(c)] = [c \in Clients |-> FALSE] BY <2>2
  <2>5. [c \in Clients |-> call[c].op] = [c \in Clients |-> "none"] BY <2>2
  <2>6. [c \in Clients |-> IF Serving(c) THEN "none" ELSE call[c].ans] = [c \in Clients |-> "none"]
    BY <2>2
  <2> QED BY <2>1, <2>3, <2>4, <2>5, <2>6 DEF Resource!Init
<1>2. RegistryInv /\ SeenInv /\ [Next]_vars => [Resource!Next]_Resource!vars
  <2>1. UNCHANGED vars => UNCHANGED Resource!vars
    BY DEF vars, manager, files, callState, Resource!vars, ResourceState, Ending, Serving
  <2> QED BY <2>1, StepImplements
<1> QED BY <1>1, <1>2, ResourceInvariant, PTL DEF Spec, ResourceInv, ImplementsResource, Resource!Spec
=============================================================================
