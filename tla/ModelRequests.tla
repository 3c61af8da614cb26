--------------------------- MODULE ModelRequests ---------------------------
(***************************************************************************)
(* The request journal of a captured stream: physical requests and their   *)
(* responses, chat attempts, tokenizer operations, compaction draws, and   *)
(* what each conversation owes its next request.                           *)
(*                                                                         *)
(* A request is named by its place in the journal, a generation by its     *)
(* attempt.  Byte-level agreement of a record with its own digests, schema *)
(* and author table is one Boolean of the record, exact.                   *)
(***************************************************************************)
EXTENDS PhysicalResponse, Sequences, SequencesExt

CONSTANTS
    Attempts, Tools, Operations, Draws,
    MaxRequests     \* bound on physical requests

Root == "root"      \* the session's own kv_scope; a tool call's id names a child's
Side == "side"      \* a kv_scope no conversation uses
Scopes == {Root} \cup Tools
KvScopes == Scopes \cup {Side}
None == "none"

ASSUME JournalAssumption ==
    /\ MaxRequests \in Nat /\ IsFiniteSet(Draws)
    /\ {Root, Side, None} \cap (Attempts \cup Tools \cup Operations \cup Draws) = {}

VARIABLES
    count,      \* physical_count
    responses,  \* responses, by request
    attempts, utilities, compactions,
    owed,       \* Owed, by kv_scope
    usage,      \* usage, by kv_scope
    allUsage,
    carried,    \* history: generations some admitted chat request carried
    spoken      \* history: the turns each kv_scope accepted, aloud or internal

journal == <<count, responses, attempts, utilities, compactions, owed, usage, allUsage,
             carried, spoken>>

Ids == 1..MaxRequests
Owners == [kind : OwnerKinds, id : Attempts \cup Draws \cup Operations \cup {None}]

NoGeneration == [quality |-> None, call |-> None, outputs |-> 0, internal |-> FALSE]
Generations == [quality : {"usable", "limit", "broken"}, call : Tools \cup {None},
                outputs : 0..1, internal : BOOLEAN]
\* The usage a generation bills.
Billed(generation) == IF generation.quality = "broken" THEN {} ELSE Served

NoAttempt == [scope |-> None, requests |-> <<>>, settled |-> <<>>, outcomes |-> <<>>,
              seed |-> FALSE, generation |-> NoGeneration, completed |-> FALSE]
NoUtility == [scope |-> None, kind |-> None, requests |-> <<>>, physical |-> <<>>,
              delivered |-> {}, state |-> None]
NoDraw == [scope |-> None, requests |-> <<>>, outcomes |-> <<>>, deliveries |-> <<>>,
           snapshots |-> {}, claimed |-> FALSE]
NothingOwed == [draw |-> None, generations |-> <<>>, issued |-> 0]
NothingSaid == [aloud |-> {}, internal |-> {}]
Turns == [aloud : SUBSET Attempts, internal : SUBSET Attempts]

JournalInit ==
    /\ count = 0 /\ responses = <<>>
    /\ attempts = [a \in Attempts |-> NoAttempt]
    /\ utilities = [u \in Operations |-> NoUtility]
    /\ compactions = [d \in Draws |-> NoDraw]
    /\ owed = [s \in KvScopes |-> NothingOwed]
    /\ usage = [s \in KvScopes |-> NoRequests] /\ allUsage = NoRequests
    /\ carried = {} /\ spoken = [s \in KvScopes |-> NothingSaid]

With(f, x, v) == [y \in DOMAIN f \cup {x} |-> IF y = x THEN v ELSE f[y]]
Last1(requests) == requests[Len(requests)]
Outstanding(requests, done) == ToSet(requests) \ DOMAIN done

----------------------------------------------------------------------------
\* Dispatch.

\* The next sequence number of the journal, and no reused identity.
NextInJournal(rec) == rec.id = count + 1

ChatOwner(rec) ==
    LET a == attempts[rec.owner.id]
    IN  \/ a = NoAttempt
        \/ /\ a.scope = rec.kv /\ ~a.completed /\ ~a.seed /\ a.generation = NoGeneration
           /\ TRUE \notin Range(a.settled)

DrawOwner(rec) ==
    LET d == compactions[rec.owner.id]
    IN  ~d.claimed /\ d.scope \in {None, rec.kv}

\* A draw owes what the scope's last chat request carried, any other request
\* every turn accepted since the last committed compaction.
Required(kv, kind) ==
    LET o == owed[kv]
    IN  [draw |-> o.draw,
         turns |-> IF kind = "draw" THEN SubSeq(o.generations, 1, o.issued) ELSE o.generations]

\* The prompt holds every turn it owes, and the snapshot it must open with.
CarriesOwed(rec) == rec.carries = Required(rec.kv, rec.owner.kind)

\* plan: every request is held to what its kv_scope owes, whoever issued it.
PlanRequest(rec) ==
    /\ rec.exact /\ NextInJournal(rec)
    /\ rec.owner.kind = "chat" => ChatOwner(rec)
    /\ rec.owner.kind = "draw" => DrawOwner(rec)
    /\ CarriesOwed(rec)
    /\ MayAdmit(usage[rec.kv]) /\ MayAdmit(allUsage)

\* The owner of a request, with the request and its kv_scope.
Requested(owner, kv, id) == [owner EXCEPT !.scope = kv, !.requests = Append(@, id)]

CommitRequest(rec) ==
    LET id == rec.id
    IN  /\ count' = id
        /\ responses' = With(responses, id, NewResponse(rec.owner, rec.kv))
        /\ usage' = [usage EXCEPT ![rec.kv] = Admitted(@)]
        /\ allUsage' = Admitted(allUsage)
        /\ IF rec.owner.kind = "chat"
             THEN /\ owed' = [owed EXCEPT ![rec.kv].issued = Len(owed[rec.kv].generations)]
                  /\ attempts' = [attempts EXCEPT ![rec.owner.id] = Requested(@, rec.kv, id)]
                  /\ carried' = carried \cup ToSet(rec.carries.turns)
             ELSE UNCHANGED <<owed, attempts, carried>>
        /\ compactions' = IF rec.owner.kind = "draw"
                            THEN [compactions EXCEPT ![rec.owner.id] = Requested(@, rec.kv, id)]
                            ELSE compactions
        /\ UNCHANGED <<utilities, spoken>>

\* plan_utility_request: a retry repeats its operation exactly.
PlanUtilityRequest(rec) ==
    LET u == utilities[rec.op]
    IN  /\ rec.exact /\ NextInJournal(rec)
        /\ u.state \in {None, "open"}
        /\ u.state = "open" => u.scope = rec.kv /\ u.kind = rec.tokenizes

CommitUtilityRequest(rec) ==
    /\ count' = rec.id
    /\ responses' = With(responses, rec.id,
                         NewResponse([kind |-> "utility", id |-> rec.op], rec.kv))
    /\ utilities' = [utilities EXCEPT ![rec.op] =
           [Requested(@, rec.kv, rec.id) EXCEPT !.kind = rec.tokenizes, !.state = "open"]]
    /\ UNCHANGED <<attempts, compactions, owed, usage, allUsage, carried, spoken>>

\* Every retry answered and delivered, only the last one completed, ...
RetriesSettled(u) ==
    /\ ToSet(u.requests) = DOMAIN u.physical /\ ToSet(u.requests) = u.delivered
    /\ \A i \in 1..(Len(u.requests) - 1) : ~u.physical[u.requests[i]]

\* ... and a result only from a completed last response.
LastAnswered(u) == u.physical[Last1(u.requests)]

\* plan_utility_completion: also of an operation that sent nothing.
PlanUtilityCompletion(rec) ==
    LET u == utilities[rec.op]
    IN  /\ rec.exact
        /\ \/ u.state = None /\ rec.requests = <<>> /\ ~rec.result
           \/ /\ u.state = "open" /\ rec.requests = u.requests
              /\ RetriesSettled(u) /\ (rec.result => LastAnswered(u))

CommitUtilityCompletion(rec) ==
    /\ utilities' = [utilities EXCEPT ![rec.op].state = IF rec.result THEN "counted" ELSE "failed"]
    /\ UNCHANGED <<count, responses, attempts, compactions, owed, usage, allUsage,
                   carried, spoken>>

----------------------------------------------------------------------------
\* Responses.

\* A turn enters history once, from a completed response of a read generation.
MaySettle(r, event) ==
    LET a == attempts[r.owner.id]
    IN  /\ IsChat(r)
        /\ event.accepted => /\ r.processing = "completed"
                             /\ a.generation # NoGeneration
                             /\ TRUE \notin Range(a.settled)

PlanResponse(rec) ==
    /\ rec.exact /\ rec.id \in DOMAIN responses
    /\ LET r == responses[rec.id]
           event == rec.event
       IN  /\ InOrder(r, event)
           /\ event.kind \in {"http", "body", "end"} => MayTransport(r, event)
           /\ event.kind \in {"decoded_body", "decoded_end"} => MayDecode(r, event)
           /\ event.kind = "outcome" =>
                 /\ MayProcess(r, event)
                 /\ ~IsUtility(r) => /\ MayFinalize(usage[r.scope], event.usage)
                                     /\ MayFinalize(allUsage, event.usage)
           /\ event.kind = "delivery" => MayDeliver(r, event)
           /\ event.kind = "history" => MaySettle(r, event)

\* Fault: only the total of the run is billed.
BillUnscoped(scope, served) == allUsage' = Finalized(allUsage, served) /\ UNCHANGED usage

\* The usage of a kv scope and of the whole run.
Bill(scope, served) ==
    /\ usage' = [usage EXCEPT ![scope] = Finalized(@, served)]
    /\ allUsage' = Finalized(allUsage, served)

\* The owner of a response learns its outcome, and generation usage is billed.
RecordOutcome(id, r, event) ==
    /\ responses' = [responses EXCEPT ![id] = Stepped(r, event)]
    /\ attempts' = IF IsChat(r)
                     THEN [attempts EXCEPT ![r.owner.id].outcomes = With(@, id, OutcomeOf(event))]
                     ELSE attempts
    /\ compactions' = IF r.owner.kind = "draw"
                        THEN [compactions EXCEPT ![r.owner.id] =
                                [@ EXCEPT !.outcomes = With(@, id, OutcomeOf(event)),
                                          !.snapshots = IF r.snapshot THEN @ \cup {id} ELSE @]]
                        ELSE compactions
    /\ utilities' = IF IsUtility(r)
                      THEN [utilities EXCEPT ![r.owner.id].physical =
                                With(@, id, event.status = "completed")]
                      ELSE utilities
    /\ IF IsUtility(r) THEN UNCHANGED <<usage, allUsage>> ELSE Bill(r.scope, event.usage)

\* A delivery or a history decision closes the response.
CloseResponse(id, r, event) ==
    /\ responses' = [i \in DOMAIN responses \ {id} |-> responses[i]]
    /\ attempts' = IF event.kind = "history"
                     THEN [attempts EXCEPT ![r.owner.id].settled = With(@, id, event.accepted)]
                     ELSE attempts
    /\ compactions' = IF r.owner.kind = "draw"
                        THEN [compactions EXCEPT ![r.owner.id].deliveries =
                                With(@, id, event.outputs)]
                        ELSE compactions
    /\ utilities' = IF IsUtility(r)
                      THEN [utilities EXCEPT ![r.owner.id].delivered = @ \cup {id}]
                      ELSE utilities
    /\ UNCHANGED <<usage, allUsage>>

CommitResponse(rec) ==
    LET r == responses[rec.id]
    IN  /\ CASE rec.event.kind = "outcome" -> RecordOutcome(rec.id, r, rec.event)
             [] rec.event.kind \in {"delivery", "history"} -> CloseResponse(rec.id, r, rec.event)
             [] OTHER -> /\ responses' = [responses EXCEPT ![rec.id] = Stepped(r, rec.event)]
                         /\ UNCHANGED <<attempts, compactions, utilities, usage, allUsage>>
        /\ UNCHANGED <<count, owed, carried, spoken>>

----------------------------------------------------------------------------
\* Chat attempts.

PlanSeed(rec) ==
    LET a == attempts[rec.attempt]
    IN  /\ rec.exact /\ a.scope = rec.kv /\ ~a.completed /\ ~a.seed
        /\ a.generation = NoGeneration
        /\ a.requests # <<>> /\ rec.id = Last1(a.requests)

CommitSeed(rec) ==
    /\ attempts' = [attempts EXCEPT ![rec.attempt].seed = TRUE]
    /\ UNCHANGED <<count, responses, utilities, compactions, owed, usage, allUsage,
                   carried, spoken>>

PlanGeneration(rec) ==
    LET a == attempts[rec.attempt]
    IN  rec.exact /\ a.scope = rec.kv /\ ~a.completed /\ a.seed /\ a.generation = NoGeneration

CommitGeneration(rec) ==
    /\ attempts' = [attempts EXCEPT ![rec.attempt].generation = rec.generation]
    /\ UNCHANGED <<count, responses, utilities, compactions, owed, usage, allUsage,
                   carried, spoken>>

\* require_accepted and require_refused.
Usable(generation, disposition, byBackend) ==
    \/ disposition = "abandoned"
    \/ disposition = "accepted" /\ generation.quality = "usable"
    \/ /\ disposition = "refused" /\ generation.call = None
       /\ generation.quality = IF byBackend THEN "broken" ELSE "limit"

\* plan_completion: all physical requests of the attempt are settled, the
\* history decisions agree with the disposition, and only the last request
\* delivered output.
PlanCompletion(rec) ==
    LET a == attempts[rec.attempt]
        g == a.generation
        n == Len(a.requests)
        final == a.outcomes[Last1(a.requests)]
        accepted == {i \in DOMAIN a.settled : a.settled[i]}
        byBackend == rec.disposition = "refused" /\ final.refused
        turn == rec.disposition # "abandoned"
    IN  /\ rec.exact /\ g # NoGeneration /\ ~a.completed
        /\ Outstanding(a.requests, a.settled) = {}
        /\ accepted = (IF rec.disposition = "accepted" THEN {Last1(a.requests)} ELSE {})
        /\ \A i \in 1..(n - 1) : a.outcomes[a.requests[i]].outputs = 0
        /\ g.outputs <= final.outputs /\ (turn => g.outputs = final.outputs)
        /\ Usable(g, rec.disposition, byBackend)
        /\ turn => IF byBackend THEN final.usage = {}
                   ELSE final.completed /\ final.usage = Billed(g)

Decided(a) ==
    [a EXCEPT !.generation = NoGeneration, !.seed = FALSE, !.outcomes = <<>>, !.completed = TRUE]

\* The turns a kv_scope accepted, with one more.
Said(turns, turn, internal) ==
    [aloud |-> turns.aloud \cup (IF internal THEN {} ELSE {turn}),
     internal |-> turns.internal \cup (IF internal THEN {turn} ELSE {})]
Spoken(scope) == spoken[scope].aloud \cup spoken[scope].internal

CommitCompletion(rec) ==
    LET a == attempts[rec.attempt]
    IN  /\ IF rec.disposition = "accepted"
             THEN /\ owed' = [owed EXCEPT ![a.scope].generations = Append(@, rec.attempt)]
                  /\ spoken' = [spoken EXCEPT ![a.scope] = Said(@, rec.attempt, a.generation.internal)]
             ELSE UNCHANGED <<owed, spoken>>
        /\ attempts' = [attempts EXCEPT ![rec.attempt] = Decided(@)]
        /\ UNCHANGED <<count, responses, utilities, compactions, usage, allUsage, carried>>

HasChatAttempt(scope) == \E a \in Attempts : attempts[a].scope = scope

----------------------------------------------------------------------------
\* Compaction.

\* check_token_measurement: the counts a compaction cites.
Counted(op, kind, scope) ==
    LET u == utilities[op] IN u.state = "counted" /\ u.kind = kind /\ u.scope = scope

\* All requests of a draw are answered and delivered, output only by the last.
DrawSettled(d) ==
    /\ Outstanding(d.requests, d.deliveries) = {}
    /\ \A i \in 1..(Len(d.requests) - 1) : d.deliveries[d.requests[i]] = 0

LastDelivered(d) == d.deliveries[Last1(d.requests)] > 0

\* What the record calls a draw is what its last request was.
DrawWas(d, was) ==
    LET completed == d.outcomes[Last1(d.requests)].completed
    IN  /\ was = "answer" => completed /\ LastDelivered(d)
        /\ was = "fault" => ~completed

\* A snapshot is declared by the outputs that were delivered, ...
Declares(d) == Last1(d.requests) \in d.snapshots /\ LastDelivered(d)

\* ... and cited by its count, unless the compaction ended on this draw.
CitesSnapshot(d, claim, scope) ==
    IF claim.count = None THEN Declares(d) => claim.was = "ended"
    ELSE Declares(d) /\ Counted(claim.count, "text", scope)

\* check_compaction_draw.
CheckDraw(claim, scope) ==
    LET d == compactions[claim.draw]
    IN  /\ d # NoDraw /\ ~d.claimed /\ d.scope = scope
        /\ DrawSettled(d) /\ DrawWas(d, claim.was) /\ CitesSnapshot(d, claim, scope)

\* Fault: the turn issued after the draw's prompt is released with the rest.
CommittedWhole(o, draw) == [draw |-> draw, generations |-> <<>>, issued |-> 0]

\* Fault: the count of carried turns is not reset.
CommittedKeepingIssued(o, draw) ==
    [draw |-> draw, generations |-> SubSeq(o.generations, o.issued + 1, Len(o.generations)),
     issued |-> o.issued]

\* commit_compaction: the snapshot and the turn carried behind it.
Committed(o, draw) ==
    [draw |-> draw, generations |-> SubSeq(o.generations, o.issued + 1, Len(o.generations)),
     issued |-> 0]

CommitCompaction(rec) ==
    LET claimed == {c.draw : c \in Range(rec.claims)}
    IN  /\ compactions' = [d \in Draws |-> IF d \in claimed
                                             THEN [compactions[d] EXCEPT !.claimed = TRUE]
                                             ELSE compactions[d]]
        /\ owed' = IF rec.succeeded
                     THEN [owed EXCEPT ![rec.scope] = Committed(@, Last1(rec.claims).draw)]
                     ELSE owed
        /\ UNCHANGED <<count, responses, attempts, utilities, usage, allUsage,
                       carried, spoken>>

\* Fault: an open attempt does not keep the terminal from being admitted.
SummaryIgnoringAttempts ==
    /\ \A d \in Draws : compactions[d] = NoDraw \/ compactions[d].claimed
    /\ \A u \in Operations : utilities[u].state # "open"
    /\ DOMAIN responses = {}

\* validate_summary: nothing physical or logical is left open.
ValidateSummary ==
    /\ \A d \in Draws : compactions[d] = NoDraw \/ compactions[d].claimed
    /\ \A u \in Operations : utilities[u].state # "open"
    /\ DOMAIN responses = {}
    /\ \A a \in Attempts : attempts[a] = NoAttempt \/ attempts[a].completed

\* The fields of an attempt; what is settled or answered was requested, and an
\* attempt without a kv_scope is a new one.
AttemptType(a) ==
    /\ DOMAIN a = DOMAIN NoAttempt /\ a.requests \in Seq(Ids)
    /\ \/ a.scope \in KvScopes
       \/ a.scope = None /\ a.requests = <<>> /\ ~a.seed /\ a.generation = NoGeneration
    /\ a.seed \in BOOLEAN /\ a.completed \in BOOLEAN
    /\ a.generation \in Generations \cup {NoGeneration}
    /\ DOMAIN a.settled \subseteq ToSet(a.requests) /\ Range(a.settled) \subseteq BOOLEAN
    /\ DOMAIN a.outcomes \subseteq ToSet(a.requests) /\ Range(a.outcomes) \subseteq Outcomes

Debts == [draw : Draws \cup {None}, generations : Seq(Attempts), issued : Nat]

JournalType ==
    /\ count \in 0..MaxRequests /\ DOMAIN responses \subseteq 1..count
    /\ \A i \in DOMAIN responses :
        /\ responses[i] \in Responses(Owners, KvScopes)
        /\ IsChat(responses[i]) => /\ responses[i].owner.id \in Attempts
                                   /\ i \in ToSet(attempts[responses[i].owner.id].requests)
    /\ usage \in [KvScopes -> Summaries] /\ \A s \in KvScopes : Valid(usage[s])
    /\ allUsage \in Summaries /\ Valid(allUsage)
    /\ owed \in [KvScopes -> Debts] /\ \A s \in KvScopes : owed[s].issued <= Len(owed[s].generations)
    /\ DOMAIN attempts = Attempts /\ \A a \in Attempts : AttemptType(attempts[a])
    /\ spoken \in [KvScopes -> Turns]
==============================================================================
