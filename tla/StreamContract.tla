--------------------------- MODULE StreamContract ---------------------------
(***************************************************************************)
(* RuntimeContract: which captured records extend the certified prefix,    *)
(* and what is observed of the others.  A record is planned against the    *)
(* committed state and applied whole, or latches the first refusal.        *)
(*                                                                         *)
(* records_seen and certified_prefix_records enter by their difference,    *)
(* behind.  A record's uuid, session and schema are its identity step.     *)
(***************************************************************************)
EXTENDS ModelRequests, PartialStream

CONSTANTS
    StructuredTools,    \* the calls named structured_output
    Receipts,           \* local operation identities
    MaxBehind,          \* bound on records from the first refusal on
    Loads               \* what a captured stream may hold

RecordKinds == {"compaction", "operation", "partial", "notice", "repeat", "internal"}
LoadType == [attempts : SUBSET Attempts, tools : SUBSET Tools,
             draws : SUBSET Draws, kinds : SUBSET RecordKinds,
             owners : SUBSET OwnerKinds, requests : 0..MaxRequests, open : Nat,
             faults : BOOLEAN, refusals : 0..MaxBehind]

ASSUME ContractAssumption ==
    /\ StructuredTools \subseteq Tools /\ MaxBehind \in Nat
    /\ Loads \subseteq LoadType
    /\ {NoOrigin, Runtime} \cap (Attempts \cup Tools \cup {None, Root}) = {}

VARIABLES
    load,
    phase,      \* "reading", then how the scan ended
    session,    \* session_id: "unread", "owned", or "lost" by a bad first record
    refused,    \* first_refusal
    behind,     \* records_seen - certified_prefix_records
    observed,   \* the observations and the identities they rest on
    started, init,
    tools,      \* tool_uses
    terminal,   \* ScopeState.terminal
    receipt,    \* ScopeState.runtime_operation
    text,       \* runtime_text, or the attempt of the root's model_text
    structured, \* the scopes with a structured_input
    receipts,   \* runtime_operation_ids
    display,    \* OwedDisplay
    partial, origins,
    failedScopes,
    shown       \* history: turns of each scope whose rows are complete

rows == <<terminal, receipt, text, structured, partial, origins>>
runtime == <<started, init, tools, rows, receipts, display, failedScopes, shown>>
certified == <<journal, runtime>>
vars == <<load, phase, session, refused, behind, observed, certified>>

NoTool == [issued |-> FALSE, scope |-> None, returned |-> FALSE]
ToolRecords == [issued : BOOLEAN, scope : Scopes \cup {None}, returned : BOOLEAN]
NoDisplay == [scope |-> None, left |-> 0, attempt |-> None]

ContractInit ==
    /\ load \in Loads /\ phase = "reading" /\ session = "unread" /\ refused = FALSE /\ behind = 0
    /\ observed = [journal |-> FALSE, requests |-> [i \in Ids |-> None], utility |-> {},
                   usage |-> NoRequests, turns |-> FALSE, scopes |-> {}, unaccounted |-> 0]
    /\ started = FALSE /\ init = FALSE
    /\ tools = [t \in Tools |-> NoTool]
    /\ terminal = [s \in Scopes |-> None] /\ receipt = [s \in Scopes |-> FALSE]
    /\ text = [s \in Scopes |-> None] /\ structured = {} /\ receipts = {}
    /\ display = NoDisplay
    /\ partial = [s \in Scopes |-> NoPartial] /\ origins = [s \in Scopes |-> NoOrigin]
    /\ failedScopes = {} /\ shown = [s \in Scopes |-> <<>>]
    /\ JournalInit

Observations ==
    [journal : BOOLEAN, requests : [Ids -> {None, "open", "done"}], utility : SUBSET Ids,
     usage : Summaries, turns : BOOLEAN, scopes : SUBSET Scopes, unaccounted : Nat]

----------------------------------------------------------------------------
\* Observation, which outlives the first refusal.

Unaccounted(o) == [o EXCEPT !.unaccounted = @ + 1]
InScope(o, scope) == IF scope = Root THEN o ELSE [o EXCEPT !.scopes = @ \cup {scope}]

ObservedRequest(o, rec) ==
    IF o.journal /\ o.requests[rec.id] = None /\ MayAdmit(o.usage)
      THEN InScope([o EXCEPT !.requests[rec.id] = "open", !.usage = Admitted(@)], rec.scope)
      ELSE Unaccounted(o)

ObservedUtilityRequest(o, rec) ==
    IF o.journal /\ o.requests[rec.id] = None
      THEN InScope([o EXCEPT !.requests[rec.id] = "open", !.utility = @ \cup {rec.id}], rec.scope)
      ELSE Unaccounted(o)

\* Fault: a repeated outcome is counted again.
ObservedOutcomeAgain(o, rec) ==
    IF o.journal /\ o.requests[rec.id] # None /\ MayFinalize(o.usage, rec.event.usage)
      THEN InScope([o EXCEPT !.requests[rec.id] = "done",
                             !.usage = Finalized(@, rec.event.usage)], rec.scope)
      ELSE Unaccounted(o)

ObservedOutcome(o, rec) ==
    LET open == o.journal /\ o.requests[rec.id] = "open"
    IN  CASE open /\ rec.id \in o.utility ->
               InScope([o EXCEPT !.requests[rec.id] = "done"], rec.scope)
          [] open /\ rec.id \notin o.utility /\ MayFinalize(o.usage, rec.event.usage) ->
               InScope([o EXCEPT !.requests[rec.id] = "done",
                                 !.usage = Finalized(@, rec.event.usage)], rec.scope)
          [] OTHER -> Unaccounted(o)

\* observe.
Observation(o, rec) ==
    CASE rec.kind = "start" -> IF o.journal THEN Unaccounted(o) ELSE [o EXCEPT !.journal = TRUE]
      [] rec.kind = "request" -> ObservedRequest(o, rec)
      [] rec.kind = "utility_request" -> ObservedUtilityRequest(o, rec)
      [] rec.kind = "response" /\ rec.event.kind = "outcome" -> ObservedOutcome(o, rec)
      [] rec.kind = "response" /\ rec.event.kind # "outcome" ->
            IF o.journal /\ o.requests[rec.id] # None THEN InScope(o, rec.scope) ELSE Unaccounted(o)
      [] rec.kind = "result" /\ rec.scope = Root ->
            IF o.turns THEN Unaccounted(o) ELSE [o EXCEPT !.turns = TRUE]
      [] OTHER -> InScope(o, rec.scope)

----------------------------------------------------------------------------
\* Admission.

\* Fault: only the scope's own call is checked, not those above it.
LivesAlone(scope) ==
    scope # Root => tools[scope].issued /\ ~tools[scope].returned /\ terminal[scope] = None

\* ensure_ancestry: the scope's call and every call above it are running.
Ancestors[scope \in Scopes \cup {None}] ==
    IF scope \in Tools THEN {scope} \cup Ancestors[tools[scope].scope] ELSE {}
Lives(scope) ==
    \A t \in Ancestors[scope] :
        tools[t].issued /\ ~tools[t].returned /\ terminal[t] = None

\* A settled turn owes its assistant messages before any other record.
Due(rec) ==
    display # NoDisplay => rec.kind = "assistant" /\ rec.scope = display.scope

\* prepare, then commit when the plan was made: the reader does both before
\* the next record.
Read(rec, plan, commit) ==
    /\ phase = "reading" /\ session = "owned"
    /\ observed' = Observation(observed, rec)
    /\ IF ~refused /\ terminal[Root] = None /\ Lives(rec.scope) /\ Due(rec) /\ plan
         THEN commit /\ UNCHANGED <<refused, behind>>
         ELSE /\ behind < load.refusals
              /\ refused' = TRUE /\ behind' = behind + 1
              /\ UNCHANGED certified
    /\ UNCHANGED <<load, phase, session>>

Envelope(kind, scope) == [kind |-> kind, scope |-> scope]

\* The first record must be the stream_start that owns the session.
StreamStart ==
    \/ /\ phase = "reading" /\ session = "unread"
       /\ session' = "owned" /\ observed' = Observation(observed, Envelope("start", Root))
       /\ started' = TRUE
       /\ UNCHANGED <<load, phase, refused, behind, journal, init, tools, rows, receipts, display,
                      failedScopes, shown>>
    \/ "repeat" \in load.kinds /\ Read(Envelope("start", Root), FALSE, FALSE)

\* A record of another session or none, or one that repeats a uuid.
BadIdentity ==
    /\ phase = "reading" /\ behind < load.refusals
    /\ session' = IF session = "owned" THEN session ELSE "lost"
    /\ observed' = Unaccounted(observed) /\ refused' = TRUE /\ behind' = behind + 1
    /\ UNCHANGED <<load, phase, certified>>

\* A record outside the schema, whose identity holds.
BadSchema ==
    /\ phase = "reading" /\ behind < load.refusals /\ session # "lost"
    /\ session' = "owned"
    /\ observed' = Unaccounted(observed) /\ refused' = TRUE /\ behind' = behind + 1
    /\ UNCHANGED <<load, phase, certified>>

\* observe_gap: a line that is blank, undecodable, over-long or unterminated.
Gap ==
    /\ behind < load.refusals
    /\ session' = IF session = "owned" THEN session ELSE "lost"
    /\ observed' = Unaccounted(observed) /\ refused' = TRUE /\ behind' = behind + 1
    /\ UNCHANGED <<load, certified>>

ObserveGap == phase = "reading" /\ Gap /\ UNCHANGED phase

SystemInit ==
    Read(Envelope("init", Root), TRUE,
         /\ init' = TRUE
         /\ UNCHANGED <<journal, started, tools, rows, receipts, display, failedScopes, shown>>)

\* The display scope a chat request renders for.
DisplayScope(kv) ==
    CASE kv = Root -> Root
      [] kv \in {t \in Tools : tools[t].issued} -> kv
      [] OTHER -> None
Unreturned(scope) == {t \in Tools : tools[t].issued /\ tools[t].scope = scope /\ ~tools[t].returned}

PlanChat(rec) ==
    LET d == DisplayScope(rec.kv)
    IN  /\ rec.kv \notin failedScopes
        /\ d # None => /\ d = rec.scope => text[d] # Runtime
                       /\ Unreturned(d) = {}

ModelRequest(rec) ==
    Read(rec, init /\ PlanRequest(rec) /\ (rec.owner.kind = "chat" => PlanChat(rec)),
         /\ CommitRequest(rec)
         /\ origins' = IF rec.owner.kind = "chat" /\ DisplayScope(rec.kv) # None
                         THEN [origins EXCEPT ![DisplayScope(rec.kv)] = rec.owner.id]
                         ELSE origins
         /\ UNCHANGED <<started, init, tools, terminal, receipt, text, structured, partial,
                        receipts, display, failedScopes, shown>>)

ModelUtilityRequest(rec) ==
    Read(rec, init /\ PlanUtilityRequest(rec), CommitUtilityRequest(rec) /\ UNCHANGED runtime)

ModelUtilityCompletion(rec) ==
    Read(rec, PlanUtilityCompletion(rec), CommitUtilityCompletion(rec) /\ UNCHANGED runtime)

ModelResponse(rec) ==
    Read(rec, PlanResponse(rec), CommitResponse(rec) /\ UNCHANGED runtime)

ModelNormalizationSeed(rec) ==
    Read(rec, PlanSeed(rec), CommitSeed(rec) /\ UNCHANGED runtime)

\* conversation_generation: the output scope agrees with the envelope.
OutputScopeHolds(generation, rec) ==
    IF generation.internal THEN rec.scope = Root ELSE rec.kv = rec.scope

ModelGeneration(rec) ==
    LET g == rec.generation
        p == partial[rec.scope]
    IN  Read(rec,
             /\ PlanGeneration(rec) /\ OutputScopeHolds(g, rec)
             /\ ~g.internal => MayBind(p, rec.attempt),
             /\ CommitGeneration(rec)
             /\ partial' = IF g.internal THEN partial
                           ELSE [partial EXCEPT ![rec.scope] =
                                    Bound(@, rec.attempt, IF g.call = None THEN 0 ELSE 1)]
             /\ UNCHANGED <<started, init, tools, terminal, receipt, text, structured, origins,
                            receipts, display, failedScopes, shown>>)

\* The rows a settled turn shows: its text, and a row of its own for a call.
RowCount(generation) == IF generation.call = None THEN 1 ELSE 2

\* An accepted turn issues its call; a refused one is shown and drawn again.
ModelAttemptCompletion(rec) ==
    LET g == attempts[rec.attempt].generation
        accepted == rec.disposition = "accepted"
        issues == accepted /\ g.call # None
    IN  Read(rec,
             /\ PlanCompletion(rec) /\ OutputScopeHolds(g, rec)
             /\ ~g.internal => /\ MayConclude(partial[rec.scope], rec.attempt)
                               /\ issues => ~tools[g.call].issued,
             /\ CommitCompletion(rec)
             /\ IF g.internal THEN UNCHANGED <<partial, display, text, tools>>
                ELSE /\ partial' = [partial EXCEPT ![rec.scope] = Concluded(@, accepted)]
                     /\ display' = IF rec.disposition = "abandoned" THEN NoDisplay
                                   ELSE [scope |-> rec.scope, left |-> RowCount(g),
                                         attempt |-> rec.attempt]
                     /\ text' = IF accepted /\ rec.scope = Root
                                  THEN [text EXCEPT ![Root] = rec.attempt] ELSE text
                     /\ tools' = IF issues
                                   THEN [tools EXCEPT ![g.call] =
                                            [issued |-> TRUE, scope |-> rec.scope,
                                             returned |-> FALSE]]
                                   ELSE tools
             /\ UNCHANGED <<started, init, terminal, receipt, structured, origins, receipts,
                            failedScopes, shown>>)

\* A row of a settled turn, or the answer of a local operation.
ShownRow(rec) ==
    /\ rec.exact
    /\ display' = IF display.left = 1 THEN NoDisplay ELSE [display EXCEPT !.left = @ - 1]
    /\ shown' = IF display.left = 1
                  THEN [shown EXCEPT ![rec.scope] = Append(@, display.attempt)] ELSE shown
    /\ UNCHANGED <<journal, started, init, tools, rows, receipts, failedScopes>>

RuntimeAnswer(rec) ==
    /\ receipt' = [receipt EXCEPT ![rec.scope] = FALSE]
    /\ text' = [text EXCEPT ![rec.scope] = Runtime]
    /\ partial' = [partial EXCEPT ![rec.scope] = CompletedMessage(@)]
    /\ UNCHANGED <<journal, started, init, tools, terminal, structured, origins, receipts, display,
                   failedScopes, shown>>

Assistant(rec) ==
    Read(rec,
         /\ rec.exact
         /\ display = NoDisplay => /\ ~HasChatAttempt(rec.scope) /\ receipt[rec.scope]
                                   /\ MayCompleteMessage(partial[rec.scope]),
         IF display = NoDisplay THEN RuntimeAnswer(rec) ELSE ShownRow(rec))

\* require_tool_owner.
OwnsTool(t, scope) == tools[t].issued /\ tools[t].scope = scope /\ ~tools[t].returned

\* A user row reports that a call returned.
UserRow(rec) ==
    Read(rec, rec.exact /\ OwnsTool(rec.tool, rec.scope),
         /\ tools' = [tools EXCEPT ![rec.tool].returned = TRUE]
         /\ structured' = IF ~rec.failed /\ rec.tool \in StructuredTools
                            THEN structured \cup {rec.scope} ELSE structured
         /\ UNCHANGED <<journal, started, init, terminal, receipt, text, partial, origins,
                        receipts, display, failedScopes, shown>>)

\* A partial belongs to the latest producer of its scope.
StreamEvent(rec) ==
    LET p == partial[rec.scope]
        q == IF origins[rec.scope] = NoOrigin THEN p ELSE Originated(p, origins[rec.scope])
    IN  Read(rec,
             /\ origins[rec.scope] # NoOrigin => MayOriginate(p, origins[rec.scope])
             /\ rec.event.kind = "tool_progress" => OwnsTool(rec.event.tool, rec.scope)
             /\ MayObserve(q, rec.event, rec.scope = Root),
             /\ partial' = [partial EXCEPT ![rec.scope] = Observed(q, rec.event)]
             /\ UNCHANGED <<journal, started, init, tools, terminal, receipt, text, structured,
                            origins, receipts, display, failedScopes, shown>>)

RuntimeOperation(rec) ==
    Read(rec,
         /\ ~receipt[rec.scope] /\ rec.receipt \notin receipts
         /\ MayOriginate(partial[rec.scope], Runtime),
         /\ receipt' = [receipt EXCEPT ![rec.scope] = TRUE]
         /\ receipts' = receipts \cup {rec.receipt}
         /\ partial' = [partial EXCEPT ![rec.scope] = Originated(@, Runtime)]
         /\ origins' = [origins EXCEPT ![rec.scope] = Runtime]
         /\ UNCHANGED <<journal, started, init, tools, terminal, text, structured, display,
                        failedScopes, shown>>)

\* The tokenizer operations a compaction record cites have counted.
Measured(rec) == rec.measured # None => Counted(rec.measured, "chat", rec.scope)

\* A candidate is drawn on measured counts, and none follows the one a
\* compaction ended on.
Candidates(rec) ==
    /\ rec.claims # <<>> => rec.measured # None
    /\ \A i \in 1..(Len(rec.claims) - 1) : rec.claims[i].was # "ended"

\* The draws are claimed in the order they were issued, after the counts.
DrawsInOrder(rec) ==
    LET draw(i) == compactions[rec.claims[i].draw]
        before(requests, later) == Max(ToSet(requests)) < Min(ToSet(later))
    IN  /\ rec.claims # <<>> => before(utilities[rec.measured].requests, draw(1).requests)
        /\ \A i \in 1..(Len(rec.claims) - 1) : before(draw(i).requests, draw(i + 1).requests)

\* History is replaced only by the counted snapshot of the last draw.
Replaces(rec) ==
    /\ rec.claims # <<>>
    /\ Last1(rec.claims).was = "answer" /\ Last1(rec.claims).count # None

\* validate_compaction_event.
PlanCompaction(rec) ==
    /\ rec.exact /\ rec.scope \notin failedScopes
    /\ Measured(rec) /\ Candidates(rec)
    /\ \A i \in DOMAIN rec.claims : CheckDraw(rec.claims[i], rec.scope)
    /\ DrawsInOrder(rec)
    /\ rec.succeeded => Replaces(rec)

Compaction(rec) ==
    Read(rec, PlanCompaction(rec),
         /\ CommitCompaction(rec)
         /\ failedScopes' = IF rec.succeeded THEN failedScopes ELSE failedScopes \cup {rec.scope}
         /\ UNCHANGED <<started, init, tools, rows, receipts, display, shown>>)

\* A notice changes nothing that is certified.
Notice(rec) == Read(rec, TRUE, UNCHANGED certified)

\* A recording that degraded, or a failed cleanup, refuses the stream.
OperationalFailure(rec) == Read(rec, FALSE, FALSE)

PlanResult(rec) ==
    LET root == rec.scope = Root
    IN  /\ rec.exact /\ ~receipt[rec.scope] /\ Finished(partial[rec.scope])
        /\ rec.structured => root /\ ~rec.error /\ Root \in structured
        /\ root /\ ~rec.error /\ ~rec.structured => Root \notin structured
        /\ text[rec.scope] = Runtime => rec.text = Runtime
        /\ root /\ ~rec.error /\ ~rec.structured /\ text[Root] # None => rec.text = text[Root]
        /\ root => /\ init \/ rec.error
                   /\ \A t \in Tools : Finished(partial[t])
                   /\ ValidateSummary

Result(rec) ==
    Read(rec, PlanResult(rec),
         /\ terminal' = [terminal EXCEPT ![rec.scope] = IF rec.error THEN "error" ELSE "success"]
         /\ UNCHANGED <<journal, started, init, tools, receipt, text, structured, partial, origins,
                        receipts, display, failedScopes, shown>>)

\* finish.
Finishes ==
    /\ ~refused /\ started /\ display = NoDisplay
    /\ \A s \in Scopes : ~receipt[s]
    /\ terminal[Root] # None
==============================================================================
