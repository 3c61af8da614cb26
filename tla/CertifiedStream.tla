--------------------------- MODULE CertifiedStream ---------------------------
(***************************************************************************)
(* read_event_snapshot: one scan of a captured prefix, from its first line *)
(* to the certificate.  The lines are whatever the recorder left; what a   *)
(* stream may hold is bounded by its load, and identities a client draws   *)
(* at random are drawn in one order.                                       *)
(***************************************************************************)
EXTENDS StreamContract

Wrong(S) == IF load.refusals > 0 THEN S ELSE {}
Exact == {TRUE} \cup Wrong({FALSE})
Some(S) == IF S = {} THEN {} ELSE {CHOOSE x \in S : TRUE}

Running == {s \in Scopes : s = Root \/ tools[s].issued}
\* The envelope of a record about a kv scope: the root's, as the client writes
\* its physical records, or that of the call which spawned it.
Envelopes(kv) == {Root} \cup ({kv} \cap Tools)

UsedAttempts == {a \in Attempts : attempts[a] # NoAttempt}
Undecided == {a \in UsedAttempts : ~attempts[a].completed}
UsedDraws == {d \in Draws : compactions[d] # NoDraw}
Used == {u \in Operations : utilities[u] # NoUtility}
\* Only a failure or a mistake makes a client send a request again.
Again(used) == IF load.faults \/ load.refusals > 0 THEN used ELSE {}
\* A new identity, while the load has room for more that is undecided.
Open == Undecided \cup {u \in Used : utilities[u].state = "open"}
        \cup {responses[i].owner.id : i \in DOMAIN responses}
Fresh(unused) == IF Cardinality(Open) < load.open THEN Some(unused) ELSE {}
NextIds == {count + 1} \cup Wrong(1..count)

\* Whose request may come next: an attempt or a draw, new or repeated.
RequestOwners ==
    {[kind |-> "chat", id |-> a] : a \in Again(UsedAttempts) \cup
        Fresh(load.attempts \ UsedAttempts)}
    \cup {[kind |-> "draw", id |-> d] : d \in Again(UsedDraws) \cup
        Fresh(load.draws \ UsedDraws)}
    \cup {[kind |-> "side", id |-> None]}

\* The kv scope of a conversation, or one that no conversation uses.
KvScopesOf(owner) ==
    IF owner.kind = "draw" THEN Running ELSE Running \cup ({Side} \cap load.owners)

Room == count < load.requests /\ Cardinality(DOMAIN responses) < load.open

Missing == [draw |-> None, turns |-> <<>>]

ReadModelRequest ==
    /\ Room
    /\ \E owner \in {o \in RequestOwners : o.kind \in load.owners} :
       \E kv \in KvScopesOf(owner), id \in NextIds, exact \in Exact, whole \in Exact :
       \E scope \in Envelopes(kv) :
          ModelRequest([kind |-> "request", scope |-> scope, kv |-> kv, id |-> id, owner |-> owner,
                        exact |-> exact,
                        carries |-> IF whole THEN Required(kv, owner.kind) ELSE Missing])

ReadUtilityRequest ==
    /\ Room /\ "utility" \in load.owners
    /\ \E op \in Again(Used) \cup Fresh(Operations \ Used), kv \in Running, id \in NextIds,
          tokenizes \in {"chat", "text"}, exact \in Exact :
       \E scope \in Envelopes(kv) :
          ModelUtilityRequest([kind |-> "utility_request", scope |-> scope, kv |-> kv, id |-> id,
                               op |-> op, tokenizes |-> tokenizes, exact |-> exact])

ReadUtilityCompletion ==
    \E op \in Used \cup Wrong(Operations), exact \in Exact,
       result \in (IF load.faults THEN BOOLEAN ELSE {TRUE}) :
       LET u == utilities[op]
       IN  \E scope \in (IF u = NoUtility THEN {Root} ELSE Envelopes(u.scope)),
              requests \in {u.requests} \cup Wrong({<<>>}) :
              ModelUtilityCompletion([kind |-> "utility_completion", scope |-> scope, op |-> op,
                                      requests |-> requests, result |-> result, exact |-> exact])

\* How a response goes when nothing fails.
Healthy(r, event) ==
    CASE event.kind = "http" -> event.status = "ok"
      [] event.kind = "body" -> event.body = "answer"
      [] event.kind = "end" -> event.how = "eof"
      [] event.kind \in {"decoded_body", "decoded_end"} -> event.role = "utility"
      [] event.kind = "outcome" -> event.status = "completed" /\ (event.outputs = 1 \/ IsUtility(r))
      [] event.kind = "delivery" -> event.outputs = r.outputs
      [] event.kind = "history" -> event.accepted

Events(r) ==
    {event \in TransportEvents(r) \cup DecodeEvents \cup OutcomeEvents \cup ReceiptEvents :
        load.faults \/ Healthy(r, event)}

ReadModelResponse ==
    \E id \in DOMAIN responses :
    \E event \in Events(responses[id]), scope \in Envelopes(responses[id].scope) :
    \E exact \in (IF event.kind = "outcome" THEN Exact ELSE {TRUE}) :
       ModelResponse([kind |-> "response", scope |-> scope, id |-> id, event |-> event,
                      exact |-> exact])

\* An outcome of a response that is closed, or was never opened.
ReadStrayOutcome ==
    \E id \in Wrong((1..load.requests) \ DOMAIN responses), served \in Optional(Served) :
       ModelResponse([kind |-> "response", scope |-> Root, id |-> id, exact |-> TRUE,
                      event |-> [kind |-> "outcome", status |-> "failed", seen |-> 0,
                                 usage |-> served, refused |-> FALSE, outputs |-> 0]])

Decidable == Undecided \cup Wrong(UsedAttempts)

ReadSeed ==
    \E a \in Decidable, exact \in Exact :
    \E scope \in Envelopes(attempts[a].scope),
       id \in {Last1(attempts[a].requests)} \cup Wrong(ToSet(attempts[a].requests)) :
       ModelNormalizationSeed([kind |-> "seed", scope |-> scope, kv |-> attempts[a].scope,
                               attempt |-> a, id |-> id, exact |-> exact])

Calls == {t \in load.tools : ~tools[t].issued}
\* Its output scope is independent of its kv scope: internal work may go on in
\* the kv scope of a conversation.
GenerationsRead ==
    {g \in Generations :
        /\ g.call \in {None} \cup Some(Calls) \cup Wrong(load.tools)
        /\ g.internal => "internal" \in load.kinds
        /\ ~load.faults => g.quality = "usable" /\ g.outputs = 1}

ReadGeneration ==
    \E a \in Decidable, exact \in Exact :
    \E scope \in Envelopes(attempts[a].scope), g \in GenerationsRead :
       ModelGeneration([kind |-> "generation", scope |-> scope, kv |-> attempts[a].scope,
                        attempt |-> a, generation |-> g, exact |-> exact])

ReadCompletion ==
    \E a \in Decidable, exact \in Exact, disposition \in {"accepted", "refused", "abandoned"} :
    \E scope \in Envelopes(attempts[a].scope) :
       ModelAttemptCompletion([kind |-> "completion", scope |-> scope, kv |-> attempts[a].scope,
                               attempt |-> a, disposition |-> disposition, exact |-> exact])

ReadAssistant ==
    \E scope \in Running, exact \in Exact :
       Assistant([kind |-> "assistant", scope |-> scope, exact |-> exact])

ReadUser ==
    \E t \in load.tools, scope \in Running, failed \in BOOLEAN, exact \in Exact :
       UserRow([kind |-> "user", scope |-> scope, tool |-> t, failed |-> failed, exact |-> exact])

ReadStreamEvent ==
    /\ "partial" \in load.kinds
    /\ \E scope \in Running :
       \E event \in PartialEvents \cup [kind : {"tool_progress"}, tool : load.tools] :
          StreamEvent([kind |-> "partial", scope |-> scope, event |-> event])

ReadOperation ==
    /\ "operation" \in load.kinds
    /\ \E scope \in Running, r \in receipts \cup Some(Receipts \ receipts) :
          RuntimeOperation([kind |-> "operation", scope |-> scope, receipt |-> r])

Claims == [draw : UsedDraws, was : {"answer", "fault", "ended"}, count : Used \cup {None}]

ReadCompaction ==
    /\ "compaction" \in load.kinds
    /\ \E scope \in Running, measured \in Used \cup {None}, succeeded \in BOOLEAN, exact \in Exact,
          claims \in UNION {[1..n -> Claims] : n \in 0..Cardinality(UsedDraws)} :
          Compaction([kind |-> "compaction", scope |-> scope, measured |-> measured,
                      claims |-> claims, succeeded |-> succeeded, exact |-> exact])

ReadNotice ==
    /\ "notice" \in load.kinds
    /\ \E scope \in Running : Notice(Envelope("notice", scope))

ReadFailure ==
    /\ "notice" \in load.kinds
    /\ OperationalFailure(Envelope("failure", Root))

ReadResult ==
    \E scope \in Running, error \in BOOLEAN, structuredResult \in BOOLEAN, exact \in Exact :
    \E said \in {text[scope]} \cup Wrong({None}) :
       Result([kind |-> "result", scope |-> scope, error |-> error,
               structured |-> structuredResult, text |-> said, exact |-> exact])

\* The scan ends at the boundary the opened file had, in an unterminated tail,
\* or short of it.
ReachedBoundary ==
    /\ phase = "reading" /\ phase' = IF Finishes THEN "replayed" ELSE "uncertified"
    /\ UNCHANGED <<load, session, refused, behind, observed, certified>>

UnterminatedTail == phase = "reading" /\ phase' = "uncertified" /\ Gap

ReadFailed ==
    /\ phase = "reading" /\ phase' = "uncertified"
    /\ load.refusals > 0
    /\ UNCHANGED <<load, session, refused, behind, observed, certified>>

\* verify_physical_generations: the pinned verifier agrees, or does not.
VerifyPhysicalGenerations ==
    /\ phase = "replayed"
    /\ \/ phase' = "certified"
       \/ load.faults /\ phase' = "uncertified"
    /\ UNCHANGED <<load, session, refused, behind, observed, certified>>

Next ==
    \/ StreamStart \/ SystemInit \/ BadIdentity \/ BadSchema \/ ObserveGap
    \/ ReadModelRequest \/ ReadUtilityRequest \/ ReadUtilityCompletion
    \/ ReadModelResponse \/ ReadStrayOutcome \/ ReadSeed \/ ReadGeneration \/ ReadCompletion
    \/ ReadAssistant \/ ReadUser \/ ReadStreamEvent \/ ReadOperation
    \/ ReadCompaction \/ ReadNotice \/ ReadFailure \/ ReadResult
    \/ ReachedBoundary \/ UnterminatedTail \/ ReadFailed \/ VerifyPhysicalGenerations

Spec == ContractInit /\ [][Next]_vars

----------------------------------------------------------------------------
\* A certificate leaves nothing out: no captured line fell outside it, every
\* physical request that any record mentions was answered and accounted for,
\* every attempt was decided and every draw claimed, every turn that a
\* conversation accepted as its output was shown there, and what is billed is
\* what was observed (validate_summary, finish and read_event_snapshot together).
CertifiedIsComplete ==
    phase = "certified" =>
        /\ behind = 0 /\ observed.unaccounted = 0
        /\ \A i \in Ids : observed.requests[i] = (IF i <= count THEN "done" ELSE None)
        /\ \A a \in UsedAttempts : attempts[a].completed
        /\ \A d \in UsedDraws : compactions[d].claimed
        /\ \A s \in Scopes : spoken[s].aloud \subseteq ToSet(shown[s])
        /\ allUsage = observed.usage /\ allUsage.unfinalized = 0

\* The generation requests that were seen and not answered.
OpenIn(o) == {i \in Ids \ o.utility : o.requests[i] = "open"}

SumOver(field(_)) == FoldFunction(+, 0, [s \in KvScopes |-> field(usage[s])])

\* The bill of the whole run is the sum of the bills of its kv scopes, request
\* by request and token by token, whoever issued them (commit and
\* commit_response bill a scope and the run separately).
BillsAddUp ==
    LET requests(u) == u.requests
        tokens(u) == Tokens(u)
    IN  SumOver(requests) = allUsage.requests /\ SumOver(tokens) = Tokens(allUsage)

\* The bill has a token for each report; the observed bill never counts a
\* request or an outcome twice, even after the first refusal, and agrees with
\* the certified one until then (commit_response and observe keep two separate
\* tallies).
UsageAgrees ==
    /\ Tokens(allUsage) = allUsage.reports
    /\ ~refused => allUsage = observed.usage
    /\ observed.usage.unfinalized = Cardinality(OpenIn(observed))

\* A turn that entered history stays owed by its conversation until a request
\* carried it: a compaction never releases a turn no prompt ever held
\* (commit_compaction splits what is owed at issued).
ReleasedWereCarried ==
    \A s \in KvScopes : Spoken(s) \ ToSet(owed[s].generations) \subseteq carried

\* Once a call or any call above it has returned, nothing more is shown in its
\* scope and no further call is issued from it (ensure_ancestry, user rows).
ReturnedScopeSilent ==
    [][\A t \in Tools :
         (\E above \in Ancestors[t] : tools[above].returned) =>
            /\ shown'[t] = shown[t]
            /\ \A c \in Tools : tools'[c].issued /\ tools'[c].scope = t => tools[c].issued]_vars

-----------------------------------------------------------------------------
\* The journal, the rows and the observations keep their types: in particular
\* every usage summary stays balanced and the turns a scope's last request
\* carried are a prefix of the turns it owes (Owed, GenerationUsageSummary).
EngineType ==
    /\ JournalType /\ load \in LoadType
    /\ phase \in {"reading", "replayed", "certified", "uncertified"}
    /\ session \in {"unread", "owned", "lost"} /\ behind \in Nat /\ (refused <=> behind > 0)
    /\ observed \in Observations
    /\ tools \in [Tools -> ToolRecords]
    /\ terminal \in [Scopes -> {None, "error", "success"}]
    /\ shown \in [Scopes -> Seq(Attempts)]
    /\ display = NoDisplay \/ display \in [scope : Scopes, left : 1..2, attempt : Attempts]

\* The observed bill is balanced, and its open requests are those not answered.
BalancedObservation(o) ==
    /\ Valid(o.usage) /\ o.usage.unfinalized = Cardinality(OpenIn(o))
    /\ \A i \in o.utility : o.requests[i] # None

\* How far a request of the journal has come.
Answered(i) ==
    IF i > count THEN None
    ELSE IF i \in DOMAIN responses /\ responses[i].processing = "none" THEN "open" ELSE "done"

\* Until the first refusal, what is observed is what is certified.
TallyInv ==
    ~refused =>
        /\ observed.unaccounted = 0 /\ observed.usage = allUsage
        /\ session = "owned" <=> observed.journal
        /\ observed.turns => terminal[Root] # None
        /\ \A i \in Ids : observed.requests[i] = Answered(i)
        /\ \A i \in DOMAIN responses : i \in observed.utility <=> IsUtility(responses[i])

\* The turns below issued were carried, and a turn that is no longer owed too.
OwedInv ==
    \A s \in KvScopes :
        /\ \A i \in 1..owed[s].issued : owed[s].generations[i] \in carried
        /\ Spoken(s) \subseteq ToSet(owed[s].generations) \cup carried

\* Only the turn whose rows are due is spoken aloud and not yet shown.
ShownInv ==
    \A s \in Scopes :
        spoken[s].aloud \subseteq
            ToSet(shown[s]) \cup (IF display.scope = s THEN {display.attempt} ELSE {})

\* After the result of the root nothing is left open, and nothing changes.
EndInv ==
    /\ terminal[Root] # None => ValidateSummary /\ display = NoDisplay
    /\ phase \in {"replayed", "certified"} => ~refused /\ terminal[Root] # None

\* What holds of the journal, the rows and the observations in every state.
EngineInv ==
    /\ EngineType /\ BalancedObservation(observed) /\ Tokens(allUsage) = allUsage.reports
    /\ TallyInv /\ OwedInv /\ ShownInv /\ EndInv
==============================================================================
