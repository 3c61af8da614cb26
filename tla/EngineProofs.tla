---------------------------- MODULE EngineProofs ----------------------------
(***************************************************************************)
(* What the certifier guarantees of every captured stream, whatever the    *)
(* number of requests, attempts, tools, draws and faulty records.          *)
(***************************************************************************)
EXTENDS CertifiedStream, FiniteSetTheorems, SequenceTheorems, WellFoundedInduction, TLAPS

-----------------------------------------------------------------------------
(* Sequences, partial maps and the values of an optional count.            *)

\* What a sequence holds after one more element.
LEMMA ToSetAppend ==
    ASSUME NEW S, NEW s \in Seq(S), NEW e \in S
    PROVE  /\ Append(s, e) \in Seq(S) /\ ToSet(Append(s, e)) = ToSet(s) \cup {e}
           /\ Len(Append(s, e)) = Len(s) + 1 /\ Len(s) \in Nat
           /\ \A i \in 1..Len(s) : Append(s, e)[i] = s[i]
<1> DEFINE t == Append(s, e)
<1>1. /\ t \in Seq(S) /\ Len(t) = Len(s) + 1 /\ Len(s) \in Nat
      /\ t[Len(s) + 1] = e /\ \A i \in 1..Len(s) : t[i] = s[i]
  OBVIOUS
<1>2. DOMAIN s = 1..Len(s) /\ DOMAIN t = 1..Len(t) BY <1>1
<1>3. DOMAIN t = DOMAIN s \cup {Len(s) + 1} BY <1>1, <1>2
<1>4. ToSet(t) = ToSet(s) \cup {e}
  <2>1. \A x : x \in ToSet(t) <=> \E i \in DOMAIN s \cup {Len(s) + 1} : t[i] = x
    BY <1>3 DEF ToSet
  <2>2. \A x : x \in ToSet(s) <=> \E i \in DOMAIN s : s[i] = x BY DEF ToSet
  <2>3. \A i \in DOMAIN s : t[i] = s[i] BY <1>1, <1>2
  <2> HIDE DEF t
  <2> QED BY <1>1, <2>1, <2>2, <2>3
<1> QED BY <1>1, <1>4

\* The elements of a sequence come from its type.
LEMMA ToSetOf ==
    ASSUME NEW S, NEW s \in Seq(S)
    PROVE  /\ ToSet(s) \subseteq S /\ Len(s) \in Nat /\ DOMAIN s = 1..Len(s)
           /\ \A x : x \in ToSet(s) <=> \E i \in 1..Len(s) : x = s[i]
BY DEF ToSet

LEMMA ToSetEmpty == ToSet(<<>>) = {} /\ DOMAIN <<>> = {} /\ Range(<<>>) = {}
BY DEF ToSet, Range

\* A partial map with one more entry.
LEMMA WithFacts ==
    ASSUME NEW f, NEW x, NEW v
    PROVE  /\ DOMAIN With(f, x, v) = DOMAIN f \cup {x}
           /\ With(f, x, v)[x] = v
           /\ \A y \in DOMAIN f \ {x} : With(f, x, v)[y] = f[y]
BY DEF With

LEMMA WithRange ==
    ASSUME NEW f, NEW x, NEW T, NEW v \in T, Range(f) \subseteq T
    PROVE  Range(With(f, x, v)) \subseteq T
BY DEF With, Range

\* A response reports one unit of usage, or none.
LEMMA ServedFacts ==
    ASSUME NEW served \in Optional(Served)
    PROVE  \/ served = {} /\ Cardinality(served) = 0
           \/ served = {1} /\ Cardinality(served) = 1
BY FS_EmptySet, FS_Singleton DEF Optional, Served

\* The tokens of a bill are a natural number.
LEMMA TokensFacts ==
    ASSUME NEW s \in Summaries
    PROVE  /\ Tokens(s) \in Nat
           /\ s.usage = {} => Tokens(s) = 0
           /\ \A n : s.usage = {n} => Tokens(s) = n
<1>1. s.usage \in Optional(Counts) BY DEF Summaries
<1>2. \A n : (CHOOSE m \in {n} : TRUE) = n OBVIOUS
<1> QED BY <1>1, <1>2, SafeIntegerAssumption DEF Tokens, Optional, Counts

-----------------------------------------------------------------------------
(* A usage summary stays balanced.                                         *)

\* A bill whose counts of requests change is still a bill ...
LEMMA CountsUpdate ==
    ASSUME NEW s \in Summaries, NEW q \in Counts, NEW u \in Counts
    PROVE  [s EXCEPT !.requests = q, !.unfinalized = u] \in Summaries
BY DEF Summaries

\* ... and so is one whose reports change.
LEMMA ReportUpdate ==
    ASSUME NEW s \in Summaries, NEW u \in Counts, NEW r \in Counts, NEW n \in Counts,
           NEW t \in Optional(Counts)
    PROVE  [s EXCEPT !.unfinalized = u, !.reports = r, !.unreported = n, !.usage = t]
               \in Summaries
BY DEF Summaries

\* The empty bill is balanced.
LEMMA NoRequestsFacts ==
    NoRequests \in Summaries /\ Valid(NoRequests) /\ Tokens(NoRequests) = 0
<1>1. NoRequests \in Summaries
  BY SafeIntegerAssumption DEF NoRequests, Summaries, Counts, Optional
<1> QED BY <1>1, SafeIntegerAssumption DEF NoRequests, Valid, Tokens

\* admit_request: one more request is open, nothing else is billed.
LEMMA AdmittedFacts ==
    ASSUME NEW s \in Summaries, MayAdmit(s)
    PROVE  /\ Admitted(s) \in Summaries /\ Valid(Admitted(s))
           /\ Admitted(s).unfinalized = s.unfinalized + 1 /\ Admitted(s).reports = s.reports
           /\ Admitted(s).requests = s.requests + 1 /\ Tokens(Admitted(s)) = Tokens(s)
<1> DEFINE a == Admitted(s)
<1>1. /\ a.requests = s.requests + 1 /\ a.unfinalized = s.unfinalized + 1
      /\ a.reports = s.reports /\ a.unreported = s.unreported /\ a.usage = s.usage
  BY DEF Admitted, Summaries
<1>2. Tokens(a) = Tokens(s) BY <1>1 DEF Tokens
<1>3. Valid(a)
  BY <1>1, <1>2, SafeIntegerAssumption DEF Valid, MayAdmit, Summaries, Counts
<1>4. a = [s EXCEPT !.requests = a.requests, !.unfinalized = a.unfinalized]
  BY <1>1 DEF Admitted
<1>5. /\ a.requests \in Counts /\ a.reports \in Counts /\ a.unfinalized \in Counts
      /\ a.unreported \in Counts /\ a.usage \in Optional(Counts)
  <2> HIDE DEF a
  <2> QED BY <1>1, <1>3, SafeIntegerAssumption DEF Valid, Summaries, Counts
<1>6. a \in Summaries
  <2> HIDE DEF a
  <2>1. [s EXCEPT !.requests = a.requests, !.unfinalized = a.unfinalized] \in Summaries
    BY <1>5, CountsUpdate
  <2> QED BY <1>4, <2>1
<1> QED BY <1>1, <1>2, <1>3, <1>6

\* finalize: an open request is closed, and its usage billed if it has any.
LEMMA FinalizedFacts ==
    ASSUME NEW s \in Summaries, NEW served \in Optional(Served), MayFinalize(s, served)
    PROVE  /\ Finalized(s, served) \in Summaries /\ Valid(Finalized(s, served))
           /\ s.unfinalized > 0 /\ Finalized(s, served).unfinalized = s.unfinalized - 1
           /\ Tokens(s) = s.reports =>
                 Tokens(Finalized(s, served)) = Finalized(s, served).reports
           /\ Finalized(s, served).requests = s.requests
           /\ Tokens(Finalized(s, served)) = Tokens(s) + Cardinality(served)
<1> DEFINE f == Finalized(s, served)
           n == Cardinality(served)
<1>1. /\ f.requests = s.requests /\ f.unfinalized = s.unfinalized - 1
      /\ f.reports = s.reports + n /\ f.unreported = s.unreported + 1 - n
      /\ f.usage = IF served = {} THEN s.usage
                   ELSE {Tokens(s) + CHOOSE m \in served : TRUE}
  BY DEF Finalized, Summaries
<1>2. \/ served = {} /\ n = 0
      \/ served = {1} /\ n = 1
  BY ServedFacts
<1>3. (CHOOSE m \in {1} : TRUE) = 1 OBVIOUS
<1>4. f.usage = IF served = {} THEN s.usage ELSE {Tokens(s) + 1} BY <1>1, <1>2, <1>3
<1>5. Tokens(f) = Tokens(s) + n
  <2>1. \A k : (CHOOSE m \in {k} : TRUE) = k OBVIOUS
  <2>2. CASE served = {}
    BY <1>2, <1>4, <2>2, TokensFacts DEF Tokens
  <2>3. CASE served = {1}
    <3>1. f.usage = {Tokens(s) + 1} BY <1>4, <2>3
    <3>2. Tokens(f) = Tokens(s) + 1 BY <2>1, <3>1 DEF Tokens
    <3> QED BY <1>2, <2>3, <3>2
  <2> QED BY <1>2, <2>2, <2>3
<1>6. Valid(f) /\ s.unfinalized > 0 /\ Valid(s) BY DEF MayFinalize
<1>7. /\ s.requests \in 0..SafeInteger /\ s.reports \in Nat /\ s.unfinalized \in Nat
      /\ s.unreported \in Nat /\ s.usage \in Optional(Counts) /\ Tokens(s) \in Nat
      /\ SafeInteger \in Nat
  BY TokensFacts, SafeIntegerAssumption DEF Summaries, Counts
<1>8. f = [s EXCEPT !.unfinalized = f.unfinalized, !.reports = f.reports,
                  !.unreported = f.unreported, !.usage = f.usage]
  BY <1>1 DEF Finalized
<1> HIDE DEF f, n
<1>9. /\ f.requests \in Counts /\ f.reports \in Counts /\ f.unfinalized \in Counts
      /\ f.unreported \in Counts
  <2>1. f.requests \in Counts /\ f.unfinalized \in Nat BY <1>1, <1>6, <1>7 DEF Counts
  <2>2. f.reports \in Nat /\ f.unreported \in Nat BY <1>1, <1>2, <1>7
  <2>3. f.reports + f.unfinalized + f.unreported = f.requests BY <1>6 DEF Valid
  <2>4. f.requests \in 0..SafeInteger BY <2>1 DEF Counts
  <2>5. /\ f.reports <= f.requests /\ f.unfinalized <= f.requests
        /\ f.unreported <= f.requests
    BY <2>1, <2>2, <2>3, <2>4
  <2> QED BY <1>7, <2>1, <2>2, <2>4, <2>5 DEF Counts
<1>10. f.usage \in Optional(Counts)
  BY <1>2, <1>4, <1>5, <1>6, <1>7 DEF Valid, Optional, Counts
<1>11. f \in Summaries 
  <2>1. [s EXCEPT !.unfinalized = f.unfinalized, !.reports = f.reports,
                  !.unreported = f.unreported, !.usage = f.usage] \in Summaries
    BY <1>9, <1>10, ReportUpdate
  <2> QED BY <1>8, <2>1
<1>12. f.unfinalized = s.unfinalized - 1 BY <1>1
<1>13. Tokens(s) = s.reports => Tokens(f) = f.reports BY <1>1, <1>5
<1>14. f.requests = s.requests /\ Tokens(f) = Tokens(s) + n BY <1>1, <1>5
<1> QED BY <1>6, <1>11, <1>12, <1>13, <1>14 DEF f, n

-----------------------------------------------------------------------------
(* What each record adds to the observations.                              *)

\* The observations that a request or a response leaves alone.
Agree(o, p) == p.journal = o.journal /\ p.turns = o.turns /\ p.unaccounted = o.unaccounted

\* Noting a scope changes nothing else that was observed.
LEMMA InScopeFacts ==
    ASSUME NEW o \in Observations, NEW scope \in Scopes
    PROVE  LET p == InScope(o, scope)
           IN  /\ p \in Observations /\ Agree(o, p)
               /\ p.requests = o.requests /\ p.utility = o.utility /\ p.usage = o.usage
BY DEF InScope, Observations, Agree

\* A record outside the certificate leaves the observed bill alone.
LEMMA UnaccountedFacts ==
    ASSUME NEW o \in Observations
    PROVE  LET p == Unaccounted(o)
           IN  /\ p \in Observations
               /\ p.requests = o.requests /\ p.utility = o.utility /\ p.usage = o.usage
BY DEF Unaccounted, Observations

\* A request is seen for the first time.
LEMMA RequestSeen ==
    ASSUME NEW o \in Observations, NEW id \in Ids, NEW u \in Summaries
    PROVE  LET p == [o EXCEPT !.requests[id] = "open", !.usage = u]
           IN  /\ p \in Observations /\ Agree(o, p)
               /\ p.requests = [o.requests EXCEPT ![id] = "open"] /\ p.utility = o.utility
               /\ p.usage = u
BY DEF Observations, Agree

LEMMA UtilitySeen ==
    ASSUME NEW o \in Observations, NEW id \in Ids
    PROVE  LET p == [o EXCEPT !.requests[id] = "open", !.utility = @ \cup {id}]
           IN  /\ p \in Observations /\ Agree(o, p)
               /\ p.requests = [o.requests EXCEPT ![id] = "open"]
               /\ p.utility = o.utility \cup {id} /\ p.usage = o.usage
BY DEF Observations, Agree

\* A request is answered.
LEMMA UtilityDone ==
    ASSUME NEW o \in Observations, NEW id \in Ids
    PROVE  LET p == [o EXCEPT !.requests[id] = "done"]
           IN  /\ p \in Observations /\ Agree(o, p)
               /\ p.requests = [o.requests EXCEPT ![id] = "done"]
               /\ p.utility = o.utility /\ p.usage = o.usage
BY DEF Observations, Agree

\* The open requests can be counted.
LEMMA OpenIsFinite == \A o : IsFiniteSet(OpenIn(o))
<1>1. IsFiniteSet(Ids) BY FS_Interval, JournalAssumption DEF Ids
<1>2. \A o : OpenIn(o) \subseteq Ids BY DEF OpenIn
<1> QED BY <1>1, <1>2, FS_Subset

\* The observed bill is balanced after each of these.
LEMMA BalancedSame ==
    ASSUME NEW o, NEW p, BalancedObservation(o),
           p.requests = o.requests, p.utility = o.utility, p.usage = o.usage
    PROVE  BalancedObservation(p)
BY DEF BalancedObservation, OpenIn

\* A request that is seen opens one more ...
LEMMA BalancedRequest ==
    ASSUME NEW o \in Observations, NEW p \in Observations, NEW id \in Ids,
           BalancedObservation(o), o.requests[id] = None, MayAdmit(o.usage),
           p.requests = [o.requests EXCEPT ![id] = "open"], p.utility = o.utility,
           p.usage = Admitted(o.usage)
    PROVE  BalancedObservation(p)
<1>1. o.usage \in Summaries /\ o.requests \in [Ids -> {None, "open", "done"}]
      /\ o.utility \subseteq Ids
  BY DEF Observations
<1>2. Valid(p.usage) /\ p.usage.unfinalized = o.usage.unfinalized + 1 BY <1>1, AdmittedFacts
<1>3. id \notin o.utility BY DEF BalancedObservation
<1>4. OpenIn(p) = OpenIn(o) \cup {id} /\ id \notin OpenIn(o) BY <1>1, <1>3 DEF OpenIn, None
<1>5. Cardinality(OpenIn(p)) = Cardinality(OpenIn(o)) + 1
  BY <1>4, OpenIsFinite, FS_AddElement
<1>6. \A i \in p.utility : p.requests[i] # None BY <1>1, <1>3 DEF BalancedObservation
<1> QED BY <1>2, <1>5, <1>6 DEF BalancedObservation

\* ... unless it is a utility request, which nobody is billed for.
LEMMA BalancedUtility ==
    ASSUME NEW o \in Observations, NEW p \in Observations, NEW id \in Ids,
           BalancedObservation(o), o.requests[id] = None,
           p.requests = [o.requests EXCEPT ![id] = "open"], p.utility = o.utility \cup {id},
           p.usage = o.usage
    PROVE  BalancedObservation(p)
<1>1. o.requests \in [Ids -> {None, "open", "done"}] /\ o.utility \subseteq Ids
  BY DEF Observations
<1>2. OpenIn(p) = OpenIn(o) BY <1>1 DEF OpenIn, None
<1>3. \A i \in p.utility : p.requests[i] # None BY <1>1 DEF BalancedObservation, None
<1> QED BY <1>2, <1>3 DEF BalancedObservation

\* The outcome of a utility request closes none ...
LEMMA BalancedUtilityDone ==
    ASSUME NEW o \in Observations, NEW p \in Observations, NEW id \in o.utility,
           BalancedObservation(o),
           p.requests = [o.requests EXCEPT ![id] = "done"], p.utility = o.utility,
           p.usage = o.usage
    PROVE  BalancedObservation(p)
<1>1. o.requests \in [Ids -> {None, "open", "done"}] /\ o.utility \subseteq Ids
  BY DEF Observations
<1>2. OpenIn(p) = OpenIn(o) BY <1>1 DEF OpenIn
<1>3. \A i \in p.utility : p.requests[i] # None BY <1>1 DEF BalancedObservation, None
<1> QED BY <1>2, <1>3 DEF BalancedObservation

\* ... and any other outcome closes one.
LEMMA BalancedDone ==
    ASSUME NEW o \in Observations, NEW p \in Observations, NEW id \in Ids \ o.utility,
           BalancedObservation(o), o.requests[id] = "open",
           NEW served \in Optional(Served), MayFinalize(o.usage, served),
           p.requests = [o.requests EXCEPT ![id] = "done"], p.utility = o.utility,
           p.usage = Finalized(o.usage, served)
    PROVE  BalancedObservation(p)
<1>1. o.usage \in Summaries /\ o.requests \in [Ids -> {None, "open", "done"}]
      /\ o.utility \subseteq Ids
  BY DEF Observations
<1>2. Valid(p.usage) /\ p.usage.unfinalized = o.usage.unfinalized - 1
  BY <1>1, FinalizedFacts
<1>3. OpenIn(p) = OpenIn(o) \ {id} /\ id \in OpenIn(o) BY <1>1 DEF OpenIn
<1>4. Cardinality(OpenIn(p)) = Cardinality(OpenIn(o)) - 1
  BY <1>3, OpenIsFinite, FS_RemoveElement
<1>5. \A i \in p.utility : p.requests[i] # None BY <1>1 DEF BalancedObservation, None
<1> QED BY <1>2, <1>4, <1>5 DEF BalancedObservation

\* The fields every record of its kind has.
Readable(rec) ==
    /\ rec.scope \in Scopes
    /\ rec.kind \in {"request", "utility_request", "response"} => rec.id \in Ids
    /\ rec.kind = "response" /\ rec.event.kind = "outcome" =>
          rec.event.usage \in Optional(Served)

\* What the observations are after a request, a utility request and an outcome.
LEMMA RequestObserved ==
    ASSUME NEW o \in Observations, NEW rec, Readable(rec), rec.kind = "request",
           o.journal, o.requests[rec.id] = None, MayAdmit(o.usage)
    PROVE  LET p == Observation(o, rec)
           IN  /\ p \in Observations /\ Agree(o, p)
               /\ p.requests = [o.requests EXCEPT ![rec.id] = "open"] /\ p.utility = o.utility
               /\ p.usage = Admitted(o.usage)
<1>1. rec.id \in Ids /\ rec.scope \in Scopes BY DEF Readable
<1>2. Admitted(o.usage) \in Summaries BY AdmittedFacts DEF Observations
<1> DEFINE q == [o EXCEPT !.requests[rec.id] = "open", !.usage = Admitted(o.usage)]
<1>3. Observation(o, rec) = InScope(q, rec.scope) BY DEF Observation, ObservedRequest
<1>4. /\ q \in Observations /\ Agree(o, q)
      /\ q.requests = [o.requests EXCEPT ![rec.id] = "open"] /\ q.utility = o.utility
      /\ q.usage = Admitted(o.usage)
  BY <1>1, <1>2, RequestSeen
<1> HIDE DEF q
<1>5. LET p == InScope(q, rec.scope)
      IN  /\ p \in Observations /\ Agree(q, p)
          /\ p.requests = q.requests /\ p.utility = q.utility /\ p.usage = q.usage
  BY <1>1, <1>4, InScopeFacts
<1> QED BY <1>3, <1>4, <1>5 DEF Agree

LEMMA UtilityObserved ==
    ASSUME NEW o \in Observations, NEW rec, Readable(rec), rec.kind = "utility_request",
           o.journal, o.requests[rec.id] = None
    PROVE  LET p == Observation(o, rec)
           IN  /\ p \in Observations /\ Agree(o, p)
               /\ p.requests = [o.requests EXCEPT ![rec.id] = "open"]
               /\ p.utility = o.utility \cup {rec.id} /\ p.usage = o.usage
<1>1. rec.id \in Ids /\ rec.scope \in Scopes BY DEF Readable
<1> DEFINE q == [o EXCEPT !.requests[rec.id] = "open", !.utility = @ \cup {rec.id}]
<1>2. Observation(o, rec) = InScope(q, rec.scope) BY DEF Observation, ObservedUtilityRequest
<1>3. /\ q \in Observations /\ Agree(o, q)
      /\ q.requests = [o.requests EXCEPT ![rec.id] = "open"]
      /\ q.utility = o.utility \cup {rec.id} /\ q.usage = o.usage
  BY <1>1, UtilitySeen
<1> HIDE DEF q
<1>4. LET p == InScope(q, rec.scope)
      IN  /\ p \in Observations /\ Agree(q, p)
          /\ p.requests = q.requests /\ p.utility = q.utility /\ p.usage = q.usage
  BY <1>1, <1>3, InScopeFacts
<1> QED BY <1>2, <1>3, <1>4 DEF Agree

LEMMA OutcomeObserved ==
    ASSUME NEW o \in Observations, NEW rec, Readable(rec), rec.kind = "response",
           rec.event.kind = "outcome", o.journal, o.requests[rec.id] = "open",
           rec.id \in o.utility \/ MayFinalize(o.usage, rec.event.usage)
    PROVE  LET p == Observation(o, rec)
           IN  /\ p \in Observations /\ Agree(o, p)
               /\ p.requests = [o.requests EXCEPT ![rec.id] = "done"]
               /\ p.utility = o.utility
               /\ p.usage = IF rec.id \in o.utility THEN o.usage
                            ELSE Finalized(o.usage, rec.event.usage)
<1>1. rec.id \in Ids /\ rec.scope \in Scopes /\ rec.event.usage \in Optional(Served)
  BY DEF Readable
<1>2. Observation(o, rec) = ObservedOutcome(o, rec) BY DEF Observation
<1>3. CASE rec.id \in o.utility
  <2> DEFINE q == [o EXCEPT !.requests[rec.id] = "done"]
  <2>1. Observation(o, rec) = InScope(q, rec.scope) BY <1>2, <1>3 DEF ObservedOutcome
  <2>2. /\ q \in Observations /\ Agree(o, q)
        /\ q.requests = [o.requests EXCEPT ![rec.id] = "done"]
        /\ q.utility = o.utility /\ q.usage = o.usage
    BY <1>1, UtilityDone
  <2> HIDE DEF q
  <2>3. LET p == InScope(q, rec.scope)
        IN  /\ p \in Observations /\ Agree(q, p)
            /\ p.requests = q.requests /\ p.utility = q.utility /\ p.usage = q.usage
    BY <1>1, <2>2, InScopeFacts
  <2> QED BY <1>3, <2>1, <2>2, <2>3 DEF Agree
<1>4. CASE rec.id \notin o.utility
  <2>1. Finalized(o.usage, rec.event.usage) \in Summaries
    BY <1>1, <1>4, FinalizedFacts DEF Observations
  <2> DEFINE q == [o EXCEPT !.requests[rec.id] = "done",
                            !.usage = Finalized(o.usage, rec.event.usage)]
  <2>2. Observation(o, rec) = InScope(q, rec.scope) BY <1>2, <1>4 DEF ObservedOutcome
  <2>3. /\ q \in Observations /\ Agree(o, q)
        /\ q.requests = [o.requests EXCEPT ![rec.id] = "done"]
        /\ q.utility = o.utility /\ q.usage = Finalized(o.usage, rec.event.usage)
    <3> DEFINE i == rec.id
               u == Finalized(o.usage, rec.event.usage)
    <3>1. i \in Ids /\ u \in Summaries BY <1>1, <2>1
    <3> HIDE DEF i, u
    <3>2. LET p == [o EXCEPT !.requests[i] = "done", !.usage = u]
          IN  /\ p \in Observations /\ Agree(o, p)
              /\ p.requests = [o.requests EXCEPT ![i] = "done"]
              /\ p.utility = o.utility /\ p.usage = u
      BY <3>1 DEF Observations, Agree
    <3> QED BY <3>2 DEF i, u
  <2> HIDE DEF q
  <2>4. LET p == InScope(q, rec.scope)
        IN  /\ p \in Observations /\ Agree(q, p) /\ p.requests = q.requests
            /\ p.utility = q.utility /\ p.usage = q.usage
    BY <1>1, <2>3, InScopeFacts
  <2> QED BY <1>4, <2>2, <2>3, <2>4 DEF Agree
<1> QED BY <1>3, <1>4

\* Any record leaves the observations typed and the observed bill balanced.
LEMMA ObservationFacts ==
    ASSUME NEW o \in Observations, BalancedObservation(o), NEW rec, Readable(rec)
    PROVE  Observation(o, rec) \in Observations /\ BalancedObservation(Observation(o, rec))
<1> DEFINE p == Observation(o, rec)
<1>1. rec.scope \in Scopes BY DEF Readable
<1>2. CASE p = Unaccounted(o)
  BY <1>2, UnaccountedFacts, BalancedSame
<1>3. CASE p = InScope(o, rec.scope)
  BY <1>1, <1>3, InScopeFacts, BalancedSame
<1>4. CASE /\ rec.kind = "request"
           /\ o.journal /\ o.requests[rec.id] = None /\ MayAdmit(o.usage)
  <2>1. rec.id \in Ids BY <1>4 DEF Readable
  <2> QED BY <1>4, <2>1, RequestObserved, BalancedRequest
<1>5. CASE rec.kind = "utility_request" /\ o.journal /\ o.requests[rec.id] = None
  <2>1. rec.id \in Ids BY <1>5 DEF Readable
  <2> QED BY <1>5, <2>1, UtilityObserved, BalancedUtility
<1>6. CASE /\ rec.kind = "response" /\ rec.event.kind = "outcome"
           /\ o.journal /\ o.requests[rec.id] = "open"
           /\ rec.id \in o.utility \/ MayFinalize(o.usage, rec.event.usage)
  <2>1. rec.id \in Ids /\ rec.event.usage \in Optional(Served) BY <1>6 DEF Readable
  <2>2. /\ p \in Observations
        /\ p.requests = [o.requests EXCEPT ![rec.id] = "done"]
        /\ p.utility = o.utility
        /\ p.usage = IF rec.id \in o.utility THEN o.usage
                     ELSE Finalized(o.usage, rec.event.usage)
    BY <1>6, OutcomeObserved
  <2>3. CASE rec.id \in o.utility
    <3>1. p.usage = o.usage BY <2>2, <2>3
    <3> QED BY <2>2, <2>3, <3>1, BalancedUtilityDone
  <2>4. CASE rec.id \notin o.utility
    <3>1. p.usage = Finalized(o.usage, rec.event.usage) BY <2>2, <2>4
    <3>2. rec.id \in Ids \ o.utility /\ MayFinalize(o.usage, rec.event.usage)
      BY <1>6, <2>1, <2>4
    <3> QED BY <1>6, <2>1, <2>2, <3>1, <3>2, BalancedDone
  <2> QED BY <2>3, <2>4
<1>7. CASE rec.kind = "start" /\ ~o.journal
  <2>1. p = [o EXCEPT !.journal = TRUE] BY <1>7 DEF Observation
  <2>2. /\ [o EXCEPT !.journal = TRUE] \in Observations
        /\ LET q == [o EXCEPT !.journal = TRUE]
           IN  q.requests = o.requests /\ q.utility = o.utility /\ q.usage = o.usage
    BY DEF Observations
  <2> QED BY <2>1, <2>2, BalancedSame
<1>8. CASE rec.kind = "result" /\ rec.scope = Root /\ ~o.turns
  <2>1. p = [o EXCEPT !.turns = TRUE] BY <1>8 DEF Observation
  <2>2. /\ [o EXCEPT !.turns = TRUE] \in Observations
        /\ LET q == [o EXCEPT !.turns = TRUE]
           IN  q.requests = o.requests /\ q.utility = o.utility /\ q.usage = o.usage
    BY DEF Observations
  <2> QED BY <2>1, <2>2, BalancedSame
<1>9. \/ p = Unaccounted(o) \/ p = InScope(o, rec.scope)
      \/ /\ rec.kind = "request"
         /\ o.journal /\ o.requests[rec.id] = None /\ MayAdmit(o.usage)
      \/ rec.kind = "utility_request" /\ o.journal /\ o.requests[rec.id] = None
      \/ /\ rec.kind = "response" /\ rec.event.kind = "outcome"
         /\ o.journal /\ o.requests[rec.id] = "open"
         /\ rec.id \in o.utility \/ MayFinalize(o.usage, rec.event.usage)
      \/ rec.kind = "start" /\ ~o.journal
      \/ rec.kind = "result" /\ rec.scope = Root /\ ~o.turns
  <2>1. CASE rec.kind = "request" BY <2>1 DEF Observation, ObservedRequest
  <2>2. CASE rec.kind = "utility_request" BY <2>2 DEF Observation, ObservedUtilityRequest
  <2>3. CASE rec.kind = "response" /\ rec.event.kind = "outcome"
    <3>1. p = ObservedOutcome(o, rec) BY <2>3 DEF Observation
    <3> QED BY <2>3, <3>1 DEF ObservedOutcome
  <2>4. CASE rec.kind = "response" /\ rec.event.kind # "outcome" BY <2>4 DEF Observation
  <2>5. CASE rec.kind = "start" BY <2>5 DEF Observation
  <2>6. CASE rec.kind = "result" BY <2>6 DEF Observation
  <2>7. CASE rec.kind \notin {"request", "utility_request", "response", "start", "result"}
    BY <2>7 DEF Observation
  <2> QED BY <2>1, <2>2, <2>3, <2>4, <2>5, <2>6, <2>7
<1> QED BY <1>2, <1>3, <1>4, <1>5, <1>6, <1>7, <1>8, <1>9

-----------------------------------------------------------------------------
(* The attempts and the responses keep their types.                        *)

\* The fields of an attempt.
LEMMA AttemptFields ==
    DOMAIN NoAttempt = {"scope", "requests", "settled", "outcomes", "seed", "generation",
                        "completed"}
BY DEF NoAttempt

LEMMA NoAttemptType == AttemptType(NoAttempt)
<1>1. /\ NoAttempt.scope = None /\ NoAttempt.requests = <<>> /\ NoAttempt.settled = <<>>
      /\ NoAttempt.outcomes = <<>> /\ NoAttempt.seed = FALSE
      /\ NoAttempt.generation = NoGeneration /\ NoAttempt.completed = FALSE
  BY DEF NoAttempt
<1>2. <<>> \in Seq(Ids) OBVIOUS
<1> QED BY <1>1, <1>2, ToSetEmpty DEF AttemptType

LEMMA AttemptRequested ==
    ASSUME NEW a, AttemptType(a), a.generation = NoGeneration, NEW kv \in KvScopes, NEW id \in Ids
    PROVE  LET b == Requested(a, kv, id)
           IN  AttemptType(b) /\ ToSet(b.requests) = ToSet(a.requests) \cup {id}
<1> DEFINE b == Requested(a, kv, id)
<1>1. /\ DOMAIN b = DOMAIN a /\ b.scope = kv /\ b.requests = Append(a.requests, id)
      /\ b.settled = a.settled /\ b.outcomes = a.outcomes /\ b.seed = a.seed
      /\ b.generation = a.generation /\ b.completed = a.completed
  BY AttemptFields DEF AttemptType, Requested
<1>2. b.requests \in Seq(Ids) /\ ToSet(b.requests) = ToSet(a.requests) \cup {id}
  BY <1>1, ToSetAppend DEF AttemptType
<1> HIDE DEF b
<1>3. AttemptType(b) BY <1>1, <1>2 DEF AttemptType
<1> QED BY <1>2, <1>3 DEF b

LEMMA AttemptSettled ==
    ASSUME NEW a, AttemptType(a), NEW id \in ToSet(a.requests), NEW v \in BOOLEAN
    PROVE  LET b == [a EXCEPT !.settled = With(@, id, v)]
           IN  AttemptType(b) /\ b.requests = a.requests
<1> DEFINE b == [a EXCEPT !.settled = With(@, id, v)]
<1>1. /\ DOMAIN b = DOMAIN a /\ b.scope = a.scope /\ b.requests = a.requests
      /\ b.settled = With(a.settled, id, v) /\ b.outcomes = a.outcomes /\ b.seed = a.seed
      /\ b.generation = a.generation /\ b.completed = a.completed
  BY AttemptFields DEF AttemptType
<1> HIDE DEF b
<1>2. DOMAIN b.settled = DOMAIN a.settled \cup {id} /\ Range(b.settled) \subseteq BOOLEAN
  <2>1. Range(a.settled) \subseteq BOOLEAN BY DEF AttemptType
  <2>2. Range(With(a.settled, id, v)) \subseteq BOOLEAN BY <2>1, WithRange
  <2>3. DOMAIN With(a.settled, id, v) = DOMAIN a.settled \cup {id} BY WithFacts
  <2> QED BY <1>1, <2>2, <2>3
<1>3. AttemptType(b) BY <1>1, <1>2 DEF AttemptType
<1> QED BY <1>1, <1>3 DEF b

LEMMA AttemptAnswered ==
    ASSUME NEW a, AttemptType(a), NEW id \in ToSet(a.requests), NEW v \in Outcomes
    PROVE  LET b == [a EXCEPT !.outcomes = With(@, id, v)]
           IN  AttemptType(b) /\ b.requests = a.requests
<1> DEFINE b == [a EXCEPT !.outcomes = With(@, id, v)]
<1>1. /\ DOMAIN b = DOMAIN a /\ b.scope = a.scope /\ b.requests = a.requests
      /\ b.settled = a.settled /\ b.outcomes = With(a.outcomes, id, v) /\ b.seed = a.seed
      /\ b.generation = a.generation /\ b.completed = a.completed
  BY AttemptFields DEF AttemptType
<1> HIDE DEF b
<1>2. DOMAIN b.outcomes = DOMAIN a.outcomes \cup {id} /\ Range(b.outcomes) \subseteq Outcomes
  <2>1. Range(a.outcomes) \subseteq Outcomes BY DEF AttemptType
  <2>2. Range(With(a.outcomes, id, v)) \subseteq Outcomes BY <2>1, WithRange
  <2>3. DOMAIN With(a.outcomes, id, v) = DOMAIN a.outcomes \cup {id} BY WithFacts
  <2> QED BY <1>1, <2>2, <2>3
<1>3. AttemptType(b) BY <1>1, <1>2 DEF AttemptType
<1> QED BY <1>1, <1>3 DEF b

LEMMA AttemptSeeded ==
    ASSUME NEW a, AttemptType(a), a.requests # <<>>
    PROVE  LET b == [a EXCEPT !.seed = TRUE]
           IN  AttemptType(b) /\ b.requests = a.requests
<1> DEFINE b == [a EXCEPT !.seed = TRUE]
<1>1. /\ DOMAIN b = DOMAIN a /\ b.scope = a.scope /\ b.requests = a.requests
      /\ b.settled = a.settled /\ b.outcomes = a.outcomes /\ b.seed = TRUE
      /\ b.generation = a.generation /\ b.completed = a.completed
  BY AttemptFields DEF AttemptType
<1> HIDE DEF b
<1>3. AttemptType(b) BY <1>1 DEF AttemptType
<1> QED BY <1>1, <1>3 DEF b

LEMMA AttemptRead ==
    ASSUME NEW a, AttemptType(a), a.seed, NEW g \in Generations
    PROVE  LET b == [a EXCEPT !.generation = g]
           IN  AttemptType(b) /\ b.requests = a.requests
<1> DEFINE b == [a EXCEPT !.generation = g]
<1>1. /\ DOMAIN b = DOMAIN a /\ b.scope = a.scope /\ b.requests = a.requests
      /\ b.settled = a.settled /\ b.outcomes = a.outcomes /\ b.seed = a.seed
      /\ b.generation = g /\ b.completed = a.completed
  BY AttemptFields DEF AttemptType
<1> HIDE DEF b
<1>3. AttemptType(b) BY <1>1 DEF AttemptType
<1> QED BY <1>1, <1>3 DEF b

LEMMA AttemptDecided ==
    ASSUME NEW a, AttemptType(a)
    PROVE  AttemptType(Decided(a)) /\ Decided(a).requests = a.requests
<1> DEFINE b == Decided(a)
<1>1. /\ DOMAIN b = DOMAIN a /\ b.scope = a.scope /\ b.requests = a.requests
      /\ b.settled = a.settled /\ b.outcomes = <<>> /\ b.seed = FALSE
      /\ b.generation = NoGeneration /\ b.completed = TRUE
  BY AttemptFields DEF AttemptType, Decided
<1> HIDE DEF b
<1>2. AttemptType(b) BY <1>1, ToSetEmpty DEF AttemptType
<1> QED BY <1>1, <1>2 DEF b

\* The events of the streams.
ClientEvents ==
    UNION {[kind : {"http"}, status : {"ok", "bad"}],
           [kind : {"body"}, body : {"answer", "refusal"}],
           [kind : {"end"}, how : Terminations], DecodeEvents, OutcomeEvents, ReceiptEvents}

LEMMA DecodedUpdate ==
    ASSUME NEW r \in Responses(Owners, KvScopes), NEW s, {s} \subseteq BOOLEAN
    PROVE  LET q == [r EXCEPT !.decoding = {}, !.decoded = 1, !.snapshot = s]
           IN  /\ q \in Responses(Owners, KvScopes) /\ q.owner = r.owner /\ q.scope = r.scope
               /\ q.processing = r.processing
<1>1. {} \in Optional(Roles) /\ 1 \in 0..1 BY DEF Optional
<1> QED BY <1>1 DEF Responses

\* A response event keeps the type and the owner of its response.
LEMMA SteppedType ==
    ASSUME NEW r \in Responses(Owners, KvScopes), NEW event \in ClientEvents
    PROVE  LET q == Stepped(r, event)
           IN  /\ q \in Responses(Owners, KvScopes) /\ q.owner = r.owner /\ q.scope = r.scope
               /\ event.kind # "outcome" => q.processing = r.processing
               /\ event.kind = "outcome" => q.processing # "none"
<1>1. CASE event.kind = "http"
  <2>1. event.status \in Statuses
    BY <1>1 DEF ClientEvents, DecodeEvents, OutcomeEvents, ReceiptEvents, Statuses
  <2>2. Stepped(r, event) = [r EXCEPT !.status = event.status] BY <1>1 DEF Stepped
  <2> QED BY <1>1, <2>1, <2>2 DEF Responses
<1>2. CASE event.kind = "body"
  <2>1. event.body \in Bodies
    BY <1>2 DEF ClientEvents, DecodeEvents, OutcomeEvents, ReceiptEvents, Bodies
  <2>2. Stepped(r, event) = [r EXCEPT !.body = event.body] BY <1>2 DEF Stepped
  <2> QED BY <1>2, <2>1, <2>2 DEF Responses
<1>3. CASE event.kind = "end"
  <2>1. event.how \in Terminations
    BY <1>3 DEF ClientEvents, DecodeEvents, OutcomeEvents, ReceiptEvents
  <2>2. Stepped(r, event) = [r EXCEPT !.ended = event.how] BY <1>3 DEF Stepped
  <2> QED BY <1>3, <2>1, <2>2 DEF Responses
<1>4. CASE event.kind = "decoded_body"
  <2>1. {event.role} \in Optional(Roles)
    BY <1>4 DEF ClientEvents, DecodeEvents, OutcomeEvents, ReceiptEvents, Optional
  <2>2. Stepped(r, event) = [r EXCEPT !.decoding = {event.role}] BY <1>4 DEF Stepped
  <2> QED BY <1>4, <2>1, <2>2 DEF Responses
<1>5. CASE event.kind = "decoded_end"
  <2>1. event.role \in Roles /\ event.snapshot \in BOOLEAN
    BY <1>5 DEF ClientEvents, DecodeEvents, OutcomeEvents, ReceiptEvents
  <2>2. {} \in Optional(Roles) BY DEF Optional
  <2>3. CASE event.role = "failure"
    <3>1. Stepped(r, event) = [r EXCEPT !.decoding = {}, !.failure = TRUE]
      BY <1>5, <2>3 DEF Stepped
    <3> QED BY <1>5, <2>2, <3>1 DEF Responses
  <2>4. CASE event.role = "utility"
    <3>1. Stepped(r, event) = [r EXCEPT !.decoding = {}, !.decoded = 1,
                                        !.snapshot = event.snapshot]
      BY <1>5, <2>4 DEF Stepped
    <3>2. LET q == [r EXCEPT !.decoding = {}, !.decoded = 1, !.snapshot = event.snapshot]
          IN  /\ q \in Responses(Owners, KvScopes) /\ q.owner = r.owner /\ q.scope = r.scope
              /\ q.processing = r.processing
      <4>1. {event.snapshot} \subseteq BOOLEAN BY <2>1
      <4> QED BY <4>1, DecodedUpdate
    <3> QED BY <1>5, <3>1, <3>2
  <2> QED BY <2>1, <2>3, <2>4 DEF Roles
<1>6. CASE event.kind = "outcome"
  <2>1. event.status \in {"completed", "failed"} /\ event.outputs \in 0..1
    BY <1>6 DEF ClientEvents, DecodeEvents, OutcomeEvents, ReceiptEvents
  <2>2. Stepped(r, event) = [r EXCEPT !.processing = event.status, !.outputs = event.outputs]
    BY <1>6 DEF Stepped
  <2> QED BY <1>6, <2>1, <2>2 DEF Responses, Processing
<1>7. CASE event.kind \notin {"http", "body", "end", "decoded_body", "decoded_end", "outcome"}
  BY <1>7 DEF Stepped
<1> QED BY <1>1, <1>2, <1>3, <1>4, <1>5, <1>6, <1>7

LEMMA OutcomeType ==
    ASSUME NEW event \in ClientEvents, event.kind = "outcome"
    PROVE  OutcomeOf(event) \in Outcomes /\ event.usage \in Optional(Served)
<1>1. event \in OutcomeEvents BY DEF ClientEvents, DecodeEvents, ReceiptEvents, OutcomeEvents
<1> QED BY <1>1 DEF OutcomeEvents, OutcomeOf, Outcomes

LEMMA NewResponseType ==
    ASSUME NEW owner \in Owners, NEW scope \in KvScopes
    PROVE  LET r == NewResponse(owner, scope)
           IN  /\ r \in Responses(Owners, KvScopes)
               /\ r.owner = owner /\ r.scope = scope /\ r.processing = "none"
BY DEF NewResponse, Responses, Statuses, Bodies, Terminations, Optional, Processing

-----------------------------------------------------------------------------
(* Every commit keeps the type of the journal.                             *)

\* What a commit does to the attempts: their requests are never forgotten.
Grows ==
    /\ DOMAIN attempts' = Attempts
    /\ \A a \in Attempts :
        /\ AttemptType(attempts'[a])
        /\ ToSet(attempts[a].requests) \subseteq ToSet(attempts'[a].requests)

ResponseType(i) ==
    /\ responses[i] \in Responses(Owners, KvScopes)
    /\ IsChat(responses[i]) => /\ responses[i].owner.id \in Attempts
                               /\ i \in ToSet(attempts[responses[i].owner.id].requests)

\* A step that updates one attempt and forgets none of its requests.
LEMMA AttemptUpdate ==
    ASSUME JournalType, NEW x \in Attempts, NEW b, AttemptType(b),
           ToSet(attempts[x].requests) \subseteq ToSet(b.requests),
           attempts' = [attempts EXCEPT ![x] = b]
    PROVE  Grows
BY DEF JournalType, Grows

LEMMA AttemptsStay == ASSUME JournalType, UNCHANGED attempts PROVE Grows
BY DEF JournalType, Grows

\* A response that keeps its owner stays tied to its attempt.
LEMMA ResponsesKept ==
    ASSUME JournalType, Grows, NEW i \in DOMAIN responses,
           responses'[i] \in Responses(Owners, KvScopes),
           responses'[i].owner = responses[i].owner
    PROVE  ResponseType(i)'
<1>1. ResponseType(i) BY DEF JournalType, ResponseType
<1>2. IsChat(responses[i])' <=> IsChat(responses[i]) BY DEF IsChat
<1> QED BY <1>1, <1>2 DEF Grows, ResponseType

\* The type of the journal, part by part, after a step that lets it grow.
LEMMA JournalTypeIs ==
    ASSUME count' \in 0..MaxRequests, DOMAIN responses' \subseteq 1..count',
           \A i \in DOMAIN responses' : ResponseType(i)',
           usage' \in [KvScopes -> Summaries], \A s \in KvScopes : Valid(usage'[s]),
           allUsage' \in Summaries, Valid(allUsage'),
           owed' \in [KvScopes -> Debts],
           \A s \in KvScopes : owed'[s].issued <= Len(owed'[s].generations),
           Grows, spoken' \in [KvScopes -> Turns]
    PROVE  JournalType'
BY DEF JournalType, ResponseType, Grows

\* A request joins the journal under the next identity.
LEMMA RequestKeepsJournal ==
    ASSUME JournalType, Tokens(allUsage) = allUsage.reports, NEW rec,
           rec.id \in Ids, rec.kv \in KvScopes, rec.owner \in Owners,
           rec.owner.kind = "chat" => rec.owner.id \in Attempts,
           PlanRequest(rec), CommitRequest(rec)
    PROVE  JournalType' /\ Tokens(allUsage') = allUsage'.reports
<1>1. count' = rec.id /\ rec.id = count + 1 /\ rec.id \in 1..MaxRequests
  BY DEF CommitRequest, PlanRequest, NextInJournal, Ids
<1>2. /\ allUsage \in Summaries /\ allUsage' = Admitted(allUsage) /\ MayAdmit(allUsage)
      /\ usage \in [KvScopes -> Summaries] /\ \A s \in KvScopes : Valid(usage[s])
      /\ usage' = [usage EXCEPT ![rec.kv] = Admitted(usage[rec.kv])]
      /\ MayAdmit(usage[rec.kv])
  BY DEF CommitRequest, PlanRequest, JournalType
<1>3. /\ allUsage' \in Summaries /\ Valid(allUsage') /\ Tokens(allUsage') = allUsage'.reports
  BY <1>2, AdmittedFacts
<1>4. Admitted(usage[rec.kv]) \in Summaries /\ Valid(Admitted(usage[rec.kv]))
  BY <1>2, AdmittedFacts
<1>5. usage' \in [KvScopes -> Summaries] /\ \A s \in KvScopes : Valid(usage'[s])
  BY <1>2, <1>4
<1>6. owed' \in [KvScopes -> Debts] /\ \A s \in KvScopes : owed'[s].issued <= Len(owed'[s].generations)
  <2>1. CASE rec.owner.kind = "chat"
    <3> DEFINE o == owed[rec.kv]
               n == Len(o.generations)
               p == [o EXCEPT !.issued = n]
    <3>1. owed' = [owed EXCEPT ![rec.kv] = p] BY <2>1 DEF CommitRequest
    <3>2. o \in Debts /\ o.generations \in Seq(Attempts) BY DEF JournalType, Debts
    <3>3. n \in Nat BY <3>2
    <3>4. p \in Debts /\ p.generations = o.generations /\ p.issued = n BY <3>2, <3>3 DEF Debts
    <3> HIDE DEF p, o
    <3> QED BY <3>1, <3>3, <3>4 DEF JournalType
  <2>2. CASE rec.owner.kind # "chat" BY <2>2 DEF CommitRequest, JournalType
  <2> QED BY <2>1, <2>2
<1>7. Grows /\ (rec.owner.kind = "chat" =>
                  rec.id \in ToSet(attempts'[rec.owner.id].requests))
  <2>1. CASE rec.owner.kind = "chat"
    <3> DEFINE x == rec.owner.id
               a == attempts[x]
               b == Requested(a, rec.kv, rec.id)
    <3>1. attempts' = [attempts EXCEPT ![x] = b] BY <2>1 DEF CommitRequest
    <3>2. x \in Attempts /\ AttemptType(a) BY <2>1 DEF JournalType
    <3>3. a.generation = NoGeneration
      <4>1. ChatOwner(rec) BY <2>1 DEF PlanRequest
      <4>2. NoAttempt.generation = NoGeneration BY DEF NoAttempt
      <4> QED BY <4>1, <4>2 DEF ChatOwner
    <3>4. AttemptType(b) /\ ToSet(b.requests) = ToSet(a.requests) \cup {rec.id}
      BY <3>2, <3>3, AttemptRequested
    <3> HIDE DEF b
    <3>5. Grows BY <3>1, <3>2, <3>4, AttemptUpdate
    <3>6. attempts'[x] = b BY <3>1, <3>2 DEF JournalType
    <3> QED BY <3>4, <3>5, <3>6
  <2>2. CASE rec.owner.kind # "chat" BY <2>2, AttemptsStay DEF CommitRequest
  <2> QED BY <2>1, <2>2
<1>8. /\ DOMAIN responses' = DOMAIN responses \cup {rec.id}
      /\ \A i \in DOMAIN responses \ {rec.id} : responses'[i] = responses[i]
      /\ responses'[rec.id] = NewResponse(rec.owner, rec.kv)
  <2>1. responses' = With(responses, rec.id, NewResponse(rec.owner, rec.kv))
    BY DEF CommitRequest
  <2> QED BY <2>1 DEF With
<1>9. rec.id \notin DOMAIN responses /\ DOMAIN responses' \subseteq 1..count'
  BY <1>1, <1>8 DEF JournalType, Ids
<1>10. \A i \in DOMAIN responses' : ResponseType(i)'
  <2>1. ResponseType(rec.id)'
    <3>1. /\ responses'[rec.id] \in Responses(Owners, KvScopes)
          /\ responses'[rec.id].owner = rec.owner
      BY <1>8, NewResponseType
    <3> QED BY <1>7, <3>1 DEF ResponseType, IsChat
  <2>2. ASSUME NEW i \in DOMAIN responses PROVE ResponseType(i)'
    <3>1. responses'[i] = responses[i] BY <1>8, <1>9
    <3>2. responses[i] \in Responses(Owners, KvScopes) BY DEF JournalType
    <3> QED BY <1>7, <3>1, <3>2, ResponsesKept
  <2> QED BY <1>8, <2>1, <2>2
<1>11. count' \in 0..MaxRequests BY <1>1
<1>12. spoken' \in [KvScopes -> Turns] BY DEF CommitRequest, JournalType
<1>13. Grows BY <1>7
<1>14. JournalType'
  BY <1>3, <1>5, <1>6, <1>9, <1>10, <1>11, <1>12, <1>13, JournalTypeIs
<1> QED BY <1>3, <1>14

LEMMA UtilityKeepsJournal ==
    ASSUME JournalType, NEW rec, rec.id \in Ids, rec.kv \in KvScopes, rec.op \in Operations,
           NextInJournal(rec), CommitUtilityRequest(rec)
    PROVE  JournalType'
<1>1. count' = rec.id /\ rec.id = count + 1 /\ rec.id \in 1..MaxRequests
  BY DEF CommitUtilityRequest, NextInJournal, Ids
<1>2. Grows BY AttemptsStay DEF CommitUtilityRequest
<1> DEFINE owner == [kind |-> "utility", id |-> rec.op]
<1>3. owner \in Owners /\ owner.kind = "utility" BY DEF Owners, OwnerKinds
<1>4. /\ DOMAIN responses' = DOMAIN responses \cup {rec.id}
      /\ \A i \in DOMAIN responses \ {rec.id} : responses'[i] = responses[i]
      /\ responses'[rec.id] = NewResponse(owner, rec.kv)
  <2>1. responses' = With(responses, rec.id, NewResponse(owner, rec.kv))
    BY DEF CommitUtilityRequest
  <2> QED BY <2>1 DEF With
<1> HIDE DEF owner
<1>5. rec.id \notin DOMAIN responses /\ DOMAIN responses' \subseteq 1..count'
  BY <1>1, <1>4 DEF JournalType, Ids
<1>6. \A i \in DOMAIN responses' : ResponseType(i)'
  <2>1. ResponseType(rec.id)'
    <3>1. /\ responses'[rec.id] \in Responses(Owners, KvScopes)
          /\ responses'[rec.id].owner = owner
      BY <1>3, <1>4, NewResponseType
    <3> QED BY <1>3, <3>1 DEF ResponseType, IsChat
  <2>2. ASSUME NEW i \in DOMAIN responses PROVE ResponseType(i)'
    <3>1. responses'[i] = responses[i] BY <1>4, <1>5
    <3>2. responses[i] \in Responses(Owners, KvScopes) BY DEF JournalType
    <3> QED BY <1>2, <3>1, <3>2, ResponsesKept
  <2> QED BY <1>4, <2>1, <2>2
<1>7. count' \in 0..MaxRequests BY <1>1
<1> QED BY <1>2, <1>5, <1>6, <1>7, JournalTypeIs DEF CommitUtilityRequest, JournalType

\* A response event bills its outcome, or closes its response.
LEMMA ResponseKeepsJournal ==
    ASSUME JournalType, Tokens(allUsage) = allUsage.reports, NEW rec,
           rec.event \in ClientEvents, PlanResponse(rec), CommitResponse(rec)
    PROVE  JournalType' /\ Tokens(allUsage') = allUsage'.reports
<1> DEFINE id == rec.id
           r == responses[id]
           event == rec.event
<1>1. id \in DOMAIN responses /\ r \in Responses(Owners, KvScopes) /\ ResponseType(id)
  BY DEF PlanResponse, JournalType, ResponseType
<1>2. r.scope \in KvScopes BY <1>1 DEF Responses
<1>3. UNCHANGED <<count, owed, spoken>> BY DEF CommitResponse
<1>4. LET q == Stepped(r, event)
      IN  q \in Responses(Owners, KvScopes) /\ q.owner = r.owner
  BY <1>1, SteppedType
<1>5. CASE event.kind = "outcome"
  <2>1. RecordOutcome(id, r, event) BY <1>5 DEF CommitResponse
  <2>2. responses' = [responses EXCEPT ![id] = Stepped(r, event)] BY <2>1 DEF RecordOutcome
  <2>3. OutcomeOf(event) \in Outcomes /\ event.usage \in Optional(Served) BY <1>5, OutcomeType
  <2>4. Grows
    <3>1. CASE IsChat(r)
      <4> DEFINE x == r.owner.id
                 a == attempts[x]
                 b == [a EXCEPT !.outcomes = With(@, id, OutcomeOf(event))]
      <4>1. attempts' = [attempts EXCEPT ![x] = b] BY <2>1, <3>1 DEF RecordOutcome
      <4>2. x \in Attempts /\ id \in ToSet(a.requests) /\ AttemptType(a)
        BY <1>1, <3>1 DEF ResponseType, JournalType
      <4>3. AttemptType(b) /\ b.requests = a.requests BY <2>3, <4>2, AttemptAnswered
      <4> HIDE DEF b
      <4> QED BY <4>1, <4>2, <4>3, AttemptUpdate
    <3>2. CASE ~IsChat(r) BY <2>1, <3>2, AttemptsStay DEF RecordOutcome
    <3> QED BY <3>1, <3>2
  <2>5. /\ usage' \in [KvScopes -> Summaries] /\ \A s \in KvScopes : Valid(usage'[s])
        /\ allUsage' \in Summaries /\ Valid(allUsage') /\ Tokens(allUsage') = allUsage'.reports
    <3>1. CASE IsUtility(r) BY <2>1, <3>1 DEF RecordOutcome, JournalType
    <3>2. CASE ~IsUtility(r)
      <4>1. MayFinalize(usage[r.scope], event.usage) /\ MayFinalize(allUsage, event.usage)
        BY <1>5, <3>2 DEF PlanResponse
      <4>2. /\ usage' = [usage EXCEPT ![r.scope] = Finalized(usage[r.scope], event.usage)]
            /\ allUsage' = Finalized(allUsage, event.usage)
        BY <2>1, <3>2 DEF RecordOutcome, Bill
      <4>3. /\ usage \in [KvScopes -> Summaries] /\ allUsage \in Summaries
            /\ \A s \in KvScopes : Valid(usage[s])
        BY DEF JournalType
      <4>4. /\ allUsage' \in Summaries /\ Valid(allUsage')
            /\ Tokens(allUsage') = allUsage'.reports
        BY <2>3, <4>1, <4>2, <4>3, FinalizedFacts
      <4>5. /\ Finalized(usage[r.scope], event.usage) \in Summaries
            /\ Valid(Finalized(usage[r.scope], event.usage))
        BY <1>2, <2>3, <4>1, <4>3, FinalizedFacts
      <4> QED BY <1>2, <4>2, <4>3, <4>4, <4>5
    <3> QED BY <3>1, <3>2
  <2>6. \A i \in DOMAIN responses' : ResponseType(i)'
    <3>1. ASSUME NEW i \in DOMAIN responses PROVE ResponseType(i)'
      <4>1. responses'[i] = IF i = id THEN Stepped(r, event) ELSE responses[i] BY <1>1, <2>2
      <4>2. responses[i] \in Responses(Owners, KvScopes) BY DEF JournalType
      <4> QED BY <1>4, <2>4, <4>1, <4>2, ResponsesKept
    <3> QED BY <2>2, <3>1
  <2>7. count \in 0..MaxRequests /\ DOMAIN responses' \subseteq 1..count'
    BY <1>3, <2>2 DEF JournalType
  <2>8. JournalType'
    BY <1>3, <2>4, <2>5, <2>6, <2>7, JournalTypeIs DEF JournalType
  <2> QED BY <2>5, <2>8
<1>6. CASE event.kind \in {"delivery", "history"}
  <2>1. CloseResponse(id, r, event) BY <1>6 DEF CommitResponse
  <2>2. responses' = [i \in DOMAIN responses \ {id} |-> responses[i]] /\ UNCHANGED <<usage, allUsage>>
    BY <2>1 DEF CloseResponse
  <2>3. Grows
    <3>1. CASE event.kind = "history"
      <4> DEFINE x == r.owner.id
                 a == attempts[x]
                 b == [a EXCEPT !.settled = With(@, id, event.accepted)]
      <4>1. attempts' = [attempts EXCEPT ![x] = b] BY <2>1, <3>1 DEF CloseResponse
      <4>2. IsChat(r) BY <3>1 DEF PlanResponse, MaySettle
      <4>3. x \in Attempts /\ id \in ToSet(a.requests) /\ AttemptType(a)
        BY <1>1, <4>2 DEF ResponseType, JournalType
      <4>4. event.accepted \in BOOLEAN
        BY <3>1 DEF ClientEvents, DecodeEvents, OutcomeEvents, ReceiptEvents
      <4>5. AttemptType(b) /\ b.requests = a.requests BY <4>3, <4>4, AttemptSettled
      <4> HIDE DEF b
      <4> QED BY <4>1, <4>3, <4>5, AttemptUpdate
    <3>2. CASE event.kind # "history" BY <2>1, <3>2, AttemptsStay DEF CloseResponse
    <3> QED BY <3>1, <3>2
  <2>4. \A i \in DOMAIN responses' : ResponseType(i)'
    <3>1. ASSUME NEW i \in DOMAIN responses \ {id} PROVE ResponseType(i)'
      <4>1. responses'[i] = responses[i] BY <2>2
      <4>2. responses[i] \in Responses(Owners, KvScopes) BY DEF JournalType
      <4> QED BY <2>3, <4>1, <4>2, ResponsesKept
    <3> QED BY <2>2, <3>1
  <2>5. count \in 0..MaxRequests /\ DOMAIN responses' \subseteq 1..count'
    BY <1>3, <2>2 DEF JournalType
  <2>6. JournalType'
    BY <1>3, <2>2, <2>3, <2>4, <2>5, JournalTypeIs DEF JournalType
  <2> QED BY <2>2, <2>6
<1>7. CASE event.kind \notin {"outcome", "delivery", "history"}
  <2>1. /\ responses' = [responses EXCEPT ![id] = Stepped(r, event)]
        /\ UNCHANGED <<attempts, usage, allUsage>>
    BY <1>7 DEF CommitResponse
  <2>2. Grows BY <2>1, AttemptsStay
  <2>3. \A i \in DOMAIN responses' : ResponseType(i)'
    <3>1. ASSUME NEW i \in DOMAIN responses PROVE ResponseType(i)'
      <4>1. responses'[i] = IF i = id THEN Stepped(r, event) ELSE responses[i] BY <1>1, <2>1
      <4>2. responses[i] \in Responses(Owners, KvScopes) BY DEF JournalType
      <4> QED BY <1>4, <2>2, <4>1, <4>2, ResponsesKept
    <3> QED BY <2>1, <3>1
  <2>4. count \in 0..MaxRequests /\ DOMAIN responses' \subseteq 1..count'
    BY <1>3, <2>1 DEF JournalType
  <2>5. JournalType'
    BY <1>3, <2>1, <2>2, <2>3, <2>4, JournalTypeIs DEF JournalType
  <2> QED BY <2>1, <2>5
<1> QED BY <1>5, <1>6, <1>7

\* What only decides about an attempt keeps the rest of the journal.
LEMMA DecisionKeepsJournal ==
    ASSUME JournalType, Grows, UNCHANGED <<count, responses, usage, allUsage>>,
           owed' \in [KvScopes -> Debts],
           \A s \in KvScopes : owed'[s].issued <= Len(owed'[s].generations),
           spoken' \in [KvScopes -> Turns]
    PROVE  JournalType'
<1>1. \A i \in DOMAIN responses' : ResponseType(i)'
  <2>1. ASSUME NEW i \in DOMAIN responses PROVE ResponseType(i)'
    <3>1. responses[i] \in Responses(Owners, KvScopes) BY DEF JournalType
    <3> QED BY <3>1, ResponsesKept
  <2> QED BY <2>1
<1> QED BY <1>1, JournalTypeIs DEF JournalType

\* A seed, and then a generation, are read into their attempt.
LEMMA SeedKeepsJournal ==
    ASSUME JournalType, NEW rec, rec.attempt \in Attempts,
           attempts[rec.attempt].requests # <<>>, CommitSeed(rec)
    PROVE  JournalType'
<1> DEFINE a == attempts[rec.attempt]
           b == [a EXCEPT !.seed = TRUE]
<1>1. attempts' = [attempts EXCEPT ![rec.attempt] = b] BY DEF CommitSeed
<1>2. AttemptType(a) BY DEF JournalType
<1>3. AttemptType(b) /\ b.requests = a.requests BY <1>2, AttemptSeeded
<1> HIDE DEF b
<1>4. Grows BY <1>1, <1>3, AttemptUpdate
<1> QED BY <1>4, DecisionKeepsJournal DEF CommitSeed, JournalType

LEMMA GenerationKeepsJournal ==
    ASSUME JournalType, NEW rec, rec.attempt \in Attempts, rec.generation \in Generations,
           attempts[rec.attempt].seed, CommitGeneration(rec)
    PROVE  JournalType'
<1> DEFINE a == attempts[rec.attempt]
           b == [a EXCEPT !.generation = rec.generation]
<1>1. attempts' = [attempts EXCEPT ![rec.attempt] = b] BY DEF CommitGeneration
<1>2. AttemptType(a) BY DEF JournalType
<1>3. AttemptType(b) /\ b.requests = a.requests BY <1>2, AttemptRead
<1> HIDE DEF b
<1>4. Grows BY <1>1, <1>3, AttemptUpdate
<1> QED BY <1>4, DecisionKeepsJournal DEF CommitGeneration, JournalType

-----------------------------------------------------------------------------
(* What a conversation owes.                                               *)

\* A chat request carries all that its conversation owes.
LEMMA RequestKeepsOwed ==
    ASSUME JournalType, OwedInv, NEW rec, rec.kv \in KvScopes, PlanRequest(rec), CommitRequest(rec)
    PROVE  OwedInv'
<1>1. UNCHANGED spoken BY DEF CommitRequest
<1>2. CASE rec.owner.kind = "chat"
  <2> DEFINE o == owed[rec.kv]
  <2>1. o \in Debts /\ o.generations \in Seq(Attempts) BY DEF JournalType, Debts
  <2>2. rec.carries.turns = o.generations BY <1>2 DEF PlanRequest, CarriesOwed, Required
  <2>3. carried' = carried \cup ToSet(o.generations) BY <1>2, <2>2 DEF CommitRequest
  <2>4. owed' = [owed EXCEPT ![rec.kv] = [o EXCEPT !.issued = Len(o.generations)]]
    BY <1>2 DEF CommitRequest
  <2>5. LET p == [o EXCEPT !.issued = Len(o.generations)]
        IN  p.generations = o.generations /\ p.issued = Len(o.generations)
    BY <2>1 DEF Debts
  <2>6. owed \in [KvScopes -> Debts] BY DEF JournalType
  <2>7. \A i \in 1..Len(o.generations) : o.generations[i] \in ToSet(o.generations)
    BY <2>1, ToSetOf
  <2> SUFFICES ASSUME NEW s \in KvScopes
               PROVE  /\ \A i \in 1..owed'[s].issued : owed'[s].generations[i] \in carried'
                      /\ Spoken(s)' \subseteq ToSet(owed'[s].generations) \cup carried'
    BY DEF OwedInv
  <2>8. CASE s = rec.kv
    <3>1. owed'[s].generations = o.generations /\ owed'[s].issued = Len(o.generations)
      BY <2>4, <2>5, <2>6, <2>8
    <3> QED BY <1>1, <2>3, <2>7, <2>8, <3>1 DEF OwedInv, Spoken
  <2>9. CASE s # rec.kv
    <3>1. owed'[s] = owed[s] BY <2>4, <2>6, <2>9
    <3> QED BY <1>1, <2>3, <3>1 DEF OwedInv, Spoken
  <2> QED BY <2>8, <2>9
<1>3. CASE rec.owner.kind # "chat" BY <1>1, <1>3 DEF CommitRequest, OwedInv, Spoken
<1> QED BY <1>2, <1>3

\* An accepted turn is owed by its conversation from now on.
LEMMA CompletionKeepsJournal ==
    ASSUME JournalType, OwedInv, NEW rec, rec.attempt \in Attempts,
           attempts[rec.attempt].scope \in KvScopes, CommitCompletion(rec)
    PROVE  JournalType' /\ OwedInv'
<1> DEFINE x == rec.attempt
           a == attempts[x]
           o == owed[a.scope]
<1>1. Grows
  <2>1. attempts' = [attempts EXCEPT ![x] = Decided(a)] BY DEF CommitCompletion
  <2>2. AttemptType(Decided(a)) /\ Decided(a).requests = a.requests
    BY AttemptDecided DEF JournalType
  <2> QED BY <2>1, <2>2, AttemptUpdate
<1>2. UNCHANGED <<count, responses, usage, allUsage, carried>> BY DEF CommitCompletion
<1>3. CASE rec.disposition = "accepted"
  <2>1. /\ owed \in [KvScopes -> Debts] /\ spoken \in [KvScopes -> Turns]
        /\ o \in Debts /\ o.generations \in Seq(Attempts) /\ o.issued \in Nat
        /\ o.issued <= Len(o.generations) /\ spoken[a.scope] \in Turns
    BY DEF JournalType, Debts
  <2> DEFINE p == [o EXCEPT !.generations = Append(o.generations, x)]
             t == Said(spoken[a.scope], x, a.generation.internal)
  <2>2. owed' = [owed EXCEPT ![a.scope] = p] /\ spoken' = [spoken EXCEPT ![a.scope] = t]
    BY <1>3 DEF CommitCompletion
  <2>3. /\ Append(o.generations, x) \in Seq(Attempts)
        /\ ToSet(Append(o.generations, x)) = ToSet(o.generations) \cup {x}
        /\ Len(Append(o.generations, x)) = Len(o.generations) + 1 /\ Len(o.generations) \in Nat
        /\ \A i \in 1..Len(o.generations) : Append(o.generations, x)[i] = o.generations[i]
    BY <2>1, ToSetAppend
  <2>4. t \in Turns /\ t.aloud \cup t.internal = Spoken(a.scope) \cup {x}
    BY <2>1 DEF Turns, Said, Spoken
  <2>5. p \in Debts /\ p.generations = Append(o.generations, x) /\ p.issued = o.issued
    BY <2>1, <2>3 DEF Debts
  <2> HIDE DEF p, t
  <2>6. owed' \in [KvScopes -> Debts] /\ spoken' \in [KvScopes -> Turns]
    BY <2>1, <2>2, <2>4, <2>5
  <2>7. ASSUME NEW s \in KvScopes
        PROVE  /\ owed'[s].issued <= Len(owed'[s].generations)
               /\ \A i \in 1..owed'[s].issued : owed'[s].generations[i] \in carried
               /\ spoken'[s].aloud \cup spoken'[s].internal
                    \subseteq ToSet(owed'[s].generations) \cup carried
    <3>1. CASE s = a.scope
      <4>1. owed'[s] = p /\ spoken'[s] = t BY <2>1, <2>2, <3>1
      <4>2. p.issued <= Len(p.generations)
        <5>1. p.issued = o.issued /\ Len(p.generations) = Len(o.generations) + 1 BY <2>3, <2>5
        <5>2. o.issued \in Nat /\ Len(o.generations) \in Nat /\ o.issued <= Len(o.generations)
          BY <2>1, <2>3
        <5> HIDE DEF o
        <5> QED BY <5>1, <5>2
      <4>3. \A i \in 1..o.issued : o.generations[i] \in carried BY DEF OwedInv
      <4>4. \A i \in 1..p.issued : p.generations[i] \in carried
        <5>1. /\ o.issued \in Nat /\ Len(o.generations) \in Nat
              /\ o.issued <= Len(o.generations) /\ p.issued = o.issued
          BY <2>1, <2>3, <2>5
        <5> HIDE DEF o
        <5>2. ASSUME NEW i \in 1..p.issued PROVE p.generations[i] \in carried
          <6>1. i \in 1..o.issued /\ i \in 1..Len(o.generations) BY <5>1
          <6>2. p.generations[i] = o.generations[i] BY <2>3, <2>5, <6>1
          <6> QED BY <4>3, <6>1, <6>2
        <5> QED BY <5>2
      <4>5. Spoken(s) \subseteq ToSet(o.generations) \cup carried BY <3>1 DEF OwedInv
      <4>6. t.aloud \cup t.internal \subseteq ToSet(p.generations) \cup carried
        BY <2>3, <2>4, <2>5, <3>1, <4>5
      <4> QED BY <4>1, <4>2, <4>4, <4>6
    <3>2. CASE s # a.scope
      <4>1. owed'[s] = owed[s] /\ spoken'[s] = spoken[s] BY <2>1, <2>2, <3>2
      <4> QED BY <4>1 DEF OwedInv, Spoken, JournalType
    <3> QED BY <3>1, <3>2
  <2>8. JournalType' BY <1>1, <1>2, <2>6, <2>7, DecisionKeepsJournal
  <2>9. OwedInv' BY <1>2, <2>7 DEF OwedInv, Spoken
  <2> QED BY <2>8, <2>9
<1>4. CASE rec.disposition # "accepted"
  <2>1. UNCHANGED <<owed, spoken>> BY <1>4 DEF CommitCompletion
  <2>2. JournalType' BY <1>1, <1>2, <2>1, DecisionKeepsJournal DEF JournalType
  <2> QED BY <1>2, <2>1, <2>2 DEF OwedInv, Spoken
<1> QED BY <1>3, <1>4

\* A compaction releases the turns that were carried, and no other.
LEMMA CommittedFacts ==
    ASSUME NEW o \in Debts, o.issued <= Len(o.generations), NEW d \in Draws
    PROVE  LET p == Committed(o, d)
           IN  /\ p \in Debts /\ p.issued = 0 /\ Len(p.generations) \in Nat
               /\ \A x \in ToSet(o.generations) :
                     x \in ToSet(p.generations) \/ \E i \in 1..o.issued : x = o.generations[i]
<1> DEFINE s == o.generations
           m == o.issued + 1
           t == SubSeq(s, m, Len(s))
<1>1. s \in Seq(Attempts) /\ o.issued \in Nat /\ Len(s) \in Nat BY DEF Debts
<1>2. /\ t \in Seq(Attempts) /\ Len(t) = Len(s) - o.issued
      /\ \A i \in 1..Len(t) : t[i] = s[i + o.issued]
  <2>1. m \in Int /\ Len(s) \in Int /\ \A i \in m..Len(s) : s[i] \in Attempts BY <1>1
  <2>2. /\ t \in Seq(Attempts) /\ Len(t) = IF m <= Len(s) THEN Len(s) - m + 1 ELSE 0
        /\ \A i \in 1..(Len(s) - m + 1) : t[i] = s[m + i - 1]
    BY <2>1, SubSeqProperties
  <2> HIDE DEF t
  <2>3. Len(t) = Len(s) - o.issued BY <1>1, <2>2
  <2>4. \A i \in 1..Len(t) : t[i] = s[i + o.issued]
    <3>1. ASSUME NEW i \in 1..Len(t) PROVE t[i] = s[i + o.issued]
      <4>1. i \in 1..(Len(s) - m + 1) /\ m + i - 1 = i + o.issued BY <1>1, <2>3
      <4> QED BY <2>2, <4>1
    <3> QED BY <3>1
  <2> QED BY <2>2, <2>3, <2>4
<1>3. Committed(o, d) = [draw |-> d, generations |-> t, issued |-> 0] BY DEF Committed
<1>4. ASSUME NEW x \in ToSet(s)
      PROVE  x \in ToSet(t) \/ \E i \in 1..o.issued : x = s[i]
  <2>1. PICK j \in 1..Len(s) : x = s[j] BY <1>1, ToSetOf
  <2>2. CASE j <= o.issued BY <1>1, <2>1, <2>2
  <2>3. CASE j > o.issued
    <3>1. j - o.issued \in 1..Len(t) /\ (j - o.issued) + o.issued = j BY <1>1, <1>2, <2>3
    <3>2. t[j - o.issued] = x BY <1>2, <2>1, <3>1
    <3>3. \A y : y \in ToSet(t) <=> \E i \in 1..Len(t) : y = t[i] BY <1>2, ToSetOf
    <3> QED BY <3>1, <3>2, <3>3
  <2> QED BY <1>1, <2>2, <2>3
<1>5. Committed(o, d) \in Debts /\ Len(t) \in Nat BY <1>1, <1>2, <1>3 DEF Debts
<1> HIDE DEF t, s
<1> QED BY <1>3, <1>4, <1>5 DEF s

\* A compaction releases the turns that were carried, and keeps the rest.
LEMMA CompactionKeepsJournal ==
    ASSUME JournalType, OwedInv, NEW rec, rec.scope \in KvScopes,
           rec.succeeded => Last1(rec.claims).draw \in Draws, CommitCompaction(rec)
    PROVE  JournalType' /\ OwedInv'
<1>1. UNCHANGED <<count, responses, attempts, usage, allUsage, carried, spoken>>
  BY DEF CommitCompaction
<1>2. Grows BY <1>1, AttemptsStay
<1>3. CASE rec.succeeded
  <2> DEFINE o == owed[rec.scope]
             p == Committed(o, Last1(rec.claims).draw)
  <2>1. owed \in [KvScopes -> Debts] /\ o \in Debts /\ o.issued <= Len(o.generations)
    BY DEF JournalType
  <2>2. owed' = [owed EXCEPT ![rec.scope] = p] BY <1>3 DEF CommitCompaction
  <2>3. /\ p \in Debts /\ p.issued = 0 /\ Len(p.generations) \in Nat
        /\ \A x \in ToSet(o.generations) :
              x \in ToSet(p.generations) \/ \E i \in 1..o.issued : x = o.generations[i]
    BY <1>3, <2>1, CommittedFacts
  <2> HIDE DEF p
  <2>4. owed' \in [KvScopes -> Debts] BY <2>1, <2>2, <2>3
  <2>5. ASSUME NEW s \in KvScopes
        PROVE  /\ owed'[s].issued <= Len(owed'[s].generations)
               /\ \A i \in 1..owed'[s].issued : owed'[s].generations[i] \in carried
               /\ Spoken(s) \subseteq ToSet(owed'[s].generations) \cup carried
    <3>1. CASE s = rec.scope
      <4>1. owed'[s] = p BY <2>1, <2>2, <3>1
      <4>2. Spoken(s) \subseteq ToSet(o.generations) \cup carried
        BY <3>1 DEF OwedInv
      <4>3. \A i \in 1..o.issued : o.generations[i] \in carried BY DEF OwedInv
      <4>4. Spoken(s) \subseteq ToSet(p.generations) \cup carried
        BY <2>3, <4>2, <4>3
      <4> QED BY <2>3, <4>1, <4>4
    <3>2. CASE s # rec.scope
      <4>1. owed'[s] = owed[s] BY <2>1, <2>2, <3>2
      <4> QED BY <4>1 DEF OwedInv, JournalType
    <3> QED BY <3>1, <3>2
  <2>6. JournalType' BY <1>1, <1>2, <2>4, <2>5, DecisionKeepsJournal DEF JournalType
  <2> QED BY <1>1, <2>5, <2>6 DEF OwedInv, Spoken
<1>4. CASE ~rec.succeeded
  <2>1. UNCHANGED owed BY <1>4 DEF CommitCompaction
  <2>2. JournalType' BY <1>1, <1>2, <2>1, DecisionKeepsJournal DEF JournalType
  <2> QED BY <1>1, <2>1, <2>2 DEF OwedInv, Spoken
<1> QED BY <1>3, <1>4

-----------------------------------------------------------------------------
(* A record is refused, or admitted.                                       *)

Refuses(rec) ==
    /\ phase = "reading" /\ observed' = Observation(observed, rec)
    /\ refused' = TRUE /\ behind' = behind + 1
    /\ UNCHANGED <<load, phase, session, certified>>

Admits(rec) ==
    /\ phase = "reading" /\ session = "owned" /\ ~refused
    /\ terminal[Root] = None /\ Lives(rec.scope) /\ Due(rec)
    /\ observed' = Observation(observed, rec)
    /\ UNCHANGED <<refused, behind, load, phase, session>>

\* From the first refusal on, only the observations change.
LEMMA RefusalKeeps ==
    ASSUME EngineInv, observed' \in Observations, BalancedObservation(observed'),
           refused' = TRUE, behind' = behind + 1, session' \in {"unread", "owned", "lost"},
           phase = "reading", phase' \in {"reading", "uncertified"},
           UNCHANGED <<load, certified>>
    PROVE  EngineInv'
<1>1. JournalType' /\ OwedInv' /\ ShownInv' /\ Tokens(allUsage') = allUsage'.reports
  BY DEF EngineInv, EngineType, JournalType, OwedInv, Spoken, ShownInv, certified, journal, runtime,
         rows
<1>2. EngineType'
  BY <1>1 DEF EngineInv, EngineType, certified, runtime, rows
<1>3. TallyInv' BY DEF TallyInv
<1>4. EndInv'
  <2>1. ValidateSummary' <=> ValidateSummary BY DEF ValidateSummary, certified, journal
  <2> QED BY <2>1 DEF EngineInv, EndInv, certified, runtime, rows
<1> QED BY <1>1, <1>2, <1>3, <1>4 DEF EngineInv

LEMMA RefusesKeeps ==
    ASSUME EngineInv, NEW rec, Readable(rec), Refuses(rec)
    PROVE  EngineInv'
<1>1. observed' \in Observations /\ BalancedObservation(observed')
  BY ObservationFacts DEF EngineInv, EngineType, Refuses
<1> QED BY <1>1, RefusalKeeps DEF Refuses, EngineInv, EngineType

\* What an admitted record has to show.
LEMMA AdmitsKeeps ==
    ASSUME EngineInv, NEW rec, Readable(rec), Admits(rec),
           JournalType', OwedInv', Tokens(allUsage') = allUsage'.reports, TallyInv', ShownInv',
           tools' \in [Tools -> ToolRecords], shown' \in [Scopes -> Seq(Attempts)],
           terminal' \in [Scopes -> {None, "error", "success"}],
           display' = NoDisplay \/ display' \in [scope : Scopes, left : 1..2, attempt : Attempts],
           terminal'[Root] # None => ValidateSummary' /\ display' = NoDisplay
    PROVE  EngineInv'
<1>1. observed' \in Observations /\ BalancedObservation(observed')
  BY ObservationFacts DEF EngineInv, EngineType, Admits
<1>2. EngineType' BY <1>1 DEF EngineInv, EngineType, Admits
<1>3. EndInv' BY DEF EndInv, Admits
<1> QED BY <1>1, <1>2, <1>3 DEF EngineInv

\* The records that add nothing to the tally but their scope.
Plain(rec) ==
    /\ rec.kind \notin {"start", "request", "utility_request", "response"}
    /\ rec.kind = "result" => rec.scope # Root

LEMMA PlainKeepsTally ==
    ASSUME EngineInv, NEW rec, Readable(rec), Plain(rec), Admits(rec),
           UNCHANGED <<count, responses, allUsage>>
    PROVE  TallyInv'
<1>1. observed' = InScope(observed, rec.scope) BY DEF Admits, Observation, Plain
<1>2. /\ Agree(observed, observed') /\ observed'.requests = observed.requests
      /\ observed'.utility = observed.utility /\ observed'.usage = observed.usage
  BY <1>1, InScopeFacts DEF EngineInv, EngineType, Readable
<1>3. \A i \in Ids : Answered(i)' = Answered(i) BY DEF Answered
<1>4. ~observed.turns BY DEF EngineInv, TallyInv, Admits
<1>5. session = "owned" /\ session' = session BY DEF Admits
<1>6. observed.journal BY <1>5 DEF EngineInv, TallyInv, Admits
<1> QED BY <1>2, <1>3, <1>4, <1>5, <1>6 DEF EngineInv, TallyInv, Admits, Agree

\* A record about the rows, or about an attempt, a draw or an operation.
LEMMA PlainKeeps ==
    ASSUME EngineInv, NEW rec, Readable(rec), Plain(rec), Admits(rec),
           JournalType', OwedInv', UNCHANGED <<count, responses, allUsage>>, ShownInv',
           tools' \in [Tools -> ToolRecords], shown' \in [Scopes -> Seq(Attempts)],
           terminal' \in [Scopes -> {None, "error", "success"}], terminal'[Root] = None,
           display' = NoDisplay \/ display' \in [scope : Scopes, left : 1..2, attempt : Attempts]
    PROVE  EngineInv'
<1>1. TallyInv' BY PlainKeepsTally
<1>2. Tokens(allUsage') = allUsage'.reports BY DEF EngineInv
<1> QED BY <1>1, <1>2, AdmitsKeeps

\* A request or a response, which leaves the rows alone.
LEMMA JournalKeeps ==
    ASSUME EngineInv, NEW rec, Readable(rec), Admits(rec),
           JournalType', OwedInv', Tokens(allUsage') = allUsage'.reports, TallyInv',
           UNCHANGED <<tools, terminal, display, shown, spoken>>
    PROVE  EngineInv'
<1>1. ShownInv' BY DEF EngineInv, ShownInv
<1>2. terminal'[Root] = None BY DEF Admits
<1> QED BY <1>1, <1>2, AdmitsKeeps DEF EngineInv, EngineType

-----------------------------------------------------------------------------
(* The two tallies.                                                        *)

\* A request, a utility request and a response count alike in the journal and in
\* the observations.
LEMMA RequestKeepsTally ==
    ASSUME EngineInv, NEW rec, Readable(rec), rec.kind = "request", Admits(rec),
           rec.kv \in KvScopes, rec.owner \in Owners, rec.owner.kind # "utility",
           PlanRequest(rec), CommitRequest(rec), UNCHANGED terminal
    PROVE  TallyInv'
<1> DEFINE o == observed
           id == rec.id
<1>1. /\ o.unaccounted = 0 /\ o.usage = allUsage /\ o.journal /\ ~o.turns
      /\ \A i \in Ids : o.requests[i] = Answered(i)
      /\ \A i \in DOMAIN responses : i \in o.utility <=> IsUtility(responses[i])
  BY DEF EngineInv, TallyInv, Admits
<1>2. /\ id \in Ids /\ id = count + 1 /\ count' = id /\ count \in Nat
      /\ DOMAIN responses \subseteq 1..count
  BY DEF Readable, PlanRequest, NextInJournal, CommitRequest, EngineInv, EngineType, JournalType
<1>3. o.requests[id] = None /\ MayAdmit(o.usage) BY <1>1, <1>2 DEF Answered, PlanRequest
<1>4. /\ Agree(o, o') /\ o'.requests = [o.requests EXCEPT ![id] = "open"]
      /\ o'.utility = o.utility /\ o'.usage = Admitted(o.usage)
  <2>1. o \in Observations /\ o' = Observation(o, rec) BY DEF EngineInv, EngineType, Admits
  <2> QED BY <1>1, <1>3, <2>1, RequestObserved
<1>5. id \notin o.utility BY <1>3 DEF EngineInv, BalancedObservation
<1>6. /\ DOMAIN responses' = DOMAIN responses \cup {id}
      /\ \A i \in DOMAIN responses : responses'[i] = responses[i]
      /\ responses'[id].processing = "none" /\ ~IsUtility(responses'[id])
  <2>1. responses' = With(responses, id, NewResponse(rec.owner, rec.kv)) BY DEF CommitRequest
  <2>2. id \notin DOMAIN responses BY <1>2
  <2>3. responses'[id] = NewResponse(rec.owner, rec.kv) BY <2>1 DEF With
  <2>4. NewResponse(rec.owner, rec.kv).owner = rec.owner
        /\ NewResponse(rec.owner, rec.kv).processing = "none"
    BY NewResponseType
  <2> QED BY <2>1, <2>2, <2>3, <2>4 DEF With, IsUtility
<1>7. \A i \in Ids : o'.requests[i] = Answered(i)'
  <2>1. o.requests \in [Ids -> {None, "open", "done"}]
    BY DEF EngineInv, EngineType, Observations
  <2>2. ASSUME NEW i \in Ids PROVE o'.requests[i] = Answered(i)'
    <3>1. i \in Nat BY DEF Ids
    <3>2. CASE i = id BY <1>2, <1>4, <1>6, <2>1, <3>2 DEF Answered
    <3>3. CASE i # id
      <4>1. o'.requests[i] = Answered(i) BY <1>1, <1>4, <2>1, <3>3
      <4>2. i > count' <=> i > count BY <1>2, <3>1, <3>3
      <4>3. i \in DOMAIN responses' <=> i \in DOMAIN responses BY <1>6, <3>3
      <4> QED BY <1>6, <4>1, <4>2, <4>3 DEF Answered
    <3> QED BY <3>2, <3>3
  <2> QED BY <2>2
<1>8. \A i \in DOMAIN responses' : i \in o'.utility <=> IsUtility(responses'[i])
  BY <1>1, <1>4, <1>5, <1>6
<1>9. allUsage' = Admitted(allUsage) BY DEF CommitRequest
<1>10. session' = "owned" BY DEF Admits
<1> QED BY <1>1, <1>4, <1>7, <1>8, <1>9, <1>10 DEF TallyInv, Agree

LEMMA UtilityKeepsTally ==
    ASSUME EngineInv, NEW rec, Readable(rec), rec.kind = "utility_request", Admits(rec),
           rec.kv \in KvScopes, rec.op \in Operations,
           NextInJournal(rec), CommitUtilityRequest(rec), UNCHANGED terminal
    PROVE  TallyInv'
<1> DEFINE o == observed
           id == rec.id
           owner == [kind |-> "utility", id |-> rec.op]
<1>1. /\ o.unaccounted = 0 /\ o.usage = allUsage /\ o.journal /\ ~o.turns
      /\ \A i \in Ids : o.requests[i] = Answered(i)
      /\ \A i \in DOMAIN responses : i \in o.utility <=> IsUtility(responses[i])
  BY DEF EngineInv, TallyInv, Admits
<1>2. /\ id \in Ids /\ id = count + 1 /\ count' = id /\ count \in Nat
      /\ DOMAIN responses \subseteq 1..count
  BY DEF Readable, NextInJournal, CommitUtilityRequest, EngineInv, EngineType, JournalType
<1>3. o.requests[id] = None BY <1>1, <1>2 DEF Answered
<1>4. /\ Agree(o, o') /\ o'.requests = [o.requests EXCEPT ![id] = "open"]
      /\ o'.utility = o.utility \cup {id} /\ o'.usage = o.usage
  <2>1. o \in Observations /\ o' = Observation(o, rec) BY DEF EngineInv, EngineType, Admits
  <2> QED BY <1>1, <1>3, <2>1, UtilityObserved
<1>5. owner \in Owners /\ owner.kind = "utility" BY DEF Owners, OwnerKinds
<1>6. /\ DOMAIN responses' = DOMAIN responses \cup {id}
      /\ \A i \in DOMAIN responses : responses'[i] = responses[i]
      /\ responses'[id].processing = "none" /\ IsUtility(responses'[id])
      /\ id \notin DOMAIN responses
  <2>1. responses' = With(responses, id, NewResponse(owner, rec.kv)) BY DEF CommitUtilityRequest
  <2>2. id \notin DOMAIN responses BY <1>2
  <2> HIDE DEF owner
  <2>3. responses'[id] = NewResponse(owner, rec.kv) BY <2>1 DEF With
  <2>4. NewResponse(owner, rec.kv).owner = owner
        /\ NewResponse(owner, rec.kv).processing = "none"
    BY <1>5, NewResponseType
  <2> QED BY <1>5, <2>1, <2>2, <2>3, <2>4 DEF With, IsUtility
<1>7. \A i \in Ids : o'.requests[i] = Answered(i)'
  <2>1. o.requests \in [Ids -> {None, "open", "done"}]
    BY DEF EngineInv, EngineType, Observations
  <2>2. ASSUME NEW i \in Ids PROVE o'.requests[i] = Answered(i)'
    <3>1. i \in Nat BY DEF Ids
    <3>2. CASE i = id BY <1>2, <1>4, <1>6, <2>1, <3>2 DEF Answered
    <3>3. CASE i # id
      <4>1. o'.requests[i] = Answered(i) BY <1>1, <1>4, <2>1, <3>3
      <4>2. i > count' <=> i > count BY <1>2, <3>1, <3>3
      <4>3. i \in DOMAIN responses' <=> i \in DOMAIN responses BY <1>6, <3>3
      <4> QED BY <1>6, <4>1, <4>2, <4>3 DEF Answered
    <3> QED BY <3>2, <3>3
  <2> QED BY <2>2
<1>8. \A i \in DOMAIN responses' : i \in o'.utility <=> IsUtility(responses'[i])
  BY <1>1, <1>4, <1>6
<1>9. allUsage' = allUsage BY DEF CommitUtilityRequest
<1>10. session' = "owned" BY DEF Admits
<1> QED BY <1>1, <1>4, <1>7, <1>8, <1>9, <1>10 DEF TallyInv, Agree

LEMMA ResponseKeepsTally ==
    ASSUME EngineInv, NEW rec, Readable(rec), rec.kind = "response", Admits(rec),
           rec.event \in ClientEvents, PlanResponse(rec), CommitResponse(rec), UNCHANGED terminal
    PROVE  TallyInv'
<1> DEFINE o == observed
           id == rec.id
           r == responses[id]
           event == rec.event
<1>1. /\ o.unaccounted = 0 /\ o.usage = allUsage /\ o.journal /\ ~o.turns
      /\ \A i \in Ids : o.requests[i] = Answered(i)
      /\ \A i \in DOMAIN responses : i \in o.utility <=> IsUtility(responses[i])
  BY DEF EngineInv, TallyInv, Admits
<1>2. /\ id \in Ids /\ id \in DOMAIN responses /\ count' = count /\ count \in Nat
      /\ DOMAIN responses \subseteq 1..count /\ r \in Responses(Owners, KvScopes)
      /\ session' = "owned"
  BY DEF Readable, PlanResponse, CommitResponse, EngineInv, EngineType, JournalType, Admits
<1>3. o \in Observations /\ o' = Observation(o, rec)
      /\ o.requests \in [Ids -> {None, "open", "done"}]
  BY DEF EngineInv, EngineType, Admits, Observations
<1>4. id <= count /\ ~(id > count) BY <1>2
<1>5. LET q == Stepped(r, event)
      IN  /\ q.owner = r.owner
          /\ event.kind # "outcome" => q.processing = r.processing
          /\ event.kind = "outcome" => q.processing # "none"
  BY <1>2, SteppedType
<1>6. CASE event.kind = "outcome"
  <2>1. RecordOutcome(id, r, event) BY <1>6 DEF CommitResponse
  <2>2. r.processing = "none" BY <1>6 DEF PlanResponse, InOrder
  <2>3. o.requests[id] = "open" BY <1>1, <1>2, <1>4, <2>2 DEF Answered
  <2>4. id \in o.utility <=> IsUtility(r) BY <1>1, <1>2
  <2>5. id \in o.utility \/ MayFinalize(o.usage, event.usage)
    BY <1>1, <1>6, <2>4 DEF PlanResponse
  <2>6. /\ Agree(o, o') /\ o'.requests = [o.requests EXCEPT ![id] = "done"]
        /\ o'.utility = o.utility
        /\ o'.usage = IF id \in o.utility THEN o.usage ELSE Finalized(o.usage, event.usage)
    BY <1>1, <1>3, <1>6, <2>3, <2>5, OutcomeObserved
  <2>7. allUsage' = IF IsUtility(r) THEN allUsage ELSE Finalized(allUsage, event.usage)
    BY <2>1 DEF RecordOutcome, Bill
  <2>8. o'.usage = allUsage' BY <1>1, <2>4, <2>6, <2>7
  <2>9. /\ DOMAIN responses' = DOMAIN responses
        /\ \A i \in DOMAIN responses \ {id} : responses'[i] = responses[i]
        /\ responses'[id] = Stepped(r, event)
    BY <1>2, <2>1 DEF RecordOutcome
  <2>10. ASSUME NEW i \in Ids PROVE o'.requests[i] = Answered(i)'
    <3>1. CASE i = id BY <1>2, <1>3, <1>4, <1>5, <1>6, <2>6, <2>9, <3>1 DEF Answered
    <3>2. CASE i # id
      <4>1. o'.requests[i] = Answered(i) BY <1>1, <1>3, <2>6, <3>2
      <4> QED BY <1>2, <2>9, <3>2, <4>1 DEF Answered
    <3> QED BY <3>1, <3>2
  <2>11. \A i \in DOMAIN responses' : i \in o'.utility <=> IsUtility(responses'[i])
    BY <1>1, <1>2, <1>5, <2>6, <2>9 DEF IsUtility
  <2> QED BY <1>1, <1>2, <2>6, <2>8, <2>10, <2>11 DEF TallyInv, Agree
<1>7. CASE event.kind # "outcome"
  <2>1. o.requests[id] # None BY <1>1, <1>2, <1>4 DEF Answered, None
  <2>2. o' = InScope(o, rec.scope) BY <1>1, <1>3, <1>7, <2>1 DEF Observation
  <2>3. /\ Agree(o, o') /\ o'.requests = o.requests
        /\ o'.utility = o.utility /\ o'.usage = o.usage
    BY <1>3, <2>2, InScopeFacts DEF Readable
  <2>4. allUsage' = allUsage BY <1>7 DEF CommitResponse, CloseResponse
  <2>5. CASE event.kind \in {"delivery", "history"}
    <3>1. responses' = [i \in DOMAIN responses \ {id} |-> responses[i]]
      BY <2>5 DEF CommitResponse, CloseResponse
    <3>2. r.processing # "none" BY <2>5 DEF PlanResponse, InOrder
    <3>3. ASSUME NEW i \in Ids PROVE Answered(i)' = Answered(i)
      <4>1. CASE i = id BY <1>2, <1>4, <3>1, <3>2, <4>1 DEF Answered
      <4>2. CASE i # id
        <5>1. i \in DOMAIN responses' <=> i \in DOMAIN responses BY <3>1, <4>2
        <5>2. i \in DOMAIN responses' => responses'[i] = responses[i] BY <3>1, <4>2
        <5> QED BY <1>2, <5>1, <5>2 DEF Answered
      <4> QED BY <4>1, <4>2
    <3>4. \A i \in DOMAIN responses' : i \in o'.utility <=> IsUtility(responses'[i])
      BY <1>1, <2>3, <3>1 DEF IsUtility
    <3> QED BY <1>1, <1>2, <2>3, <2>4, <3>3, <3>4 DEF TallyInv, Agree
  <2>6. CASE event.kind \notin {"delivery", "history"}
    <3>1. responses' = [responses EXCEPT ![id] = Stepped(r, event)]
      BY <1>7, <2>6 DEF CommitResponse
    <3>2. /\ DOMAIN responses' = DOMAIN responses
          /\ \A i \in DOMAIN responses \ {id} : responses'[i] = responses[i]
          /\ responses'[id] = Stepped(r, event)
      BY <1>2, <3>1
    <3>3. ASSUME NEW i \in Ids PROVE Answered(i)' = Answered(i)
      <4>1. CASE i = id BY <1>2, <1>4, <1>5, <1>7, <3>2, <4>1 DEF Answered
      <4>2. CASE i # id BY <1>2, <3>2, <4>2 DEF Answered
      <4> QED BY <4>1, <4>2
    <3>4. \A i \in DOMAIN responses' : i \in o'.utility <=> IsUtility(responses'[i])
      BY <1>1, <1>2, <1>5, <2>3, <3>2 DEF IsUtility
    <3> QED BY <1>1, <1>2, <2>3, <2>4, <3>3, <3>4 DEF TallyInv, Agree
  <2> QED BY <2>5, <2>6
<1> QED BY <1>6, <1>7

-----------------------------------------------------------------------------
(* Each record, admitted.                                                  *)

LEMMA ModelRequestKeeps ==
    ASSUME EngineInv, NEW rec, Readable(rec), rec.kind = "request", rec.kv \in KvScopes,
           rec.owner \in Owners, rec.owner.kind # "utility",
           rec.owner.kind = "chat" => rec.owner.id \in Attempts, ModelRequest(rec)
    PROVE  EngineInv'
<1>1. CASE Refuses(rec) BY <1>1, RefusesKeeps
<1>2. CASE /\ Admits(rec) /\ PlanRequest(rec) /\ CommitRequest(rec)
           /\ UNCHANGED <<tools, terminal, display, shown>>
  <2>1. rec.id \in Ids BY DEF Readable
  <2>2. JournalType' /\ Tokens(allUsage') = allUsage'.reports
    BY <1>2, <2>1, RequestKeepsJournal DEF EngineInv, EngineType
  <2>3. OwedInv' BY <1>2, RequestKeepsOwed DEF EngineInv, EngineType
  <2>4. TallyInv' BY <1>2, RequestKeepsTally
  <2>5. UNCHANGED spoken BY <1>2 DEF CommitRequest
  <2> QED BY <1>2, <2>2, <2>3, <2>4, <2>5, JournalKeeps
<1> QED BY <1>1, <1>2 DEF ModelRequest, Read, Refuses, Admits

LEMMA ModelUtilityRequestKeeps ==
    ASSUME EngineInv, NEW rec, Readable(rec), rec.kind = "utility_request",
           rec.kv \in KvScopes, rec.op \in Operations, ModelUtilityRequest(rec)
    PROVE  EngineInv'
<1>1. CASE Refuses(rec) BY <1>1, RefusesKeeps
<1>2. CASE /\ Admits(rec) /\ PlanUtilityRequest(rec) /\ CommitUtilityRequest(rec)
           /\ UNCHANGED runtime
  <2>1. rec.id \in Ids /\ NextInJournal(rec) BY <1>2 DEF Readable, PlanUtilityRequest
  <2>2. UNCHANGED <<tools, terminal, display, shown, owed, spoken, carried, allUsage>>
    BY <1>2 DEF runtime, rows, CommitUtilityRequest
  <2>3. JournalType' BY <1>2, <2>1, UtilityKeepsJournal DEF EngineInv, EngineType
  <2>4. OwedInv' /\ Tokens(allUsage') = allUsage'.reports BY <2>2 DEF EngineInv, OwedInv, Spoken
  <2>5. TallyInv' BY <1>2, <2>1, <2>2, UtilityKeepsTally
  <2> QED BY <1>2, <2>2, <2>3, <2>4, <2>5, JournalKeeps
<1> QED BY <1>1, <1>2 DEF ModelUtilityRequest, Read, Refuses, Admits

LEMMA ModelResponseKeeps ==
    ASSUME EngineInv, NEW rec, Readable(rec), rec.kind = "response",
           rec.event \in ClientEvents, ModelResponse(rec)
    PROVE  EngineInv'
<1>1. CASE Refuses(rec) BY <1>1, RefusesKeeps
<1>2. CASE Admits(rec) /\ PlanResponse(rec) /\ CommitResponse(rec) /\ UNCHANGED runtime
  <2>1. UNCHANGED <<tools, terminal, display, shown, owed, spoken, carried>>
    BY <1>2 DEF runtime, rows, CommitResponse
  <2>2. JournalType' /\ Tokens(allUsage') = allUsage'.reports
    BY <1>2, ResponseKeepsJournal DEF EngineInv, EngineType
  <2>3. OwedInv' BY <2>1 DEF EngineInv, OwedInv, Spoken
  <2>4. TallyInv' BY <1>2, <2>1, ResponseKeepsTally
  <2> QED BY <1>2, <2>1, <2>2, <2>3, <2>4, JournalKeeps
<1> QED BY <1>1, <1>2 DEF ModelResponse, Read, Refuses, Admits

\* The names of the scopes differ.
LEMMA ScopeFacts ==
    /\ Root \in Scopes /\ Tools \subseteq Scopes /\ Scopes \subseteq KvScopes /\ Side \in KvScopes
    /\ Side \notin Scopes /\ None \notin Scopes /\ None \notin KvScopes
BY JournalAssumption DEF Scopes, KvScopes, Root, Side, None

\* A record that changes only what no part of the invariant speaks about.
LEMMA StillKeeps ==
    ASSUME EngineInv, NEW rec, Readable(rec), Plain(rec), Admits(rec), JournalType', OwedInv',
           UNCHANGED <<count, responses, allUsage, spoken, tools, terminal, display, shown>>
    PROVE  EngineInv'
<1>1. ShownInv' BY DEF EngineInv, ShownInv
<1>2. terminal'[Root] = None BY DEF Admits
<1> QED BY <1>1, <1>2, PlainKeeps DEF EngineInv, EngineType

LEMMA JournalStays ==
    ASSUME EngineInv,
           UNCHANGED <<count, responses, attempts, owed, usage, allUsage, carried, spoken>>
    PROVE  JournalType' /\ OwedInv'
BY DEF EngineInv, EngineType, JournalType, OwedInv, Spoken

LEMMA SystemInitKeeps ==
    ASSUME EngineInv, SystemInit
    PROVE  EngineInv'
<1> DEFINE rec == Envelope("init", Root)
<1>1. Readable(rec) /\ Plain(rec) BY ScopeFacts DEF Envelope, Readable, Plain
<1>2. \/ Refuses(rec)
      \/ /\ Admits(rec) /\ UNCHANGED <<tools, terminal, display, shown>>
         /\ UNCHANGED <<count, responses, attempts, owed, usage, allUsage, carried, spoken>>
  BY DEF SystemInit, Read, Refuses, Admits, journal, rows
<1> HIDE DEF rec
<1>3. CASE Refuses(rec) BY <1>1, <1>3, RefusesKeeps
<1>4. CASE /\ Admits(rec) /\ UNCHANGED <<tools, terminal, display, shown>>
           /\ UNCHANGED <<count, responses, attempts, owed, usage, allUsage, carried, spoken>>
  <2>1. JournalType' /\ OwedInv' BY <1>4, JournalStays
  <2> QED BY <1>1, <1>4, <2>1, StillKeeps
<1> QED BY <1>2, <1>3, <1>4

LEMMA ModelUtilityCompletionKeeps ==
    ASSUME EngineInv, NEW rec, Readable(rec), Plain(rec), ModelUtilityCompletion(rec)
    PROVE  EngineInv'
<1>1. CASE Refuses(rec) BY <1>1, RefusesKeeps
<1>2. CASE Admits(rec) /\ CommitUtilityCompletion(rec) /\ UNCHANGED runtime
  <2>1. /\ UNCHANGED <<count, responses, attempts, owed, usage, allUsage, carried, spoken>>
        /\ UNCHANGED <<tools, terminal, display, shown>>
    BY <1>2 DEF CommitUtilityCompletion, runtime, rows
  <2>2. JournalType' /\ OwedInv' BY <2>1, JournalStays
  <2> QED BY <1>2, <2>1, <2>2, StillKeeps
<1> QED BY <1>1, <1>2 DEF ModelUtilityCompletion, Read, Refuses, Admits

LEMMA ModelNormalizationSeedKeeps ==
    ASSUME EngineInv, NEW rec, Readable(rec), Plain(rec), rec.attempt \in Attempts,
           ModelNormalizationSeed(rec)
    PROVE  EngineInv'
<1>1. CASE Refuses(rec) BY <1>1, RefusesKeeps
<1>2. CASE Admits(rec) /\ PlanSeed(rec) /\ CommitSeed(rec) /\ UNCHANGED runtime
  <2>1. /\ UNCHANGED <<count, responses, owed, usage, allUsage, carried, spoken>>
        /\ UNCHANGED <<tools, terminal, display, shown>>
    BY <1>2 DEF CommitSeed, runtime, rows
  <2>2. JournalType' BY <1>2, SeedKeepsJournal DEF EngineInv, EngineType, PlanSeed
  <2>3. OwedInv' BY <2>1 DEF EngineInv, OwedInv, Spoken
  <2> QED BY <1>2, <2>1, <2>2, <2>3, StillKeeps
<1> QED BY <1>1, <1>2 DEF ModelNormalizationSeed, Read, Refuses, Admits

LEMMA ModelGenerationKeeps ==
    ASSUME EngineInv, NEW rec, Readable(rec), Plain(rec), rec.attempt \in Attempts,
           rec.generation \in Generations,
           ModelGeneration(rec)
    PROVE  EngineInv'
<1>1. CASE Refuses(rec) BY <1>1, RefusesKeeps
<1>2. CASE /\ Admits(rec) /\ PlanGeneration(rec) /\ CommitGeneration(rec)
           /\ UNCHANGED <<tools, terminal, display, shown>>
  <2>1. UNCHANGED <<count, responses, owed, usage, allUsage, carried, spoken>>
    BY <1>2 DEF CommitGeneration
  <2>2. JournalType' BY <1>2, GenerationKeepsJournal DEF EngineInv, EngineType, PlanGeneration
  <2>3. OwedInv' BY <2>1 DEF EngineInv, OwedInv, Spoken
  <2> QED BY <1>2, <2>1, <2>2, <2>3, StillKeeps
<1> QED BY <1>1, <1>2 DEF ModelGeneration, Read, Refuses, Admits

\* The types of rows and calls.
LEMMA RowTypes ==
    ASSUME EngineInv
    PROVE  /\ tools \in [Tools -> ToolRecords] /\ shown \in [Scopes -> Seq(Attempts)]
           /\ spoken \in [KvScopes -> Turns]
           /\ terminal \in [Scopes -> {None, "error", "success"}]
           /\ display = NoDisplay \/ display \in [scope : Scopes, left : 1..2, attempt : Attempts]
BY DEF EngineInv, EngineType, JournalType

\* A decided attempt owes its rows, and no other turn is waiting for rows.
LEMMA ModelAttemptCompletionKeeps ==
    ASSUME EngineInv, NEW rec, Readable(rec), rec.kind = "completion", rec.attempt \in Attempts,
           rec.kv = attempts[rec.attempt].scope, ModelAttemptCompletion(rec)
    PROVE  EngineInv'
<1> DEFINE x == rec.attempt
           g == attempts[x].generation
           accepted == rec.disposition = "accepted"
           issues == accepted /\ g.call # None
<1>1. CASE Refuses(rec) BY <1>1, RefusesKeeps
<1>2. CASE /\ Admits(rec) /\ PlanCompletion(rec) /\ OutputScopeHolds(g, rec)
           /\ CommitCompletion(rec) /\ UNCHANGED <<terminal, shown>>
           /\ IF g.internal THEN UNCHANGED <<display, tools>>
              ELSE /\ display' = IF rec.disposition = "abandoned" THEN NoDisplay
                                 ELSE [scope |-> rec.scope, left |-> RowCount(g),
                                       attempt |-> x]
                   /\ tools' = IF issues
                                 THEN [tools EXCEPT ![g.call] =
                                          [issued |-> TRUE, scope |-> rec.scope,
                                           returned |-> FALSE]]
                                 ELSE tools
  <2>1. rec.scope \in Scopes /\ Plain(rec) BY DEF Readable, Plain
  <2>2. AttemptType(attempts[x]) BY DEF EngineInv, EngineType, JournalType
  <2>3. g \in Generations BY <1>2, <2>2 DEF PlanCompletion, AttemptType
  <2>4. ~g.internal => attempts[x].scope = rec.scope BY <1>2 DEF OutputScopeHolds
  <2>5. attempts[x].scope \in KvScopes BY <1>2, <2>2 DEF PlanCompletion, AttemptType
  <2>6. JournalType' /\ OwedInv'
    BY <1>2, <2>5, CompletionKeepsJournal DEF EngineInv, EngineType
  <2>7. UNCHANGED <<count, responses, allUsage>> BY <1>2 DEF CommitCompletion
  <2>8. display = NoDisplay BY <1>2 DEF Admits, Due
  <2>9. \A s \in Scopes : spoken[s].aloud \subseteq ToSet(shown[s])
    BY <2>8, ScopeFacts DEF EngineInv, ShownInv, NoDisplay
  <2>10. \A s \in Scopes :
            spoken'[s].aloud \subseteq spoken[s].aloud \cup
                (IF accepted /\ ~g.internal /\ s = rec.scope THEN {x} ELSE {})
    <3>1. CASE accepted
      <4>1. spoken' = [spoken EXCEPT ![attempts[x].scope] =
                          Said(spoken[attempts[x].scope], x, g.internal)]
        BY <1>2, <3>1 DEF CommitCompletion
      <4>2. ASSUME NEW s \in Scopes
            PROVE  spoken'[s].aloud \subseteq spoken[s].aloud \cup
                      (IF accepted /\ ~g.internal /\ s = rec.scope THEN {x} ELSE {})
        <5>1. s \in KvScopes BY ScopeFacts
        <5>2. CASE s = attempts[x].scope
          <6>1. spoken'[s] = Said(spoken[s], x, g.internal) BY <4>1, <5>1, <5>2, RowTypes
          <6>2. spoken'[s].aloud = spoken[s].aloud \cup (IF g.internal THEN {} ELSE {x})
            BY <6>1 DEF Said
          <6>3. ~g.internal => s = rec.scope BY <2>4, <5>2
          <6> QED BY <3>1, <6>2, <6>3
        <5>3. CASE s # attempts[x].scope
          <6>1. spoken'[s] = spoken[s] BY <4>1, <5>1, <5>3, RowTypes
          <6> QED BY <6>1
        <5> QED BY <5>2, <5>3
      <4> QED BY <4>2
    <3>2. CASE ~accepted
      <4>1. UNCHANGED spoken BY <1>2, <3>2 DEF CommitCompletion
      <4> QED BY <4>1
    <3> QED BY <3>1, <3>2
  <2>11. CASE g.internal
    <3>1. UNCHANGED <<display, tools, shown, terminal>> BY <1>2, <2>11
    <3>2. ShownInv' BY <2>9, <2>10, <2>11, <3>1 DEF ShownInv
    <3>3. terminal'[Root] = None BY <1>2 DEF Admits
    <3> QED BY <1>2, <2>1, <2>6, <2>7, <3>1, <3>2, <3>3, RowTypes, PlainKeeps
  <2>12. CASE ~g.internal
    <3>1. RowCount(g) \in 1..2 BY DEF RowCount
    <3>2. display' = NoDisplay \/ display' \in [scope : Scopes, left : 1..2, attempt : Attempts]
      BY <1>2, <2>1, <2>12, <3>1
    <3>3. tools' \in [Tools -> ToolRecords]
      <4>1. CASE issues
        <5>1. g.call \in Tools BY <2>3, <4>1 DEF Generations
        <5>2. [issued |-> TRUE, scope |-> rec.scope, returned |-> FALSE] \in ToolRecords
          BY <2>1 DEF ToolRecords
        <5> QED BY <1>2, <2>12, <4>1, <5>1, <5>2, RowTypes
      <4>2. CASE ~issues BY <1>2, <2>12, <4>2, RowTypes
      <4> QED BY <4>1, <4>2
    <3>4. ShownInv'
      <4>1. CASE accepted
        <5>1. display'.scope = rec.scope /\ display'.attempt = x BY <1>2, <2>12, <4>1
        <5> QED BY <1>2, <2>9, <2>10, <5>1 DEF ShownInv
      <4>2. CASE ~accepted BY <1>2, <2>9, <2>10, <4>2 DEF ShownInv
      <4> QED BY <4>1, <4>2
    <3>5. terminal'[Root] = None BY <1>2 DEF Admits
    <3>6. shown' \in [Scopes -> Seq(Attempts)] /\ terminal' \in [Scopes -> {None, "error", "success"}]
      BY <1>2, RowTypes
    <3> QED BY <1>2, <2>1, <2>6, <2>7, <3>2, <3>3, <3>4, <3>5, <3>6, PlainKeeps
  <2> QED BY <2>11, <2>12
<1> QED BY <1>1, <1>2 DEF ModelAttemptCompletion, Read, Refuses, Admits

\* The last row of a turn completes what its scope has shown.
LEMMA ShownRowFacts ==
    ASSUME EngineInv, NEW rec, rec.scope \in Scopes, Due(rec), display # NoDisplay, ShownRow(rec)
    PROVE  /\ display' = NoDisplay \/ display' \in [scope : Scopes, left : 1..2, attempt : Attempts]
           /\ shown' \in [Scopes -> Seq(Attempts)] /\ ShownInv'
<1>1. /\ display \in [scope : Scopes, left : 1..2, attempt : Attempts]
      /\ shown \in [Scopes -> Seq(Attempts)]
  BY RowTypes
<1>2. display.scope = rec.scope /\ UNCHANGED spoken BY DEF Due, ShownRow, journal
<1>3. CASE display.left = 1
  <2>1. /\ display' = NoDisplay
        /\ shown' = [shown EXCEPT ![rec.scope] = Append(shown[rec.scope], display.attempt)]
    BY <1>3 DEF ShownRow
  <2>2. /\ Append(shown[rec.scope], display.attempt) \in Seq(Attempts)
        /\ ToSet(Append(shown[rec.scope], display.attempt)) =
              ToSet(shown[rec.scope]) \cup {display.attempt}
    BY <1>1, ToSetAppend
  <2>3. shown' \in [Scopes -> Seq(Attempts)] BY <1>1, <2>1, <2>2
  <2>4. ASSUME NEW s \in Scopes PROVE spoken[s].aloud \subseteq ToSet(shown'[s])
    <3>1. spoken[s].aloud \subseteq
             ToSet(shown[s]) \cup (IF display.scope = s THEN {display.attempt} ELSE {})
      BY DEF EngineInv, ShownInv
    <3>2. CASE s = rec.scope BY <1>1, <1>2, <2>1, <2>2, <3>1, <3>2
    <3>3. CASE s # rec.scope BY <1>1, <1>2, <2>1, <3>1, <3>3
    <3> QED BY <3>2, <3>3
  <2>5. ShownInv' BY <1>2, <2>4 DEF ShownInv
  <2> QED BY <2>1, <2>3, <2>5
<1>4. CASE display.left # 1
  <2>1. display' = [display EXCEPT !.left = display.left - 1] /\ UNCHANGED shown
    BY <1>4 DEF ShownRow
  <2>2. display.left - 1 \in 1..2 BY <1>1, <1>4
  <2>3. /\ display' \in [scope : Scopes, left : 1..2, attempt : Attempts]
        /\ display'.scope = display.scope /\ display'.attempt = display.attempt
    BY <1>1, <2>1, <2>2
  <2>4. ShownInv' BY <1>2, <2>1, <2>3 DEF EngineInv, ShownInv
  <2> QED BY <1>1, <2>1, <2>3, <2>4
<1> QED BY <1>3, <1>4

\* A row of the turn that is due shows it; a local answer shows no turn.
LEMMA AssistantKeeps ==
    ASSUME EngineInv, NEW rec, Readable(rec), rec.kind = "assistant", Assistant(rec)
    PROVE  EngineInv'
<1>1. CASE Refuses(rec) BY <1>1, RefusesKeeps
<1>2. Plain(rec) /\ rec.scope \in Scopes BY DEF Plain, Readable
<1>3. CASE Admits(rec) /\ display = NoDisplay /\ RuntimeAnswer(rec)
  <2>1. /\ UNCHANGED <<count, responses, attempts, owed, usage, allUsage, carried, spoken>>
        /\ UNCHANGED <<tools, terminal, display, shown>>
    BY <1>3 DEF RuntimeAnswer, journal
  <2>2. JournalType' /\ OwedInv' BY <2>1, JournalStays
  <2> QED BY <1>2, <1>3, <2>1, <2>2, StillKeeps
<1>4. CASE Admits(rec) /\ display # NoDisplay /\ ShownRow(rec)
  <2>1. /\ UNCHANGED <<count, responses, attempts, owed, usage, allUsage, carried, spoken>>
        /\ UNCHANGED <<tools, terminal>>
    BY <1>4 DEF ShownRow, journal, rows
  <2>2. JournalType' /\ OwedInv' BY <2>1, JournalStays
  <2>3. /\ display' = NoDisplay \/ display' \in [scope : Scopes, left : 1..2, attempt : Attempts]
        /\ shown' \in [Scopes -> Seq(Attempts)] /\ ShownInv'
    BY <1>2, <1>4, ShownRowFacts DEF Admits
  <2>4. terminal'[Root] = None BY <1>4, <2>1 DEF Admits
  <2> QED BY <1>2, <1>4, <2>1, <2>2, <2>3, <2>4, RowTypes, PlainKeeps
<1> QED BY <1>1, <1>3, <1>4 DEF Assistant, Read, Refuses, Admits

LEMMA UserRowKeeps ==
    ASSUME EngineInv, NEW rec, Readable(rec), rec.kind = "user", rec.tool \in Tools, UserRow(rec)
    PROVE  EngineInv'
<1>1. CASE Refuses(rec) BY <1>1, RefusesKeeps
<1>2. Plain(rec) BY DEF Plain
<1>3. CASE /\ Admits(rec) /\ tools' = [tools EXCEPT ![rec.tool].returned = TRUE]
           /\ UNCHANGED <<journal, terminal, display, shown>>
  <2>1. UNCHANGED <<count, responses, attempts, owed, usage, allUsage, carried, spoken>>
    BY <1>3 DEF journal
  <2>2. JournalType' /\ OwedInv' BY <2>1, JournalStays
  <2>3. tools' \in [Tools -> ToolRecords]
    <3>1. tools[rec.tool] \in ToolRecords BY RowTypes
    <3>2. [tools[rec.tool] EXCEPT !.returned = TRUE] \in ToolRecords BY <3>1 DEF ToolRecords
    <3> QED BY <1>3, <3>2, RowTypes
  <2>4. ShownInv' BY <1>3, <2>1 DEF EngineInv, ShownInv
  <2>5. terminal'[Root] = None BY <1>3 DEF Admits
  <2>6. /\ shown' \in [Scopes -> Seq(Attempts)]
        /\ terminal' \in [Scopes -> {None, "error", "success"}]
        /\ display' = NoDisplay \/ display' \in [scope : Scopes, left : 1..2, attempt : Attempts]
    BY <1>3, RowTypes
  <2> QED BY <1>2, <1>3, <2>1, <2>2, <2>3, <2>4, <2>5, <2>6, PlainKeeps
<1> QED BY <1>1, <1>3 DEF UserRow, Read, Refuses, Admits

\* The records that only move a partial, an operation or nothing at all.
LEMMA BystanderKeeps ==
    ASSUME EngineInv, NEW rec, Readable(rec), Plain(rec),
           \/ Refuses(rec)
           \/ Admits(rec) /\ UNCHANGED <<journal, tools, terminal, display, shown>>
    PROVE  EngineInv'
<1>1. CASE Refuses(rec) BY <1>1, RefusesKeeps
<1>2. CASE Admits(rec) /\ UNCHANGED <<journal, tools, terminal, display, shown>>
  <2>1. UNCHANGED <<count, responses, attempts, owed, usage, allUsage, carried, spoken>>
    BY <1>2 DEF journal
  <2>2. JournalType' /\ OwedInv' BY <2>1, JournalStays
  <2> QED BY <1>2, <2>1, <2>2, StillKeeps
<1> QED BY <1>1, <1>2

LEMMA StreamEventKeeps ==
    ASSUME EngineInv, NEW rec, Readable(rec), rec.kind = "partial", StreamEvent(rec)
    PROVE  EngineInv'
<1>1. Plain(rec) BY DEF Plain
<1>2. \/ Refuses(rec)
      \/ Admits(rec) /\ UNCHANGED <<journal, tools, terminal, display, shown>>
  BY DEF StreamEvent, Read, Refuses, Admits
<1> QED BY <1>1, <1>2, BystanderKeeps

LEMMA RuntimeOperationKeeps ==
    ASSUME EngineInv, NEW rec, Readable(rec), rec.kind = "operation", RuntimeOperation(rec)
    PROVE  EngineInv'
<1>1. Plain(rec) BY DEF Plain
<1>2. \/ Refuses(rec)
      \/ Admits(rec) /\ UNCHANGED <<journal, tools, terminal, display, shown>>
  BY DEF RuntimeOperation, Read, Refuses, Admits
<1> QED BY <1>1, <1>2, BystanderKeeps

LEMMA NoticeKeeps ==
    ASSUME EngineInv, NEW rec, Readable(rec), Plain(rec), Notice(rec) \/ OperationalFailure(rec)
    PROVE  EngineInv'
<1>1. \/ Refuses(rec)
      \/ Admits(rec) /\ UNCHANGED certified
  BY DEF Notice, OperationalFailure, Read, Refuses, Admits
<1>2. UNCHANGED certified => UNCHANGED <<journal, tools, terminal, display, shown>>
  BY DEF certified, runtime, rows
<1> QED BY <1>1, <1>2, BystanderKeeps

LEMMA CompactionKeeps ==
    ASSUME EngineInv, NEW rec, Readable(rec), rec.kind = "compaction",
           rec.claims # <<>> => Last1(rec.claims).draw \in Draws, Compaction(rec)
    PROVE  EngineInv'
<1>1. CASE Refuses(rec) BY <1>1, RefusesKeeps
<1>2. CASE /\ Admits(rec) /\ PlanCompaction(rec) /\ CommitCompaction(rec)
           /\ UNCHANGED <<tools, rows, display, shown>>
  <2>1. Plain(rec) /\ rec.scope \in KvScopes BY ScopeFacts DEF Plain, Readable
  <2>2. UNCHANGED <<count, responses, allUsage, spoken, terminal>>
    BY <1>2 DEF CommitCompaction, rows
  <2>3. rec.succeeded => Last1(rec.claims).draw \in Draws
    BY <1>2 DEF PlanCompaction, Replaces
  <2>4. JournalType' /\ OwedInv'
    BY <1>2, <2>1, <2>3, CompactionKeepsJournal DEF EngineInv, EngineType
  <2> QED BY <1>2, <2>1, <2>2, <2>4, StillKeeps
<1> QED BY <1>1, <1>2 DEF Compaction, Read, Refuses, Admits

\* The root's result leaves nothing open behind it.
LEMMA ResultKeeps ==
    ASSUME EngineInv, NEW rec, Readable(rec), rec.kind = "result", Result(rec)
    PROVE  EngineInv'
<1>1. CASE Refuses(rec) BY <1>1, RefusesKeeps
<1>2. CASE /\ Admits(rec) /\ PlanResult(rec)
           /\ terminal' = [terminal EXCEPT ![rec.scope] = IF rec.error THEN "error" ELSE "success"]
           /\ UNCHANGED <<journal, tools, display, shown>>
  <2>1. /\ UNCHANGED <<count, responses, attempts, owed, usage, allUsage, carried, spoken>>
        /\ UNCHANGED <<utilities, compactions>>
    BY <1>2 DEF journal
  <2>2. JournalType' /\ OwedInv' BY <2>1, JournalStays
  <2>3. ShownInv' BY <1>2, <2>1 DEF EngineInv, ShownInv
  <2>4. rec.scope \in Scopes BY DEF Readable
  <2>5. terminal' \in [Scopes -> {None, "error", "success"}] BY <1>2, <2>4, RowTypes
  <2>6. /\ tools' \in [Tools -> ToolRecords] /\ shown' \in [Scopes -> Seq(Attempts)]
        /\ display' = NoDisplay \/ display' \in [scope : Scopes, left : 1..2, attempt : Attempts]
        /\ Tokens(allUsage') = allUsage'.reports
    BY <1>2, <2>1, RowTypes DEF EngineInv
  <2>7. CASE rec.scope # Root
    <3>1. Plain(rec) BY <2>7 DEF Plain
    <3>2. terminal'[Root] = None BY <1>2, <2>7, ScopeFacts, RowTypes DEF Admits
    <3> QED BY <1>2, <2>1, <2>2, <2>3, <2>5, <2>6, <3>1, <3>2, PlainKeeps
  <2>8. CASE rec.scope = Root
    <3>1. terminal'[Root] # None BY <1>2, <2>4, <2>8, RowTypes DEF None
    <3>2. ValidateSummary BY <1>2, <2>8 DEF PlanResult
    <3>3. ValidateSummary' BY <2>1, <3>2 DEF ValidateSummary
    <3>4. display' = NoDisplay BY <1>2 DEF Admits, Due
    <3>5. TallyInv'
      <4>1. /\ ~observed.turns /\ observed \in Observations /\ observed.journal
            /\ session' = "owned" /\ observed' = Observation(observed, rec)
        BY <1>2 DEF EngineInv, EngineType, TallyInv, Admits
      <4>2. observed' = [observed EXCEPT !.turns = TRUE] BY <2>8, <4>1 DEF Observation
      <4>3. /\ observed'.journal = observed.journal /\ observed'.usage = observed.usage
            /\ observed'.requests = observed.requests /\ observed'.utility = observed.utility
            /\ observed'.unaccounted = observed.unaccounted
        BY <4>1, <4>2 DEF Observations
      <4>4. \A i \in Ids : Answered(i)' = Answered(i) BY <2>1 DEF Answered
      <4> QED BY <1>2, <2>1, <3>1, <4>1, <4>3, <4>4 DEF EngineInv, TallyInv, Admits
    <3> QED BY <1>2, <2>2, <2>3, <2>5, <2>6, <3>3, <3>4, <3>5, AdmitsKeeps
  <2> QED BY <2>7, <2>8
<1> QED BY <1>1, <1>2 DEF Result, Read, Refuses, Admits

-----------------------------------------------------------------------------
(* The records a stream may hold are typed.                                *)

\* What a load may hold.
LEMMA LoadFacts ==
    ASSUME EngineInv
    PROVE  /\ load.attempts \subseteq Attempts /\ load.tools \subseteq Tools
           /\ load.draws \subseteq Draws /\ load.requests \in 0..MaxRequests
           /\ count \in Nat /\ MaxRequests \in Nat
BY JournalAssumption DEF EngineInv, EngineType, JournalType, LoadType

\* The scopes of the records that a stream may hold.
LEMMA RunningFacts ==
    /\ Running \subseteq Scopes /\ UsedAttempts \subseteq Attempts /\ Undecided \subseteq Attempts
    /\ Decidable \subseteq Attempts /\ UsedDraws \subseteq Draws /\ Used \subseteq Operations
    /\ \A kv : Envelopes(kv) \subseteq Scopes
    /\ \A S : Some(S) \subseteq S /\ Fresh(S) \subseteq S /\ Wrong(S) \subseteq S /\ Again(S) \subseteq S
<1>1. \A S : Some(S) \subseteq S
  <2>1. ASSUME NEW S PROVE Some(S) \subseteq S
    <3>1. S # {} => (CHOOSE x \in S : TRUE) \in S OBVIOUS
    <3> QED BY <3>1 DEF Some
  <2> QED BY <2>1
<1>2. \A S : Fresh(S) \subseteq S /\ Wrong(S) \subseteq S /\ Again(S) \subseteq S
  BY <1>1 DEF Fresh, Wrong, Again
<1>3. /\ Running \subseteq Scopes /\ UsedAttempts \subseteq Attempts /\ Undecided \subseteq Attempts
      /\ UsedDraws \subseteq Draws /\ Used \subseteq Operations
      /\ \A kv : Envelopes(kv) \subseteq Scopes
  BY DEF Running, UsedAttempts, Undecided, UsedDraws, Used, Envelopes, Scopes
<1>4. Decidable \subseteq Attempts BY <1>2, <1>3 DEF Decidable
<1> QED BY <1>1, <1>2, <1>3, <1>4

LEMMA NextIdFacts == ASSUME EngineInv, Room PROVE NextIds \subseteq Ids
<1>1. count + 1 \in Ids /\ 1..count \subseteq Ids BY LoadFacts DEF Room, Ids
<1>2. Wrong(1..count) \subseteq 1..count BY RunningFacts
<1> QED BY <1>1, <1>2 DEF NextIds

\* The owners of the requests that a stream may hold.
LEMMA OwnerFacts ==
    ASSUME EngineInv, NEW owner \in RequestOwners
    PROVE  /\ owner \in Owners /\ owner.kind # "utility" /\ KvScopesOf(owner) \subseteq KvScopes
           /\ owner.kind = "chat" => owner.id \in Attempts
<1>1. \/ \E a \in Attempts : owner = [kind |-> "chat", id |-> a]
      \/ \E d \in Draws : owner = [kind |-> "draw", id |-> d]
      \/ owner = [kind |-> "side", id |-> None]
  <2>1. Again(UsedAttempts) \cup Fresh(load.attempts \ UsedAttempts) \subseteq Attempts
    BY LoadFacts, RunningFacts
  <2>2. Again(UsedDraws) \cup Fresh(load.draws \ UsedDraws) \subseteq Draws
    BY LoadFacts, RunningFacts
  <2> QED BY <2>1, <2>2 DEF RequestOwners
<1>2. owner \in Owners /\ owner.kind # "utility" /\ owner.kind \in {"chat", "draw", "side"}
  BY <1>1 DEF Owners, OwnerKinds
<1>3. owner.kind = "chat" => owner.id \in Attempts BY <1>1
<1>4. KvScopesOf(owner) \subseteq KvScopes
  <2>1. Running \subseteq KvScopes /\ Side \in KvScopes BY RunningFacts, ScopeFacts
  <2>2. CASE owner.kind = "chat" BY <2>1, <2>2 DEF KvScopesOf
  <2>3. CASE owner.kind = "draw" BY <2>1, <2>3 DEF KvScopesOf
  <2>4. CASE owner.kind = "side" BY <2>1, <2>4 DEF KvScopesOf
  <2> QED BY <1>2, <2>2, <2>3, <2>4
<1> QED BY <1>2, <1>3, <1>4

\* The events of the responses that a stream may hold.
LEMMA EventFacts ==
    ASSUME NEW r PROVE Events(r) \subseteq ClientEvents
<1>1. TransportEvents(r) \subseteq ClientEvents BY DEF TransportEvents, ClientEvents
<1>2. DecodeEvents \cup OutcomeEvents \cup ReceiptEvents \subseteq ClientEvents BY DEF ClientEvents
<1> QED BY <1>1, <1>2 DEF Events

-----------------------------------------------------------------------------
(* Each step keeps the invariant.                                          *)

LEMMA StreamStartKeeps == ASSUME EngineInv, StreamStart PROVE EngineInv'
<1> DEFINE rec == Envelope("start", Root)
<1>1. Readable(rec) /\ rec.kind = "start" /\ rec.scope = Root
  BY ScopeFacts DEF Readable, Envelope
<1>2. CASE Read(rec, FALSE, FALSE)
  <2>1. Refuses(rec) BY <1>2 DEF Read, Refuses
  <2> QED BY <1>1, <2>1, RefusesKeeps
<1>3. CASE /\ phase = "reading" /\ session = "unread" /\ session' = "owned"
           /\ observed' = Observation(observed, rec)
           /\ UNCHANGED <<load, phase, refused, behind, journal, tools, rows, display, shown>>
  <2>1. observed' \in Observations /\ BalancedObservation(observed')
    BY <1>1, <1>3, ObservationFacts DEF EngineInv, EngineType
  <2>2. /\ UNCHANGED <<count, responses, attempts, owed, usage, allUsage, carried, spoken>>
        /\ UNCHANGED <<utilities, compactions, terminal>>
    BY <1>3 DEF journal, rows
  <2>3. JournalType' /\ OwedInv' BY <2>2, JournalStays
  <2>4. ShownInv' BY <1>3, <2>2 DEF EngineInv, ShownInv
  <2>5. EngineType' BY <1>3, <2>1, <2>2, <2>3 DEF EngineInv, EngineType
  <2>6. EndInv'
    <3>1. ValidateSummary' <=> ValidateSummary BY <2>2 DEF ValidateSummary
    <3> QED BY <1>3, <2>2, <3>1 DEF EngineInv, EndInv
  <2>7. TallyInv'
    <3>1. CASE refused BY <1>3, <3>1 DEF TallyInv
    <3>2. CASE ~refused
      <4>1. ~observed.journal /\ observed \in Observations
        BY <1>3, <3>2 DEF EngineInv, EngineType, TallyInv
      <4>2. observed' = [observed EXCEPT !.journal = TRUE] BY <1>1, <1>3, <4>1 DEF Observation
      <4>3. /\ observed'.journal = TRUE /\ observed'.usage = observed.usage
            /\ observed'.requests = observed.requests /\ observed'.utility = observed.utility
            /\ observed'.unaccounted = observed.unaccounted
            /\ observed'.turns = observed.turns
        BY <4>1, <4>2 DEF Observations
      <4>4. \A i \in Ids : Answered(i)' = Answered(i) BY <2>2 DEF Answered
      <4> QED BY <1>3, <2>2, <3>2, <4>3, <4>4 DEF EngineInv, TallyInv
    <3> QED BY <3>1, <3>2
  <2>8. Tokens(allUsage') = allUsage'.reports BY <2>2 DEF EngineInv
  <2> QED BY <2>1, <2>3, <2>4, <2>5, <2>6, <2>7, <2>8 DEF EngineInv
<1> QED BY <1>2, <1>3 DEF StreamStart

\* A line that is not a record of this session's schema.
LEMMA BadLineKeeps ==
    ASSUME EngineInv, observed' = Unaccounted(observed), refused' = TRUE, behind' = behind + 1,
           session' \in {"unread", "owned", "lost"},
           phase = "reading", phase' \in {"reading", "uncertified"},
           UNCHANGED <<load, certified>>
    PROVE  EngineInv'
<1>1. observed \in Observations /\ BalancedObservation(observed) BY DEF EngineInv, EngineType
<1>2. observed' \in Observations /\ BalancedObservation(observed')
  BY <1>1, UnaccountedFacts, BalancedSame
<1> QED BY <1>2, RefusalKeeps

LEMMA ReadModelRequestKeeps == ASSUME EngineInv, ReadModelRequest PROVE EngineInv'
<1>1. Room BY DEF ReadModelRequest
<1>a. PICK owner \in RequestOwners :
         \E kv \in KvScopesOf(owner), id \in NextIds, exact \in Exact, whole \in Exact :
         \E scope \in Envelopes(kv) :
            ModelRequest([kind |-> "request", scope |-> scope, kv |-> kv, id |-> id,
                          owner |-> owner, exact |-> exact,
                          carries |-> IF whole THEN Required(kv, owner.kind) ELSE Missing])
  BY DEF ReadModelRequest
<1>b. PICK kv \in KvScopesOf(owner), id \in NextIds, exact \in Exact, whole \in Exact :
         \E scope \in Envelopes(kv) :
            ModelRequest([kind |-> "request", scope |-> scope, kv |-> kv, id |-> id,
                          owner |-> owner, exact |-> exact,
                          carries |-> IF whole THEN Required(kv, owner.kind) ELSE Missing])
  BY <1>a
<1>2. PICK scope \in Envelopes(kv) :
         ModelRequest([kind |-> "request", scope |-> scope, kv |-> kv, id |-> id, owner |-> owner,
                       exact |-> exact,
                       carries |-> IF whole THEN Required(kv, owner.kind) ELSE Missing])
  BY <1>b
<1> DEFINE rec == [kind |-> "request", scope |-> scope, kv |-> kv, id |-> id, owner |-> owner,
                   exact |-> exact,
                   carries |-> IF whole THEN Required(kv, owner.kind) ELSE Missing]
<1>3. rec.kind = "request" /\ rec.scope = scope /\ rec.kv = kv /\ rec.id = id /\ rec.owner = owner
  OBVIOUS
<1>4. id \in Ids /\ scope \in Scopes BY <1>1, NextIdFacts, RunningFacts
<1>5. /\ owner \in Owners /\ owner.kind # "utility" /\ kv \in KvScopes
      /\ owner.kind = "chat" => owner.id \in Attempts
  BY OwnerFacts
<1>6. ModelRequest(rec) BY <1>2
<1> HIDE DEF rec
<1>7. Readable(rec) BY <1>3, <1>4 DEF Readable
<1> QED BY <1>3, <1>5, <1>6, <1>7, ModelRequestKeeps

LEMMA ReadUtilityRequestKeeps == ASSUME EngineInv, ReadUtilityRequest PROVE EngineInv'
<1>1. Room BY DEF ReadUtilityRequest
<1>a. PICK op \in Again(Used) \cup Fresh(Operations \ Used), kv \in Running, id \in NextIds,
           tokenizes \in {"chat", "text"}, exact \in Exact :
         \E scope \in Envelopes(kv) :
            ModelUtilityRequest([kind |-> "utility_request", scope |-> scope, kv |-> kv,
                                 id |-> id, op |-> op, tokenizes |-> tokenizes,
                                 exact |-> exact])
  BY DEF ReadUtilityRequest
<1>2. PICK scope \in Envelopes(kv) :
         ModelUtilityRequest([kind |-> "utility_request", scope |-> scope, kv |-> kv, id |-> id,
                              op |-> op, tokenizes |-> tokenizes, exact |-> exact])
  BY <1>a
<1> DEFINE rec == [kind |-> "utility_request", scope |-> scope, kv |-> kv, id |-> id,
                   op |-> op, tokenizes |-> tokenizes, exact |-> exact]
<1>3. rec.kind = "utility_request" /\ rec.scope = scope /\ rec.kv = kv /\ rec.id = id /\ rec.op = op
  OBVIOUS
<1>4. id \in Ids /\ scope \in Scopes /\ kv \in KvScopes /\ op \in Operations
  BY <1>1, NextIdFacts, RunningFacts, ScopeFacts
<1>5. ModelUtilityRequest(rec) BY <1>2
<1> HIDE DEF rec
<1>6. Readable(rec) BY <1>3, <1>4 DEF Readable
<1> QED BY <1>3, <1>4, <1>5, <1>6, ModelUtilityRequestKeeps

LEMMA ReadUtilityCompletionKeeps == ASSUME EngineInv, ReadUtilityCompletion PROVE EngineInv'
<1>a. PICK op \in Used \cup Wrong(Operations), exact \in Exact, result \in BOOLEAN :
         \E scope \in (IF utilities[op] = NoUtility THEN {Root}
                       ELSE Envelopes(utilities[op].scope)),
            requests \in {utilities[op].requests} \cup Wrong({<<>>}) :
            ModelUtilityCompletion([kind |-> "utility_completion", scope |-> scope, op |-> op,
                                    requests |-> requests, result |-> result,
                                    exact |-> exact])
  BY DEF ReadUtilityCompletion
<1>b. (IF utilities[op] = NoUtility THEN {Root} ELSE Envelopes(utilities[op].scope))
         \subseteq Scopes
  BY RunningFacts, ScopeFacts
<1>1. PICK scope \in Scopes, requests \in {utilities[op].requests} \cup Wrong({<<>>}) :
         ModelUtilityCompletion([kind |-> "utility_completion", scope |-> scope, op |-> op,
                                 requests |-> requests, result |-> result, exact |-> exact])
  BY <1>a, <1>b
<1> DEFINE rec == [kind |-> "utility_completion", scope |-> scope, op |-> op,
                   requests |-> requests, result |-> result, exact |-> exact]
<1>2. rec.kind = "utility_completion" /\ rec.scope = scope /\ ModelUtilityCompletion(rec) BY <1>1
<1> HIDE DEF rec
<1>3. Readable(rec) /\ Plain(rec) BY <1>2 DEF Readable, Plain
<1> QED BY <1>2, <1>3, ModelUtilityCompletionKeeps

LEMMA ReadModelResponseKeeps == ASSUME EngineInv, ReadModelResponse PROVE EngineInv'
<1>a. PICK id \in DOMAIN responses :
         \E event \in Events(responses[id]), scope \in Envelopes(responses[id].scope) :
         \E exact \in Exact :
            ModelResponse([kind |-> "response", scope |-> scope, id |-> id, event |-> event,
                           exact |-> exact])
  BY DEF ReadModelResponse, Exact
<1>1. PICK event \in Events(responses[id]), scope \in Envelopes(responses[id].scope),
           exact \in Exact :
         ModelResponse([kind |-> "response", scope |-> scope, id |-> id, event |-> event,
                        exact |-> exact])
  BY <1>a
<1> DEFINE rec == [kind |-> "response", scope |-> scope, id |-> id, event |-> event,
                   exact |-> exact]
<1>2. rec.kind = "response" /\ rec.scope = scope /\ rec.id = id /\ rec.event = event OBVIOUS
<1>3. id \in Ids /\ scope \in Scopes
  <2>1. id \in 1..count /\ count <= MaxRequests
    BY LoadFacts DEF EngineInv, EngineType, JournalType
  <2> QED BY <2>1, LoadFacts, RunningFacts DEF Ids
<1>4. event \in ClientEvents BY EventFacts
<1>5. event.kind = "outcome" => event.usage \in Optional(Served) BY <1>4, OutcomeType
<1>6. ModelResponse(rec) BY <1>1
<1> HIDE DEF rec
<1>7. Readable(rec) BY <1>2, <1>3, <1>5 DEF Readable
<1> QED BY <1>2, <1>4, <1>6, <1>7, ModelResponseKeeps

LEMMA ReadStrayOutcomeKeeps == ASSUME EngineInv, ReadStrayOutcome PROVE EngineInv'
<1>1. PICK id \in Wrong((1..load.requests) \ DOMAIN responses), served \in Optional(Served) :
         ModelResponse([kind |-> "response", scope |-> Root, id |-> id, exact |-> TRUE,
                        event |-> [kind |-> "outcome", status |-> "failed", seen |-> 0,
                                   usage |-> served, refused |-> FALSE, outputs |-> 0]])
  BY DEF ReadStrayOutcome
<1> DEFINE event == [kind |-> "outcome", status |-> "failed", seen |-> 0,
                     usage |-> served, refused |-> FALSE, outputs |-> 0]
           rec == [kind |-> "response", scope |-> Root, id |-> id, exact |-> TRUE,
                   event |-> event]
<1>2. event \in OutcomeEvents /\ event.kind = "outcome" BY DEF OutcomeEvents
<1>3. event \in ClientEvents /\ event.usage \in Optional(Served)
  BY <1>2, OutcomeType DEF ClientEvents
<1>4. ModelResponse(rec) BY <1>1
<1> HIDE DEF event
<1>5. rec.kind = "response" /\ rec.scope = Root /\ rec.id = id /\ rec.event = event OBVIOUS
<1>6. id \in Ids
  <2>1. id \in 1..load.requests BY RunningFacts
  <2> QED BY <2>1, LoadFacts DEF Ids
<1> HIDE DEF rec
<1>7. Readable(rec) BY <1>2, <1>3, <1>5, <1>6, ScopeFacts DEF Readable
<1> QED BY <1>3, <1>4, <1>5, <1>7, ModelResponseKeeps

LEMMA ReadSeedKeeps == ASSUME EngineInv, ReadSeed PROVE EngineInv'
<1>a. PICK a \in Decidable, exact \in Exact :
         \E scope \in Envelopes(attempts[a].scope),
            id \in {Last1(attempts[a].requests)} \cup Wrong(ToSet(attempts[a].requests)) :
            ModelNormalizationSeed([kind |-> "seed", scope |-> scope, kv |-> attempts[a].scope,
                                    attempt |-> a, id |-> id, exact |-> exact])
  BY DEF ReadSeed
<1>1. PICK scope \in Envelopes(attempts[a].scope),
           id \in {Last1(attempts[a].requests)} \cup Wrong(ToSet(attempts[a].requests)) :
         ModelNormalizationSeed([kind |-> "seed", scope |-> scope, kv |-> attempts[a].scope,
                                 attempt |-> a, id |-> id, exact |-> exact])
  BY <1>a
<1> DEFINE rec == [kind |-> "seed", scope |-> scope, kv |-> attempts[a].scope,
                   attempt |-> a, id |-> id, exact |-> exact]
<1>2. rec.kind = "seed" /\ rec.scope = scope /\ rec.attempt = a OBVIOUS
<1>3. ModelNormalizationSeed(rec) BY <1>1
<1> HIDE DEF rec
<1>4. Readable(rec) /\ Plain(rec) /\ rec.attempt \in Attempts
  BY <1>2, RunningFacts DEF Readable, Plain
<1> QED BY <1>3, <1>4, ModelNormalizationSeedKeeps

LEMMA ReadGenerationKeeps == ASSUME EngineInv, ReadGeneration PROVE EngineInv'
<1>a. PICK a \in Decidable, exact \in Exact :
         \E scope \in Envelopes(attempts[a].scope), g \in GenerationsRead :
            ModelGeneration([kind |-> "generation", scope |-> scope, kv |-> attempts[a].scope,
                             attempt |-> a, generation |-> g, exact |-> exact])
  BY DEF ReadGeneration
<1>1. PICK scope \in Envelopes(attempts[a].scope), g \in GenerationsRead :
         ModelGeneration([kind |-> "generation", scope |-> scope, kv |-> attempts[a].scope,
                          attempt |-> a, generation |-> g, exact |-> exact])
  BY <1>a
<1> DEFINE rec == [kind |-> "generation", scope |-> scope, kv |-> attempts[a].scope,
                   attempt |-> a, generation |-> g, exact |-> exact]
<1>2. rec.kind = "generation" /\ rec.scope = scope /\ rec.attempt = a /\ rec.generation = g OBVIOUS
<1>3. ModelGeneration(rec) BY <1>1
<1>4. g \in Generations BY DEF GenerationsRead
<1> HIDE DEF rec
<1>5. Readable(rec) /\ Plain(rec) /\ rec.attempt \in Attempts
  BY <1>2, RunningFacts DEF Readable, Plain
<1> QED BY <1>2, <1>3, <1>4, <1>5, ModelGenerationKeeps

LEMMA ReadCompletionKeeps == ASSUME EngineInv, ReadCompletion PROVE EngineInv'
<1>a. PICK a \in Decidable, exact \in Exact,
           disposition \in {"accepted", "refused", "abandoned"} :
         \E scope \in Envelopes(attempts[a].scope) :
            ModelAttemptCompletion([kind |-> "completion", scope |-> scope,
                                    kv |-> attempts[a].scope, attempt |-> a,
                                    disposition |-> disposition, exact |-> exact])
  BY DEF ReadCompletion
<1>1. PICK scope \in Envelopes(attempts[a].scope) :
         ModelAttemptCompletion([kind |-> "completion", scope |-> scope,
                                 kv |-> attempts[a].scope, attempt |-> a,
                                 disposition |-> disposition, exact |-> exact])
  BY <1>a
<1> DEFINE rec == [kind |-> "completion", scope |-> scope, kv |-> attempts[a].scope,
                   attempt |-> a, disposition |-> disposition, exact |-> exact]
<1>2. rec.kind = "completion" /\ rec.scope = scope /\ rec.attempt = a /\ rec.kv = attempts[a].scope
  OBVIOUS
<1>3. ModelAttemptCompletion(rec) BY <1>1
<1> HIDE DEF rec
<1>4. Readable(rec) /\ rec.attempt \in Attempts BY <1>2, RunningFacts DEF Readable
<1> QED BY <1>2, <1>3, <1>4, ModelAttemptCompletionKeeps

LEMMA ReadAssistantKeeps == ASSUME EngineInv, ReadAssistant PROVE EngineInv'
<1>1. PICK scope \in Running, exact \in Exact :
         Assistant([kind |-> "assistant", scope |-> scope, exact |-> exact])
  BY DEF ReadAssistant
<1> DEFINE rec == [kind |-> "assistant", scope |-> scope, exact |-> exact]
<1>2. rec.kind = "assistant" /\ rec.scope = scope /\ Assistant(rec) BY <1>1
<1> HIDE DEF rec
<1>3. Readable(rec) BY <1>2, RunningFacts DEF Readable
<1> QED BY <1>2, <1>3, AssistantKeeps

LEMMA ReadUserKeeps == ASSUME EngineInv, ReadUser PROVE EngineInv'
<1>1. PICK t \in load.tools, scope \in Running, failed \in BOOLEAN, exact \in Exact :
         UserRow([kind |-> "user", scope |-> scope, tool |-> t, failed |-> failed,
                  exact |-> exact])
  BY DEF ReadUser
<1> DEFINE rec == [kind |-> "user", scope |-> scope, tool |-> t, failed |-> failed,
                   exact |-> exact]
<1>2. rec.kind = "user" /\ rec.scope = scope /\ rec.tool = t /\ UserRow(rec) BY <1>1
<1> HIDE DEF rec
<1>3. Readable(rec) /\ rec.tool \in Tools BY <1>2, RunningFacts, LoadFacts DEF Readable
<1> QED BY <1>2, <1>3, UserRowKeeps

LEMMA ReadStreamEventKeeps == ASSUME EngineInv, ReadStreamEvent PROVE EngineInv'
<1>1. PICK scope \in Running,
           event \in PartialEvents \cup [kind : {"tool_progress"}, tool : load.tools] :
         StreamEvent([kind |-> "partial", scope |-> scope, event |-> event])
  BY DEF ReadStreamEvent
<1> DEFINE rec == [kind |-> "partial", scope |-> scope, event |-> event]
<1>2. rec.kind = "partial" /\ rec.scope = scope /\ StreamEvent(rec) BY <1>1
<1> HIDE DEF rec
<1>3. Readable(rec) BY <1>2, RunningFacts DEF Readable
<1> QED BY <1>2, <1>3, StreamEventKeeps

LEMMA ReadOperationKeeps == ASSUME EngineInv, ReadOperation PROVE EngineInv'
<1>1. PICK scope \in Running, r \in receipts \cup Some(Receipts \ receipts) :
         RuntimeOperation([kind |-> "operation", scope |-> scope, receipt |-> r])
  BY DEF ReadOperation
<1> DEFINE rec == [kind |-> "operation", scope |-> scope, receipt |-> r]
<1>2. rec.kind = "operation" /\ rec.scope = scope /\ RuntimeOperation(rec) BY <1>1
<1> HIDE DEF rec
<1>3. Readable(rec) BY <1>2, RunningFacts DEF Readable
<1> QED BY <1>2, <1>3, RuntimeOperationKeeps

LEMMA ReadCompactionKeeps == ASSUME EngineInv, ReadCompaction PROVE EngineInv'
<1>a. PICK scope \in Running, measured \in Used \cup {None}, succeeded \in BOOLEAN,
           exact \in Exact, claims \in UNION {[1..n -> Claims] : n \in 0..Cardinality(UsedDraws)} :
         Compaction([kind |-> "compaction", scope |-> scope, measured |-> measured,
                     claims |-> claims, succeeded |-> succeeded, exact |-> exact])
  BY DEF ReadCompaction
<1> DEFINE rec == [kind |-> "compaction", scope |-> scope, measured |-> measured,
                   claims |-> claims, succeeded |-> succeeded, exact |-> exact]
<1>1. rec.kind = "compaction" /\ rec.scope = scope /\ rec.claims = claims /\ Compaction(rec)
  BY <1>a
<1> HIDE DEF rec
<1>2. Readable(rec) BY <1>1, RunningFacts DEF Readable
<1>3. rec.claims # <<>> => Last1(rec.claims).draw \in Draws
  <2>1. IsFiniteSet(UsedDraws) BY RunningFacts, FS_Subset, JournalAssumption
  <2>2. Cardinality(UsedDraws) \in Nat BY <2>1, FS_CardinalityType
  <2>3. PICK n \in Nat : claims \in [1..n -> Claims] BY <2>2
  <2>4. claims \in Seq(Claims) /\ Len(claims) = n BY <2>3
  <2>5. claims # <<>> => n # 0 BY <2>4
  <2>6. claims # <<>> => claims[Len(claims)] \in Claims BY <2>3, <2>4, <2>5
  <2>7. \A c \in Claims : c.draw \in Draws BY RunningFacts DEF Claims
  <2> QED BY <1>1, <2>6, <2>7 DEF Last1
<1> QED BY <1>1, <1>2, <1>3, CompactionKeeps

LEMMA ReadNoticeKeeps == ASSUME EngineInv, ReadNotice PROVE EngineInv'
<1>1. PICK scope \in Running : Notice(Envelope("notice", scope)) BY DEF ReadNotice
<1> DEFINE rec == Envelope("notice", scope)
<1>2. rec.kind = "notice" /\ rec.scope = scope /\ Notice(rec) BY <1>1 DEF Envelope
<1> HIDE DEF rec
<1>3. Readable(rec) /\ Plain(rec) BY <1>2, RunningFacts DEF Readable, Plain
<1> QED BY <1>2, <1>3, NoticeKeeps

LEMMA ReadFailureKeeps == ASSUME EngineInv, ReadFailure PROVE EngineInv'
<1> DEFINE rec == Envelope("failure", Root)
<1>1. rec.kind = "failure" /\ rec.scope = Root /\ Refuses(rec)
  BY DEF ReadFailure, OperationalFailure, Read, Refuses, Envelope
<1> HIDE DEF rec
<1>2. Readable(rec) BY <1>1, ScopeFacts DEF Readable
<1> QED BY <1>1, <1>2, RefusesKeeps

LEMMA ReadResultKeeps == ASSUME EngineInv, ReadResult PROVE EngineInv'
<1>a. PICK scope \in Running, error \in BOOLEAN, structuredResult \in BOOLEAN, exact \in Exact :
         \E said \in {text[scope]} \cup Wrong({None}) :
            Result([kind |-> "result", scope |-> scope, error |-> error,
                    structured |-> structuredResult, text |-> said, exact |-> exact])
  BY DEF ReadResult
<1>1. PICK said \in {text[scope]} \cup Wrong({None}) :
         Result([kind |-> "result", scope |-> scope, error |-> error,
                 structured |-> structuredResult, text |-> said, exact |-> exact])
  BY <1>a
<1> DEFINE rec == [kind |-> "result", scope |-> scope, error |-> error,
                   structured |-> structuredResult, text |-> said, exact |-> exact]
<1>2. rec.kind = "result" /\ rec.scope = scope /\ Result(rec) BY <1>1
<1> HIDE DEF rec
<1>3. Readable(rec) BY <1>2, RunningFacts DEF Readable
<1> QED BY <1>2, <1>3, ResultKeeps

\* How the scan ends changes nothing that was certified.
LEMMA EndingKeeps ==
    ASSUME EngineInv, UNCHANGED <<load, session, refused, behind, observed, certified>>,
           phase' \in {"reading", "replayed", "certified", "uncertified"},
           phase' \in {"replayed", "certified"} => ~refused /\ terminal[Root] # None
    PROVE  EngineInv'
<1>1. /\ UNCHANGED <<count, responses, attempts, owed, usage, allUsage, carried, spoken>>
      /\ UNCHANGED <<tools, terminal, display, shown, utilities, compactions>>
  BY DEF certified, journal, runtime, rows
<1>2. JournalType' /\ OwedInv' BY <1>1, JournalStays
<1>3. EngineType' BY <1>1, <1>2 DEF EngineInv, EngineType
<1>4. TallyInv'
  <2>1. \A i \in Ids : Answered(i)' = Answered(i) BY <1>1 DEF Answered
  <2> QED BY <1>1, <2>1 DEF EngineInv, TallyInv
<1>5. ShownInv' BY <1>1 DEF EngineInv, ShownInv
<1>6. EndInv'
  <2>1. ValidateSummary' <=> ValidateSummary BY <1>1 DEF ValidateSummary
  <2> QED BY <1>1, <2>1 DEF EngineInv, EndInv
<1>7. BalancedObservation(observed') BY DEF EngineInv
<1> QED BY <1>1, <1>2, <1>3, <1>4, <1>5, <1>6, <1>7 DEF EngineInv

LEMMA GapKeeps ==
    ASSUME EngineInv, Gap, phase = "reading", phase' \in {"reading", "uncertified"}
    PROVE  EngineInv'
<1>1. session' \in {"unread", "owned", "lost"} BY DEF Gap
<1> QED BY <1>1, BadLineKeeps DEF Gap

LEMMA BadIdentityKeeps == ASSUME EngineInv, BadIdentity PROVE EngineInv'
<1>1. session' \in {"unread", "owned", "lost"} /\ phase' = "reading" BY DEF BadIdentity
<1> QED BY <1>1, BadLineKeeps DEF BadIdentity

LEMMA BadSchemaKeeps == ASSUME EngineInv, BadSchema PROVE EngineInv'
<1>1. session' \in {"unread", "owned", "lost"} /\ phase' = "reading" BY DEF BadSchema
<1> QED BY <1>1, BadLineKeeps DEF BadSchema

LEMMA StutterKeeps == ASSUME EngineInv, UNCHANGED vars PROVE EngineInv'
<1>1. UNCHANGED <<load, phase, session, refused, behind, observed, certified>> BY DEF vars
<1>2. /\ phase \in {"reading", "replayed", "certified", "uncertified"}
      /\ phase \in {"replayed", "certified"} => ~refused /\ terminal[Root] # None
  BY DEF EngineInv, EngineType, EndInv
<1> QED BY <1>1, <1>2, EndingKeeps

\* Every step keeps the invariant.
LEMMA StepKeeps == ASSUME EngineInv, [Next]_vars PROVE EngineInv'
<1>1. CASE StreamStart BY <1>1, StreamStartKeeps
<1>2. CASE SystemInit BY <1>2, SystemInitKeeps
<1>3. CASE BadIdentity BY <1>3, BadIdentityKeeps
<1>4. CASE BadSchema BY <1>4, BadSchemaKeeps
<1>5. CASE ObserveGap BY <1>5, GapKeeps DEF ObserveGap
<1>6. CASE ReadModelRequest BY <1>6, ReadModelRequestKeeps
<1>7. CASE ReadUtilityRequest BY <1>7, ReadUtilityRequestKeeps
<1>8. CASE ReadUtilityCompletion BY <1>8, ReadUtilityCompletionKeeps
<1>9. CASE ReadModelResponse BY <1>9, ReadModelResponseKeeps
<1>10. CASE ReadStrayOutcome BY <1>10, ReadStrayOutcomeKeeps
<1>11. CASE ReadSeed BY <1>11, ReadSeedKeeps
<1>12. CASE ReadGeneration BY <1>12, ReadGenerationKeeps
<1>13. CASE ReadCompletion BY <1>13, ReadCompletionKeeps
<1>14. CASE ReadAssistant BY <1>14, ReadAssistantKeeps
<1>15. CASE ReadUser BY <1>15, ReadUserKeeps
<1>16. CASE ReadStreamEvent BY <1>16, ReadStreamEventKeeps
<1>17. CASE ReadOperation BY <1>17, ReadOperationKeeps
<1>18. CASE ReadCompaction BY <1>18, ReadCompactionKeeps
<1>19. CASE ReadNotice BY <1>19, ReadNoticeKeeps
<1>20. CASE ReadFailure BY <1>20, ReadFailureKeeps
<1>21. CASE ReadResult BY <1>21, ReadResultKeeps
<1>22. CASE ReachedBoundary BY <1>22, EndingKeeps DEF ReachedBoundary, Finishes
<1>23. CASE UnterminatedTail BY <1>23, GapKeeps DEF UnterminatedTail
<1>24. CASE ReadFailed BY <1>24, EndingKeeps DEF ReadFailed
<1>25. CASE VerifyPhysicalGenerations
  BY <1>25, EndingKeeps DEF VerifyPhysicalGenerations, EngineInv, EndInv
<1>26. CASE UNCHANGED vars BY <1>26, StutterKeeps
<1> QED
  BY <1>1, <1>2, <1>3, <1>4, <1>5, <1>6, <1>7, <1>8, <1>9, <1>10, <1>11, <1>12, <1>13, <1>14,
     <1>15, <1>16, <1>17, <1>18, <1>19, <1>20, <1>21, <1>22, <1>23, <1>24, <1>25, <1>26
  DEF Next

\* An empty journal, and nothing observed.
LEMMA InitHolds == ASSUME ContractInit PROVE EngineInv
<1>1. /\ count = 0 /\ responses = <<>> /\ attempts = [a \in Attempts |-> NoAttempt]
      /\ owed = [s \in KvScopes |-> NothingOwed] /\ usage = [s \in KvScopes |-> NoRequests]
      /\ allUsage = NoRequests /\ carried = {} /\ spoken = [s \in KvScopes |-> NothingSaid]
  BY DEF ContractInit, JournalInit
<1>2. JournalType
  <2>1. DOMAIN responses = {} BY <1>1, ToSetEmpty
  <2>2. count \in 0..MaxRequests BY <1>1, JournalAssumption
  <2>3. NothingOwed \in Debts /\ NothingOwed.issued <= Len(NothingOwed.generations)
    BY DEF NothingOwed, Debts
  <2>4. owed \in [KvScopes -> Debts] /\ \A s \in KvScopes : owed[s] = NothingOwed BY <1>1, <2>3
  <2>5. usage \in [KvScopes -> Summaries] /\ \A s \in KvScopes : usage[s] = NoRequests
    BY <1>1, NoRequestsFacts
  <2>6. DOMAIN attempts = Attempts /\ \A a \in Attempts : attempts[a] = NoAttempt BY <1>1
  <2>7. spoken \in [KvScopes -> Turns]
    <3>1. NothingSaid \in Turns BY DEF NothingSaid, Turns
    <3> QED BY <1>1, <3>1
  <2> QED BY <1>1, <2>1, <2>2, <2>3, <2>4, <2>5, <2>6, <2>7, NoRequestsFacts, NoAttemptType
          DEF JournalType
<1>3. observed \in Observations /\ BalancedObservation(observed) /\ TallyInv
  <2>1. /\ observed.journal = FALSE /\ observed.utility = {} /\ observed.usage = NoRequests
        /\ observed.turns = FALSE /\ observed.scopes = {} /\ observed.unaccounted = 0
        /\ observed.requests = [i \in Ids |-> None]
    BY DEF ContractInit
  <2>2. observed.requests \in [Ids -> {None, "open", "done"}]
        /\ \A i \in Ids : observed.requests[i] = None
    BY <2>1
  <2>3. observed \in Observations
    <3>1. observed = [journal |-> FALSE, requests |-> observed.requests, utility |-> {},
                      usage |-> NoRequests, turns |-> FALSE, scopes |-> {}, unaccounted |-> 0]
      BY <2>1 DEF ContractInit
    <3>2. ASSUME NEW r \in [Ids -> {None, "open", "done"}], NEW u \in Summaries
          PROVE  [journal |-> FALSE, requests |-> r, utility |-> {}, usage |-> u,
                  turns |-> FALSE, scopes |-> {}, unaccounted |-> 0] \in Observations
      BY DEF Observations
    <3> QED BY <2>2, <3>1, <3>2, NoRequestsFacts
  <2>4. BalancedObservation(observed)
    <3>1. OpenIn(observed) = {} BY <2>2 DEF OpenIn, None
    <3>2. Cardinality(OpenIn(observed)) = 0 BY <3>1, FS_EmptySet
    <3>3. NoRequests.unfinalized = 0 BY DEF NoRequests
    <3> QED BY <2>1, <3>2, <3>3, NoRequestsFacts DEF BalancedObservation
  <2>5. TallyInv
    <3>1. \A i \in Ids : Answered(i) = None BY <1>1, JournalAssumption DEF Answered, Ids
    <3>2. DOMAIN responses = {} /\ session = "unread" BY <1>1, ToSetEmpty DEF ContractInit
    <3> QED BY <1>1, <2>1, <2>2, <3>1, <3>2 DEF TallyInv
  <2> QED BY <2>3, <2>4, <2>5
<1>4. /\ tools = [t \in Tools |-> NoTool] /\ terminal = [s \in Scopes |-> None]
      /\ display = NoDisplay /\ shown = [s \in Scopes |-> <<>>]
      /\ load \in LoadType /\ phase = "reading" /\ session = "unread" /\ refused = FALSE
      /\ behind = 0
  BY ContractAssumption DEF ContractInit
<1>5. EngineType
  <2>1. tools \in [Tools -> ToolRecords] BY <1>4 DEF NoTool, ToolRecords
  <2>2. shown \in [Scopes -> Seq(Attempts)]
    <3>1. <<>> \in Seq(Attempts) OBVIOUS
    <3> QED BY <1>4, <3>1
  <2> QED BY <1>2, <1>3, <1>4, <2>1, <2>2 DEF EngineType
<1>6. OwedInv
  <2>1. \A s \in KvScopes : owed[s].issued = 0 /\ Spoken(s) = {}
    BY <1>1 DEF NothingOwed, Spoken, NothingSaid
  <2> QED BY <2>1 DEF OwedInv
<1>7. ShownInv
  <2>1. \A s \in Scopes : spoken[s].aloud = {} BY <1>1, ScopeFacts DEF NothingSaid
  <2> QED BY <2>1 DEF ShownInv
<1>8. EndInv BY <1>4, ScopeFacts DEF EndInv
<1>9. Tokens(allUsage) = allUsage.reports BY <1>1, NoRequestsFacts DEF NoRequests
<1> QED BY <1>3, <1>5, <1>6, <1>7, <1>8, <1>9 DEF EngineInv

-----------------------------------------------------------------------------
(* What holds of every captured stream.                                    *)

\* In every state of a scan the journal, the rows and the observations are
\* well-typed and balanced, what is observed is what is certified until the
\* first refusal, the turns a request carried are a prefix of those its scope
\* owes, only the turn whose rows are due is spoken aloud and not shown, and nothing
\* is left open behind the root's result (the certified state of
\* RuntimeContract and its ModelRequestJournal).
THEOREM EngineInvariant == Spec => []EngineInv
<1>1. ContractInit => EngineInv BY InitHolds
<1>2. EngineInv /\ [Next]_vars => EngineInv' BY StepKeeps
<1> QED BY <1>1, <1>2, PTL DEF Spec

\* At a certificate every request is answered, so no bill is open.
LEMMA CertifiedFacts == ASSUME EngineInv PROVE CertifiedIsComplete
<1> SUFFICES ASSUME phase = "certified" PROVE CertifiedIsComplete BY DEF CertifiedIsComplete
<1>1. /\ ~refused /\ terminal[Root] # None /\ ValidateSummary /\ display = NoDisplay
      /\ behind = 0 /\ count \in Nat /\ count <= MaxRequests
      /\ DOMAIN attempts = Attempts /\ allUsage \in Summaries
  BY JournalAssumption DEF EngineInv, EngineType, JournalType, EndInv
<1>2. /\ observed.unaccounted = 0 /\ observed.usage = allUsage
      /\ \A i \in Ids : observed.requests[i] = Answered(i)
      /\ observed.usage.unfinalized = Cardinality(OpenIn(observed))
  BY <1>1 DEF EngineInv, TallyInv, BalancedObservation
<1>3. DOMAIN responses = {} BY <1>1 DEF ValidateSummary
<1>4. \A i \in Ids : Answered(i) = (IF i <= count THEN "done" ELSE None)
  BY <1>1, <1>3, JournalAssumption DEF Answered, Ids
<1>5. OpenIn(observed) = {} BY <1>2, <1>4 DEF OpenIn, None
<1>6. allUsage.unfinalized = 0 BY <1>2, <1>5, FS_EmptySet
<1>7. \A a \in UsedAttempts : attempts[a].completed
  BY <1>1 DEF ValidateSummary, UsedAttempts
<1>8. \A d \in UsedDraws : compactions[d].claimed
  BY <1>1 DEF ValidateSummary, UsedDraws
<1>9. \A s \in Scopes : spoken[s].aloud \subseteq ToSet(shown[s])
  BY <1>1, ScopeFacts DEF EngineInv, ShownInv, NoDisplay
<1> QED BY <1>1, <1>2, <1>4, <1>6, <1>7, <1>8, <1>9 DEF CertifiedIsComplete

\* A certificate leaves nothing out, whatever the captured lines were: every
\* request was answered and accounted for, every attempt decided, every draw
\* claimed, every turn accepted as conversation output shown, and the bill is the observed one
\* (validate_summary, finish and read_event_snapshot).
THEOREM CertificateLeavesNothingOut == Spec => []CertifiedIsComplete
<1>1. EngineInv => CertifiedIsComplete BY CertifiedFacts
<1> QED BY <1>1, EngineInvariant, PTL

\* The certified and the observed bill agree until the first refusal, and the
\* observed bill's open requests are exactly those seen and not answered, also
\* after it (commit_response and observe).
THEOREM BillsAgree == Spec => []UsageAgrees
<1>1. EngineInv => UsageAgrees
  BY DEF EngineInv, TallyInv, BalancedObservation, UsageAgrees
<1> QED BY <1>1, EngineInvariant, PTL

\* A compaction never releases a turn no request carried (commit_compaction).
THEOREM CompactionReleasesOnlyCarried == Spec => []ReleasedWereCarried
<1>1. EngineInv => ReleasedWereCarried
  BY ScopeFacts DEF EngineInv, OwedInv, ReleasedWereCarried
<1> QED BY <1>1, EngineInvariant, PTL

-----------------------------------------------------------------------------
(* A scope whose call returned is silent.                                  *)

\* What a step may do in the scope of a call that returned.
Silent(t) ==
    /\ shown'[t] = shown[t]
    /\ \A c \in Tools : tools'[c].issued /\ tools'[c].scope = t => tools[c].issued

\* A step that moves neither rows nor calls is silent.
LEMMA StillIsSilent ==
    ASSUME UNCHANGED <<tools, shown>>, NEW t \in Tools PROVE Silent(t)
BY DEF Silent

LEMMA RefusesIsStill == ASSUME NEW rec, Refuses(rec) PROVE UNCHANGED <<tools, shown>>
BY DEF Refuses, certified, runtime

\* A record that is admitted lives in no scope under a call that returned.
LEMMA AdmittedElsewhere ==
    ASSUME NEW rec, Admits(rec), NEW t, \E above \in Ancestors[t] : tools[above].returned
    PROVE  t # rec.scope
BY DEF Admits, Lives

\* The records that move neither rows nor calls.
LEMMA RecordsStandStill ==
    ASSUME NEW rec,
           \/ ModelRequest(rec) \/ ModelUtilityRequest(rec) \/ ModelUtilityCompletion(rec)
           \/ ModelResponse(rec) \/ ModelNormalizationSeed(rec) \/ ModelGeneration(rec)
           \/ StreamEvent(rec) \/ RuntimeOperation(rec) \/ Compaction(rec) \/ Notice(rec)
           \/ OperationalFailure(rec) \/ Result(rec)
    PROVE  UNCHANGED <<tools, shown>>
<1>1. CASE ModelRequest(rec) BY <1>1 DEF ModelRequest, Read, certified, runtime
<1>2. CASE ModelUtilityRequest(rec) BY <1>2 DEF ModelUtilityRequest, Read, certified, runtime
<1>3. CASE ModelUtilityCompletion(rec)
  BY <1>3 DEF ModelUtilityCompletion, Read, certified, runtime
<1>4. CASE ModelResponse(rec) BY <1>4 DEF ModelResponse, Read, certified, runtime
<1>5. CASE ModelNormalizationSeed(rec)
  BY <1>5 DEF ModelNormalizationSeed, Read, certified, runtime
<1>6. CASE ModelGeneration(rec) BY <1>6 DEF ModelGeneration, Read, certified, runtime
<1>7. CASE StreamEvent(rec) BY <1>7 DEF StreamEvent, Read, certified, runtime
<1>8. CASE RuntimeOperation(rec) BY <1>8 DEF RuntimeOperation, Read, certified, runtime
<1>9. CASE Compaction(rec) BY <1>9 DEF Compaction, Read, certified, runtime
<1>10. CASE Notice(rec) BY <1>10 DEF Notice, Read, certified, runtime
<1>11. CASE OperationalFailure(rec) BY <1>11 DEF OperationalFailure, Read, certified, runtime
<1>12. CASE Result(rec) BY <1>12 DEF Result, Read, certified, runtime
<1> QED BY <1>1, <1>2, <1>3, <1>4, <1>5, <1>6, <1>7, <1>8, <1>9, <1>10, <1>11, <1>12

\* An accepted turn issues its call from the record's own scope.
LEMMA CompletionIsSilent ==
    ASSUME EngineInv, NEW rec, ModelAttemptCompletion(rec), NEW t \in Tools,
           \E above \in Ancestors[t] : tools[above].returned
    PROVE  Silent(t)
<1> DEFINE g == attempts[rec.attempt].generation
           call == [issued |-> TRUE, scope |-> rec.scope, returned |-> FALSE]
<1>1. \/ Refuses(rec)
      \/ Admits(rec) /\ UNCHANGED shown /\ tools' \in {tools, [tools EXCEPT ![g.call] = call]}
  BY DEF ModelAttemptCompletion, Read, Refuses, Admits
<1>2. CASE Refuses(rec) BY <1>2, RefusesIsStill, StillIsSilent
<1>3. CASE Admits(rec) /\ UNCHANGED shown /\ tools' = [tools EXCEPT ![g.call] = call]
  <2>1. rec.scope # t BY <1>3, AdmittedElsewhere
  <2>2. call.scope = rec.scope OBVIOUS
  <2> HIDE DEF call, g
  <2>3. ASSUME NEW c \in Tools, tools'[c].issued, tools'[c].scope = t PROVE tools[c].issued
    <3>1. tools'[c] \in {call, tools[c]} BY <1>3, RowTypes
    <3> QED BY <2>1, <2>2, <2>3, <3>1
  <2> QED BY <1>3, <2>3 DEF Silent
<1>4. CASE UNCHANGED <<tools, shown>> BY <1>4, StillIsSilent
<1> QED BY <1>1, <1>2, <1>3, <1>4

\* A row is shown in its own scope.
LEMMA AssistantIsSilent ==
    ASSUME EngineInv, NEW rec, Assistant(rec), NEW t \in Tools,
           \E above \in Ancestors[t] : tools[above].returned
    PROVE  Silent(t)
<1>1. \/ Refuses(rec)
      \/ Admits(rec) /\ RuntimeAnswer(rec)
      \/ Admits(rec) /\ ShownRow(rec)
  BY DEF Assistant, Read, Refuses, Admits
<1>2. CASE Refuses(rec) BY <1>2, RefusesIsStill, StillIsSilent
<1>3. CASE Admits(rec) /\ RuntimeAnswer(rec) BY <1>3, StillIsSilent DEF RuntimeAnswer
<1>4. CASE Admits(rec) /\ ShownRow(rec)
  <2>1. rec.scope # t BY <1>4, AdmittedElsewhere
  <2>2. UNCHANGED tools BY <1>4 DEF ShownRow
  <2>3. shown'[t] = shown[t] BY <1>4, <2>1, RowTypes, ScopeFacts DEF ShownRow
  <2> QED BY <2>2, <2>3 DEF Silent
<1> QED BY <1>1, <1>2, <1>3, <1>4

\* A user row returns a call, and issues none.
LEMMA UserRowIsSilent ==
    ASSUME EngineInv, NEW rec, UserRow(rec), NEW t \in Tools
    PROVE  Silent(t)
<1>1. \/ Refuses(rec)
      \/ UNCHANGED shown /\ tools' = [tools EXCEPT ![rec.tool].returned = TRUE]
  BY DEF UserRow, Read, Refuses, Admits
<1>2. CASE Refuses(rec) BY <1>2, RefusesIsStill, StillIsSilent
<1>3. CASE UNCHANGED shown /\ tools' = [tools EXCEPT ![rec.tool].returned = TRUE]
  <2>1. ASSUME NEW c \in Tools PROVE tools'[c].issued = tools[c].issued
    <3>1. tools[c] \in ToolRecords BY RowTypes
    <3>2. tools'[c] \in {tools[c], [tools[c] EXCEPT !.returned = TRUE]} BY <1>3, RowTypes
    <3> QED BY <3>1, <3>2 DEF ToolRecords
  <2> QED BY <1>3, <2>1 DEF Silent
<1> QED BY <1>1, <1>2, <1>3

\* Every step is silent in the scope of a call that returned.
LEMMA StepIsSilent ==
    ASSUME EngineInv, [Next]_vars, NEW t \in Tools,
           \E above \in Ancestors[t] : tools[above].returned
    PROVE  Silent(t)
<1>1. CASE ReadCompletion BY <1>1, CompletionIsSilent DEF ReadCompletion
<1>2. CASE ReadAssistant BY <1>2, AssistantIsSilent DEF ReadAssistant
<1>3. CASE ReadUser BY <1>3, UserRowIsSilent DEF ReadUser
<1>4. CASE ReadModelRequest BY <1>4, RecordsStandStill, StillIsSilent DEF ReadModelRequest
<1>5. CASE ReadUtilityRequest BY <1>5, RecordsStandStill, StillIsSilent DEF ReadUtilityRequest
<1>6. CASE ReadUtilityCompletion
  BY <1>6, RecordsStandStill, StillIsSilent DEF ReadUtilityCompletion
<1>7. CASE ReadModelResponse \/ ReadStrayOutcome
  BY <1>7, RecordsStandStill, StillIsSilent DEF ReadModelResponse, ReadStrayOutcome
<1>8. CASE ReadSeed \/ ReadGeneration
  BY <1>8, RecordsStandStill, StillIsSilent DEF ReadSeed, ReadGeneration
<1>9. CASE ReadStreamEvent \/ ReadOperation
  BY <1>9, RecordsStandStill, StillIsSilent DEF ReadStreamEvent, ReadOperation
<1>10. CASE ReadCompaction BY <1>10, RecordsStandStill, StillIsSilent DEF ReadCompaction
<1>11. CASE ReadNotice \/ ReadFailure
  BY <1>11, RecordsStandStill, StillIsSilent DEF ReadNotice, ReadFailure
<1>12. CASE ReadResult BY <1>12, RecordsStandStill, StillIsSilent DEF ReadResult
<1>13. CASE StreamStart \/ SystemInit
  BY <1>13, StillIsSilent DEF StreamStart, SystemInit, Read, certified, runtime
<1>14. CASE \/ BadIdentity \/ BadSchema \/ ObserveGap \/ UnterminatedTail \/ ReachedBoundary
            \/ ReadFailed \/ VerifyPhysicalGenerations \/ UNCHANGED vars
  <2>1. UNCHANGED certified
    BY <1>14 DEF BadIdentity, BadSchema, ObserveGap, UnterminatedTail, Gap, ReachedBoundary,
                 ReadFailed, VerifyPhysicalGenerations, vars
  <2> QED BY <2>1, StillIsSilent DEF certified, runtime
<1> QED
  BY <1>1, <1>2, <1>3, <1>4, <1>5, <1>6, <1>7, <1>8, <1>9, <1>10, <1>11, <1>12, <1>13, <1>14
  DEF Next

\* Nothing is shown in a scope, and no call issued from it, once its call or
\* any call above it has returned (ensure_ancestry).
THEOREM ReturnedScopesStaySilent == Spec => ReturnedScopeSilent
<1>1. EngineInv /\ [Next]_vars =>
        [\A t \in Tools :
            (\E above \in Ancestors[t] : tools[above].returned) =>
               /\ shown'[t] = shown[t]
               /\ \A c \in Tools :
                     tools'[c].issued /\ tools'[c].scope = t => tools[c].issued]_vars
  BY StepIsSilent DEF Silent
<1> QED BY <1>1, EngineInvariant, PTL DEF Spec, ReturnedScopeSilent

-----------------------------------------------------------------------------
(* Sums over a finite set.  The provers cannot instantiate an induction     *)
(* rule; a set of numbers that holds zero and every successor is induction  *)
(* enough, because its complement would have a least element.               *)

\* Induction over the natural numbers, for a set.
LEMMA Counting ==
    ASSUME NEW D, D \subseteq Nat, 0 \in D, \A n \in D : n + 1 \in D
    PROVE  D = Nat
<1> SUFFICES ASSUME Nat \ D # {} PROVE FALSE
  OBVIOUS
<1> DEFINE R == OpToRel(<, Nat)
<1>1. \A x, y \in Nat : x < y => <<x, y>> \in R
  BY DEF OpToRel
<1>2. IsWellFoundedOn(R, Nat)
  BY NatLessThanWellFounded
<1> HIDE DEF R
<1>3. PICK m \in Nat \ D : \A y \in Nat \ D : ~(<<y, m>> \in R)
  BY <1>2, WFMin
<1>4. m # 0 /\ m - 1 \in Nat /\ m - 1 < m /\ (m - 1) + 1 = m
  BY <1>3
<1>5. m - 1 \notin Nat \ D
  BY <1>1, <1>3, <1>4
<1> QED BY <1>3, <1>4, <1>5

\* The sum of a function, as SumOver folds it.
Total(f) == FoldFunction(+, 0, f)

\* The element that a fold over s takes first.
Picked(s) == CHOOSE x \in s : TRUE

\* g is the sum of f over every subset of S.
Sums(g, f, S) ==
    g = [s \in SUBSET S |-> IF s = {} THEN 0 ELSE f[Picked(s)] + g[s \ {Picked(s)}]]

\* The fold is the sum over the whole domain.
LEMMA SumIs ==
    ASSUME NEW S, NEW f, DOMAIN f = S
    PROVE  Total(f) = (CHOOSE g : Sums(g, f, S))[S]
BY DEF Total, FoldFunction, FoldFunctionOnSet, MapThenFoldSet, Sums, Picked

\* A subset of a finite set loses one element at a time.
LEMMA Shrinking ==
    ASSUME NEW S, IsFiniteSet(S), NEW s \in SUBSET S
    PROVE  /\ Cardinality(s) \in Nat /\ Cardinality(s) <= Cardinality(S)
           /\ Cardinality(s) = 0 <=> s = {}
           /\ s # {} => /\ Picked(s) \in s /\ Picked(s) \in S /\ s \ {Picked(s)} \in SUBSET S
                        /\ Cardinality(s \ {Picked(s)}) = Cardinality(s) - 1
<1>1. IsFiniteSet(s) /\ Cardinality(s) <= Cardinality(S) BY FS_Subset
<1>2. Cardinality(s) \in Nat /\ (Cardinality(s) = 0 <=> s = {})
  BY <1>1, FS_CardinalityType, FS_EmptySet
<1>3. s # {} => Picked(s) \in s BY DEF Picked
<1>4. s # {} => Cardinality(s \ {Picked(s)}) = Cardinality(s) - 1
  BY <1>1, <1>3, FS_RemoveElement
<1> QED BY <1>1, <1>2, <1>3, <1>4

\* The sums over all subsets exist: one size after the other.
LEMMA SumsExist ==
    ASSUME NEW S, IsFiniteSet(S), NEW f \in [S -> Nat]
    PROVE  \E g \in [SUBSET S -> Nat] : Sums(g, f, S)
<1> DEFINE Rest(s) == s \ {Picked(s)}
           Value(g, s) == IF s = {} THEN 0 ELSE f[Picked(s)] + g[Rest(s)]
           Upto(g, n) == \A s \in SUBSET S : Cardinality(s) <= n => g[s] = Value(g, s)
           D == {n \in Nat : \E g \in [SUBSET S -> Nat] : Upto(g, n)}
<1>0. ASSUME NEW s \in SUBSET S
      PROVE  /\ Cardinality(s) \in Nat /\ Cardinality(s) <= Cardinality(S)
             /\ Cardinality(s) = 0 <=> s = {}
             /\ s # {} => /\ f[Picked(s)] \in Nat /\ Rest(s) \in SUBSET S
                          /\ Cardinality(Rest(s)) = Cardinality(s) - 1
  BY Shrinking
<1> HIDE DEF Rest
<1>1. 0 \in D
  <2> DEFINE z == [s \in SUBSET S |-> 0]
  <2>1. z \in [SUBSET S -> Nat] OBVIOUS
  <2>2. ASSUME NEW s \in SUBSET S, Cardinality(s) <= 0 PROVE z[s] = Value(z, s)
    <3>1. s = {} BY <1>0, <2>2
    <3> QED BY <3>1
  <2>3. Upto(z, 0) BY <2>2
  <2> HIDE DEF z, Upto
  <2> QED BY <2>1, <2>3
<1>2. ASSUME NEW n \in D PROVE n + 1 \in D
  <2>1. PICK g \in [SUBSET S -> Nat] : Upto(g, n) OBVIOUS
  <2>2. ASSUME NEW s \in SUBSET S PROVE Value(g, s) \in Nat
    <3>1. CASE s = {} BY <3>1
    <3>2. CASE s # {}
      <4>1. f[Picked(s)] \in Nat /\ g[Rest(s)] \in Nat BY <1>0, <2>1, <3>2
      <4> QED BY <3>2, <4>1
    <3> QED BY <3>1, <3>2
  <2> DEFINE h == [s \in SUBSET S |-> IF Cardinality(s) = n + 1 THEN Value(g, s) ELSE g[s]]
  <2>3. h \in [SUBSET S -> Nat]
    <3> HIDE DEF Value
    <3> QED BY <2>1, <2>2
  <2>4. ASSUME NEW s \in SUBSET S, Cardinality(s) <= n + 1 PROVE h[s] = Value(h, s)
    <3>0. Cardinality(s) \in Nat /\ n \in Nat BY <1>0
    <3>1. h[s] = Value(g, s)
      <4>1. CASE Cardinality(s) = n + 1 BY <4>1
      <4>2. CASE Cardinality(s) <= n
        <5>1. g[s] = Value(g, s) BY <2>1, <4>2
        <5>2. Cardinality(s) # n + 1 BY <3>0, <4>2
        <5> QED BY <5>1, <5>2
      <4> QED BY <2>4, <3>0, <4>1, <4>2
    <3>2. CASE s = {} BY <3>1, <3>2
    <3>3. CASE s # {}
      <4>1. Rest(s) \in SUBSET S /\ Cardinality(Rest(s)) # n + 1
        BY <1>0, <2>4, <3>0, <3>3
      <4>2. h[Rest(s)] = g[Rest(s)] BY <4>1
      <4> QED BY <3>1, <3>3, <4>2
    <3> QED BY <3>2, <3>3
  <2>5. Upto(h, n + 1) BY <2>4
  <2>6. n + 1 \in Nat OBVIOUS
  <2> HIDE DEF h, Upto
  <2> QED BY <2>3, <2>5, <2>6
<1>3. D = Nat
  <2>1. D \subseteq Nat OBVIOUS
  <2> HIDE DEF D
  <2> QED BY <1>1, <1>2, <2>1, Counting
<1>4. PICK g \in [SUBSET S -> Nat] : Upto(g, Cardinality(S))
  <2>1. Cardinality(S) \in D BY <1>3, FS_CardinalityType
  <2> QED BY <2>1
<1>5. \A s \in SUBSET S : g[s] = Value(g, s)
  BY <1>0, <1>4
<1>6. Sums(g, f, S)
  BY <1>4, <1>5 DEF Sums, Rest
<1> QED BY <1>6

\* The fold adds up: it is a sum over the whole set.
LEMMA SumOfAll ==
    ASSUME NEW S, IsFiniteSet(S), NEW f \in [S -> Nat]
    PROVE  \E g \in [SUBSET S -> Nat] : Sums(g, f, S) /\ Total(f) = g[S]
<1> DEFINE c == CHOOSE g : Sums(g, f, S)
<1>1. Sums(c, f, S)
  BY SumsExist
<1>2. Total(f) = c[S]
  BY SumIs
<1>3. \A s \in SUBSET S : c[s] = IF s = {} THEN 0 ELSE f[Picked(s)] + c[s \ {Picked(s)}]
  BY <1>1 DEF Sums
<1>4. c = [s \in SUBSET S |-> c[s]]
  BY <1>1 DEF Sums
<1> HIDE DEF c
<1> DEFINE D == {n \in Nat : \A s \in SUBSET S : Cardinality(s) = n => c[s] \in Nat}
<1>5. 0 \in D
  <2>1. ASSUME NEW s \in SUBSET S, Cardinality(s) = 0 PROVE c[s] \in Nat
    <3>1. s = {} BY <2>1, Shrinking
    <3>2. c[s] = 0 BY <1>3, <3>1
    <3> QED BY <3>2
  <2> QED BY <2>1
<1>6. ASSUME NEW n \in D PROVE n + 1 \in D
  <2>1. ASSUME NEW s \in SUBSET S, Cardinality(s) = n + 1 PROVE c[s] \in Nat
    <3> DEFINE r == s \ {Picked(s)}
    <3>1. s # {} /\ Picked(s) \in S /\ r \in SUBSET S /\ Cardinality(r) = n
      BY <2>1, Shrinking
    <3>2. c[s] = f[Picked(s)] + c[r] BY <1>3, <3>1
    <3>3. c[r] \in Nat BY <3>1
    <3> QED BY <3>1, <3>2, <3>3
  <2> QED BY <2>1
<1>7. D = Nat
  <2>1. D \subseteq Nat OBVIOUS
  <2> HIDE DEF D
  <2> QED BY <1>5, <1>6, <2>1, Counting
<1>8. ASSUME NEW s \in SUBSET S PROVE c[s] \in Nat
  <2>1. Cardinality(s) \in Nat BY Shrinking
  <2>2. Cardinality(s) \in D
    <3> HIDE DEF D
    <3> QED BY <1>7, <2>1
  <2> QED BY <2>2
<1>9. c \in [SUBSET S -> Nat]
  BY <1>4, <1>8
<1> QED BY <1>1, <1>2, <1>9

\* The sum of a function that differs by d at k alone.
LEMMA SumChange ==
    ASSUME NEW S, IsFiniteSet(S), NEW f \in [S -> Nat], NEW h \in [S -> Nat],
           NEW k \in S, NEW d \in Nat,
           \A s \in S : h[s] = IF s = k THEN f[s] + d ELSE f[s]
    PROVE  Total(h) = Total(f) + d
<1>1. PICK F \in [SUBSET S -> Nat] : Sums(F, f, S) /\ Total(f) = F[S]
  BY SumOfAll
<1>2. PICK H \in [SUBSET S -> Nat] : Sums(H, h, S) /\ Total(h) = H[S]
  BY SumOfAll
<1> DEFINE Good(s) == H[s] = F[s] + (IF k \in s THEN d ELSE 0)
           D == {n \in Nat : \A s \in SUBSET S : Cardinality(s) = n => Good(s)}
<1>3. \A s \in SUBSET S : /\ F[s] = IF s = {} THEN 0 ELSE f[Picked(s)] + F[s \ {Picked(s)}]
                          /\ H[s] = IF s = {} THEN 0 ELSE h[Picked(s)] + H[s \ {Picked(s)}]
  BY <1>1, <1>2 DEF Sums
<1>4. 0 \in D
  <2>1. ASSUME NEW s \in SUBSET S, Cardinality(s) = 0 PROVE Good(s)
    <3>1. s = {} BY <2>1, Shrinking
    <3>2. F[s] = 0 /\ H[s] = 0 BY <1>3, <3>1
    <3> QED BY <3>1, <3>2
  <2> QED BY <2>1
<1>5. ASSUME NEW n \in D PROVE n + 1 \in D
  <2>1. ASSUME NEW s \in SUBSET S, Cardinality(s) = n + 1 PROVE Good(s)
    <3> DEFINE x == Picked(s)
               r == s \ {x}
    <3>1. s # {} /\ x \in s /\ x \in S /\ r \in SUBSET S /\ Cardinality(r) = n
      BY <2>1, Shrinking
    <3>2. Good(r) BY <3>1
    <3>3. F[s] = f[x] + F[r] /\ H[s] = h[x] + H[r] BY <1>3, <3>1
    <3>4. /\ k \in s <=> x = k \/ k \in r
          /\ k \in r => x # k
      BY <3>1
    <3>5. h[x] = IF x = k THEN f[x] + d ELSE f[x] BY <3>1
    <3>6. f[x] \in Nat /\ F[r] \in Nat BY <3>1
    <3> HIDE DEF x, r
    <3> QED BY <3>2, <3>3, <3>4, <3>5, <3>6
  <2> QED BY <2>1
<1>6. D = Nat
  <2>1. D \subseteq Nat OBVIOUS
  <2> HIDE DEF D
  <2> QED BY <1>4, <1>5, <2>1, Counting
<1>7. Good(S)
  <2>1. Cardinality(S) \in D BY <1>6, FS_CardinalityType
  <2> QED BY <2>1
<1> QED BY <1>1, <1>2, <1>7

\* The sum of zeros.
LEMMA SumOfNothing ==
    ASSUME NEW S, IsFiniteSet(S)
    PROVE  Total([s \in S |-> 0]) = 0
<1> DEFINE f == [s \in S |-> 0]
<1>0. f \in [S -> Nat] OBVIOUS
<1>1. PICK F \in [SUBSET S -> Nat] : Sums(F, f, S) /\ Total(f) = F[S]
  <2> HIDE DEF f
  <2> QED BY <1>0, SumOfAll
<1> DEFINE D == {n \in Nat : \A s \in SUBSET S : Cardinality(s) = n => F[s] = 0}
<1>2. \A s \in SUBSET S : F[s] = IF s = {} THEN 0 ELSE f[Picked(s)] + F[s \ {Picked(s)}]
  BY <1>1 DEF Sums
<1>3. 0 \in D
  <2>1. ASSUME NEW s \in SUBSET S, Cardinality(s) = 0 PROVE F[s] = 0
    <3>1. s = {} BY <2>1, Shrinking
    <3> QED BY <1>2, <3>1
  <2> QED BY <2>1
<1>4. ASSUME NEW n \in D PROVE n + 1 \in D
  <2>1. ASSUME NEW s \in SUBSET S, Cardinality(s) = n + 1 PROVE F[s] = 0
    <3> DEFINE r == s \ {Picked(s)}
    <3>1. s # {} /\ Picked(s) \in S /\ r \in SUBSET S /\ Cardinality(r) = n
      BY <2>1, Shrinking
    <3>2. F[r] = 0 BY <3>1
    <3> QED BY <1>2, <3>1, <3>2
  <2> QED BY <2>1
<1>5. D = Nat
  <2>1. D \subseteq Nat OBVIOUS
  <2> HIDE DEF D
  <2> QED BY <1>3, <1>4, <2>1, Counting
<1>6. F[S] = 0
  <2>1. Cardinality(S) \in D BY <1>5, FS_CardinalityType
  <2> QED BY <2>1
<1> QED BY <1>1, <1>6
-----------------------------------------------------------------------------
(* The bills of the kv scopes add up to the bill of the run.               *)

\* The bill of s and the bill of the run grow by n requests and m tokens, and
\* no other bill changes.
BillsGrow(s, n, m) ==
    /\ \A t \in KvScopes :
          /\ usage'[t].requests = IF t = s THEN usage[t].requests + n ELSE usage[t].requests
          /\ Tokens(usage'[t]) = IF t = s THEN Tokens(usage[t]) + m ELSE Tokens(usage[t])
    /\ allUsage'.requests = allUsage.requests + n
    /\ Tokens(allUsage') = Tokens(allUsage) + m

BillsGrowTogether == \E s \in KvScopes, n \in Nat, m \in Nat : BillsGrow(s, n, m)

\* The requests and the tokens of a bill are natural numbers.
LEMMA BillTypes ==
    ASSUME JournalType
    PROVE  /\ usage \in [KvScopes -> Summaries] /\ allUsage \in Summaries
           /\ \A t \in KvScopes : usage[t].requests \in Nat /\ Tokens(usage[t]) \in Nat
           /\ allUsage.requests \in Nat /\ Tokens(allUsage) \in Nat
<1>1. usage \in [KvScopes -> Summaries] /\ allUsage \in Summaries BY DEF JournalType
<1>2. \A u \in Summaries : u.requests \in Nat BY SafeIntegerAssumption DEF Summaries, Counts
<1>3. \A u \in Summaries : Tokens(u) \in Nat BY TokensFacts
<1> QED BY <1>1, <1>2, <1>3

\* A step that bills nobody.
LEMMA NothingBilled ==
    ASSUME JournalType, UNCHANGED <<usage, allUsage>>
    PROVE  BillsGrowTogether
<1>1. BillsGrow(Root, 0, 0)
  <2>1. /\ \A t \in KvScopes : usage[t].requests + 0 = usage[t].requests
        /\ \A t \in KvScopes : Tokens(usage[t]) + 0 = Tokens(usage[t])
        /\ allUsage.requests + 0 = allUsage.requests /\ Tokens(allUsage) + 0 = Tokens(allUsage)
    BY BillTypes
  <2> QED BY <2>1 DEF BillsGrow
<1> QED BY <1>1, ScopeFacts DEF BillsGrowTogether

\* A bill of scope s and the bill of the run, both changed by the same rule.
LEMMA BilledAlike ==
    ASSUME JournalType, NEW s \in KvScopes, NEW u, NEW v, NEW n \in Nat, NEW m \in Nat,
           usage' = [usage EXCEPT ![s] = u], allUsage' = v,
           u.requests = usage[s].requests + n, Tokens(u) = Tokens(usage[s]) + m,
           v.requests = allUsage.requests + n, Tokens(v) = Tokens(allUsage) + m
    PROVE  BillsGrowTogether
<1>1. usage \in [KvScopes -> Summaries] BY BillTypes
<1>2. ASSUME NEW t \in KvScopes PROVE usage'[t] = IF t = s THEN u ELSE usage[t] BY <1>1
<1>3. BillsGrow(s, n, m) BY <1>2 DEF BillsGrow
<1> QED BY <1>3 DEF BillsGrowTogether

\* A dispatch: one request more, for its kv scope and for the run.
LEMMA RequestBills ==
    ASSUME JournalType, NEW rec, rec.kv \in KvScopes, PlanRequest(rec), CommitRequest(rec)
    PROVE  BillsGrowTogether
<1> DEFINE u == usage[rec.kv]
<1>1. u \in Summaries /\ allUsage \in Summaries /\ Tokens(u) \in Nat /\ Tokens(allUsage) \in Nat
  BY BillTypes
<1>2. MayAdmit(u) /\ MayAdmit(allUsage) BY DEF PlanRequest
<1>3. usage' = [usage EXCEPT ![rec.kv] = Admitted(u)] /\ allUsage' = Admitted(allUsage)
  BY DEF CommitRequest
<1>4. /\ Admitted(u).requests = u.requests + 1 /\ Tokens(Admitted(u)) = Tokens(u) + 0
      /\ Admitted(allUsage).requests = allUsage.requests + 1
      /\ Tokens(Admitted(allUsage)) = Tokens(allUsage) + 0
  <2>1. Admitted(u).requests = u.requests + 1 /\ Tokens(Admitted(u)) = Tokens(u)
    BY <1>1, <1>2, AdmittedFacts
  <2>2. /\ Admitted(allUsage).requests = allUsage.requests + 1
        /\ Tokens(Admitted(allUsage)) = Tokens(allUsage)
    BY <1>1, <1>2, AdmittedFacts
  <2> QED BY <1>1, <2>1, <2>2
<1> QED BY <1>3, <1>4, BilledAlike

\* An outcome: the tokens it reports, for its kv scope and for the run.  No
\* other event of a response bills anybody.
LEMMA ResponseBills ==
    ASSUME JournalType, NEW rec, rec.event \in ClientEvents, PlanResponse(rec),
           CommitResponse(rec)
    PROVE  BillsGrowTogether
<1> DEFINE r == responses[rec.id]
           u == usage[r.scope]
           served == rec.event.usage
<1>1. r.scope \in KvScopes
  <2>1. r \in Responses(Owners, KvScopes) BY DEF PlanResponse, JournalType
  <2> QED BY <2>1 DEF Responses
<1>2. CASE rec.event.kind = "outcome" /\ ~IsUtility(r)
  <2>1. RecordOutcome(rec.id, r, rec.event) BY <1>2 DEF CommitResponse
  <2>2. usage' = [usage EXCEPT ![r.scope] = Finalized(u, served)]
        /\ allUsage' = Finalized(allUsage, served)
    BY <1>2, <2>1 DEF RecordOutcome, Bill
  <2>3. MayFinalize(u, served) /\ MayFinalize(allUsage, served) BY <1>2 DEF PlanResponse
  <2>4. served \in Optional(Served) BY <1>2, OutcomeType
  <2>5. /\ u \in Summaries /\ allUsage \in Summaries
        /\ u.requests \in Nat /\ allUsage.requests \in Nat
    BY <1>1, BillTypes
  <2>6. Cardinality(served) \in Nat BY <2>4, ServedFacts
  <2>7. Finalized(u, served).requests = u.requests
        /\ Tokens(Finalized(u, served)) = Tokens(u) + Cardinality(served)
    BY <2>3, <2>4, <2>5, FinalizedFacts
  <2>8. Finalized(allUsage, served).requests = allUsage.requests
        /\ Tokens(Finalized(allUsage, served)) = Tokens(allUsage) + Cardinality(served)
    BY <2>3, <2>4, <2>5, FinalizedFacts
  <2>9. Finalized(u, served).requests = u.requests + 0
        /\ Finalized(allUsage, served).requests = allUsage.requests + 0
    BY <2>5, <2>7, <2>8
  <2> DEFINE b == Finalized(u, served)
             c == Finalized(allUsage, served)
             k == r.scope
             m == Cardinality(served)
  <2>10. /\ k \in KvScopes /\ m \in Nat /\ usage' = [usage EXCEPT ![k] = b] /\ allUsage' = c
         /\ b.requests = usage[k].requests + 0 /\ Tokens(b) = Tokens(usage[k]) + m
         /\ c.requests = allUsage.requests + 0 /\ Tokens(c) = Tokens(allUsage) + m
    BY <1>1, <2>2, <2>6, <2>7, <2>8, <2>9
  <2> HIDE DEF b, c, k, m
  <2> QED BY <2>10, BilledAlike
<1>3. CASE ~(rec.event.kind = "outcome" /\ ~IsUtility(r))
  <2>1. UNCHANGED <<usage, allUsage>>
    BY <1>3 DEF CommitResponse, RecordOutcome, CloseResponse
  <2> QED BY <2>1, NothingBilled
<1> QED BY <1>2, <1>3

\* Records that bill nobody, admitted or refused.
LEMMA RecordsBillNobody ==
    ASSUME NEW rec,
           \/ ModelUtilityRequest(rec) \/ ModelUtilityCompletion(rec)
           \/ ModelNormalizationSeed(rec) \/ ModelGeneration(rec) \/ ModelAttemptCompletion(rec)
           \/ Assistant(rec) \/ UserRow(rec) \/ StreamEvent(rec) \/ RuntimeOperation(rec)
           \/ Compaction(rec) \/ Notice(rec) \/ OperationalFailure(rec) \/ Result(rec)
    PROVE  UNCHANGED <<usage, allUsage>>
<1>1. CASE ModelUtilityRequest(rec)
  BY <1>1 DEF ModelUtilityRequest, CommitUtilityRequest, Read, certified, journal
<1>2. CASE ModelUtilityCompletion(rec)
  BY <1>2 DEF ModelUtilityCompletion, CommitUtilityCompletion, Read, certified, journal
<1>3. CASE ModelNormalizationSeed(rec)
  BY <1>3 DEF ModelNormalizationSeed, CommitSeed, Read, certified, journal
<1>4. CASE ModelGeneration(rec)
  BY <1>4 DEF ModelGeneration, CommitGeneration, Read, certified, journal
<1>5. CASE ModelAttemptCompletion(rec)
  BY <1>5 DEF ModelAttemptCompletion, CommitCompletion, Read, certified, journal
<1>6. CASE Assistant(rec)
  BY <1>6 DEF Assistant, RuntimeAnswer, ShownRow, Read, certified, journal
<1>7. CASE UserRow(rec) BY <1>7 DEF UserRow, Read, certified, journal
<1>8. CASE StreamEvent(rec) BY <1>8 DEF StreamEvent, Read, certified, journal
<1>9. CASE RuntimeOperation(rec) BY <1>9 DEF RuntimeOperation, Read, certified, journal
<1>10. CASE Compaction(rec) BY <1>10 DEF Compaction, CommitCompaction, Read, certified, journal
<1>11. CASE Notice(rec) BY <1>11 DEF Notice, Read, certified, journal
<1>12. CASE OperationalFailure(rec) BY <1>12 DEF OperationalFailure, Read, certified, journal
<1>13. CASE Result(rec) BY <1>13 DEF Result, Read, certified, journal
<1> QED
  BY <1>1, <1>2, <1>3, <1>4, <1>5, <1>6, <1>7, <1>8, <1>9, <1>10, <1>11, <1>12, <1>13

\* A request record bills its own kv scope and the run, or is refused.
LEMMA ReadRequestBills == ASSUME EngineInv, ReadModelRequest PROVE BillsGrowTogether
<1>1. JournalType BY DEF EngineInv, EngineType
<1>2. ASSUME NEW owner \in RequestOwners, NEW kv \in KvScopesOf(owner), NEW rec, rec.kv = kv,
             ModelRequest(rec)
      PROVE  BillsGrowTogether
  <2>1. rec.kv \in KvScopes BY <1>2, OwnerFacts
  <2>2. CASE PlanRequest(rec) /\ CommitRequest(rec) BY <1>1, <2>1, <2>2, RequestBills
  <2>3. CASE UNCHANGED certified BY <1>1, <2>3, NothingBilled DEF certified, journal
  <2> QED BY <1>2, <2>2, <2>3 DEF ModelRequest, Read
<1>3. PICK owner \in RequestOwners :
         \E kv \in KvScopesOf(owner), id \in NextIds, exact \in Exact, whole \in Exact :
         \E scope \in Envelopes(kv) :
            ModelRequest([kind |-> "request", scope |-> scope, kv |-> kv, id |-> id,
                          owner |-> owner, exact |-> exact,
                          carries |-> IF whole THEN Required(kv, owner.kind) ELSE Missing])
  BY DEF ReadModelRequest
<1>4. PICK kv \in KvScopesOf(owner), id \in NextIds, exact \in Exact, whole \in Exact :
         \E scope \in Envelopes(kv) :
            ModelRequest([kind |-> "request", scope |-> scope, kv |-> kv, id |-> id,
                          owner |-> owner, exact |-> exact,
                          carries |-> IF whole THEN Required(kv, owner.kind) ELSE Missing])
  BY <1>3
<1>5. PICK scope \in Envelopes(kv) :
         ModelRequest([kind |-> "request", scope |-> scope, kv |-> kv, id |-> id,
                       owner |-> owner, exact |-> exact,
                       carries |-> IF whole THEN Required(kv, owner.kind) ELSE Missing])
  BY <1>4
<1> DEFINE rec == [kind |-> "request", scope |-> scope, kv |-> kv, id |-> id, owner |-> owner,
                   exact |-> exact,
                   carries |-> IF whole THEN Required(kv, owner.kind) ELSE Missing]
<1>6. rec.kv = kv /\ ModelRequest(rec) BY <1>5
<1> HIDE DEF rec
<1> QED BY <1>2, <1>6

\* A response record bills the kv scope of its request and the run, or nobody.
LEMMA ReadResponseBills ==
    ASSUME EngineInv, ReadModelResponse \/ ReadStrayOutcome PROVE BillsGrowTogether
<1>1. JournalType BY DEF EngineInv, EngineType
<1>2. ASSUME NEW rec, rec.event \in ClientEvents, ModelResponse(rec) PROVE BillsGrowTogether
  <2>1. CASE PlanResponse(rec) /\ CommitResponse(rec) BY <1>1, <1>2, <2>1, ResponseBills
  <2>2. CASE UNCHANGED certified BY <1>1, <2>2, NothingBilled DEF certified, journal
  <2> QED BY <1>2, <2>1, <2>2 DEF ModelResponse, Read
<1>3. CASE ReadModelResponse
  <2>1. PICK id \in DOMAIN responses :
           \E event \in Events(responses[id]), scope \in Envelopes(responses[id].scope) :
           \E exact \in Exact :
              ModelResponse([kind |-> "response", scope |-> scope, id |-> id, event |-> event,
                             exact |-> exact])
    BY <1>3 DEF ReadModelResponse, Exact
  <2>2. PICK event \in Events(responses[id]), scope \in Envelopes(responses[id].scope),
             exact \in Exact :
           ModelResponse([kind |-> "response", scope |-> scope, id |-> id, event |-> event,
                          exact |-> exact])
    BY <2>1
  <2> DEFINE rec == [kind |-> "response", scope |-> scope, id |-> id, event |-> event,
                     exact |-> exact]
  <2>3. rec.event = event /\ ModelResponse(rec) BY <2>2
  <2>4. event \in ClientEvents BY EventFacts
  <2> HIDE DEF rec
  <2> QED BY <1>2, <2>3, <2>4
<1>4. CASE ReadStrayOutcome
  <2>1. PICK id \in Wrong((1..load.requests) \ DOMAIN responses), served \in Optional(Served) :
           ModelResponse([kind |-> "response", scope |-> Root, id |-> id, exact |-> TRUE,
                          event |-> [kind |-> "outcome", status |-> "failed", seen |-> 0,
                                     usage |-> served, refused |-> FALSE, outputs |-> 0]])
    BY <1>4 DEF ReadStrayOutcome
  <2> DEFINE event == [kind |-> "outcome", status |-> "failed", seen |-> 0,
                       usage |-> served, refused |-> FALSE, outputs |-> 0]
             rec == [kind |-> "response", scope |-> Root, id |-> id, exact |-> TRUE,
                     event |-> event]
  <2>2. event \in ClientEvents BY DEF OutcomeEvents, ClientEvents
  <2>3. rec.event = event /\ ModelResponse(rec) BY <2>1
  <2> HIDE DEF rec, event
  <2> QED BY <1>2, <2>2, <2>3
<1> QED BY <1>3, <1>4

\* Every step changes the bill of at most one kv scope, and that of the run alike.
LEMMA StepBills == ASSUME EngineInv, [Next]_vars PROVE BillsGrowTogether
<1>1. JournalType BY DEF EngineInv, EngineType
<1>2. CASE ReadModelRequest BY <1>2, ReadRequestBills
<1>3. CASE ReadModelResponse \/ ReadStrayOutcome BY <1>3, ReadResponseBills
<1>4. CASE ReadUtilityRequest
  BY <1>1, <1>4, RecordsBillNobody, NothingBilled DEF ReadUtilityRequest
<1>5. CASE ReadUtilityCompletion
  BY <1>1, <1>5, RecordsBillNobody, NothingBilled DEF ReadUtilityCompletion
<1>6. CASE ReadSeed \/ ReadGeneration
  BY <1>1, <1>6, RecordsBillNobody, NothingBilled DEF ReadSeed, ReadGeneration
<1>7. CASE ReadCompletion BY <1>1, <1>7, RecordsBillNobody, NothingBilled DEF ReadCompletion
<1>8. CASE ReadAssistant \/ ReadUser
  BY <1>1, <1>8, RecordsBillNobody, NothingBilled DEF ReadAssistant, ReadUser
<1>9. CASE ReadStreamEvent \/ ReadOperation
  BY <1>1, <1>9, RecordsBillNobody, NothingBilled DEF ReadStreamEvent, ReadOperation
<1>10. CASE ReadCompaction BY <1>1, <1>10, RecordsBillNobody, NothingBilled DEF ReadCompaction
<1>11. CASE ReadNotice \/ ReadFailure
  BY <1>1, <1>11, RecordsBillNobody, NothingBilled DEF ReadNotice, ReadFailure
<1>12. CASE ReadResult BY <1>1, <1>12, RecordsBillNobody, NothingBilled DEF ReadResult
<1>13. CASE StreamStart \/ SystemInit
  BY <1>1, <1>13, NothingBilled DEF StreamStart, SystemInit, Read, certified, journal
<1>14. CASE \/ BadIdentity \/ BadSchema \/ ObserveGap \/ UnterminatedTail \/ ReachedBoundary
            \/ ReadFailed \/ VerifyPhysicalGenerations \/ UNCHANGED vars
  <2>1. UNCHANGED certified
    BY <1>14 DEF BadIdentity, BadSchema, ObserveGap, UnterminatedTail, Gap, ReachedBoundary,
                 ReadFailed, VerifyPhysicalGenerations, vars
  <2> QED BY <1>1, <2>1, NothingBilled DEF certified, journal
<1> QED
  BY <1>2, <1>3, <1>4, <1>5, <1>6, <1>7, <1>8, <1>9, <1>10, <1>11, <1>12, <1>13, <1>14
  DEF Next

\* BillsAddUp, with its two sums spelled out.
TotalsHold ==
    /\ Total([s \in KvScopes |-> usage[s].requests]) = allUsage.requests
    /\ Total([s \in KvScopes |-> Tokens(usage[s])]) = Tokens(allUsage)

\* They are the sums that BillsAddUp folds.
LEMMA BillsAre == BillsAddUp <=> TotalsHold
BY Zenon DEF BillsAddUp, SumOver, Total, TotalsHold

\* Bills that add up still do when one of them and the total grow alike.
LEMMA BillsKeepAdding ==
    ASSUME IsFiniteSet(KvScopes), JournalType, TotalsHold, BillsGrowTogether
    PROVE  TotalsHold'
<1>1. PICK s \in KvScopes, n \in Nat, m \in Nat : BillsGrow(s, n, m) BY DEF BillsGrowTogether
<1>2. \A t \in KvScopes : usage[t].requests \in Nat /\ Tokens(usage[t]) \in Nat BY BillTypes
<1>3. \A t \in KvScopes : usage'[t].requests \in Nat /\ Tokens(usage'[t]) \in Nat
  BY <1>1, <1>2 DEF BillsGrow
<1> DEFINE f == [t \in KvScopes |-> usage[t].requests]
           h == [t \in KvScopes |-> usage'[t].requests]
           v == [t \in KvScopes |-> Tokens(usage[t])]
           w == [t \in KvScopes |-> Tokens(usage'[t])]
<1>4. /\ f \in [KvScopes -> Nat] /\ h \in [KvScopes -> Nat]
      /\ \A t \in KvScopes : h[t] = IF t = s THEN f[t] + n ELSE f[t]
  BY <1>1, <1>2, <1>3 DEF BillsGrow
<1>5. /\ v \in [KvScopes -> Nat] /\ w \in [KvScopes -> Nat]
      /\ \A t \in KvScopes : w[t] = IF t = s THEN v[t] + m ELSE v[t]
  BY <1>1, <1>2, <1>3 DEF BillsGrow
<1>6. Total(f) = allUsage.requests /\ Total(v) = Tokens(allUsage)
  BY DEF TotalsHold
<1>7. TotalsHold' <=> Total(h) = allUsage'.requests /\ Total(w) = Tokens(allUsage')
  BY DEF TotalsHold
<1> HIDE DEF f, h, v, w
<1>8. Total(h) = Total(f) + n BY <1>4, SumChange
<1>9. Total(w) = Total(v) + m BY <1>5, SumChange
<1>10. allUsage'.requests = allUsage.requests + n /\ Tokens(allUsage') = Tokens(allUsage) + m
  BY <1>1 DEF BillsGrow
<1> QED BY <1>6, <1>7, <1>8, <1>9, <1>10

\* Before the first line nobody is billed anything.
LEMMA BillsStartEven ==
    ASSUME IsFiniteSet(KvScopes), ContractInit PROVE TotalsHold
<1>1. usage = [s \in KvScopes |-> NoRequests] /\ allUsage = NoRequests
  BY DEF ContractInit, JournalInit
<1>2. NoRequests.requests = 0 /\ Tokens(NoRequests) = 0
  BY NoRequestsFacts DEF NoRequests
<1>3. /\ [s \in KvScopes |-> usage[s].requests] = [s \in KvScopes |-> 0]
      /\ [s \in KvScopes |-> Tokens(usage[s])] = [s \in KvScopes |-> 0]
  BY <1>1, <1>2
<1>4. Total([s \in KvScopes |-> 0]) = 0 BY SumOfNothing
<1> QED BY <1>1, <1>2, <1>3, <1>4 DEF TotalsHold

\* The bill of the run is the sum of the bills of its kv scopes, request by
\* request and token by token, in every state and for every stream: a captured
\* stream is finite, so finitely many calls open a scope in it (commit and
\* commit_response bill a scope and the run separately).
THEOREM BillsAreSums == ASSUME IsFiniteSet(Tools) PROVE Spec => []BillsAddUp
<1>1. IsFiniteSet(KvScopes)
  <2>1. IsFiniteSet({Root}) /\ IsFiniteSet({Side}) BY FS_Singleton
  <2>2. IsFiniteSet({Root} \cup Tools) BY <2>1, FS_Union
  <2>3. IsFiniteSet(({Root} \cup Tools) \cup {Side}) BY <2>1, <2>2, FS_Union
  <2> QED BY <2>3 DEF KvScopes, Scopes
<1>2. ContractInit => TotalsHold BY <1>1, BillsStartEven
<1>3. EngineInv /\ TotalsHold /\ [Next]_vars => TotalsHold'
  <2> SUFFICES ASSUME EngineInv, TotalsHold, [Next]_vars PROVE TotalsHold'
    OBVIOUS
  <2>1. JournalType BY DEF EngineInv, EngineType
  <2>2. BillsGrowTogether BY StepBills
  <2> QED BY <1>1, <2>1, <2>2, BillsKeepAdding
<1> QED BY <1>2, <1>3, BillsAre, EngineInvariant, PTL DEF Spec
=============================================================================
