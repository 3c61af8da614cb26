-------------------------------- MODULE Usage --------------------------------
(***************************************************************************)
(* GenerationUsageSummary: a population of physical requests and the       *)
(* tokens served for it.  An optional value is a set of at most one        *)
(* element; the five token counts of a report are one number.              *)
(***************************************************************************)
EXTENDS Naturals, FiniteSets

CONSTANT SafeInteger    \* the largest exact count

ASSUME SafeIntegerAssumption == SafeInteger \in Nat \ {0}

Optional(S) == {{}} \cup {{x} : x \in S}
Served == {1}           \* what one response reports
Counts == 0..SafeInteger
Summaries == [requests : Counts, reports : Counts, unfinalized : Counts, unreported : Counts,
              usage : Optional(Counts)]

NoRequests == [requests |-> 0, reports |-> 0, unfinalized |-> 0, unreported |-> 0, usage |-> {}]

Tokens(summary) == IF summary.usage = {} THEN 0 ELSE CHOOSE n \in summary.usage : TRUE

Valid(summary) ==
    /\ summary.reports + summary.unfinalized + summary.unreported = summary.requests
    /\ (summary.reports = 0) = (summary.usage = {})
    /\ summary.requests <= SafeInteger /\ Tokens(summary) <= SafeInteger

\* admit_request: the counts after one more dispatch, or an error.
Admitted(summary) ==
    [summary EXCEPT !.requests = @ + 1, !.unfinalized = @ + 1]
MayAdmit(summary) == Valid(summary) /\ summary.requests + 1 <= SafeInteger

\* finalize: one outcome, with or without served usage.
Finalized(summary, served) ==
    [summary EXCEPT !.unfinalized = @ - 1,
                    !.reports = @ + Cardinality(served),
                    !.unreported = @ + 1 - Cardinality(served),
                    !.usage = IF served = {} THEN @
                              ELSE {Tokens(summary) + CHOOSE n \in served : TRUE}]
MayFinalize(summary, served) ==
    Valid(summary) /\ summary.unfinalized > 0 /\ Valid(Finalized(summary, served))
==============================================================================
