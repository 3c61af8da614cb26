------------------------------ MODULE MCEngine ------------------------------
(* The streams the engine is checked on, each aimed at one of its concerns. *)
EXTENDS CertifiedStream

Base == [attempts |-> {"a1"}, tools |-> {}, draws |-> {}, kinds |-> {}, owners |-> {"chat"},
         requests |-> 1, open |-> 1, faults |-> FALSE, refusals |-> 0]

\* One response, every transport and every bad record.
Transport == [Base EXCEPT !.kinds = {"internal"}, !.faults = TRUE, !.refusals = 1]
\* A request that fails and is tried again.
Retried == [Base EXCEPT !.requests = 2, !.faults = TRUE]
\* Two requests in flight, and records out of order.
Crossed == [Base EXCEPT !.requests = 2, !.open = 2, !.kinds = {"notice", "repeat", "internal"},
                        !.refusals = 2]
\* Calls within calls.
Nested == [Base EXCEPT !.attempts = {"a1", "a2", "a3", "a4"}, !.tools = {"t1", "t2"},
                       !.kinds = {"internal"}, !.requests = 4]
\* A conversation compacted before or between two turns.
Compacted == [Base EXCEPT !.attempts = {"a1", "a2"}, !.draws = {"d1"}, !.kinds = {"compaction", "internal"},
                          !.owners = {"chat", "draw", "utility"}, !.requests = 5]
\* A compaction whose draw or count may fail.
Uncompacted == [Base EXCEPT !.attempts = {}, !.draws = {"d1"}, !.kinds = {"compaction"},
                            !.owners = {"draw", "utility"}, !.requests = 2, !.faults = TRUE]
\* A compaction that draws again.
Redrawn == [Base EXCEPT !.attempts = {}, !.draws = {"d1", "d2"}, !.kinds = {"compaction"},
                        !.owners = {"draw", "utility"}, !.requests = 3]
\* Partial output of turns and of local operations, and a request of no conversation.
Streamed == [Base EXCEPT !.tools = {"t1"}, !.kinds = {"partial", "operation", "notice", "internal"},
                         !.owners = {"chat", "side"}, !.requests = 2]

MCLoads == {Transport, Retried, Crossed, Nested, Compacted, Uncompacted, Redrawn, Streamed}
==============================================================================
