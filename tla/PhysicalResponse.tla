-------------------------- MODULE PhysicalResponse --------------------------
(***************************************************************************)
(* One physical response as its events establish it: transport, decoded    *)
(* observations, the processing outcome, and the receipt that closes it.   *)
(* Response bytes are what the pinned SDK reads from them: nothing, one    *)
(* value with its usage, or the backend's typed refusal.                   *)
(***************************************************************************)
EXTENDS Usage

OwnerKinds == {"chat", "draw", "side", "utility"}
Bodies == {"empty", "answer", "refusal"}
Statuses == {"none", "ok", "bad"}
Terminations == {"eof", "cancelled", "failed", "not_dispatched"}
Roles == {"utility", "failure"}
Processing == {"none", "completed", "failed"}

\* ResponseState of a request that was just dispatched.
NewResponse(owner, scope) ==
    [owner |-> owner, scope |-> scope, status |-> "none", body |-> "empty", ended |-> "no",
     decoding |-> {}, decoded |-> 0, failure |-> FALSE, snapshot |-> FALSE,
     processing |-> "none", outputs |-> 0]

Responses(owners, scopes) ==
    [owner : owners, scope : scopes, status : Statuses, body : Bodies, ended : Terminations \cup {"no"},
     decoding : Optional(Roles), decoded : 0..1, failure : BOOLEAN, snapshot : BOOLEAN,
     processing : Processing, outputs : 0..1]

IsChat(r) == r.owner.kind = "chat"
IsUtility(r) == r.owner.kind = "utility"

\* Which events may follow what the response has established.
InOrder(r, event) ==
    /\ IsUtility(r) => event.kind \notin {"decoded_body", "decoded_end", "history"}
    /\ (event.kind \in {"history", "delivery"}) = (r.processing # "none")
    /\ event.kind = "outcome" => r.ended # "no"
    /\ event.kind \in {"http", "body", "end"} => r.ended = "no"
    /\ event.kind \in {"decoded_body", "decoded_end"} => r.status # "none"

MayTransport(r, event) ==
    \/ event.kind = "http" /\ r.status = "none"
    \/ event.kind = "body" /\ r.status # "none"
    \/ /\ event.kind = "end" /\ (event.how = "eof" => r.status # "none")
       /\ event.how = "not_dispatched" => r.status = "none"

MayDecode(r, event) ==
    /\ event.role = "utility" => ~IsChat(r) /\ r.decoded = 0
    /\ event.role = "failure" => ~r.failure
    /\ event.kind = "decoded_body" => r.decoding \in {{}, {event.role}}
    /\ event.kind = "decoded_end" => r.decoding = {event.role}

\* What the SDK can yield from the bytes, and whether it ends in an error.
Available(r) == IF r.status = "ok" /\ r.body = "answer" THEN 1 ELSE 0
Broken(r) == r.status = "ok" /\ r.body = "refusal"

RequirePrefix(r, seen, completed) ==
    /\ seen <= Available(r)
    /\ completed => ~Broken(r) /\ seen = Available(r)

ObservedUsage(r, seen) == IF seen = 0 \/ r.status # "ok" \/ IsUtility(r) THEN {} ELSE Served
ServedRefusal(r, seen) == Broken(r) /\ ~IsUtility(r) /\ seen = 0

\* The outcome is held to the transport, the decoded observations and the bytes.
MayProcess(r, event) ==
    LET completed == event.status = "completed"
    IN  /\ completed => ~r.failure /\ r.status = "ok" /\ r.ended # "failed"
        /\ IsUtility(r) => event.usage = {} /\ event.outputs = 0 /\ (completed => event.seen = 1)
        /\ r.decoding = {} /\ r.decoded = (IF IsChat(r) THEN 0 ELSE event.outputs)
        /\ event.outputs > 0 => event.seen > 0
        /\ RequirePrefix(r, event.seen, completed)
        /\ event.usage = ObservedUsage(r, event.seen)
        /\ event.refused = (event.status = "failed" /\ ServedRefusal(r, event.seen))
        /\ completed /\ ~IsUtility(r) => event.usage # {}

MayDeliver(r, event) ==
    ~IsChat(r) /\ event.outputs <= r.outputs /\ (IsUtility(r) => event.outputs = 0)

\* commit_response: the one change an admitted event makes.
Stepped(r, event) ==
    CASE event.kind = "http" -> [r EXCEPT !.status = event.status]
      [] event.kind = "body" -> [r EXCEPT !.body = event.body]
      [] event.kind = "end" -> [r EXCEPT !.ended = event.how]
      [] event.kind = "decoded_body" -> [r EXCEPT !.decoding = {event.role}]
      [] event.kind = "decoded_end" /\ event.role = "failure" ->
            [r EXCEPT !.decoding = {}, !.failure = TRUE]
      [] event.kind = "decoded_end" /\ event.role = "utility" ->
            [r EXCEPT !.decoding = {}, !.decoded = 1, !.snapshot = event.snapshot]
      [] event.kind = "outcome" ->
            [r EXCEPT !.processing = event.status, !.outputs = event.outputs]
      [] OTHER -> r

\* What the owner of the response keeps of an outcome.
OutcomeOf(event) ==
    [completed |-> event.status = "completed", usage |-> event.usage,
     refused |-> event.refused, outputs |-> event.outputs]
Outcomes == [completed : BOOLEAN, usage : Optional(Served), refused : BOOLEAN, outputs : 0..1]

\* The events a client may write, well founded or not.  One body chunk and one
\* decoded output stand for any number of them.
TransportEvents(r) ==
    [kind : {"http"}, status : {"ok", "bad"}]
    \cup (IF r.body = "empty" THEN [kind : {"body"}, body : {"answer", "refusal"}] ELSE {})
    \cup [kind : {"end"}, how : Terminations]
DecodeEvents ==
    [kind : {"decoded_body"}, role : Roles]
    \cup [kind : {"decoded_end"}, role : Roles, snapshot : BOOLEAN]
OutcomeEvents ==
    [kind : {"outcome"}, status : {"completed", "failed"}, seen : 0..1,
     usage : Optional(Served), refused : BOOLEAN, outputs : 0..1]
ReceiptEvents ==
    [kind : {"delivery"}, outputs : 0..1] \cup [kind : {"history"}, accepted : BOOLEAN]
==============================================================================
