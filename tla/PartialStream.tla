---------------------------- MODULE PartialStream ----------------------------
(***************************************************************************)
(* PartialStreamState: the partial events of one display scope.  The root  *)
(* brackets its blocks in message groups; a child streams bare blocks.     *)
(* One block at a time and one chunk of text stand for any number.         *)
(***************************************************************************)
EXTENDS Naturals

NoOrigin == "unset"
Runtime == "runtime"     \* OutputOrigin::Runtime; any other origin is an attempt
\* A "called" block is a tool block whose arguments are whole; an "incomplete"
\* one shows a call the model broke off, and has no deltas.  That what a block
\* shows agrees with its generation is a matter of bytes.
BlockKinds == {"text", "thinking", "tool", "incomplete"}

NoPartial == [origin |-> NoOrigin, authority |-> FALSE, accepted |-> NoOrigin, group |-> FALSE,
              runtimeGroup |-> FALSE, runtimeMessage |-> FALSE, text |-> 0, calls |-> 0,
              block |-> NoOrigin]

IsModel(p) == p.origin \notin {NoOrigin, Runtime}

\* finish: no group or block is open, and model output has its generation.
Finished(p) ==
    /\ ~p.group /\ p.block = NoOrigin
    /\ IsModel(p) => p.authority /\ p.accepted # NoOrigin

\* set_origin: a new producer starts afresh once the last one finished.
MayOriginate(p, origin) == p.origin \in {NoOrigin, origin} \/ Finished(p)
Originated(p, origin) ==
    IF p.origin = origin THEN p ELSE [NoPartial EXCEPT !.origin = origin]

\* observe_generation: the generation becomes the authority of what was shown.
MayBind(p, origin) == MayOriginate(p, origin) /\ ~Originated(p, origin).authority
Bound(p, origin, calls) == [Originated(p, origin) EXCEPT !.authority = TRUE, !.calls = calls]

\* observe_completion.
MayConclude(p, origin) == p.authority /\ p.origin = origin /\ p.accepted = NoOrigin
Concluded(p, accepted) == [p EXCEPT !.accepted = IF accepted THEN "yes" ELSE "no"]

\* complete_message: the full message of a runtime operation.
MayCompleteMessage(p) ==
    /\ p.origin = Runtime /\ p.block = NoOrigin
    /\ p.runtimeGroup => p.group /\ ~p.runtimeMessage /\ p.text = 1
CompletedMessage(p) == IF p.runtimeGroup THEN [p EXCEPT !.runtimeMessage = TRUE] ELSE p

\* A block opens in its group; a call only from an accepted generation.
MayStartBlock(p, block, root) ==
    /\ root => p.group
    /\ p.block = NoOrigin
    /\ block # "text" => IsModel(p)
    /\ block = "tool" => p.accepted = "yes" /\ p.calls > 0

\* observe.  The authority and a runtime message hold one chunk of text.
MayObserve(p, event, root) ==
    /\ event.kind # "tool_progress" => p.origin # NoOrigin
    /\ CASE event.kind = "tool_progress" -> TRUE
         [] event.kind = "message_start" -> root /\ ~p.group /\ p.block = NoOrigin
         [] event.kind = "block_start" -> MayStartBlock(p, event.block, root)
         [] event.kind = "block_delta" ->
              p.block = event.block /\ event.block # "incomplete" /\ (event.block = "text" => p.text = 0)
         [] event.kind = "block_stop" -> p.block \notin {NoOrigin, "tool"}
         [] event.kind = "message_stop" ->
              /\ root /\ p.group /\ p.block = NoOrigin
              /\ IsModel(p) \/ p.runtimeMessage

Observed(p, event) ==
    CASE event.kind = "message_start" ->
            IF IsModel(p) THEN [p EXCEPT !.group = TRUE]
            ELSE [p EXCEPT !.group = TRUE, !.runtimeGroup = TRUE, !.runtimeMessage = FALSE]
      [] event.kind = "block_start" ->
            [p EXCEPT !.block = event.block, !.calls = IF event.block = "tool" THEN @ - 1 ELSE @]
      [] event.kind = "block_delta" ->
            CASE event.block = "text" -> [p EXCEPT !.text = 1]
              [] event.block = "tool" -> [p EXCEPT !.block = "called"]
              [] OTHER -> p
      [] event.kind = "block_stop" -> [p EXCEPT !.block = NoOrigin]
      [] event.kind = "message_stop" ->
            IF IsModel(p) THEN [p EXCEPT !.group = FALSE]
            ELSE [p EXCEPT !.group = FALSE, !.text = 0, !.runtimeMessage = FALSE]
      [] event.kind = "tool_progress" -> p

PartialEvents ==
    [kind : {"message_start", "block_stop", "message_stop"}]
    \cup [kind : {"block_start", "block_delta"}, block : BlockKinds]
==============================================================================
