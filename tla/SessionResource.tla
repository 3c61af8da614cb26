--------------------------- MODULE SessionResource ---------------------------
(***************************************************************************)
(* What the HTTP interface promises of one session handle: a resource with *)
(* a simple life, and calls each of whose answers is explained by a state  *)
(* the resource was in while the call was being served.                    *)
(***************************************************************************)
CONSTANTS Clients

VARIABLES
    resource,   \* the state of the handle
    ending,     \* while it is running: its outcome is on record
    serving,    \* per client: its call is being served
    op,         \* per client: its last call
    answer,     \* per client: the answer to it
    seen,       \* per client: the states since that call began
    broken      \* an I/O operation of the service has failed

vars == <<resource, ending, serving, op, answer, seen, broken>>

\* Acceptance, terminal publication, deletion, and its end; after a failed
\* I/O a terminal may exist in memory only, and a restart decides it again.
Follows(before, after) ==
    \/ before = "absent" /\ after = "running"
    \/ before = "running" /\ after \in {"ended", "cancelled"}
    \/ before \in {"ended", "cancelled"} /\ after = "deleting"
    \/ before = "deleting" /\ after = "absent"
    \/ broken /\ before \in {"ended", "cancelled"} /\ after = "running"

\* What a call sees in one moment.
Sights == {resource} \cup (IF ending THEN {"ending"} ELSE {})

\* An internal error is excused by a deletion under way, by a failed I/O and by
\* the end of the session, whose evidence a call may find half removed; to
\* cancel also in two other cases: its progress revision may be refused, and it
\* reads a handle that is not running without the admission fence, so it may
\* still read one that is being deleted, and half of one just accepted.  A read
\* that overlaps a deletion and a new acceptance may find the new terminal
\* record while the new entry is still there.
Explains(o, states, a) ==
    \/ a \in states
    \/ a \in {"absent", "empty", "deleted", "error"} /\ "deleting" \in states
    \/ a \in {"busy", "finalizing"} /\ "running" \in states
    \/ a = "empty" /\ "absent" \in states
    \/ a = "error" /\ (broken' \/ "ending" \in states \/ (o = "cancel" /\ "running" \in states))
    \/ /\ o = "cancel" /\ a \in {"ended", "cancelled", "error"}
       /\ "deleting" \in states \/ {"absent", "running"} \subseteq states
    \/ a \in {"ended", "cancelled"} /\ {"deleting", "running"} \subseteq states
    \/ a = "conflict" /\ states \cap {"running", "ended", "cancelled"} # {}
    \/ a \in {"invalid", "down", "lost"}

Init ==
    /\ resource = "absent" /\ ending = FALSE /\ broken = FALSE
    /\ serving = [c \in Clients |-> FALSE]
    /\ op = [c \in Clients |-> "none"] /\ answer = [c \in Clients |-> "none"]
    /\ seen = [c \in Clients |-> {}]

Resting(c) ==
    ~serving[c] /\ ~serving'[c] /\ op'[c] = op[c] /\ answer'[c] = answer[c] /\ seen'[c] = seen[c]
Invoked(c) == ~serving[c] /\ serving'[c] /\ answer'[c] = "none" /\ seen'[c] = Sights'
Served(c) ==
    /\ serving[c] /\ op'[c] = op[c] /\ seen'[c] = seen[c] \cup Sights'
    /\ IF serving'[c] THEN answer'[c] = "none" ELSE Explains(op[c], seen'[c], answer'[c])

\* A session ends once, and there is no way back from its end.
Ends == (ending' => resource' = "running") /\ (ending => ending' \/ resource' \in {"ended", "cancelled"})

Next ==
    /\ resource' = resource \/ Follows(resource, resource')
    /\ Ends
    /\ broken => broken'
    /\ \A c \in Clients : Resting(c) \/ Invoked(c) \/ Served(c)

Spec == Init /\ [][Next]_vars
=============================================================================
