# A TLA+ model of the agent session service

`agent_service` accepts a task and a workspace archive over a loopback HTTP API,
runs one pinned agent per session in Docker containers, and keeps every session
as a durable resource that survives disconnects, crashes and restarts until its
owner deletes it. This directory holds TLA+ modules translated from its source,
TLC runs over them, and TLAPS proofs. Paths below are relative to the repository
(`src/` is its root, the Rust service is `src/src/`).

## Inventory

| component | state it keeps | operations | what makes it correct |
|---|---|---|---|
| acceptance (`runtime.rs` `submit_server_owned`, `prepare_durable_acceptance`) | raw tree `state/sessions/<id>`, `records/<id>/{progress.json, accepted.json}` | POST, replay of the same POST, rollback | an answered POST names a session every later startup finds; a failed one leaves nothing that could be taken for a session |
| execution and evidence (`session.rs`, `bundle.rs`) | contents of the raw tree, `bundle.tar.zst`, retention marker, teardown proof | stage, launch, capture, tear down, bundle, retain | the raw tree is given up only for a bundle that is published and durable |
| terminal transaction (`runtime.rs` 3416-3955) | `finished.json.tmp`, `finished.json`, `unpersisted_terminal` | prepare, cleanup, rewrite, commit, resume | one outcome per session, published once, with the evidence it names |
| cancellation and shutdown (`runtime.rs` 1940-2146, 2713-3008) | `cancel.json(.next)`, the token, `terminal_decision` | cancel, shutdown | an acknowledged cancellation decides the outcome, also across a restart; shutdown ends |
| deletion (`runtime.rs` 2014-2062, 3082-3361) | deletion intent in the records root | DELETE, resumption | nothing comes back after an answered DELETE; nothing is removed before it is authorised |
| startup recovery (`api.rs` 641-736, 2113-2622; `runtime.rs` 738-1233; `session.rs` 1357) | none of its own | finish deletions, check records, undo or terminalize acceptances, sweep | it never guesses: it terminalizes, restores or refuses |
| manager (`runtime.rs` 575-731, 1750-1918) | running map, admission / inner / launch locks, lifecycle tracker | get, list, admission, drain | a handle always resolves to exactly one state; no lock cycle |
| progress reporter (`progress.rs`) | `progress.json`, revision, latch | create, publish, reconcile | revisions only grow and survive as published |
| staging (`staging.rs`) | staged workspace | validate, extract | bounded, inside the tree, cancellable |
| HTTP API and spool (`api.rs` 64-620) | upload spool | handlers | an upload is consumed or removed |
| docker broker, client (`bin/docker_broker.rs`, `docker_ops.rs`) | agent, relay and capture containers | create, stop, remove, prove quiescence, sweep | only owned containers are touched; "quiescent" is never said of a running one |
| capture, relay, launcher (`bin/session_capture.rs`, `fixed_relay.rs`, `agent_exec.rs`) | stream files, connections, start gate | capture, forward, exec | completeness is declared after the sync; the agent starts only through the gate |
| certifier, result parser, protocol engine (`bin/event_certifier.rs`, `result_parse.rs`, `protocol/engine`) | journal of requests and responses, tool scopes, owed history, usage | admit a record, observe a refused stream, certify | a certificate covers everything the stream mentions; what is billed is what was served |
| deployment checks, config, scripts, patches | none | compare, print | not a protocol |

Interactions. A request handler hands its work to a server-owned task
(`await_connection_independent`), so a client can neither hold nor abandon a
transaction. POST, DELETE and the eviction of a finished session take the
admission lock; a cancellation takes the session's decision locks and runs
beside its supervisor. The service reaches docker only through the broker, one
request per connection; the broker runs each mutation to its end under one lock,
also when the service has stopped waiting. The agent's event stream goes through
the capture to a file that the engine reads when the agent has stopped.

What is hard, by part:
- the service has no database, so every durable guarantee rests on the order of
  writes, renames, hard links and fsyncs: a crash or a power loss between any two
  of them, an operation that fails half-way and the error path that follows, a
  retry of what was half done, a startup that finds the remains of any of this;
- the manager answers from three places (running map, files, bodies in memory)
  that the supervisor moves a session between, under four locks;
- a broker call that is given up is not a broker call that did not happen;
  containers, broker, service, a cancellation, a panic and a restart interleave;
- the engine must refuse or certify the records the harness wrote, good or bad
  and in any order, and keep an honest account of usage after its first refusal.

`PROJECT.json` lists the hazards line by line.

## Modules

Four families, one for each shared state of the service.

    SessionDisk            the files of one handle: two views of the disk, memory, control
     |- SessionAcceptance, SessionTerminal, SessionCancel, SessionDelete, SessionRecovery
    SessionStore           all of them + crash and power loss, properties, fairness
     |- MCSessionStore     the instance TLC checks
     |- SessionStoreTypes, SessionStoreProofs, SessionOutcomeProofs   the proofs

    Progress               progress.json and the reporter's copy of it
     |- Registry           locks, maps, tracker; arrival of calls, get and list
         |- RegistryCalls  submit, cancel, delete
             |- RegistryService  supervisor, shutdown, power loss, restart, properties
                 |- MCRegistry
                 |- RegistryMoves, RegistryProofs, RegistryRefinement   the proofs
    SessionResource        abstract: what a client may assume of a handle

    Containers             three containers and the processes in them
     |- Broker             the requests that change containers
         |- SessionRun     the service's side of one execution
             |- Topology   all of them, properties, fairness
                 |- TopologyProofs

    Usage                  the account of served tokens
     |- PhysicalResponse   one response, event by event
         |- ModelRequests  the journal: requests, attempts, draws, what history owes
             |- StreamContract (with PartialStream)  records, scopes, tool calls, observation
                 |- CertifiedStream   the reader, the certificate, properties
                     |- MCEngine
                     |- EngineProofs

The families meet where one uses another as an answer: a durable
transaction of `SessionStore` is a step of `Registry`, a whole execution of
`Topology` is the step `Execute` of `SessionTerminal`, and the certificate of
`CertifiedStream` is part of what that execution yields.

Operators whose comment begins with `Fault:` are wrong variants of the definition
that follows them; they belong to no specification and serve to show that each
property can fail.

### Session files (`SessionStore`)

**State.** `vis` is the file system as system calls see it, `dur` what is certain
to survive a power loss; both are records with one entry per durable object of
the session (`tree`, `marker`, `rec`, `progress`, `cancel`, `bundle`, `draft`,
`final`, `del`). A write changes `vis`. An fsync is one of four barriers, one for each
directory the code syncs (`SyncSessions`, `SyncControl`, `SyncResult`,
`SyncRecords`), and copies that directory's entries from `vis` to `dur`. `Crash`
keeps both views and forgets the process; `PowerLoss` keeps each entry in either
view, or, for a file that was being replaced, incomplete, and empties what lies
in a directory that is gone. `pc` is the step of the transaction that owns the
handle (admission serialises them), `cpc` that of a cancellation beside it.
`mem` is the terminal body being built, `held` the entry of
`unpersisted_terminal`, `token` the `CancellationToken`. `hist` is a history
variable: what callers were told or asked for. It is reset by a POST of a handle
of which nothing is left on disk.

**Actions.** One action per file-system step of each function, in the code's
order, with its error branch. Failures are injected where `Faults` allows: `"io"`
lets every operation other than an fsync fail (a recursive removal half-way, in
any order), `"sync"` lets an fsync fail, `"power"` allows `PowerLoss`. `Crash` is
always possible.

**Abstractions.**
- One handle. Every path carries the handle, so the files of two sessions are
  disjoint; a handle may be POSTed again after its deletion.
- Of a terminal body: status, claimed evidence, and the agent's answer (or
  none). Of a retention marker: whether its cause goes with a bundle or not (the
  seven causes fall into these two classes in `validate_raw_cause_for_terminal`).
- The raw tree is one of five stages of its layout. What the run writes inside
  it is not told apart, so evidence properties speak of the tree and not of each
  file in it (see the hazard at `session.rs:323`).
- Of `progress.json` the model keeps how it stands to the history that the
  terminal body repeats (`Histories`): the same, the same with a
  `progress.json.next` beside it, which a failed publication or a crash leaves, or
  another one. `read_terminal` refuses the last two, and so does `Readable`. A
  publication is also the barrier of the result directory it performs; how often
  `run_one` publishes is not told apart.
- Where a write and its sync have no other step between them that matters, and
  the state in between equals a neighbouring one (the `.next` candidates of the
  intents), they are one action.
- Reads and stats do not fail. The broker's teardown answers are arbitrary
  (`Teardown`). One panic of the inner task per run; the panic recovery itself
  does not panic.
- A stray `.partial` bundle beside a published archive is ignored, and
  `committed_terminal_for_sweep`, which both sweeps call, runs once.

### Manager and progress (`RegistryService`)

**State.** `lock` has the admission fence, `inner`, the decision lock and the
launch lock, each with its holder; `running`, `mem` and `disk` are the three
places a session may be found in (`disk` is the set of names under the records
root); `call[c]` is the step and the answer of client `c`; `spc` is the
supervisor, or, after a restart, the recovery; `hpc` is shutdown. `events` is the
reporter's history, `file` what `progress.json` holds, `synced` what a power loss
leaves of it; `durable`, a history variable, is the longest history a publication
reported as durable.

**Actions.** One action between two awaits or lock operations of a handler: a
tokio task can be overtaken just there. A file transaction that happens under the
fence is one step, its inside being the subject of `SessionStore`. Reads outside
the fence are steps of their own, so a file may be gone when it is read. The body
of a running session is such a read (`GetBody`, `SubmitBody`): it looks at files of
the raw tree, which the supervisor removes while the entry is still in the map, and
is an error when it finds the tree half removed (`TreeTorn`). A replayed POST whose
inputs differ is answered `conflict`.

**Refinement.** `SessionResource` is the interface as a client sees it: a handle
is absent, running, ended or cancelled, deleting; each call is served during an
interval, and its answer must be explained by a state the handle was in during
that interval. `ImplementsResource` is `Resource!Spec` under the mapping in
`RegistryService` (`ResourceState` computes the handle's state from the three
places). Besides its state a handle may be *ending*: its outcome is on record and
the entry still in the map, or, after a crash, not yet recovered (`Ending`). A
handle that is ending can only go on to its terminal. The abstract specification
has five exceptions, each of them a behaviour of the code:
- an internal error is an answer while a deletion runs or after an I/O failure;
- it is also one while the session is ending: the evidence a running body is read
  from may be half removed;
- `cancel` reads a handle that is not running without the fence, so it may see a
  terminal that is being deleted, or half of an acceptance;
- `cancel` of a running session may end in an error although it was recorded:
  its progress revision can be refused;
- a terminal that exists in memory only (its transaction failed) is decided again
  by the next startup.

**Abstractions.** One handle and one decision lock, since only the fence and
`inner` are shared between handles, and neither is held while another session's
locks are taken. One I/O failure and one power loss per behaviour. A publication
whose file cannot be read back afterwards sets `unread`. Counters are a number:
`publish_cancellation_progress_once` carries the one it read.

### Containers, broker and execution (`Topology`)

**State.** `cont` is docker's view of each container, `agent` and `cap` the
processes in two of them (of the relay only whether it runs matters); `written`
and `captured` count events; `gate` is the advisory lock on the start gate;
`queue` holds the broker's mutation requests in lock order with whether their
client still waits, `bstep` the next docker command of the one that holds the
lock. `spc` is the position in `run_one`, its finalizations or a recovery; the
remaining variables of `SessionRun` are the locals the outcome is computed from
(`producer_stopped`, the removal's answer, the `TeardownProof`, diagnostics) and
history variables for the properties.

**Actions.** One per docker command at the broker; one per broker call and one
for its answer at the service; each of the three observations of the quiescence
proof is a step, since they take no lock. `DeadlinePasses` makes the service give
up a call whose request stays queued. `ExecutionPanics` and `ServiceCrashes`
close the gate's descriptor and the connection wherever the service is.

**Abstractions.** Docker is external: a command succeeds, or fails with or
without its effect, which has happened by the time the command returns. Staging
and the local writes of a finalization are steps that may fail. Reads of inspect
documents succeed or fail as a whole.

### Engine (`CertifiedStream`)

**State.** The journal (`count`, `responses`, `attempts`, `utilities`,
`compactions`), `owed` (what the next request of a conversation must carry: a
snapshot's draw, the turns accepted since, and how many of them the last chat
request carried), `usage` and `allUsage`, `tools` and the rows shown per scope,
`partial` streams; `observed` is the second, more lenient account
(`RuntimeObservations`) that goes on after the first refusal; `phase` is the
reader. `spoken`, `shown` and `carried` are history variables; `spoken` keeps the
turns a kv scope accepted as conversation output (`aloud`) apart from those it
accepted as internal output, which are owed like the others and have no row.

**Actions.** One per record kind, each the whole of `prepare` and `commit`: a
planned admission changes the journal, a refused one latches the refusal, and
either is observed. `load` says which kinds of records a behaviour contains; the
reader may stop at the boundary, in an unterminated tail or at a read error, and
the pinned verifier may disagree.

**The harness.** The records a behaviour may contain (`CertifiedStream`, the `Read`
actions) are those the code can tell apart, in any order, with three restrictions.
A kv scope is the root's, that of a call that was issued, or one no conversation
uses (`Side`). The envelope of a record about a kv scope is the root's, which is
what the client writes for its physical records, or that of the call itself. A
result, a row or a partial event comes in the envelope of the root or of an issued
call. Output may be internal in every kv scope, as the output scope is independent
of it, and a side request may be made in any of them.

**Abstractions.** A record's exact bytes, schema, hashes and authorship are one
Boolean `exact` per record; a response body is empty, an answer or the backend's
refusal; one body chunk and one decoded output stand for any number of them. One
tokenizer operation stands for the three preflight measurements and one for the
count of a snapshot. `SafeInteger` bounds the account as `SAFE_INTEGER` does.
The caller of `prepare` always commits or rejects at once, so there is no state
in between; embeddings and body segments are not modelled.

## Runs

| run | faults or loads | what it shows |
|---|---|---|
| `io_power` | io, power | every promise of the session files holds as long as fsync works: `EvidenceSurvives`, `PublishedSurvives`, `AckedAcceptanceSurvives`, `AckedCancelHonoured`, `NoOrphanedSession`, `DeletedIsGone`, `TerminalPermanent`, `OutcomeDecidedOnce`, `TypeOK`; the inductive invariant `StoreInv`, whose durable part speaks of this case |
| `sync_power` | sync, power | what survives a failing fsync: the inductive invariants `EvidenceInv` and `StoreInv` (with it `NoOrphanedSession` and `AckedCancelHonoured`), `TerminalPermanent`, `OutcomeDecidedOnce` |
| `liveness` | io | `AcceptedSettles`, `DeletionSettles`, `ShutdownDrains` |
| `startup_refuses` | none | violated: a crash while the draft is being written blocks every later startup |
| `delete_retry` | sync, power | violated: a repeated DELETE skips the barrier that failed |
| `replay_unsynced` | sync, power | violated: a repeated POST is answered without the barrier that failed |
| `registry` | seven modes of `MCRegistry` | the inductive invariant `ResourceInv` and the refinement; `TerminalAgrees`, `DurableRevisionsSurvive` (progress); `AckedCancelDecides`; `ShutdownReportsUnrecorded`, `ShutdownLeavesNobody`; no deadlock among the locks: `EveryCallReturns`, `ShutdownReturns` |
| `registry_list` | none | violated: a DELETE makes a concurrent list fail |
| `topology` | six pairs of faults | the inductive invariant `TopologyInv`; `BundledTreeQuiet`, `RemovedTreeUnused`, `EarlyCancelReported`, `SuccessIsReal`, `CertifiedComplete`, `StoppedBrokerLeavesNothing`, `CancelSettles` |
| `topology_gate` | deadline | violated: the task of a cancelled session runs although the gate was never released for it |
| `topology_panic` | panic | violated: the recovery of a panic waits for ever |
| `engine` | eight loads of `MCEngine` | the inductive invariant `EngineInv`; `CertifiedIsComplete`, `BillsAddUp`, `UsageAgrees`, `ReleasedWereCarried`, `ReturnedScopeSilent` |

The violations are the findings of `PROJECT.json`.

**Bounds.**
- Session files: one answer besides `NoAnswer`: answers are only copied, and two
  values suffice to notice a replaced or invented one. The state space is finite
  without further bounds. The three fault classes together exceed what TLC can
  finish, so the runs take them in pairs; the proofs take them all.
- `registry`: two clients, at most three calls (`MaxCalls`), two where faults or a
  shutdown come in. Each property speaks of one call against the supervisor and at
  most one other call; three calls let a session be accepted, finished or deleted
  and asked for. The safety properties are proved for any number of either. `MaxRevisions` is 5
  where the code has `MAX_PROGRESS_EVENTS`: a run and a recovery reach it.
  `MaxCount` is 1: counters are only copied.
- `topology`: one event (`MaxEvents`) distinguishes a whole transcript from a
  truncated one. Faults come in pairs, since all five together exceed TLC's
  reach; each pair has one that disturbs docker or time and one that disturbs a
  process.
- `engine`: four attempts, two calls (one within the other), two draws, two
  tokenizer operations, five requests. Each load is aimed at one concern and
  leaves the other kinds of records out. `MaxBehind` is 2 (used by
  the load with crossed requests): the refused record and one more behind it,
  where the lenient account goes on alone.

`PublishedSurvives` is not claimed for a failing fsync: `retain_raw_evidence`
reports a failed marker sync as a diagnostic and goes on. That the two
acknowledgement properties fail only with `"sync"` is what `io_power` shows.
`TerminalPermanent` and `OutcomeDecidedOnce` are action properties; both compare
a step with the durable view before it, so that the chain of crashes, resumed
transactions and rewrites cannot change what was once durable.
`BundledTreeQuiet` excepts behaviours in which a call was given up: a creation
abandoned at its deadline may start a container after the three observations
found none. The tree is then retained (`RemovedTreeUnused` has no exception).
`CancelSettles` excepts the wait at `session.rs:1112`, which has no deadline when
neither stop nor removal could end the agent.

The runs of `Registry`, `Topology` and the engine say `CHECK_DEADLOCK FALSE`: a session that
has ended, a stream that has been read and a service that has been shut down are
ends of a behaviour. What must not stop is stated by the liveness properties.

**Fairness.** Session files: `WF(OwnerStep)`, because the task that owns the
handle is a spawned tokio task that waits for no client, except for the two waits
without a deadline, `Execute` (the agent runs as long as it likes, and
`session.rs:1112` waits for it also after a stop that failed) and `PanicRecovery`
(`session.rs:1170`); `SF(Decide)`, because
choosing the outcome waits for `terminal_decision`, a tokio mutex granted in
arrival order, and strong fairness says just that repeated cancellations do not
starve it; `WF(CancelStep)`. The containers run with `--restart no`
(`start.sh:186`), so a restart is not the code's doing: `AcceptedSettles` and
`DeletionSettles` take it as an explicit premise, `OperatorRestarts` (the service
is started again when it is down, and crashes cease at some time).
`AcceptedSettles` and `ShutdownDrains` have the premise `WaitsEnd`: the two waits
come to their end. The code does not guarantee it; `topology_panic` and the
exception of `CancelSettles` show when they do not. A terminal that was published
beside a `progress.json.next` is refused by GET until the next startup removes that
file (`BootOpen`), one beside a history that could not be read back for ever; both
(`Unserved`) are accepted ends of `AcceptedSettles`. So is a startup that refuses;
whether it should be one is the finding of `startup_refuses`. Manager: one weak
fairness condition for all tasks together, the calls, the supervisor and shutdown:
the runtime does not idle while one of them can go on. The number of calls is
bounded and no task runs in circles, so that every waiter of a lock gets its turn.
`ShutdownReturns` is thus about locks and joins; that the supervisor's own work ends
(the same two waits) is assumed. Topology:
weak fairness of the broker, of the service's own steps and of the capture
process. Nothing is assumed of the agent, which may run for ever, nor of
requests, cancellations, deadlines, panics or crashes.

**Observed beside the findings.**
- A `get` of a running session can answer an internal error although nothing was
  deleted and no I/O failed. The terminal transaction removes the raw tree
  (`runtime.rs:3947`) with the entry still in the map; `running_body_for_entry`
  looks for `events.jsonl` and then opens `prompt.txt` (`session.rs:1555-1565`), and
  `running_or_terminal_snapshot` returns its error (`runtime.rs:1816`). The comment at
  `runtime.rs:1715-1717` knows three answers only: "the running entry, a committed
  on-disk terminal, or the explicit in-memory failure". `SessionResource` has this
  fourth one as an exception.
- A chat request admitted between a draw's request and its compaction record
  moves `issued`, and `commit_compaction` then releases a turn the draw's prompt
  did not carry, other than its comment (`model_requests.rs:3256`) says. The turn
  was carried by that chat request, so `ReleasedWereCarried` holds.
- An accepted internal generation in the kv scope of a conversation is owed by
  that conversation (`model_requests.rs:3005-3012`) and has no row, so a certified
  stream may hold accepted output that was never shown; `CertifiedIsComplete`
  therefore speaks of conversation output.
- The repository's `README.md:1071` says that after a failed compaction "the next
  attempt's draw carries it"; `failed_compaction_scopes` admits no further
  compaction and no chat request in that scope.
- A scope may have two chat attempts in flight; nothing in the engine forbids it.
- `publish_cancellation_progress_once` (`runtime.rs:2680`) reads counters and
  publishes them later; when staging published larger ones in between, the
  revision is refused and the caller of `cancel` gets an error, although the
  cancellation is recorded and takes effect.

## Proofs

Each family has one inductive invariant. TLC checks it on a run, the proof
modules show it for every value of the constants under the named assumptions of
the modules, and the properties follow from it.

### Session files

For all `Answers`, and every `Faults` within the three classes (the two named
assumptions of `SessionDisk`):

- `EvidenceInvariant`: `Spec => []EvidenceInv`, the inductive invariant;
- `EvidenceNeverLost`: `Spec => []EvidenceSurvives`;
- `TypeCorrect`: `Spec => []TypeOK`;
- `StoreInvariant`: `Spec => []StoreInv`, the inductive invariant of all of it;
- `SessionNeverOrphaned`, `CancellationHonoured`: `NoOrphanedSession` and
  `AckedCancelHonoured`, a failing fsync included;
- `TerminalNeverChanges`, `OutcomeNeverChanges`: the action properties
  `TerminalPermanent` and `OutcomeDecidedOnce`, likewise.

Under the one further hypothesis `"sync" \notin Faults`, with I/O failures and
power losses at any step: `AcceptanceSurvives`, `DeletionIsFinal` and
`PublishedNeverLost`. Without the hypothesis the first two are false: the runs
`replay_unsynced` and `delete_retry` are the counterexamples.

**The evidence (`EvidenceInv`).**
`TypeOK` alone is not inductive: `finished.json` is a link to the draft, and a
draft may be torn, so `BodyInv` adds that at each step of the transaction the
visible draft is the body in memory and that startup resumes only a parseable
one. `EvidenceSurvives` needs to know why the tree may be removed: because the
body claims a bundle, and a claimed bundle is in both views (`ClaimInv`), which
holds because only `BundleAccept`, after its barrier, makes the claim. On disk,
where memory is lost, the same fact is carried by `Safe`: an accepted session has
its tree in both views until a terminal body is prepared in both views and the
bundle is full in both; that a body always claims some evidence (`Claims`) keeps
`Finish` and the resumed transaction from treating the tree as nobody's.
`StepInv` and `KeptInv` say what is known at each step, in particular that a
deletion step of a session nobody asked to delete finds nothing accepted. `Safe`
is stated over any pair of views, so that power loss (both views become one
mixture of them) and barriers are two lemmas (`PowerLossViews`,
`BarriersKeepSafe`) used by every action.

`SessionStoreTypes` proves the facts about the operators (what a barrier, a
removal, a power loss does to each entry) and one lemma per module for `TypeOK`
and `BodyInv`; `SessionStoreProofs` has one lemma per module for the rest, one
case per action, and the three theorems.

**The records (`StoreInv`).** On top of `EvidenceInv`:
- `OwnerInv`, what is known of the records at each step: a cancellation runs only
  beside a running supervisor; the steps from the barrier of the acceptance to
  the end of the terminal transaction have an accepted record; nothing is in a
  directory that is gone, in either view.
- `OutcomeInv`: a session has no terminal body before it prepares one
  (`Unprepared => Blank`), and from then on all bodies, those of both views and
  the one in memory, tell the same outcome. It is stated for all pairs because a
  power loss picks from either view and a resumed transaction takes what it finds
  as its body. A durable record is the visible one; that the link is only
  made from a durable draft, and only under a durable acceptance, is what keeps
  it so. Its last part is `NoOrphanedSession` for `d_publish` too: a DELETE that
  fails there is back at `idle`.
- `CancelInv`, what an acknowledged cancellation rests on: the token as long as a
  supervisor runs, the body in memory from the decision on, and, for the startup
  that has neither, the intent in both views.
- `DurableInv`, only where fsync works: an absence is durable outside the two
  steps between a removal and its barrier; so are an acceptance the service
  serves, a marker that can be read, and a record that startup or a GET has
  found, with its bundle. It says nothing when fsync may fail.

`SessionOutcomeProofs` reduces each action to what it does to every entry of the
two views (`Entries`, and one lemma per barrier and removal), and proves for each
of the five parts (the four above, and the durable outcome of the step) that it
follows. `SurvivingEntries` does the same for a power loss.

### Manager and progress

For any set of `Clients`, any number of calls, revisions and counts, any set of
`Modes` (`ProgressAssumption`, `RegistryAssumption`):

- `TerminalHistoryAgrees`, `DurableRevisionsStay`, `AckedCancelIsOutcome`,
  `ShutdownIsHonest`, `ShutdownIsFinal`: the five safety properties;
- `ResourceInvariant`: `Spec => []ResourceInv`;
- `ManagerImplementsResource`: `Spec => ImplementsResource`, the refinement.

`RegistryInv` is what each actor relies on while others run. `FenceInv` says who
holds each lock, by the steps at which it is held; that is mutual exclusion, and
everything else is a consequence of it. `EntryInv`: the running entry exists
exactly as long as its supervisor, and whoever holds the fence meets no entry.
`DiskInv`: the names on disk at each step of the supervisor, a deletion, a
recovery. `HistoryInv`: what was reported as durable begins the visible, the
synced and the remembered history. `AckInv` carries an acknowledgement through
the three places it can be in (intent on disk, token, outcome), `ShutInv` the
shutdown's, `CallInv` says what a call may still assume at each of its steps.

The refinement needs in addition what a call has *seen*: an answer is computed
from reads that are several steps apart, and by then the handle may be somewhere
else. `SeenInv` states, for the steps at which a call goes on without looking
again, which states the handle was in since the call began. `RegistryMoves`
classifies the steps once: an action either changes the handle's abstract state
(`Moves`), or the record of the call that takes it (`Turns`), and everyone else
is a bystander of whom only the set of seen states may grow. `RegistryRefinement`
then maps every action to a step of the abstract specification or a stutter.

### Containers, broker and execution

For every set of fault combinations and every `MaxEvents` (`FaultModesAssumption`,
`MaxEventsAssumption`): `TopologyInvariant`, and from it `BundledTreeStaysQuiet`,
`RemovedTreeIsUnused`, `EarlyCancelIsReported`, `SuccessIsAlwaysReal`,
`CertifiedIsWhole`, `StoppedBrokerIsClean`. TLC takes the faults in pairs; here
all five may strike in one behaviour.

The danger is always a request that is still queued when the service has gone
on. `QueueInv` bounds what a queue may hold: nothing but a shutdown precedes a
creation, and at most one request has a client. `LockInv` says what the docker
commands already run by the lock's holder have established (a removal without
diagnostics that has reached the agent has removed relay and capture).
`CreationInv` combines them: an answered removal leaves neither containers nor a
creation that could make one. `SightInv` says why three observations without a
lock amount to a proof as long as no call was given up, and `EndingInv` who may
have released the start gate.

### Engine

For every bound on tokens, every set of attempts, draws, operations and tools and
any tree of calls, any number of requests and records (`SafeIntegerAssumption`,
`JournalAssumption`, `ContractAssumption`): `EngineInvariant`, and from it
`CertificateLeavesNothingOut`, `BillsAgree`, `BillsAreSums`,
`CompactionReleasesOnlyCarried`, `ReturnedScopesStaySilent`.

`TallyInv` ties the two accounts: until the first refusal, what the lenient one
has seen of a request is what the journal says of it; after it
`BalancedObservation` still holds, because it speaks of the lenient account
alone. `OwedInv`: the first `issued` turns that a scope owes were carried by a
request, and so was every turn it owes no longer, internal output included.
`ShownInv`: at most the turn whose rows are due is spoken aloud and not shown; it
holds because a completion that is not internal must come in the envelope of its
kv scope (`OutputScopeHolds`). `EndInv`: behind the root's result
nothing is open, so what the certificate covers cannot change any more. That a
returned scope is silent is an action property: an admitted row of a scope needs
every call above it open (`AdmittedElsewhere`), and all other records leave rows
and calls as they are (`RecordsStandStill`).

`BillsAreSums` takes two arguments. One is about the code: every step leaves the
bills alone, or changes the bill of one kv scope and the bill of the run by the
same requests and tokens (`StepBills`, from `RequestBills` and `ResponseBills`).
The other is about the fold: the sum of a function that grows at one point grows
by as much (`SumChange`). The fold takes its elements in an unknown order, so it
is first shown to be the value, at the whole set, of a function on all subsets
(`SumsExist`, `SumOfAll`), and then compared size by size. The provers cannot
instantiate an induction rule; `Counting` stands in for it: a set of naturals
with zero and every successor is all of them, because otherwise the rest would
have a least element. The theorem assumes that the tool calls are finitely many,
which a captured stream guarantees; no other result about the engine needs it.

### What the proofs changed

Six places in the modules were wrong or vague, and TLC had not noticed:
- `Registry`: the generation of a handle was counted when its entry is
  registered; the invariant that ties an outcome to its generation is false
  between the two, so it is counted when the acceptance is committed;
- `ShutdownReportsUnrecorded` spoke of outcomes of an earlier process; it now
  speaks of those this process decided. `ShutdownLeavesNobody` did not exclude
  the loss of power after the shutdown;
- `SessionResource.Explains` did not allow a call that spans the outcome and the
  beginning of a deletion to report that outcome;
- the cases of `ObservedOutcome` overlapped, so its value was whatever case TLC
  took first;
- the first part of `UsageAgrees`, a sum over the scopes, is stated by itself
  (`BillsAddUp`);
- `BootState`: a failing sweep of an absent tree left a damaged one behind.

### Only model-checked

- Liveness: `CancelSettles`, `EveryCallReturns`, `ShutdownReturns`,
  `AcceptedSettles`, `DeletionSettles`, `ShutdownDrains`. Fairness and ENABLED are
  out of the prover's reach.

## Not modelled, and the plan

Not modelled: workspace staging (validation of an archive and extraction through
descriptors: pure checks and copying), multipart parsing and the upload spool
(before a session exists), comparison of inspect documents with the lock file,
configuration, validation of strings, the schema compiler (build time), client
scripts; the patches belong to another program. Of modelled parts: the relay's
connections, the launcher's arguments, the bytes of records and evidence files,
embeddings in the engine.

Every safety property that a passing run checks is proved.
What could be added: several handles in `Registry`, which meet in the locks, the
admission limit and the list; and the staging of the input, of which a power
loss may keep the removal of the archive and not the names of the extracted
files (the hazard at `session.rs:323`, which no property covers).
