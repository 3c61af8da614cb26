------------------------------ MODULE Progress ------------------------------
(***************************************************************************)
(* ProgressReporter: the history of one session, in memory and in          *)
(* progress.json.  A publication replaces the whole file; its visibility   *)
(* point is the rename, its durability point the directory sync.           *)
(***************************************************************************)
EXTENDS Naturals, Sequences

CONSTANTS
    MaxRevisions,   \* MAX_PROGRESS_EVENTS
    MaxCount        \* bound on the staged counter

ASSUME ProgressAssumption == MaxRevisions \in Nat \ {0} /\ MaxCount \in Nat

VARIABLES
    events,     \* ProgressState.events
    failed,     \* ProgressState.durable_failed
    file,       \* progress.json as it is read; <<>> when it does not exist
    synced,     \* progress.json as a power loss may leave it
    next,       \* progress.json.next is left behind
    unread      \* a visible replacement could not be read back

progress == <<events, failed, file, synced, next, unread>>

Phases == {"Accepted", "Staging", "AwaitingReadiness", "Cancelling", "TearingDown",
           "PersistingTerminal", "Terminal"}
Histories == Seq([phase : Phases, count : 0..MaxCount])

ProgressType ==
    /\ {events, file, synced} \subseteq Histories
    /\ {failed, next, unread} \subseteq BOOLEAN
    /\ \A history \in {events, file, synced} : Len(history) <= MaxRevisions

ProgressInit ==
    /\ events = <<>> /\ file = <<>> /\ synced = <<>>
    /\ failed = FALSE /\ next = FALSE /\ unread = FALSE

Latest == events[Len(events)]
Extended(phase, count) == Append(events, [phase |-> phase, count |-> count])

\* create: revision 1, synced before the acceptance marker is published.
Created ==
    /\ events' = <<[phase |-> "Accepted", count |-> 0]>>
    /\ file' = events' /\ synced' = events'
    /\ failed' = FALSE /\ next' = FALSE /\ unread' = FALSE

\* open, at startup: an unpublished replacement is discarded.
Opened ==
    /\ events' = file /\ failed' = FALSE /\ next' = FALSE
    /\ UNCHANGED <<file, synced, unread>>

\* Fault: the directory is not synced after the rename.
ReplacedUnsynced(history) ==
    /\ events' = history /\ file' = history
    /\ UNCHANGED <<synced, failed, next, unread>>

\* replace_atomically succeeds, perhaps at the second directory sync.
Replaced(history) ==
    /\ events' = history /\ file' = history /\ synced' = history
    /\ UNCHANGED <<failed, next, unread>>

\* Fault: the in-memory history stays behind the visible file.
KeepsOldHistory(history) ==
    /\ file' = history /\ failed' = TRUE
    /\ UNCHANGED <<events, synced, next, unread>>

\* PublishedWithDurabilityError: visible, but both directory syncs failed.
PublishedUnsynced(history) ==
    /\ events' = history /\ file' = history /\ failed' = TRUE
    /\ UNCHANGED <<synced, next, unread>>

\* The first sync failed and the visible bytes could not be read back.
PublishedUnread(history) ==
    /\ file' = history /\ failed' = TRUE /\ unread' = TRUE
    /\ UNCHANGED <<events, synced, next>>

\* Nothing became visible; removing the unpublished file may fail, too.
Unpublished ==
    /\ failed' = TRUE /\ next' \in BOOLEAN
    /\ UNCHANGED <<events, file, synced, unread>>

\* Fault: one event too many.
MayPublishPastBound(count) == ~failed /\ Len(events) <= MaxRevisions /\ count >= Latest.count

\* require_monotonic_counters, the latch and the bound.
MayPublish(count) == ~failed /\ Len(events) < MaxRevisions /\ count >= Latest.count

\* publish returns the event ...
PublishOk(phase, count) == MayPublish(count) /\ Replaced(Extended(phase, count))

\* ... or an error; only a regressing counter leaves the reporter usable.
PublishError(phase, count, io) ==
    \/ failed /\ UNCHANGED progress
    \/ ~failed /\ Len(events) >= MaxRevisions /\ failed' = TRUE
       /\ UNCHANGED <<events, file, synced, next, unread>>
    \/ ~failed /\ Len(events) < MaxRevisions /\ count < Latest.count /\ UNCHANGED progress
    \/ /\ io /\ MayPublish(count)
       /\ \/ PublishedUnsynced(Extended(phase, count))
          \/ PublishedUnread(Extended(phase, count))
          \/ Unpublished

Publish(phase, count, io, ok) ==
    \/ ok /\ PublishOk(phase, count)
    \/ ~ok /\ PublishError(phase, count, io)

\* The result directory is synced by a later transaction.
DirectorySynced == synced' = file /\ UNCHANGED <<events, failed, file, next, unread>>

\* The file is removed with its directory.
Removed == file' = <<>> /\ synced' = <<>> /\ next' = FALSE /\ UNCHANGED <<events, failed, unread>>

\* A power loss, possibly during a replacement.
Lost ==
    /\ file' \in {file, synced} /\ synced' = file'
    /\ next' \in {FALSE, file # <<>>}
    /\ events' = <<>> /\ failed' = FALSE /\ UNCHANGED unread
=============================================================================
