--------------------------- MODULE SessionCancel ---------------------------
(***************************************************************************)
(* cancel_server_owned, shutdown and persist_cancel_intent.  A             *)
(* cancellation holds the session's decision locks from the check that the *)
(* outcome is still open until the token is set, and runs beside every     *)
(* other step of the supervisor.  The intent is renamed into place and     *)
(* synced before the token becomes observable.                             *)
(***************************************************************************)
EXTENDS SessionDisk

quietCancel == <<mem, proof, held, control>>

\* TerminalDecision::Open.
Open == Running /\ pc \in RunSteps

\* persist_cancel_intent returned an error and nothing was committed: the
\* API leaves the session alone, while shutdown cancels the parent token of
\* every session after it has tried them all.
NotRecorded ==
    /\ token' = IF svc = "stopping" THEN "cancelled" ELSE token
    /\ UNCHANGED hist

\* The intent is visible: the token is set whether or not the barrier
\* succeeded; a caller is only told so when it did.
Recorded(durable) ==
    /\ token' = "cancelled"
    /\ hist' = IF durable /\ svc = "up" THEN hist \cup {"cancelled"} ELSE hist

\* The API is open only while the service is up; shutdown does the same for
\* every session it finds open.  A candidate left by an earlier attempt
\* blocks the cancellation; an existing intent is synced again; otherwise a
\* new candidate is written and synced.
CancelBegin ==
    /\ cpc = "none" /\ Open
    /\ CASE vis.cancel = "next" -> UNCHANGED <<files, cpc>> /\ NotRecorded
         [] vis.cancel = "intent" ->
              /\ UNCHANGED cpc
              /\ \/ Barrier(SyncResult(dur, vis)) /\ Recorded(TRUE)
                 \/ SyncFails /\ UNCHANGED files /\ Recorded(FALSE)
         [] OTHER ->
              /\ vis' = [vis EXCEPT !.cancel = "next"]
              /\ dur' = SyncResult(dur, vis')
              /\ cpc' = "c_rename"
              /\ UNCHANGED <<token, hist>>
    /\ UNCHANGED quietCancel

\* An error before the rename removes the candidate and syncs; either can
\* fail and leave it there.
CancelRollback ==
    /\ IoFails \/ SyncFails
    /\ cpc = "c_rename"
    /\ \E v \in {[vis EXCEPT !.cancel = "none"]} \cup (IF IoFails THEN {vis} ELSE {}) :
       \E d \in {SyncResult(dur, v)} \cup (IF SyncFails THEN {dur} ELSE {}) :
          vis' = v /\ dur' = d
    /\ cpc' = "none"
    /\ NotRecorded
    /\ UNCHANGED quietCancel

CancelRename ==
    /\ cpc = "c_rename"
    /\ Change([vis EXCEPT !.cancel = "intent"])
    /\ cpc' = "c_barrier"
    /\ UNCHANGED <<token, hist, quietCancel>>

\* Fault: a caller is told of a cancellation whose barrier failed.
CancelBarrierUnproved ==
    /\ cpc = "c_barrier"
    /\ \/ Barrier(SyncResult(dur, vis)) /\ Recorded(TRUE)
       \/ SyncFails /\ UNCHANGED files /\ Recorded(TRUE)
    /\ cpc' = "none"
    /\ UNCHANGED quietCancel

\* Fault: the decision locks are never released.
CancelBarrierKeepsLock ==
    /\ cpc = "c_barrier"
    /\ Barrier(SyncResult(dur, vis)) /\ Recorded(TRUE)
    /\ UNCHANGED <<cpc, quietCancel>>

\* The barrier, with one retry.
CancelBarrier ==
    /\ cpc = "c_barrier"
    /\ \/ Barrier(SyncResult(dur, vis)) /\ Recorded(TRUE)
       \/ SyncFails /\ UNCHANGED files /\ Recorded(FALSE)
    /\ cpc' = "none"
    /\ UNCHANGED quietCancel

\* SessionManager::shutdown: the lifecycle tracker closes and drains the
\* requests in flight before anything else.
Shutdown ==
    /\ svc = "up"
    /\ pc = "idle" \/ Running
    /\ cpc = "none"
    /\ svc' = "stopping"
    /\ UNCHANGED <<files, pc, start, cpc, memory, hist>>

\* The process exits once the supervisor has drained.
ShutdownDrained ==
    /\ svc = "stopping" /\ pc = "idle"
    /\ svc' = "down" /\ pc' = "none"
    /\ held' = Absent
    /\ UNCHANGED <<files, start, cpc, mem, proof, token, hist>>

CancelNext ==
    \/ CancelBegin \/ CancelRollback \/ CancelRename \/ CancelBarrier
    \/ Shutdown \/ ShutdownDrained
=============================================================================
