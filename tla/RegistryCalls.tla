--------------------------- MODULE RegistryCalls ---------------------------
(***************************************************************************)
(* The calls that change a session: submit, cancel and delete.             *)
(***************************************************************************)
EXTENDS Registry

KeepAcks == UNCHANGED <<acked, durable>>

\* submit: under the admission fence a known handle is only looked up, and
\* refused when it was accepted for other inputs (require_matching_acceptance).
SubmitLook(c) ==
    /\ At(c, "s_look") /\ Free("admission") /\ Free("inner")
    /\ IF stopping THEN Return(c, "down")
       ELSE IF "intent" \in disk THEN Return(c, "deleting")
       ELSE IF running # 0 THEN \E a \in RunningBody \cup {"conflict"} : Return(c, a)
       ELSE \/ /\ call' = [call EXCEPT ![c].pc = IF "accepted" \in disk THEN "u_look" ELSE "s_valid"]
               /\ Taken(c, {"admission"}) /\ UNCHANGED calls
            \/ "accepted" \in disk /\ Return(c, "conflict")
    /\ Pure

\* The archive is validated on the blocking pool.
SubmitValidate(c) ==
    /\ At(c, "s_valid")
    /\ Go(c, "s_accept") \/ Return(c, "invalid")
    /\ Pure

\* prepare_durable_acceptance, with the map locked: from here on the session
\* exists, whether or not it is registered; a failure is rolled back.
SubmitAccept(c) ==
    /\ At(c, "s_accept") /\ Free("inner")
    /\ \/ /\ disk' = disk \cup {"accepted", "tree"} /\ Created
          /\ call' = [call EXCEPT ![c].pc = "s_register"] /\ Taken(c, {"inner"})
          /\ gen' = gen + 1 /\ durable' = events' /\ UNCHANGED <<calls, broken>>
       \/ /\ IoFails /\ Return(c, "error") /\ Breaks(TRUE)
          /\ UNCHANGED <<disk, progress, durable, gen>>
    /\ KeepShut /\ UNCHANGED <<running, mem, decided, token, acked, body, spc>>

\* The entry is registered and its supervisor spawned; an acceptance that is
\* visible but not known to be durable is registered, too, and reported.  The
\* fence is dropped here, not after the body is read: the read needs no lock.
SubmitRegister(c) ==
    /\ At(c, "s_register")
    /\ running' = gen /\ decided' = FALSE /\ token' = stopping
    /\ spc' = "stage"
    /\ \/ /\ call' = [call EXCEPT ![c].pc = "s_body"] /\ Dropped(c) /\ UNCHANGED <<calls, broken>>
       \/ IoFails /\ Return(c, "error") /\ Breaks(TRUE)
    /\ KeepShut /\ KeepAcks /\ UNCHANGED <<mem, gen, files, body>>

\* The body of the new session; its supervisor may be at any step by now.
SubmitBody(c) ==
    /\ At(c, "s_body")
    /\ \E a \in RunningBody : Return(c, a)
    /\ Pure

SubmitStep(c) ==
    SubmitLook(c) \/ SubmitValidate(c) \/ SubmitAccept(c) \/ SubmitRegister(c) \/ SubmitBody(c)

-----------------------------------------------------------------------------
(* cancel.                                                                 *)

\* The entry, looked up without and then with the fence.
CancelLook(c) ==
    /\ \/ At(c, "c_fast") \/ (At(c, "c_fence") /\ Free("admission"))
    /\ Free("inner")
    /\ IF running # 0
       THEN call' = [call EXCEPT ![c].pc = "c_decide", ![c].gen = running] /\ UNCHANGED <<calls, lock>>
       ELSE Go(c, IF At(c, "c_fast") THEN "c_fence" ELSE "u_look")
    /\ Pure

\* Fault: the outcome is looked at without keeping it from being decided.
CancelDecideUnlocked(c) ==
    /\ At(c, "c_decide")
    /\ IF call[c].gen # gen \/ decided THEN Go(c, "c_final") ELSE Go(c, "c_check")
    /\ Pure

\* terminal_decision is held while the outcome is open.
CancelDecide(c) ==
    /\ At(c, "c_decide")
    /\ IF call[c].gen # gen THEN Go(c, "c_final")
       ELSE IF decided THEN Free("decision") /\ Go(c, "c_final")
       ELSE /\ Free("decision") /\ Taken(c, {"decision"})
            /\ call' = [call EXCEPT ![c].pc = "c_check"] /\ UNCHANGED calls
    /\ Pure

\* Finalizing, or finalised meanwhile.
CancelFinal(c) ==
    /\ At(c, "c_final") /\ Free("inner")
    /\ IF running # 0 THEN Return(c, "finalizing") ELSE Go(c, "u_look")
    /\ Pure

CancelCheck(c) ==
    /\ At(c, "c_check") /\ Free("inner")
    /\ IF running # 0 THEN Go(c, "c_launch")
       ELSE Dropped(c) /\ call' = [call EXCEPT ![c].pc = "u_look"] /\ UNCHANGED calls
    /\ Pure

CancelLaunch(c) ==
    /\ At(c, "c_launch") /\ Free("launch")
    /\ Taken(c, {"launch"}) /\ call' = [call EXCEPT ![c].pc = "c_intent"] /\ UNCHANGED calls
    /\ Pure

\* persist_cancel_intent: durable, visible with an error to report, or failed.
CancelIntent(c) ==
    /\ At(c, "c_intent")
    /\ \/ Go(c, "c_token") /\ disk' = disk \cup {"cancel"} /\ UNCHANGED broken
       \/ /\ IoFails /\ Breaks(TRUE) /\ disk' = disk \cup {"cancel"}
          /\ call' = [call EXCEPT ![c].pc = "c_token", ![c].ans = "error"] /\ UNCHANGED <<calls, lock>>
       \/ IoFails /\ Breaks(TRUE) /\ Return(c, "error") /\ UNCHANGED disk
    /\ KeepManager /\ KeepShut /\ KeepAcks /\ UNCHANGED <<progress, body, spc>>

\* The interrupt becomes observable; then the counters are read ...
CancelToken(c) ==
    /\ At(c, "c_token")
    /\ token' = TRUE
    /\ call' = [call EXCEPT ![c].pc = "c_publish", ![c].count = Latest.count]
    /\ KeepShut /\ KeepHistory /\ UNCHANGED <<calls, lock, running, mem, gen, decided, files, body, spc>>

AlreadyCancelling == \E i \in DOMAIN events : events[i].phase = "Cancelling"

\* ... and published: meanwhile staging may have published larger ones.
CancelPublish(c) ==
    /\ At(c, "c_publish")
    /\ \E ok \in BOOLEAN :
          /\ IF AlreadyCancelling THEN ok /\ UNCHANGED <<progress, durable>>
             ELSE Publish("Cancelling", call[c].count, IoFails, ok) /\ Acknowledged(ok)
          /\ Return(c, IF ok /\ call[c].ans = "none" THEN "running" ELSE "error")
          /\ acked' = IF ok /\ call[c].ans = "none" THEN acked \cup {gen} ELSE acked
          /\ Breaks(~ok /\ IoFails)
    /\ KeepManager /\ KeepShut /\ UNCHANGED <<disk, body, spc>>

CancelStep(c) ==
    \/ CancelLook(c) \/ CancelDecide(c) \/ CancelFinal(c) \/ CancelCheck(c) \/ CancelLaunch(c)
    \/ CancelIntent(c) \/ CancelToken(c) \/ CancelPublish(c)

-----------------------------------------------------------------------------
(* delete, all of it under the admission fence.                            *)

DeleteLook(c) ==
    /\ At(c, "d_look") /\ Free("admission") /\ Free("inner")
    /\ IF running # 0 THEN Return(c, "busy")
       ELSE /\ call' = [call EXCEPT ![c].pc = IF "intent" \in disk THEN "d_tree" ELSE "u_look"]
            /\ Taken(c, {"admission"}) /\ UNCHANGED calls
    /\ Pure

\* persist_delete_intent; when it fails the intent may be visible.
DeleteIntent(c) ==
    /\ At(c, "d_intent")
    /\ \/ Go(c, "d_tree") /\ disk' = disk \cup {"intent"} /\ UNCHANGED broken
       \/ IoFails /\ Return(c, "error") /\ Breaks(TRUE) /\ disk' \in {disk, disk \cup {"intent"}}
    /\ KeepManager /\ KeepShut /\ KeepAcks /\ UNCHANGED <<progress, body, spc>>

\* finish_delete_intent: the raw tree, ...
DeleteTree(c) ==
    /\ At(c, "d_tree")
    /\ \/ Go(c, "d_files") /\ disk' = disk \ {"tree"} /\ UNCHANGED broken
       \/ IoFails /\ Return(c, "error") /\ Breaks(TRUE) /\ UNCHANGED disk
    /\ KeepManager /\ KeepShut /\ KeepAcks /\ UNCHANGED <<progress, body, spc>>

Records == disk \cap {"accepted", "draft", "finished", "cancel"}

\* ... the records, in the order the directory lists them, ...
DeleteFile(c) ==
    /\ At(c, "d_files")
    /\ \/ \E f \in Records :
             disk' = disk \ {f} /\ UNCHANGED <<progress, durable, broken>> /\ Go(c, "d_files")
       \/ file # <<>> /\ Removed /\ durable' = <<>> /\ UNCHANGED <<disk, broken>> /\ Go(c, "d_files")
       \/ Records = {} /\ file = <<>> /\ Go(c, "d_end") /\ UNCHANGED <<files, durable, broken>>
       \/ IoFails /\ Return(c, "error") /\ Breaks(TRUE) /\ UNCHANGED <<files, durable>>
    /\ KeepManager /\ KeepShut /\ UNCHANGED <<acked, body, spc>>

\* ... the intent, which may be gone when it fails, and the body in memory.
DeleteEnd(c) ==
    /\ At(c, "d_end")
    /\ \/ Go(c, "d_mem") /\ disk' = disk \ {"intent"} /\ UNCHANGED broken
       \/ IoFails /\ Return(c, "error") /\ Breaks(TRUE) /\ disk' \in {disk, disk \ {"intent"}}
    /\ KeepManager /\ KeepShut /\ KeepAcks /\ UNCHANGED <<progress, body, spc>>

DeleteMem(c) ==
    /\ At(c, "d_mem") /\ Free("inner")
    /\ mem' = FALSE /\ Return(c, "deleted")
    /\ KeepShut /\ KeepHistory /\ UNCHANGED <<running, gen, decided, token, files, body, spc>>

DeleteStep(c) ==
    \/ DeleteLook(c) \/ DeleteIntent(c) \/ DeleteTree(c) \/ DeleteFile(c) \/ DeleteEnd(c) \/ DeleteMem(c)

CallStep(c) ==
    LifecycleStart(c) \/ ReadStep(c) \/ ListIds(c) \/ SubmitStep(c) \/ CancelStep(c) \/ DeleteStep(c)
=============================================================================
