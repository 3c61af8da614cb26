--------------------------- MODULE SessionDelete ---------------------------
(***************************************************************************)
(* DELETE: delete_server_owned, persist_delete_intent and                  *)
(* finish_delete_intent.  The intent lives in the records root, outside    *)
(* the directories it condemns, so that a cleanup which was interrupted    *)
(* can be finished by the next DELETE or the next startup.                 *)
(***************************************************************************)
EXTENDS SessionDisk

quietDelete == <<cpc, mem, proof, token>>

\* A visible intent is resumed without looking at the session again.
DeleteResume ==
    /\ svc = "up" /\ pc = "idle"
    /\ vis.del = "intent"
    /\ Goto("d_tree")
    /\ UNCHANGED <<files, held, hist, quietDelete>>

\* Fault: the cleanup starts before the intent is published.
DeleteBeginUnannounced ==
    /\ svc = "up" /\ pc = "idle"
    /\ vis.del = "none"
    /\ held = Absent /\ Readable(vis)
    /\ vis' = [vis EXCEPT !.del = "next"]
    /\ dur' = SyncRecords(dur, vis')
    /\ Goto("d_tree")
    /\ UNCHANGED <<held, hist, quietDelete>>

\* Otherwise the terminal resource is the authority: a body held in memory
\* or a readable record, whose retained tree (if any) has its marker.
DeleteBegin ==
    /\ svc = "up" /\ pc = "idle"
    /\ vis.del = "none"
    /\ \/ held # Absent /\ ("raw" \in held.evidence => vis.marker = Cause(held))
       \/ held = Absent /\ Readable(vis)
    /\ vis' = [vis EXCEPT !.del = "next"]
    /\ dur' = SyncRecords(dur, vis')
    /\ Goto("d_publish")
    /\ UNCHANGED <<held, hist, quietDelete>>

DeleteRollback ==
    /\ IoFails \/ SyncFails
    /\ pc = "d_publish"
    /\ \E v \in {[vis EXCEPT !.del = "none"]} \cup (IF IoFails THEN {vis} ELSE {}) :
       \E d \in {SyncRecords(dur, v)} \cup (IF SyncFails THEN {dur} ELSE {}) :
          vis' = v /\ dur' = d
    /\ Goto("idle")
    /\ UNCHANGED <<held, hist, quietDelete>>

DeletePublish ==
    /\ pc = "d_publish"
    /\ Change([vis EXCEPT !.del = "intent"])
    /\ hist' = hist \cup {"deleting"}
    /\ Goto("d_barrier")
    /\ UNCHANGED <<held, quietDelete>>

\* The barrier, with one retry; a caller whose barrier failed twice is told
\* to repeat the DELETE.
DeleteBarrier ==
    /\ pc = "d_barrier"
    /\ \/ Barrier(SyncRecords(dur, vis)) /\ Goto("d_tree")
       \/ SyncFails /\ UNCHANGED files /\ Fail
    /\ UNCHANGED <<held, hist, quietDelete>>

\* remove_exact_delete_target of the raw tree: a target that is absent is
\* skipped, barrier included.
DeleteTree ==
    /\ pc = "d_tree"
    /\ IF vis.tree = "none"
       THEN UNCHANGED files /\ Goto("d_rec")
       ELSE \/ Change(WithoutTree(vis)) /\ Goto("d_tree_sync")
            \/ IoFails /\ (\E v \in Damaged(vis) : Change(v)) /\ Fail
    /\ UNCHANGED <<held, hist, quietDelete>>

\* Fault: the removal of the tree is not synced.
DeleteTreeUnsynced ==
    /\ pc = "d_tree_sync"
    /\ UNCHANGED files
    /\ Goto("d_rec")
    /\ UNCHANGED <<held, hist, quietDelete>>

DeleteTreeSync ==
    /\ pc = "d_tree_sync"
    /\ \/ Barrier(SyncSessions(dur, vis)) /\ Goto("d_rec")
       \/ SyncFails /\ UNCHANGED files /\ Fail
    /\ UNCHANGED <<held, hist, quietDelete>>

\* The same for the result directory.
DeleteResult ==
    /\ pc = "d_rec"
    /\ IF vis.rec = "none"
       THEN UNCHANGED files /\ Goto("d_auth")
       ELSE \/ Change(WithoutResult(vis)) /\ Goto("d_rec_sync")
            \/ IoFails /\ (\E v \in Ruined(vis) : Change(v)) /\ Fail
    /\ UNCHANGED <<held, hist, quietDelete>>

DeleteResultSync ==
    /\ pc = "d_rec_sync"
    /\ \/ Barrier(SyncRecords(dur, vis)) /\ Goto("d_auth")
       \/ SyncFails /\ UNCHANGED files /\ Fail
    /\ UNCHANGED <<held, hist, quietDelete>>

DeleteAuthority ==
    /\ pc = "d_auth"
    /\ \/ Change([vis EXCEPT !.del = "none"]) /\ Goto("d_auth_sync")
       \/ IoFails /\ UNCHANGED files /\ Fail
    /\ UNCHANGED <<held, hist, quietDelete>>

\* The last barrier; a live request then forgets the held body and answers.
DeleteDone ==
    /\ pc = "d_auth_sync"
    /\ \/ /\ Barrier(SyncRecords(dur, vis))
          /\ IF svc = "boot"
             THEN Goto("b_check") /\ UNCHANGED <<held, hist>>
             ELSE /\ Goto("idle")
                  /\ held' = Absent
                  /\ hist' = hist \cup {"deleted"}
       \/ SyncFails /\ UNCHANGED <<files, held, hist>> /\ Fail
    /\ UNCHANGED quietDelete

DeleteNext ==
    \/ DeleteResume \/ DeleteBegin \/ DeleteRollback \/ DeletePublish
    \/ DeleteBarrier \/ DeleteTree \/ DeleteTreeSync \/ DeleteResult
    \/ DeleteResultSync \/ DeleteAuthority \/ DeleteDone
=============================================================================
