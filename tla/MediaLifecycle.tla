---------------------------- MODULE MediaLifecycle ----------------------------
(***************************************************************************)
(* What becomes of the media of one video, without locks, requests and     *)
(* purging services: every operation is one step.  Media is deleted only   *)
(* after a mark that is never taken back, made when the retention period   *)
(* is over and no appeal is open.  From the mark on nobody watches,        *)
(* appeals or restores; before it an appeal and its approval succeed.      *)
(***************************************************************************)
VARIABLES
    media,      \* the objects are in the store
    begun,      \* the mark: a purge has begun
    recorded,   \* the purge is recorded as done
    deadline,   \* the retention period: "none", "running" or "over"
    appeal,     \* an appeal is open
    watchable   \* viewers get the video

lifecycleVars == <<media, begun, recorded, deadline, appeal, watchable>>

Init ==
    /\ media = TRUE /\ begun = FALSE /\ recorded = FALSE
    /\ deadline = "none"
    /\ appeal = FALSE /\ watchable = FALSE

\* The owner, a moderator or an administrator shows, hides, removes or deletes the video.
Edit ==
    /\ watchable' \in {FALSE, ~begun}
    /\ \/ UNCHANGED deadline
       \/ deadline = "none" /\ deadline' = "running"
    /\ UNCHANGED <<media, begun, recorded, appeal>>

Brought ==
    /\ ~begun
    /\ watchable' \in BOOLEAN
    /\ deadline' \in {deadline, "none"}
    /\ UNCHANGED <<media, begun, recorded>>

Restore == Brought /\ UNCHANGED appeal

Appeal ==
    /\ ~appeal /\ ~begun
    /\ appeal' = TRUE
    /\ UNCHANGED <<media, begun, recorded, deadline, watchable>>

Approve ==
    /\ appeal /\ appeal' = FALSE
    /\ Brought

Reject ==
    /\ appeal /\ appeal' = FALSE
    /\ UNCHANGED <<media, begun, recorded, deadline, watchable>>

Lapse ==
    /\ deadline = "running" /\ deadline' = "over"
    /\ UNCHANGED <<media, begun, recorded, appeal, watchable>>

Mark ==
    /\ deadline = "over" /\ ~appeal
    /\ begun' = TRUE /\ watchable' = FALSE
    /\ UNCHANGED <<media, recorded, deadline, appeal>>

Erase ==
    /\ begun /\ ~appeal
    /\ media' = FALSE
    /\ UNCHANGED <<begun, recorded, deadline, appeal, watchable>>

Record ==
    /\ ~media
    /\ recorded' = TRUE
    /\ UNCHANGED <<media, begun, deadline, appeal, watchable>>

Next ==
    \/ Edit \/ Restore \/ Lapse
    \/ Appeal \/ Approve \/ Reject
    \/ Mark \/ Erase \/ Record

Spec == Init /\ [][Next]_lifecycleVars
=============================================================================
