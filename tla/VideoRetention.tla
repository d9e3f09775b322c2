---------------------------- MODULE VideoRetention ----------------------------
(***************************************************************************)
(* One video between its owner, the moderators, the administrators and the *)
(* service that deletes the media of removed videos.                       *)
(*                                                                         *)
(* A request reads the video's row, checks what it read, and writes, when  *)
(* it commits, the columns it has changed: the others keep what somebody   *)
(* else may have committed meanwhile (EF change tracking, read committed). *)
(* Appeals, the administrator's actions and the purge hold the advisory    *)
(* lock "purge:<video>" from the read to the commit; nobody else takes it. *)
(*                                                                         *)
(* A request that dies has written nothing and is left out, and so are     *)
(* uploads that fail to process and are repeated.                          *)
(***************************************************************************)
EXTENDS Naturals, FiniteSets

CONSTANTS
    Sessions,     \* requests under way
    Purgers,      \* VideoMediaRetentionCleanupService, one per API instance
    MaxRequests,  \* bound: requests in all
    MaxFaults     \* bound: purges that fail or die

ASSUME RetentionAssumption ==
    /\ IsFiniteSet(Sessions) /\ Sessions \cap Purgers = {}
    /\ MaxRequests \in Nat
    /\ MaxFaults \in Nat

VARIABLES
    row,        \* the videos row
    media,      \* the objects are in the store
    cases,      \* open upload_review cases
    appealed,   \* an appeal is pending, in review or escalated
    doing,      \* task -> what it is doing
    saw,        \* task -> the row, and whether a case was open, as it read them
    requests,   \* requests so far
    faults      \* faults so far

vars == <<row, media, cases, appealed, doing, saw, requests, faults>>

Tasks == Sessions \cup Purgers

Standing ==                 \* what an administrator's hide or remove puts aside
    [status     : {"processing", "published", "blocked", "deleted"},
     visibility : {"public", "private"},
     moderation : {"not_submitted", "pending", "approved", "rejected"}]
NoStanding == [status |-> "none"]

Videos ==
    [status     : {"processing", "published", "blocked", "deleted"},
     visibility : {"public", "private"},
     moderation : {"not_submitted", "pending", "approved", "rejected"},
     hidden     : BOOLEAN,                       \* ModerationHidden
     shown      : BOOLEAN,                       \* PublishedAt
     original   : Standing \cup {NoStanding},    \* AdminOriginal*
     retention  : {"none", "running", "over"},   \* MediaRetentionUntil
     purging    : BOOLEAN,                       \* MediaPurgeStartedAt
     purged     : BOOLEAN]                       \* MediaPurgedAt

NoView == [nothing |-> TRUE]

Locked  == {"createAppeal", "approveAppeal", "rejectAppeal", "hide", "remove", "restore"}
Reviews == {"approveCase", "rejectCase"}
Others  == {"makePublic", "makePrivate", "submit", "publish", "delete",
            "reportHide", "reportRemove"}
Passes  == {"listed", "claiming", "claimed", "deleting", "erased"}

TypeOK ==
    /\ row \in Videos
    /\ media \in BOOLEAN /\ appealed \in BOOLEAN
    /\ cases \in Nat
    /\ doing \in [Tasks -> {"idle"} \cup Locked \cup Reviews \cup Others \cup Passes]
    /\ saw \in [Tasks -> [video : Videos, inReview : BOOLEAN] \cup {NoView}]
    /\ \A s \in Sessions : doing[s] = "idle" <=> saw[s] = NoView
    /\ requests \in 0..MaxRequests
    /\ faults \in 0..MaxFaults

(* CreateVideoAsync: a public upload is to be reviewed.                     *)
Init ==
    /\ \E v \in {"public", "private"} :
         /\ row = [status |-> "processing", visibility |-> v,
                   moderation |-> IF v = "public" THEN "pending" ELSE "not_submitted",
                   hidden |-> FALSE, shown |-> FALSE, original |-> NoStanding,
                   retention |-> "none", purging |-> FALSE, purged |-> FALSE]
         /\ cases = IF v = "public" THEN 1 ELSE 0
    /\ media = TRUE
    /\ appealed = FALSE
    /\ doing = [t \in Tasks |-> "idle"]
    /\ saw = [t \in Tasks |-> NoView]
    /\ requests = 0
    /\ faults = 0

-----------------------------------------------------------------------------
(* Reading, writing and the lock                                           *)

(* Mutant: an appeal is filed without the lock.                             *)
HoldingButAppeals(t) ==
    doing[t] \in (Locked \ {"createAppeal"}) \cup {"claiming", "deleting", "erased"}

Holding(t) == doing[t] \in Locked \cup {"claiming", "deleting", "erased"}

PurgeLocked == \E t \in Tasks : Holding(t)

Reads(t, what) ==
    /\ doing' = [doing EXCEPT ![t] = what]
    /\ saw' = [saw EXCEPT ![t] = [video |-> row, inReview |-> cases > 0]]

(* The columns in which want differs from what the task read.               *)
Saved(t, want) ==
    [c \in DOMAIN row |-> IF want[c] = saw[t].video[c] THEN row[c] ELSE want[c]]

Ends(t) ==
    /\ doing' = [doing EXCEPT ![t] = "idle"]
    /\ saw' = [saw EXCEPT ![t] = NoView]

Begins(s, what) ==
    /\ doing[s] = "idle"
    /\ requests < MaxRequests
    /\ requests' = requests + 1
    /\ Reads(s, what)
    /\ UNCHANGED <<row, media, cases, appealed, faults>>

Commits(s, want) ==
    /\ row' = Saved(s, want)
    /\ Ends(s)
    /\ UNCHANGED <<media, requests, faults>>

(* A request: it reads while may holds, and later writes want.              *)
Request(s, what, may, want) ==
    \/ may /\ Begins(s, what)
    \/ doing[s] = what /\ Commits(s, want) /\ UNCHANGED <<cases, appealed>>

Retained(v) == IF v.retention = "none" THEN "running" ELSE v.retention
Intact(v)   == ~v.purging /\ ~v.purged
Seen(s)     == saw[s].video

-----------------------------------------------------------------------------
(* The owner: ContentService                                               *)

Found == row.status # "deleted"         \* RequireVideoAsync

(* Without an open case a new one is filed.                                 *)
MakePublic(s) ==
    \/ Found /\ ~row.hidden /\ row.visibility = "private" /\ Begins(s, "makePublic")
    \/ /\ doing[s] = "makePublic"
       /\ LET approved == Seen(s).moderation = "approved"
          IN /\ Commits(s, [Seen(s) EXCEPT !.visibility = "public",
                                           !.moderation = IF approved THEN @ ELSE "pending"])
             /\ cases' = IF approved \/ saw[s].inReview THEN cases ELSE cases + 1
       /\ UNCHANGED appealed

MakePrivate(s) ==
    Request(s, "makePrivate", Found /\ row.visibility = "public",
            [Seen(s) EXCEPT !.visibility = "private"])

Submit(s) ==
    \/ /\ Found /\ ~row.hidden /\ Intact(row)
       /\ row.moderation # "approved"
       /\ row.moderation = "pending" => cases = 0
       /\ Begins(s, "submit")
    \/ /\ doing[s] = "submit"
       /\ Commits(s, [Seen(s) EXCEPT !.moderation = "pending"])
       /\ cases' = cases + 1
       /\ UNCHANGED appealed

Publish(s) ==
    Request(s, "publish",
            Found /\ ~row.hidden /\ Intact(row) /\ row.moderation = "approved",
            [Seen(s) EXCEPT !.status = "published", !.shown = TRUE])

DeleteVideo(s) ==
    Request(s, "delete", Found,
            [Seen(s) EXCEPT !.status = "deleted", !.retention = Retained(Seen(s))])

-----------------------------------------------------------------------------
(* Moderators: ModerationService.ResolveCaseAsync locks the case, not the   *)
(* video; ReportService.ResolveReportCaseAsync is serializable, and refused *)
(* when somebody else has written the row.                                  *)

UnderReview == {s \in Sessions : doing[s] \in Reviews}

MayReview == Cardinality(UnderReview) < cases

Decides(s, what, want) ==
    \/ MayReview /\ Begins(s, what)
    \/ /\ doing[s] = what
       /\ Commits(s, want)
       /\ cases' = cases - 1
       /\ UNCHANGED appealed

ApproveCase(s) ==           \* with or without restrictions
    Decides(s, "approveCase",
            [Seen(s) EXCEPT !.moderation = "approved", !.status = "published", !.shown = TRUE])

RejectCase(s) ==
    Decides(s, "rejectCase",
            [Seen(s) EXCEPT !.moderation = "rejected", !.status = "blocked",
                            !.retention = Retained(Seen(s))])

Reports(s, what, want) ==     \* who has seen the video may have reported it
    \/ row.shown /\ Begins(s, what)
    \/ /\ doing[s] = what
       /\ row = Seen(s)
       /\ Commits(s, want)
       /\ UNCHANGED <<cases, appealed>>

ReportHide(s) ==
    Reports(s, "reportHide", [Seen(s) EXCEPT !.visibility = "private", !.hidden = TRUE])

ReportRemove(s) ==
    Reports(s, "reportRemove",
            [Seen(s) EXCEPT !.hidden = TRUE, !.status = "blocked", !.moderation = "rejected",
                            !.retention = Retained(Seen(s))])

-----------------------------------------------------------------------------
(* Appeals: AppealService                                                  *)

Appealable ==
    /\ row.status = "blocked" /\ row.moderation = "rejected"
    /\ Intact(row) /\ row.retention # "over"
    /\ ~appealed

CreateAppeal(s) ==
    \/ Appealable /\ ~PurgeLocked /\ Begins(s, "createAppeal")
    \/ doing[s] = "createAppeal" /\ Commits(s, Seen(s)) /\ appealed' = TRUE
         /\ UNCHANGED cases

Resolves(s, what, may, want) ==
    \/ appealed /\ ~PurgeLocked /\ may /\ Begins(s, what)
    \/ /\ doing[s] = what
       /\ Commits(s, want)
       /\ appealed' = FALSE

(* The case the appeal names is closed with it, should it still be open.    *)
ApproveAppeal(s) ==
    /\ Resolves(s, "approveAppeal", Intact(row),
                [Seen(s) EXCEPT !.hidden = FALSE, !.moderation = "approved",
                                !.retention = "none", !.status = "published", !.shown = TRUE])
    /\ \/ UNCHANGED cases
       \/ doing[s] # "idle" /\ MayReview /\ cases' = cases - 1

RejectAppeal(s) == Resolves(s, "rejectAppeal", TRUE, Seen(s)) /\ UNCHANGED cases

-----------------------------------------------------------------------------
(* Administrators: AdminContentService.ChangeVideoStatusAsync               *)

Blocked(v) ==
    [v EXCEPT !.original = IF @ # NoStanding THEN @
                           ELSE [status |-> v.status, visibility |-> v.visibility,
                                 moderation |-> v.moderation],
              !.hidden = TRUE, !.status = "blocked"]

Hide(s) == Request(s, "hide", ~PurgeLocked, Blocked(Seen(s)))

Remove(s) ==
    Request(s, "remove", ~PurgeLocked,
            [Blocked(Seen(s)) EXCEPT !.moderation = "rejected", !.retention = Retained(Seen(s))])

Original(v) ==
    [v EXCEPT !.hidden = FALSE, !.original = NoStanding,
              !.status = v.original.status,
              !.visibility = v.original.visibility,
              !.moderation = v.original.moderation,
              !.retention = IF v.original.moderation = "approved" THEN "none" ELSE @]

Restore(s) ==               \* unhide and restore
    Request(s, "restore", ~PurgeLocked /\ row.original # NoStanding /\ Intact(row),
            Original(Seen(s)))

Refuse(s) ==                \* could not serialize access due to concurrent update
    /\ doing[s] \in {"reportHide", "reportRemove"}
    /\ row # Seen(s)
    /\ Ends(s)
    /\ UNCHANGED <<row, media, cases, appealed, requests, faults>>

-----------------------------------------------------------------------------
(* VideoMediaRetentionCleanupService                                       *)

Removed(v)  == v.status = "deleted" \/ (v.status = "blocked" /\ v.moderation = "rejected")
Eligible(v) == Removed(v) /\ v.retention = "over" /\ ~v.purged

Continues(w, what) ==
    /\ doing' = [doing EXCEPT ![w] = what]
    /\ UNCHANGED <<saw, cases, appealed, requests, faults>>

(* Mutant: a purge that was begun is taken for done.                        *)
ListUnmarked(w) ==
    /\ doing[w] = "idle"
    /\ Eligible(row) /\ ~row.purging /\ ~appealed
    /\ Continues(w, "listed") /\ UNCHANGED <<row, media>>

List(w) ==
    /\ doing[w] = "idle"
    /\ Eligible(row) /\ ~appealed
    /\ Continues(w, "listed") /\ UNCHANGED <<row, media>>

(* First transaction: reload, check again, mark the purge as begun.         *)
Claim(w) ==
    /\ doing[w] = "listed"
    /\ ~PurgeLocked
    /\ Continues(w, IF Eligible(row) /\ ~appealed THEN "claiming" ELSE "idle")
    /\ UNCHANGED <<row, media>>

(* Mutant: the mark is not saved before the objects are deleted.            *)
CommitClaimUnmarked(w) ==
    /\ doing[w] = "claiming"
    /\ Continues(w, "claimed") /\ UNCHANGED <<row, media>>

CommitClaim(w) ==
    /\ doing[w] = "claiming"
    /\ row' = [row EXCEPT !.purging = TRUE]
    /\ Continues(w, "claimed") /\ UNCHANGED media

(* Second transaction: only a purge that is already over is passed by.      *)
Reclaim(w) ==
    /\ doing[w] = "claimed"
    /\ ~PurgeLocked
    /\ Continues(w, IF row.purged THEN "idle" ELSE "deleting")
    /\ UNCHANGED <<row, media>>

Erase(w) ==
    /\ doing[w] = "deleting"
    /\ media' = FALSE
    /\ Continues(w, "erased") /\ UNCHANGED row

CommitPurge(w) ==
    /\ doing[w] = "erased"
    /\ row' = [row EXCEPT !.purged = TRUE]
    /\ Continues(w, "idle") /\ UNCHANGED media

PurgeFails(w) ==            \* the store or the database refuses, or the process dies
    /\ doing[w] # "idle"
    /\ faults < MaxFaults
    /\ faults' = faults + 1
    /\ doing' = [doing EXCEPT ![w] = "idle"]
    /\ UNCHANGED <<row, media, cases, appealed, saw, requests>>

(* Thirty days pass: longer than a pass of the service, or a request that   *)
(* was there before the deadline was set.                                   *)
Lapse ==
    /\ row.retention = "running"
    /\ \A w \in Purgers : doing[w] = "idle"
    /\ \A s \in Sessions : saw[s] # NoView => Seen(s).retention # "none"
    /\ row' = [row EXCEPT !.retention = "over"]
    /\ saw' = [t \in Tasks |-> IF saw[t] = NoView THEN NoView
                               ELSE [saw[t] EXCEPT !.video.retention = "over"]]
    /\ UNCHANGED <<media, cases, appealed, doing, requests, faults>>

-----------------------------------------------------------------------------
Serve(s) ==
    \/ MakePublic(s) \/ MakePrivate(s) \/ Submit(s) \/ Publish(s) \/ DeleteVideo(s)
    \/ ApproveCase(s) \/ RejectCase(s) \/ ReportHide(s) \/ ReportRemove(s)
    \/ CreateAppeal(s) \/ ApproveAppeal(s) \/ RejectAppeal(s)
    \/ Hide(s) \/ Remove(s) \/ Restore(s)
    \/ Refuse(s)

Purge(w) ==
    \/ List(w) \/ Claim(w) \/ CommitClaim(w)
    \/ Reclaim(w) \/ Erase(w) \/ CommitPurge(w)

Next ==
    \/ \E s \in Sessions : Serve(s)
    \/ \E w \in Purgers : Purge(w) \/ PurgeFails(w)
    \/ Lapse

Spec == Init /\ [][Next]_vars

(* A request under way ends; the service wakes every six hours, and         *)
(* PostgreSQL grants a lock to those who wait for it in turn.               *)
Fairness ==
    /\ \A s \in Sessions : WF_vars(doing[s] # "idle" /\ Serve(s))
    /\ \A w \in Purgers : SF_vars(Purge(w))

FairSpec == Spec /\ Fairness

-----------------------------------------------------------------------------
(* Properties                                                              *)

\* "Pending appeals hold the media until a reviewer makes a final decision" (the service's
\* summary): while an appeal is open its media is there and no purge of it has begun, so that
\* approving the appeal is never refused.
AppealedMediaKept == appealed => media /\ Intact(row)

\* Who may watch the video finds its media: objects are deleted only after the mark that
\* closes the video for viewers (ContentService.EnsureCanViewAsync) is committed, through
\* failed and repeated purges and whatever approves or publishes the video meanwhile.
Watchable == row.status = "published" /\ ~row.hidden /\ Intact(row)
WatchableHasMedia == Watchable => media

\* Across the two transactions of a purge, the lock, merged rows and failed passes, each
\* step is one of MediaLifecycle: nothing is marked before its period is over or beside an
\* appeal, no mark is taken back, and what is recorded as purged is gone.
Lifecycle ==
    INSTANCE MediaLifecycle WITH begun <- row.purging, recorded <- row.purged,
        deadline <- row.retention, appeal <- appealed, watchable <- Watchable

ImplementsLifecycle == Lifecycle!Spec

\* A purge that was begun and then failed is taken up again until it is done, unless the
\* video has come back to life.
PurgesEnd == row.purging ~> row.purged \/ ~Removed(row)

=============================================================================
