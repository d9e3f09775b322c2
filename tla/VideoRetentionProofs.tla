------------------------- MODULE VideoRetentionProofs -------------------------
(***************************************************************************)
(* For any number of requests, purging services and faults: an open appeal *)
(* keeps the media of its video, what may be watched has its media, none   *)
(* is deleted before its time, and MediaLifecycle is implemented.          *)
(***************************************************************************)
EXTENDS VideoRetention, FiniteSetTheorems, TLAPS

Work == Locked \cup Reviews \cup Others

\* Requests and the purge are different tasks.
Roles ==
    /\ \A s \in Sessions : doing[s] \in {"idle"} \cup Work
    /\ \A w \in Purgers : doing[w] \in {"idle"} \cup Passes

\* Whoever restores a video has read what to restore.
RestoresSomething ==
    \A s \in Sessions : doing[s] = "restore" => Seen(s).original # NoStanding

\* Each review under way has an open case of its own.
CasesSuffice == Cardinality(UnderReview) <= cases

\* The advisory lock has one holder.
OneHolder == \A t, u \in Tasks : Holding(t) /\ Holding(u) => t = u

\* A purge that is past its first commit is marked on the row, and so is what it deletes.
PurgesMarked ==
    /\ \A w \in Purgers : doing[w] \in {"claimed", "deleting", "erased"} => row.purging
    /\ ~media => row.purging
    /\ row.purged => row.purging

\* A mark and an appeal exclude each other, from the check of either to its commit.
MarkOrAppeal ==
    /\ row.purging => ~appealed
    /\ \A w \in Purgers : doing[w] = "claiming" => ~appealed
    /\ \A s \in Sessions : doing[s] = "createAppeal" => ~row.purging

\* The retention period is over when a purge checks it, and stays over once it is marked:
\* no request still under way then has read that there is none.
PeriodStands ==
    /\ \A w \in Purgers : doing[w] = "claiming" => row.retention = "over"
    /\ row.purging => row.retention = "over"
    /\ row.retention = "over" =>
         \A s \in Sessions : doing[s] # "idle" => Seen(s).retention # "none"

\* What a request has checked under the lock holds until it commits.
ChecksStand ==
    \A s \in Sessions :
        /\ doing[s] = "createAppeal" => ~appealed
        /\ doing[s] \in {"approveAppeal", "rejectAppeal"} => appealed
        /\ doing[s] = "restore" => ~row.purging

\* Objects are deleted before the purge is recorded.
RecordedGone ==
    /\ row.purged => ~media
    /\ \A w \in Purgers : doing[w] = "erased" => ~media

RetentionInv ==
    /\ TypeOK /\ Roles /\ RestoresSomething /\ CasesSuffice
    /\ OneHolder /\ PurgesMarked /\ MarkOrAppeal
    /\ PeriodStands /\ ChecksStand /\ RecordedGone

LEMMA InitInv == Init => RetentionInv
<1> SUFFICES ASSUME Init PROVE RetentionInv
  OBVIOUS
<1> USE DEF Init
<1>1. TypeOK
  <2>1. row \in Videos /\ cases \in Nat BY DEF Videos
  <2>2. requests \in 0..MaxRequests /\ faults \in 0..MaxFaults BY RetentionAssumption
  <2>3. QED BY <2>1, <2>2 DEF TypeOK, Tasks
<1>2. \A t \in Tasks : doing[t] = "idle" OBVIOUS
<1>3. /\ Roles /\ RestoresSomething /\ OneHolder /\ PurgesMarked /\ MarkOrAppeal
      /\ PeriodStands /\ ChecksStand /\ RecordedGone
  BY <1>2 DEF Roles, RestoresSomething, OneHolder, PurgesMarked, MarkOrAppeal, PeriodStands,
              ChecksStand, RecordedGone, Holding, Locked, Work, Tasks
<1>4. UnderReview = {} BY <1>2 DEF UnderReview, Reviews, Tasks
<1>5. CasesSuffice BY <1>4, FS_EmptySet DEF CasesSuffice
<1>6. QED BY <1>1, <1>3, <1>5 DEF RetentionInv

-----------------------------------------------------------------------------
(* A request begins or ends *)

\* What the checks of each request have found when it has read the row.
MayBegin(what) ==
    /\ what \in Locked => ~PurgeLocked
    /\ what \in Reviews => MayReview
    /\ what = "restore" => row.original # NoStanding /\ Intact(row)
    /\ what = "createAppeal" => Intact(row) /\ ~appealed
    /\ what \in {"approveAppeal", "rejectAppeal"} => appealed

\* A request reads the row and takes its lock, if it needs one.
Began(s) ==
    /\ doing[s] = "idle"
    /\ \E what \in Work : Reads(s, what) /\ MayBegin(what)
    /\ requests < MaxRequests /\ requests' = requests + 1
    /\ UNCHANGED <<row, media, cases, appealed, faults>>

\* What a request wants to write: it never touches the marks of the purge, it may start the
\* retention period, and only what brings a video back clears it.
Writable(s, want) ==
    /\ want \in Videos
    /\ want.purging = Seen(s).purging /\ want.purged = Seen(s).purged
    /\ want.retention \in {Seen(s).retention, IF doing[s] \in {"approveAppeal", "restore"}
                                               THEN "none" ELSE Retained(Seen(s))}
    /\ doing[s] \in {"createAppeal", "rejectAppeal"} => want = Seen(s)

\* What becomes of the row, an appeal and the cases when a request commits.
Written(s) ==
    /\ row' \in Videos /\ row'.purging = row.purging /\ row'.purged = row.purged
    /\ \/ row'.retention = row.retention
       \/ IF doing[s] \in {"approveAppeal", "restore"} THEN row'.retention = "none"
          ELSE Seen(s).retention = "none" /\ row'.retention = "running"
    /\ doing[s] \in {"createAppeal", "rejectAppeal"} => row' = row

Appealed(s) ==
    appealed' = IF doing[s] = "createAppeal" THEN TRUE
                ELSE IF doing[s] \in {"approveAppeal", "rejectAppeal"} THEN FALSE
                ELSE appealed

Closed(s) ==
    \/ doing[s] \in Reviews /\ cases' = cases - 1
    \/ doing[s] \notin Reviews /\ cases' \in {cases, cases + 1}
    \/ doing[s] \notin Reviews /\ MayReview /\ cases' = cases - 1

\* A request commits: the marks of the purge stay as they are, an appeal is opened by the
\* request that files it, and a case is closed by its review or in place of nobody's.
Ended(s) ==
    /\ doing[s] # "idle"
    /\ Ends(s)
    /\ Written(s) /\ Appealed(s) /\ Closed(s)
    /\ UNCHANGED <<media, requests, faults>>

\* What is written keeps the columns that the request did not change.
LEMMA SavedColumns ==
    ASSUME TypeOK, NEW s \in Sessions, Seen(s) \in Videos, NEW want, Writable(s, want)
    PROVE  /\ Saved(s, want) \in Videos
           /\ Saved(s, want).purging = row.purging
           /\ Saved(s, want).purged = row.purged
           /\ \/ Saved(s, want).retention = row.retention
              \/ IF doing[s] \in {"approveAppeal", "restore"}
                 THEN Saved(s, want).retention = "none"
                 ELSE Seen(s).retention = "none" /\ Saved(s, want).retention = "running"
           /\ want = Seen(s) => Saved(s, want) = row
<1>1. row \in Videos /\ want \in Videos BY DEF TypeOK, Writable
<1>2. DOMAIN row = {"status", "visibility", "moderation", "hidden", "shown", "original",
                    "retention", "purging", "purged"}
  BY <1>1 DEF Videos
<1>3. \A c \in DOMAIN row : Saved(s, want)[c] = IF want[c] = Seen(s)[c] THEN row[c] ELSE want[c]
  BY DEF Saved, Seen
<1> DEFINE v == Saved(s, want)
<1>4. v = [status |-> v.status, visibility |-> v.visibility, moderation |-> v.moderation,
           hidden |-> v.hidden, shown |-> v.shown, original |-> v.original,
           retention |-> v.retention, purging |-> v.purging, purged |-> v.purged]
  BY <1>2 DEF Saved
<1>5. /\ v.status \in {row.status, want.status}
      /\ v.visibility \in {row.visibility, want.visibility}
      /\ v.moderation \in {row.moderation, want.moderation}
      /\ v.hidden \in {row.hidden, want.hidden}
      /\ v.shown \in {row.shown, want.shown}
      /\ v.original \in {row.original, want.original}
      /\ v.retention \in {row.retention, want.retention}
      /\ v.purging = row.purging
      /\ v.purged = row.purged
  BY <1>2, <1>3 DEF Writable
<1>6. \/ v.retention = row.retention
      \/ IF doing[s] \in {"approveAppeal", "restore"} THEN v.retention = "none"
         ELSE Seen(s).retention = "none" /\ v.retention = "running"
  BY <1>2, <1>3 DEF Writable, Retained
<1>7. want = Seen(s) => v = row
  <2>1. row = [c \in DOMAIN row |-> row[c]] BY <1>1 DEF Videos
  <2>2. QED BY <1>3, <2>1 DEF Saved
<1> HIDE DEF v
<1>8. v \in Videos BY <1>1, <1>4, <1>5 DEF Videos
<1>9. QED BY <1>5, <1>6, <1>7, <1>8 DEF v

\* What a request has read.
LEMMA SawVideo ==
    ASSUME TypeOK, NEW s \in Sessions, doing[s] # "idle"
    PROVE  Seen(s) \in Videos
<1>1. saw[s] # NoView /\ saw[s] \in [video : Videos, inReview : BOOLEAN] \cup {NoView}
  BY DEF TypeOK, Tasks
<1>2. QED BY <1>1 DEF Seen

LEMMA CommitsWell ==
    ASSUME TypeOK, NEW s \in Sessions, doing[s] # "idle", NEW want, Writable(s, want),
           Commits(s, want), Appealed(s), Closed(s)
    PROVE  Ended(s)
<1>1. Written(s) BY SawVideo, SavedColumns DEF Commits, Written, Writable
<1>2. QED BY <1>1 DEF Commits, Ended

LEMMA BeginsWell ==
    ASSUME NEW s \in Sessions, NEW what \in Work, Begins(s, what), MayBegin(what)
    PROVE  Began(s)
BY DEF Begins, Began

\* A plain request: no review and not about an appeal.
LEMMA RequestWell ==
    ASSUME TypeOK, NEW s \in Sessions, NEW what \in Work \ Reviews,
           what \notin {"createAppeal", "approveAppeal", "rejectAppeal"},
           NEW may, NEW want, Request(s, what, may, want),
           may => MayBegin(what), doing[s] = what => Writable(s, want)
    PROVE  Began(s) \/ Ended(s)
<1>1. CASE may /\ Begins(s, what) BY <1>1, BeginsWell
<1>2. CASE doing[s] = what /\ Commits(s, want) /\ UNCHANGED <<cases, appealed>>
  <2>1. doing[s] # "idle" BY <1>2 DEF Work, Locked, Reviews, Others
  <2>2. Appealed(s) /\ Closed(s) BY <1>2 DEF Appealed, Closed
  <2>3. QED BY <1>2, <2>1, <2>2, CommitsWell
<1>3. QED BY <1>1, <1>2 DEF Request

\* Changing a column that is not a mark keeps the marks and the type.
LEMMA Fields ==
    ASSUME NEW v \in Videos
    PROVE  /\ v.status \in {"processing", "published", "blocked", "deleted"}
           /\ v.visibility \in {"public", "private"}
           /\ v.moderation \in {"not_submitted", "pending", "approved", "rejected"}
           /\ v.original \in Standing \cup {NoStanding}
           /\ v.retention \in {"none", "running", "over"}
           /\ Retained(v) \in {"none", "running", "over"}
BY DEF Videos, Retained

-----------------------------------------------------------------------------
(* Every request begins and ends that way *)

LEMMA OwnerWell ==
    ASSUME TypeOK, NEW s \in Sessions,
           MakePublic(s) \/ MakePrivate(s) \/ Submit(s) \/ Publish(s) \/ DeleteVideo(s)
    PROVE  Began(s) \/ Ended(s)
<1> USE DEF Work, Locked, Reviews, Others
<1>1. CASE MakePublic(s)
  <2>1. CASE Begins(s, "makePublic") BY <2>1, BeginsWell DEF MayBegin
  <2>2. CASE doing[s] = "makePublic" /\ ~Begins(s, "makePublic")
    <3> DEFINE want == [Seen(s) EXCEPT !.visibility = "public",
                                       !.moderation = IF Seen(s).moderation = "approved"
                                                      THEN @ ELSE "pending"]
    <3>1. Seen(s) \in Videos BY <2>2, SawVideo
    <3>2. want \in Videos /\ want.purging = Seen(s).purging /\ want.purged = Seen(s).purged
          /\ want.retention = Seen(s).retention
      BY <3>1 DEF Videos
    <3>3. Commits(s, want) /\ cases' \in {cases, cases + 1} /\ appealed' = appealed
      BY <1>1, <2>2 DEF MakePublic
    <3> HIDE DEF want
    <3>4. Writable(s, want) BY <2>2, <3>2 DEF Writable
    <3>5. Appealed(s) /\ Closed(s) BY <2>2, <3>3 DEF Appealed, Closed
    <3>6. QED BY <2>2, <3>3, <3>4, <3>5, CommitsWell
  <2>3. QED BY <1>1, <2>1, <2>2 DEF MakePublic
<1>2. CASE MakePrivate(s)
  <2> DEFINE want == [Seen(s) EXCEPT !.visibility = "private"]
  <2>1. doing[s] = "makePrivate" => Writable(s, want)
    BY SawVideo DEF Writable, Videos
  <2>2. Request(s, "makePrivate", Found /\ row.visibility = "public", want)
    BY <1>2 DEF MakePrivate
  <2> HIDE DEF want
  <2>3. QED BY <2>1, <2>2, RequestWell DEF MayBegin
<1>3. CASE Submit(s)
  <2>1. CASE Begins(s, "submit") BY <2>1, BeginsWell DEF MayBegin
  <2>2. CASE doing[s] = "submit" /\ ~Begins(s, "submit")
    <3> DEFINE want == [Seen(s) EXCEPT !.moderation = "pending"]
    <3>1. Writable(s, want) BY <2>2, SawVideo DEF Writable, Videos
    <3>2. Commits(s, want) /\ cases' = cases + 1 /\ appealed' = appealed
      BY <1>3, <2>2 DEF Submit
    <3>3. Appealed(s) /\ Closed(s) BY <2>2, <3>2 DEF Appealed, Closed
    <3> HIDE DEF want
    <3>4. QED BY <2>2, <3>1, <3>2, <3>3, CommitsWell
  <2>3. QED BY <1>3, <2>1, <2>2 DEF Submit
<1>4. CASE Publish(s)
  <2> DEFINE want == [Seen(s) EXCEPT !.status = "published", !.shown = TRUE]
  <2>1. doing[s] = "publish" => Writable(s, want)
    BY SawVideo DEF Writable, Videos
  <2>2. Request(s, "publish",
                Found /\ ~row.hidden /\ Intact(row) /\ row.moderation = "approved", want)
    BY <1>4 DEF Publish
  <2> HIDE DEF want
  <2>3. QED BY <2>1, <2>2, RequestWell DEF MayBegin
<1>5. CASE DeleteVideo(s)
  <2> DEFINE want == [Seen(s) EXCEPT !.status = "deleted", !.retention = Retained(Seen(s))]
  <2>1. doing[s] = "delete" => Writable(s, want)
    BY SawVideo, Fields DEF Writable, Videos
  <2>2. Request(s, "delete", Found, want) BY <1>5 DEF DeleteVideo
  <2> HIDE DEF want
  <2>3. QED BY <2>1, <2>2, RequestWell DEF MayBegin
<1>6. QED BY <1>1, <1>2, <1>3, <1>4, <1>5

LEMMA DecidesWell ==
    ASSUME TypeOK, NEW s \in Sessions, NEW what \in Reviews, NEW want, Decides(s, what, want),
           doing[s] = what => Writable(s, want)
    PROVE  Began(s) \/ Ended(s)
<1> USE DEF Work, Locked, Reviews, Others
<1>1. CASE MayReview /\ Begins(s, what) BY <1>1, BeginsWell DEF MayBegin
<1>2. CASE doing[s] = what /\ Commits(s, want) /\ cases' = cases - 1 /\ UNCHANGED appealed
  <2>1. Appealed(s) /\ Closed(s) BY <1>2 DEF Appealed, Closed
  <2>2. QED BY <1>2, <2>1, CommitsWell
<1>3. QED BY <1>1, <1>2 DEF Decides

LEMMA ReportsWell ==
    ASSUME TypeOK, NEW s \in Sessions, NEW what \in {"reportHide", "reportRemove"}, NEW want,
           Reports(s, what, want),
           doing[s] = what => Writable(s, want)
    PROVE  Began(s) \/ Ended(s)
<1> USE DEF Work, Locked, Reviews, Others
<1>1. CASE row.shown /\ Begins(s, what) BY <1>1, BeginsWell DEF MayBegin
<1>2. CASE doing[s] = what /\ Commits(s, want) /\ UNCHANGED <<cases, appealed>>
  <2>1. Appealed(s) /\ Closed(s) BY <1>2 DEF Appealed, Closed
  <2>2. QED BY <1>2, <2>1, CommitsWell
<1>3. QED BY <1>1, <1>2 DEF Reports

LEMMA ModeratorWell ==
    ASSUME TypeOK, NEW s \in Sessions,
           ApproveCase(s) \/ RejectCase(s) \/ ReportHide(s) \/ ReportRemove(s)
    PROVE  Began(s) \/ Ended(s)
<1>1. CASE ApproveCase(s)
  <2> DEFINE want == [Seen(s) EXCEPT !.moderation = "approved", !.status = "published",
                                     !.shown = TRUE]
  <2>1. doing[s] = "approveCase" => Writable(s, want)
    BY SawVideo DEF Writable, Videos
  <2>2. Decides(s, "approveCase", want) BY <1>1 DEF ApproveCase
  <2> HIDE DEF want
  <2>3. QED BY <2>1, <2>2, DecidesWell DEF Reviews
<1>2. CASE RejectCase(s)
  <2> DEFINE want == [Seen(s) EXCEPT !.moderation = "rejected", !.status = "blocked",
                                     !.retention = Retained(Seen(s))]
  <2>1. doing[s] = "rejectCase" => Writable(s, want)
    BY SawVideo, Fields DEF Writable, Videos
  <2>2. Decides(s, "rejectCase", want) BY <1>2 DEF RejectCase
  <2> HIDE DEF want
  <2>3. QED BY <2>1, <2>2, DecidesWell DEF Reviews
<1>3. CASE ReportHide(s)
  <2> DEFINE want == [Seen(s) EXCEPT !.visibility = "private", !.hidden = TRUE]
  <2>1. doing[s] = "reportHide" => Writable(s, want)
    BY SawVideo DEF Writable, Videos
  <2>2. Reports(s, "reportHide", want) BY <1>3 DEF ReportHide
  <2> HIDE DEF want
  <2>3. QED BY <2>1, <2>2, ReportsWell
<1>4. CASE ReportRemove(s)
  <2> DEFINE want == [Seen(s) EXCEPT !.hidden = TRUE, !.status = "blocked",
                                     !.moderation = "rejected", !.retention = Retained(Seen(s))]
  <2>1. doing[s] = "reportRemove" => Writable(s, want)
    BY SawVideo, Fields DEF Writable, Videos
  <2>2. Reports(s, "reportRemove", want) BY <1>4 DEF ReportRemove
  <2> HIDE DEF want
  <2>3. QED BY <2>1, <2>2, ReportsWell
<1>5. QED BY <1>1, <1>2, <1>3, <1>4

LEMMA AppealWell ==
    ASSUME TypeOK, NEW s \in Sessions, CreateAppeal(s) \/ ApproveAppeal(s) \/ RejectAppeal(s)
    PROVE  Began(s) \/ Ended(s)
<1> USE DEF Work, Locked, Reviews, Others
<1>1. CASE CreateAppeal(s)
  <2>1. CASE Appealable /\ ~PurgeLocked /\ Begins(s, "createAppeal")
    BY <2>1, BeginsWell DEF Appealable, MayBegin
  <2>2. CASE /\ doing[s] = "createAppeal" /\ Commits(s, Seen(s)) /\ appealed' = TRUE
             /\ UNCHANGED cases
    <3>1. Writable(s, Seen(s)) BY <2>2, SawVideo DEF Writable
    <3>2. Appealed(s) /\ Closed(s) BY <2>2 DEF Appealed, Closed
    <3>3. QED BY <2>2, <3>1, <3>2, CommitsWell
  <2>3. QED BY <1>1, <2>1, <2>2 DEF CreateAppeal
<1>2. CASE ApproveAppeal(s)
  <2> DEFINE want == [Seen(s) EXCEPT !.hidden = FALSE, !.moderation = "approved",
                                     !.retention = "none", !.status = "published",
                                     !.shown = TRUE]
  <2>1. Resolves(s, "approveAppeal", Intact(row), want) BY <1>2 DEF ApproveAppeal
  <2>2. CASE appealed /\ ~PurgeLocked /\ Begins(s, "approveAppeal")
    BY <2>2, BeginsWell DEF MayBegin
  <2>3. CASE doing[s] = "approveAppeal" /\ Commits(s, want) /\ appealed' = FALSE
    <3>1. Writable(s, want) BY <2>3, SawVideo DEF Writable, Videos
    <3>2. cases' = cases \/ (MayReview /\ cases' = cases - 1) BY <1>2 DEF ApproveAppeal
    <3>3. Appealed(s) /\ Closed(s) BY <2>3, <3>2 DEF Appealed, Closed
    <3> HIDE DEF want
    <3>4. QED BY <2>3, <3>1, <3>3, CommitsWell
  <2> HIDE DEF want
  <2>4. QED BY <2>1, <2>2, <2>3 DEF Resolves
<1>3. CASE RejectAppeal(s)
  <2>1. CASE appealed /\ ~PurgeLocked /\ Begins(s, "rejectAppeal")
    BY <2>1, BeginsWell DEF MayBegin
  <2>2. CASE doing[s] = "rejectAppeal" /\ Commits(s, Seen(s)) /\ appealed' = FALSE
    <3>1. cases' = cases BY <1>3 DEF RejectAppeal
    <3>2. Writable(s, Seen(s)) BY <2>2, SawVideo DEF Writable
    <3>3. Appealed(s) /\ Closed(s) BY <2>2, <3>1 DEF Appealed, Closed
    <3>4. QED BY <2>2, <3>2, <3>3, CommitsWell
  <2>3. QED BY <1>3, <2>1, <2>2 DEF RejectAppeal, Resolves
<1>4. QED BY <1>1, <1>2, <1>3

\* What an administrator puts aside is what the row said.
LEMMA BlockedType ==
    ASSUME NEW v \in Videos
    PROVE  /\ Blocked(v) \in Videos
           /\ Blocked(v).purging = v.purging /\ Blocked(v).purged = v.purged
           /\ Blocked(v).retention = v.retention
<1> DEFINE o == IF v.original # NoStanding THEN v.original
                ELSE [status |-> v.status, visibility |-> v.visibility,
                      moderation |-> v.moderation]
<1>1. o \in Standing \cup {NoStanding} BY Fields DEF Standing
<1>2. Blocked(v) = [v EXCEPT !.original = o, !.hidden = TRUE, !.status = "blocked"]
  BY DEF Blocked, Videos
<1> HIDE DEF o
<1>3. QED BY <1>1, <1>2 DEF Videos

LEMMA OriginalType ==
    ASSUME NEW v \in Videos, v.original # NoStanding
    PROVE  /\ Original(v) \in Videos
           /\ Original(v).purging = v.purging /\ Original(v).purged = v.purged
           /\ Original(v).retention \in {v.retention, "none"}
<1>1. v.original \in Standing BY Fields
<1>2. /\ v.original.status \in {"processing", "published", "blocked", "deleted"}
      /\ v.original.visibility \in {"public", "private"}
      /\ v.original.moderation \in {"not_submitted", "pending", "approved", "rejected"}
  BY <1>1 DEF Standing
<1>3. QED BY <1>2 DEF Original, Videos

LEMMA AdministratorWell ==
    ASSUME TypeOK, RestoresSomething, NEW s \in Sessions, Hide(s) \/ Remove(s) \/ Restore(s)
    PROVE  Began(s) \/ Ended(s)
<1> USE DEF Work, Locked, Reviews, Others
<1>1. CASE Hide(s)
  <2>1. doing[s] = "hide" => Writable(s, Blocked(Seen(s)))
    BY SawVideo, BlockedType DEF Writable
  <2>2. Request(s, "hide", ~PurgeLocked, Blocked(Seen(s))) BY <1>1 DEF Hide
  <2>3. QED BY <2>1, <2>2, RequestWell DEF MayBegin
<1>2. CASE Remove(s)
  <2> DEFINE want == [Blocked(Seen(s)) EXCEPT !.moderation = "rejected",
                                              !.retention = Retained(Seen(s))]
  <2>1. ASSUME doing[s] = "remove" PROVE Writable(s, want)
    <3>1. /\ Blocked(Seen(s)) \in Videos /\ Retained(Seen(s)) \in {"none", "running", "over"}
          /\ Blocked(Seen(s)).purging = Seen(s).purging
          /\ Blocked(Seen(s)).purged = Seen(s).purged
      BY <2>1, SawVideo, BlockedType, Fields
    <3>2. QED BY <2>1, <3>1 DEF Videos, Writable
  <2>2. Request(s, "remove", ~PurgeLocked, want) BY <1>2 DEF Remove
  <2> HIDE DEF want
  <2>3. QED BY <2>1, <2>2, RequestWell DEF MayBegin
<1>3. CASE Restore(s)
  <2>1. doing[s] = "restore" => Writable(s, Original(Seen(s)))
    BY SawVideo, OriginalType DEF RestoresSomething, Writable
  <2>2. Request(s, "restore", ~PurgeLocked /\ row.original # NoStanding /\ Intact(row),
                Original(Seen(s)))
    BY <1>3 DEF Restore
  <2>3. QED BY <2>1, <2>2, RequestWell DEF MayBegin
<1>4. QED BY <1>1, <1>2, <1>3

LEMMA RefuseWell ==
    ASSUME TypeOK, NEW s \in Sessions, Refuse(s) PROVE Ended(s)
<1>1. Written(s) BY DEF Refuse, Written, TypeOK
<1>2. Appealed(s) /\ Closed(s) BY DEF Refuse, Appealed, Closed, Reviews
<1>3. QED BY <1>1, <1>2 DEF Refuse, Ended

LEMMA ServeWell ==
    ASSUME TypeOK, RestoresSomething, NEW s \in Sessions, Serve(s) PROVE Began(s) \/ Ended(s)
BY OwnerWell, ModeratorWell, AppealWell, AdministratorWell, RefuseWell DEF Serve

-----------------------------------------------------------------------------
(* Requests keep the invariant *)

LEMMA UnderReviewFinite == IsFiniteSet(UnderReview) /\ Cardinality(UnderReview) \in Nat
<1>1. UnderReview \subseteq Sessions BY DEF UnderReview
<1>2. QED BY <1>1, RetentionAssumption, FS_Subset, FS_CardinalityType

\* Only the lock's holder is at work where the lock is needed.
LEMMA NoneHolding ==
    ASSUME ~PurgeLocked
    PROVE  \A t \in Tasks : doing[t] \notin Locked \cup {"claiming", "deleting", "erased"}
BY DEF PurgeLocked, Holding

LEMMA BeganKeeps ==
    ASSUME RetentionInv, NEW s \in Sessions, Began(s) PROVE RetentionInv'
<1> USE DEF RetentionInv
<1>1. PICK what \in Work :
        /\ doing' = [doing EXCEPT ![s] = what]
        /\ saw' = [saw EXCEPT ![s] = [video |-> row, inReview |-> cases > 0]]
        /\ what \in Locked => ~PurgeLocked
        /\ what \in Reviews => MayReview
        /\ what = "restore" => row.original # NoStanding /\ Intact(row)
        /\ what = "createAppeal" => Intact(row) /\ ~appealed
        /\ what \in {"approveAppeal", "rejectAppeal"} => appealed
  BY DEF Began, Reads, MayBegin
<1>2. /\ UNCHANGED <<row, media, cases, appealed, faults>>
      /\ requests < MaxRequests /\ requests' = requests + 1 /\ doing[s] = "idle"
  BY DEF Began
<1>3. /\ s \in Tasks /\ s \notin Purgers /\ what # "idle"
      /\ doing'[s] = what /\ \A t \in Tasks : t # s => doing'[t] = doing[t]
      /\ saw'[s] = [video |-> row, inReview |-> cases > 0]
      /\ \A t \in Tasks : t # s => saw'[t] = saw[t]
  BY <1>1, RetentionAssumption DEF TypeOK, Tasks, Work, Locked, Reviews, Others
<1>4. TypeOK'
  <2>1. saw'[s] \in [video : Videos, inReview : BOOLEAN] /\ saw'[s] # NoView
    BY <1>3 DEF TypeOK, NoView
  <2>2. saw' \in [Tasks -> [video : Videos, inReview : BOOLEAN] \cup {NoView}]
    BY <1>1, <1>3, <2>1 DEF TypeOK
  <2>3. doing' \in [Tasks -> {"idle"} \cup Locked \cup Reviews \cup Others \cup Passes]
    BY <1>1 DEF TypeOK, Work
  <2>4. requests' \in 0..MaxRequests BY <1>2, RetentionAssumption DEF TypeOK
  <2>5. \A x \in Sessions : doing'[x] = "idle" <=> saw'[x] = NoView
    BY <1>3, <2>1 DEF TypeOK, Tasks
  <2>6. QED BY <1>2, <2>2, <2>3, <2>4, <2>5 DEF TypeOK
<1>5. Roles' BY <1>3 DEF Roles, Tasks
<1>6. RestoresSomething'
  <2>1. Seen(s)' = row BY <1>3 DEF Seen
  <2>2. \A x \in Sessions : x # s => Seen(x)' = Seen(x) BY <1>3 DEF Seen, Tasks
  <2>3. QED BY <1>1, <1>3, <2>1, <2>2 DEF RestoresSomething, Tasks
<1>7. CasesSuffice'
  <2>1. CASE what \in Reviews
    <3>1. UnderReview' = UnderReview \cup {s} BY <1>3, <2>1 DEF UnderReview, Tasks
    <3>2. s \notin UnderReview BY <1>2 DEF UnderReview, Reviews
    <3>3. Cardinality(UnderReview') = Cardinality(UnderReview) + 1
      BY <3>1, <3>2, UnderReviewFinite, FS_AddElement
    <3>4. QED BY <1>1, <1>2, <2>1, <3>3, UnderReviewFinite DEF CasesSuffice, MayReview, TypeOK
  <2>2. CASE what \notin Reviews
    <3>1. UnderReview' = UnderReview BY <1>2, <1>3, <2>2 DEF UnderReview, Reviews, Tasks
    <3>2. QED BY <1>2, <3>1 DEF CasesSuffice
  <2>3. QED BY <2>1, <2>2
<1>8. OneHolder'
  <2>1. \A t \in Tasks : Holding(t)' => (Holding(t) \/ (t = s /\ what \in Locked))
    BY <1>3 DEF Holding, Work, Locked, Reviews, Others
  <2>2. what \in Locked => \A t \in Tasks : ~Holding(t) BY <1>1 DEF PurgeLocked
  <2>3. QED BY <2>1, <2>2 DEF OneHolder
<1>9. PurgesMarked' BY <1>2, <1>3 DEF PurgesMarked, Tasks
<1>10. MarkOrAppeal'
  <2>1. \A w \in Purgers : doing'[w] = "claiming" => ~appealed'
    BY <1>2, <1>3 DEF MarkOrAppeal, Tasks
  <2>2. \A x \in Sessions : doing'[x] = "createAppeal" => ~row'.purging
    BY <1>1, <1>2, <1>3 DEF MarkOrAppeal, Tasks, Intact
  <2>3. QED BY <1>2, <2>1, <2>2 DEF MarkOrAppeal
<1>11. PeriodStands'
  <2>1. Seen(s)' = row BY <1>3 DEF Seen
  <2>2. \A x \in Sessions : x # s => Seen(x)' = Seen(x) BY <1>3 DEF Seen, Tasks
  <2>3. \A x \in Sessions : row'.retention = "over" /\ doing'[x] # "idle" =>
                              Seen(x)'.retention # "none"
    BY <1>2, <1>3, <2>1, <2>2 DEF PeriodStands, Tasks
  <2>4. \A w \in Purgers : doing'[w] = "claiming" => row'.retention = "over"
    BY <1>2, <1>3 DEF PeriodStands, Tasks
  <2>5. QED BY <1>2, <2>3, <2>4 DEF PeriodStands
<1>12. ChecksStand' BY <1>1, <1>2, <1>3 DEF ChecksStand, Intact, Tasks
<1>13. RecordedGone' BY <1>2, <1>3 DEF RecordedGone, Tasks
<1>14. QED BY <1>4, <1>5, <1>6, <1>7, <1>8, <1>9, <1>10, <1>11, <1>12, <1>13

LEMMA EndedKeeps ==
    ASSUME RetentionInv, NEW s \in Sessions, Ended(s) PROVE RetentionInv'
<1> USE DEF RetentionInv
<1>1. /\ doing[s] # "idle" /\ doing' = [doing EXCEPT ![s] = "idle"]
      /\ saw' = [saw EXCEPT ![s] = NoView]
      /\ row' \in Videos /\ row'.purging = row.purging /\ row'.purged = row.purged
      /\ appealed' \in BOOLEAN /\ (appealed' => appealed \/ doing[s] = "createAppeal")
      /\ UNCHANGED <<media, requests, faults>>
  BY DEF Ended, Ends, Written, Appealed, TypeOK
<1>2. /\ s \in Tasks /\ s \notin Purgers
      /\ doing'[s] = "idle" /\ \A t \in Tasks : t # s => doing'[t] = doing[t]
      /\ saw'[s] = NoView /\ \A t \in Tasks : t # s => saw'[t] = saw[t]
  BY <1>1, RetentionAssumption DEF TypeOK, Tasks
<1>3. cases' \in Nat /\ CasesSuffice'
  <2>1. CASE doing[s] \in Reviews /\ cases' = cases - 1
    <3>1. s \in UnderReview /\ UnderReview' = UnderReview \ {s}
      BY <1>2, <2>1 DEF UnderReview, Reviews, Tasks
    <3>2. Cardinality(UnderReview') = Cardinality(UnderReview) - 1
      BY <3>1, UnderReviewFinite, FS_RemoveElement
    <3>3. IsFiniteSet(UnderReview') BY <3>1, UnderReviewFinite, FS_RemoveElement
    <3>4. Cardinality(UnderReview') \in Nat BY <3>3, FS_CardinalityType
    <3>5. QED BY <2>1, <3>2, <3>4, UnderReviewFinite DEF CasesSuffice, TypeOK
  <2>2. CASE doing[s] \notin Reviews
    <3>1. UnderReview' = UnderReview BY <1>2, <2>2 DEF UnderReview, Reviews, Tasks
    <3>2. cases' \in {cases, cases + 1} \/ (MayReview /\ cases' = cases - 1)
      BY <2>2 DEF Ended, Closed
    <3>3. QED BY <3>1, <3>2, UnderReviewFinite DEF CasesSuffice, MayReview, TypeOK
  <2>3. QED BY <2>1, <2>2 DEF Ended, Closed
<1>4. TypeOK'
  <2>1. /\ doing' \in [Tasks -> {"idle"} \cup Locked \cup Reviews \cup Others \cup Passes]
        /\ saw' \in [Tasks -> [video : Videos, inReview : BOOLEAN] \cup {NoView}]
    BY <1>1 DEF TypeOK
  <2>2. \A x \in Sessions : doing'[x] = "idle" <=> saw'[x] = NoView
    BY <1>2 DEF TypeOK, Tasks
  <2>3. QED BY <1>1, <1>3, <2>1, <2>2 DEF TypeOK
<1>5. Roles' BY <1>2 DEF Roles, Tasks
<1>6. RestoresSomething'
  <2>1. \A x \in Sessions : x # s => Seen(x)' = Seen(x) BY <1>2 DEF Seen, Tasks
  <2>2. QED BY <1>2, <2>1 DEF RestoresSomething, Tasks
<1>7. OneHolder'
  <2>1. \A t \in Tasks : Holding(t)' => Holding(t) BY <1>2 DEF Holding, Locked
  <2>2. QED BY <2>1 DEF OneHolder
<1>8. PurgesMarked' BY <1>1, <1>2 DEF PurgesMarked, Tasks
<1>9. MarkOrAppeal'
  <2>1. row'.purging => ~appealed' BY <1>1 DEF MarkOrAppeal
  <2>2. ASSUME NEW w \in Purgers, doing'[w] = "claiming" PROVE ~appealed'
    <3>1. w # s /\ w \in Tasks /\ doing[w] = "claiming" BY <1>2, <2>2 DEF Tasks
    <3>2. doing[s] # "createAppeal" BY <1>2, <3>1 DEF OneHolder, Holding, Locked
    <3>3. QED BY <1>1, <3>1, <3>2, <2>2 DEF MarkOrAppeal
  <2>3. \A x \in Sessions : doing'[x] = "createAppeal" => ~row'.purging
    BY <1>1, <1>2 DEF MarkOrAppeal, Tasks
  <2>4. QED BY <2>1, <2>2, <2>3 DEF MarkOrAppeal
<1>10. PeriodStands'
  <2>1. ASSUME row.retention = "over", doing[s] \notin {"approveAppeal", "restore"}
        PROVE  row'.retention = "over"
    BY <1>1, <2>1 DEF Ended, Written, PeriodStands
  <2>2. ASSUME NEW w \in Purgers, doing'[w] = "claiming" PROVE row'.retention = "over"
    <3>1. w # s /\ w \in Tasks /\ doing[w] = "claiming" BY <1>2, <2>2 DEF Tasks
    <3>2. doing[s] \notin Locked BY <1>2, <3>1 DEF OneHolder, Holding
    <3>3. QED BY <2>1, <2>2, <3>1, <3>2 DEF PeriodStands, Locked
  <2>3. row'.purging => row'.retention = "over"
    BY <1>1, <2>1 DEF PeriodStands, ChecksStand, MarkOrAppeal
  <2>4. ASSUME NEW x \in Sessions, row'.retention = "over", doing'[x] # "idle"
        PROVE  Seen(x)'.retention # "none"
    <3>1. row.retention = "over" BY <2>4 DEF Ended, Written
    <3>2. x # s /\ doing[x] # "idle" /\ Seen(x)' = Seen(x) BY <1>2, <2>4 DEF Seen, Tasks
    <3>3. QED BY <3>1, <3>2 DEF PeriodStands
  <2>5. QED BY <2>2, <2>3, <2>4 DEF PeriodStands
<1>11. ChecksStand'
  <2>1. ASSUME NEW x \in Sessions, doing'[x] \in Locked PROVE appealed' = appealed
    <3>1. x # s /\ x \in Tasks /\ doing[x] \in Locked BY <1>2, <2>1 DEF Locked, Tasks
    <3>2. doing[s] \notin Locked BY <1>2, <3>1 DEF OneHolder, Holding
    <3>3. QED BY <3>2 DEF Ended, Appealed, Locked
  <2>2. \A x \in Sessions : doing'[x] # "idle" => doing'[x] = doing[x] BY <1>2 DEF Tasks
  <2>3. QED BY <1>1, <2>1, <2>2 DEF ChecksStand, Locked
<1>12. RecordedGone' BY <1>1, <1>2 DEF RecordedGone, Tasks
<1>13. QED BY <1>3, <1>4, <1>5, <1>6, <1>7, <1>8, <1>9, <1>10, <1>11, <1>12

-----------------------------------------------------------------------------
(* The purge keeps the invariant *)

\* A step of a purge that takes the lock only when it is free, marks the row before it
\* deletes anything, and marks it only when the period is over and no appeal is open.
Proceeds(w, from, what) ==
    /\ doing[w] = from /\ from \in {"idle"} \cup Passes
    /\ what \in {"idle"} \cup Passes
    /\ doing' = [doing EXCEPT ![w] = what]
    /\ UNCHANGED <<saw, cases, appealed, requests>>
    /\ faults' \in 0..MaxFaults
    /\ what \in {"claiming", "deleting", "erased"} =>
         from \in {"claiming", "deleting", "erased"} \/ ~PurgeLocked
    /\ \/ row' = row
       \/ from = "claiming" /\ row' = [row EXCEPT !.purging = TRUE]
       \/ from = "erased" /\ row' = [row EXCEPT !.purged = TRUE]
    /\ \/ media' = media
       \/ from = "deleting" /\ media' = FALSE /\ row' = row
    /\ what = "claiming" => ~appealed /\ row.retention = "over"
    /\ what = "erased" => ~media'
    /\ what \in {"claimed", "deleting", "erased"} => row'.purging

LEMMA PurgeProceeds ==
    ASSUME RetentionInv, NEW w \in Purgers, Purge(w) \/ PurgeFails(w)
    PROVE  \E from, what : Proceeds(w, from, what)
<1> USE DEF RetentionInv, Passes, Continues
<1>1. row \in Videos /\ media \in BOOLEAN /\ faults \in 0..MaxFaults BY DEF TypeOK
<1>2. CASE List(w)
  <2>1. Proceeds(w, "idle", "listed") BY <1>1, <1>2 DEF List, Proceeds
  <2>2. QED BY <2>1
<1>3. CASE Claim(w)
  <2>1. Proceeds(w, "listed", "claiming") \/ Proceeds(w, "listed", "idle")
    BY <1>1, <1>3 DEF Claim, Proceeds, Eligible
  <2>2. QED BY <2>1
<1>4. CASE CommitClaim(w)
  <2>1. row' = [row EXCEPT !.purging = TRUE] /\ row'.purging
    BY <1>1, <1>4 DEF CommitClaim, Videos
  <2>2. Proceeds(w, "claiming", "claimed") BY <1>1, <1>4, <2>1 DEF CommitClaim, Proceeds
  <2>3. QED BY <2>2
<1>5. CASE Reclaim(w)
  <2>1. row.purging BY <1>5 DEF Reclaim, PurgesMarked
  <2>2. Proceeds(w, "claimed", "deleting") \/ Proceeds(w, "claimed", "idle")
    BY <1>1, <1>5, <2>1 DEF Reclaim, Proceeds
  <2>3. QED BY <2>2
<1>6. CASE Erase(w)
  <2>1. row.purging BY <1>6 DEF Erase, PurgesMarked
  <2>2. Proceeds(w, "deleting", "erased") BY <1>1, <1>6, <2>1 DEF Erase, Proceeds
  <2>3. QED BY <2>2
<1>7. CASE CommitPurge(w)
  <2>1. Proceeds(w, "erased", "idle") BY <1>1, <1>7 DEF CommitPurge, Proceeds
  <2>2. QED BY <2>1
<1>8. CASE PurgeFails(w)
  <2>1. doing[w] \in {"idle"} \cup Passes BY DEF Roles
  <2>2. faults' \in 0..MaxFaults BY <1>1, <1>8, RetentionAssumption DEF PurgeFails
  <2>3. Proceeds(w, doing[w], "idle") BY <1>1, <1>8, <2>1, <2>2 DEF PurgeFails, Proceeds
  <2>4. QED BY <2>3
<1>9. QED BY <1>2, <1>3, <1>4, <1>5, <1>6, <1>7, <1>8 DEF Purge

LEMMA ProceedsKeeps ==
    ASSUME RetentionInv, NEW w \in Purgers, NEW from, NEW what, Proceeds(w, from, what)
    PROVE  RetentionInv'
<1> USE DEF RetentionInv
<1>1. /\ w \in Tasks /\ w \notin Sessions /\ doing[w] = from /\ doing'[w] = what
      /\ \A t \in Tasks : t # w => doing'[t] = doing[t]
  BY RetentionAssumption DEF Proceeds, TypeOK, Tasks
<1>2. /\ row' \in Videos
      /\ row.purging => row'.purging
      /\ row'.purging => row.purging \/ from = "claiming"
      /\ row'.purged => row.purged \/ from = "erased"
      /\ row'.retention = row.retention
  BY DEF Proceeds, TypeOK, Videos
<1>3. /\ UNCHANGED <<saw, cases, appealed, requests>>
      /\ faults' \in 0..MaxFaults
      /\ media' \in BOOLEAN
      /\ media' = media \/ from = "deleting"
      /\ media' => media
  <2>1. media \in BOOLEAN BY DEF TypeOK
  <2>2. CASE media' = media BY <2>1, <2>2 DEF Proceeds
  <2>3. CASE from = "deleting" /\ media' = FALSE BY <2>3 DEF Proceeds
  <2>4. QED BY <2>2, <2>3 DEF Proceeds
<1>4. TypeOK'
  <2>1. doing' \in [Tasks -> {"idle"} \cup Locked \cup Reviews \cup Others \cup Passes]
    BY DEF Proceeds, TypeOK
  <2>2. \A s \in Sessions : doing'[s] = "idle" <=> saw'[s] = NoView
    BY <1>1, <1>3 DEF TypeOK, Tasks
  <2>3. QED BY <1>2, <1>3, <2>1, <2>2 DEF TypeOK
<1>5. Roles' BY <1>1 DEF Roles, Proceeds, Tasks
<1>6. RestoresSomething' BY <1>1, <1>3 DEF RestoresSomething, Seen, Tasks
<1>7. CasesSuffice'
  <2>1. UnderReview' = UnderReview BY <1>1 DEF UnderReview, Tasks
  <2>2. QED BY <1>3, <2>1 DEF CasesSuffice
<1>8. OneHolder'
  <2>1. \A t \in Tasks : t # w => (Holding(t)' <=> Holding(t)) BY <1>1 DEF Holding
  <2>2. Holding(w)' => Holding(w) \/ ~PurgeLocked
    BY <1>1 DEF Holding, Proceeds, Passes, Locked
  <2>3. QED BY <2>1, <2>2, <1>1 DEF OneHolder, PurgeLocked
<1>9. PurgesMarked'
  <2>1. \A x \in Purgers : doing'[x] \in {"claimed", "deleting", "erased"} => row'.purging
    BY <1>1, <1>2 DEF PurgesMarked, Proceeds, Tasks
  <2>2. ~media' => row'.purging BY <1>1, <1>2, <1>3 DEF PurgesMarked
  <2>3. row'.purged => row'.purging BY <1>1, <1>2 DEF PurgesMarked
  <2>4. QED BY <2>1, <2>2, <2>3 DEF PurgesMarked
<1>10. MarkOrAppeal'
  <2>1. row'.purging => ~appealed' BY <1>1, <1>2, <1>3 DEF MarkOrAppeal
  <2>2. \A x \in Purgers : doing'[x] = "claiming" => ~appealed'
    BY <1>1, <1>3 DEF MarkOrAppeal, Proceeds, Tasks
  <2>3. ASSUME NEW s \in Sessions, doing'[s] = "createAppeal" PROVE ~row'.purging
    <3>1. s # w /\ s \in Tasks /\ doing[s] = "createAppeal" BY <1>1, <2>3 DEF Tasks
    <3>2. from # "claiming" BY <1>1, <3>1 DEF OneHolder, Holding, Locked
    <3>3. QED BY <1>2, <3>1, <3>2 DEF MarkOrAppeal
  <2>4. QED BY <2>1, <2>2, <2>3 DEF MarkOrAppeal
<1>11. PeriodStands'
  <2>1. \A x \in Purgers : doing'[x] = "claiming" => row'.retention = "over"
    BY <1>1, <1>2 DEF PeriodStands, Proceeds, Tasks
  <2>2. row'.purging => row'.retention = "over" BY <1>1, <1>2 DEF PeriodStands
  <2>3. \A x \in Sessions : row'.retention = "over" /\ doing'[x] # "idle" =>
                              Seen(x)'.retention # "none"
    BY <1>1, <1>2, <1>3 DEF PeriodStands, Seen, Tasks
  <2>4. QED BY <2>1, <2>2, <2>3 DEF PeriodStands
<1>12. ChecksStand'
  <2>1. ASSUME NEW s \in Sessions, doing'[s] = "restore" PROVE ~row'.purging
    <3>1. s # w /\ s \in Tasks /\ doing[s] = "restore" BY <1>1, <2>1 DEF Tasks
    <3>2. from # "claiming" BY <1>1, <3>1 DEF OneHolder, Holding, Locked
    <3>3. QED BY <1>2, <3>1, <3>2 DEF ChecksStand
  <2>2. QED BY <1>1, <1>3, <2>1 DEF ChecksStand, Tasks
<1>13. RecordedGone' BY <1>1, <1>2, <1>3 DEF RecordedGone, Proceeds, Tasks
<1>14. QED BY <1>4, <1>5, <1>6, <1>7, <1>8, <1>9, <1>10, <1>11, <1>12, <1>13

LEMMA LapseKeeps ==
    ASSUME RetentionInv, Lapse PROVE RetentionInv'
<1> USE DEF RetentionInv
<1>1. /\ row' = [row EXCEPT !.retention = "over"]
      /\ saw' = [t \in Tasks |-> IF saw[t] = NoView THEN NoView
                                 ELSE [saw[t] EXCEPT !.video.retention = "over"]]
      /\ UNCHANGED <<media, cases, appealed, doing, requests, faults>>
  BY DEF Lapse
<1>2. /\ row' \in Videos /\ row'.purging = row.purging /\ row'.purged = row.purged
      /\ row'.retention = "over"
  BY <1>1 DEF TypeOK, Videos
<1>3. ASSUME NEW t \in Tasks, saw[t] # NoView
      PROVE  /\ saw'[t] \in [video : Videos, inReview : BOOLEAN]
             /\ saw'[t] # NoView
             /\ saw'[t].video.original = saw[t].video.original
             /\ saw'[t].video.retention = "over"
  <2>1. saw[t] \in [video : Videos, inReview : BOOLEAN] BY <1>3 DEF TypeOK
  <2>2. saw'[t] = [saw[t] EXCEPT !.video.retention = "over"] BY <1>1, <1>3
  <2>3. [saw[t].video EXCEPT !.retention = "over"] \in Videos BY <2>1 DEF Videos
  <2>4. /\ saw'[t] = [saw[t] EXCEPT !.video = [saw[t].video EXCEPT !.retention = "over"]]
        /\ saw'[t].video = [saw[t].video EXCEPT !.retention = "over"]
    BY <2>1, <2>2
  <2>5. saw'[t] \in [video : Videos, inReview : BOOLEAN] BY <2>1, <2>3, <2>4
  <2>6. saw'[t].video.original = saw[t].video.original /\ saw'[t].video.retention = "over"
    BY <2>1, <2>4 DEF Videos
  <2>7. QED BY <2>5, <2>6 DEF NoView
<1>4. \A t \in Tasks : saw'[t] = NoView <=> saw[t] = NoView BY <1>1, <1>3
<1>5. TypeOK'
  <2>1. \A t \in Tasks : saw'[t] \in [video : Videos, inReview : BOOLEAN] \cup {NoView}
    BY <1>3, <1>4
  <2>2. saw' \in [Tasks -> [video : Videos, inReview : BOOLEAN] \cup {NoView}]
    BY <1>1, <2>1
  <2>3. \A s \in Sessions : doing'[s] = "idle" <=> saw'[s] = NoView
    BY <1>1, <1>4 DEF TypeOK, Tasks
  <2>4. QED BY <1>1, <1>2, <2>2, <2>3 DEF TypeOK
<1>6. RestoresSomething'
  <2>1. ASSUME NEW s \in Sessions, doing[s] = "restore" PROVE Seen(s)'.original # NoStanding
    <3>1. saw[s] # NoView /\ s \in Tasks BY <2>1 DEF TypeOK, Tasks
    <3>2. QED BY <1>3, <2>1, <3>1 DEF RestoresSomething, Seen
  <2>2. QED BY <1>1, <2>1 DEF RestoresSomething
<1>7. Roles' /\ CasesSuffice' /\ OneHolder' /\ PurgesMarked' /\ MarkOrAppeal'
  BY <1>1, <1>2 DEF Roles, CasesSuffice, UnderReview, OneHolder, Holding, PurgesMarked,
                     MarkOrAppeal
<1>8. PeriodStands'
  <2>1. ASSUME NEW s \in Sessions, doing[s] # "idle" PROVE Seen(s)'.retention # "none"
    <3>1. saw[s] # NoView /\ s \in Tasks BY <2>1 DEF TypeOK, Tasks
    <3>2. QED BY <1>3, <3>1 DEF Seen
  <2>2. QED BY <1>1, <1>2, <2>1 DEF PeriodStands
<1>9. ChecksStand' /\ RecordedGone' BY <1>1, <1>2 DEF ChecksStand, RecordedGone
<1>10. QED BY <1>5, <1>6, <1>7, <1>8, <1>9

-----------------------------------------------------------------------------
(* The theorems *)

LEMMA StepInv == RetentionInv /\ [Next]_vars => RetentionInv'
<1> SUFFICES ASSUME RetentionInv, [Next]_vars PROVE RetentionInv'
  OBVIOUS
<1>1. TypeOK /\ RestoresSomething BY DEF RetentionInv
<1>2. ASSUME NEW s \in Sessions, Serve(s) PROVE RetentionInv'
  BY <1>1, <1>2, ServeWell, BeganKeeps, EndedKeeps
<1>3. ASSUME NEW w \in Purgers, Purge(w) \/ PurgeFails(w) PROVE RetentionInv'
  BY <1>3, PurgeProceeds, ProceedsKeeps
<1>4. CASE UNCHANGED vars
  BY <1>4 DEF RetentionInv, TypeOK, Roles, RestoresSomething, Seen, CasesSuffice, UnderReview,
              OneHolder, Holding, PurgesMarked, MarkOrAppeal, PeriodStands, ChecksStand,
              RecordedGone, vars
<1>5. QED BY <1>2, <1>3, <1>4, LapseKeeps DEF Next

THEOREM InvariantHolds == Spec => []RetentionInv
BY InitInv, StepInv, PTL DEF Spec

\* Types of the row, of what requests have read and of the cases, for any number of tasks:
\* merging the changed columns of a request into the row yields a row again.
THEOREM TypeCorrect == Spec => []TypeOK
<1>1. RetentionInv => TypeOK BY DEF RetentionInv
<1>2. QED BY <1>1, InvariantHolds, PTL

\* While an appeal is open its media is there and no purge of it has begun.
THEOREM AppealKeepsMedia == Spec => []AppealedMediaKept
<1>1. RetentionInv => AppealedMediaKept
  BY DEF RetentionInv, PurgesMarked, MarkOrAppeal, AppealedMediaKept, Intact
<1>2. QED BY <1>1, InvariantHolds, PTL

\* What viewers may watch has its media, whatever approves, publishes or restores it.
THEOREM WatchableIsThere == Spec => []WatchableHasMedia
<1>1. RetentionInv => WatchableHasMedia
  BY DEF RetentionInv, PurgesMarked, WatchableHasMedia, Watchable, Intact
<1>2. QED BY <1>1, InvariantHolds, PTL

\* No medium is deleted before the retention period its row records is over (the period of
\* the first removal: a later one does not begin another), and a period that is over when
\* the purge is marked is never cleared again: neither merged rows nor a restoration that was
\* under way do it.
PurgedAfterPeriod == row.purging => row.retention = "over"
THEOREM PeriodHonoured == Spec => []PurgedAfterPeriod
<1>1. RetentionInv => PurgedAfterPeriod BY DEF RetentionInv, PeriodStands, PurgedAfterPeriod
<1>2. QED BY <1>1, InvariantHolds, PTL

-----------------------------------------------------------------------------
(* The refinement of MediaLifecycle *)

\* What no step of MediaLifecycle has to explain.
LEMMA UnnoticedStutters ==
    ASSUME UNCHANGED <<row, media, appealed>> PROVE UNCHANGED Lifecycle!lifecycleVars
BY DEF Lifecycle!lifecycleVars, Watchable, Intact

\* Whoever holds the lock, or asks for none, commits in one step of the lifecycle.
LEMMA EndedImplements ==
    ASSUME RetentionInv, NEW s \in Sessions, Ended(s)
    PROVE  [Lifecycle!Next]_(Lifecycle!lifecycleVars)
<1> USE DEF RetentionInv
<1>1. /\ row'.purging = row.purging /\ row'.purged = row.purged /\ media' = media
      /\ Watchable \in BOOLEAN /\ Watchable' \in BOOLEAN
      /\ row.purging \in BOOLEAN /\ (row.purging => ~Watchable')
  BY DEF Ended, Written, Watchable, Intact, TypeOK, Videos
<1>2. CASE doing[s] \in {"createAppeal", "rejectAppeal"}
  <2>1. row' = row /\ Watchable' = Watchable BY <1>2 DEF Ended, Written, Watchable, Intact
  <2>2. CASE doing[s] = "createAppeal"
    <3>1. ~appealed /\ ~row.purging /\ appealed' = TRUE
      BY <2>2 DEF Ended, Appealed, ChecksStand, MarkOrAppeal
    <3>2. Lifecycle!Appeal BY <1>1, <2>1, <3>1 DEF Lifecycle!Appeal
    <3>3. QED BY <3>2 DEF Lifecycle!Next
  <2>3. CASE doing[s] = "rejectAppeal"
    <3>1. appealed /\ appealed' = FALSE BY <2>3 DEF Ended, Appealed, ChecksStand
    <3>2. Lifecycle!Reject BY <1>1, <2>1, <3>1 DEF Lifecycle!Reject
    <3>3. QED BY <3>2 DEF Lifecycle!Next
  <2>4. QED BY <1>2, <2>2, <2>3
<1>3. CASE doing[s] \in {"approveAppeal", "restore"}
  <2>1. ~row.purging /\ row'.retention \in {row.retention, "none"}
    <3>1. doing[s] = "approveAppeal" => appealed BY DEF ChecksStand
    <3>2. ~row.purging BY <1>3, <3>1 DEF ChecksStand, MarkOrAppeal
    <3>3. row'.retention = row.retention \/ row'.retention = "none"
      BY <1>3 DEF Ended, Written
    <3>4. QED BY <3>2, <3>3
  <2>2. Lifecycle!Brought BY <1>1, <2>1 DEF Lifecycle!Brought
  <2>3. CASE doing[s] = "approveAppeal"
    <3>1. appealed /\ appealed' = FALSE BY <2>3 DEF Ended, Appealed, ChecksStand
    <3>2. Lifecycle!Approve BY <2>2, <3>1 DEF Lifecycle!Approve
    <3>3. QED BY <3>2 DEF Lifecycle!Next
  <2>4. CASE doing[s] = "restore"
    <3>1. appealed' = appealed BY <2>4 DEF Ended, Appealed
    <3>2. Lifecycle!Restore BY <2>2, <3>1 DEF Lifecycle!Restore
    <3>3. QED BY <3>2 DEF Lifecycle!Next
  <2>5. QED BY <1>3, <2>3, <2>4
<1>4. CASE doing[s] \notin {"createAppeal", "rejectAppeal", "approveAppeal", "restore"}
  <2>1. appealed' = appealed BY <1>4 DEF Ended, Appealed
  <2>2. row'.retention = row.retention \/ (row.retention = "none" /\ row'.retention = "running")
    <3>1. row.retention \in {"none", "running", "over"} BY DEF TypeOK, Videos
    <3>2. Seen(s).retention = "none" => row.retention # "over" BY DEF Ended, PeriodStands
    <3>3. QED BY <1>4, <3>1, <3>2 DEF Ended, Written
  <2>3. Watchable' \in {FALSE, ~row.purging} BY <1>1
  <2>4. Lifecycle!Edit BY <1>1, <2>1, <2>2, <2>3 DEF Lifecycle!Edit
  <2>5. QED BY <2>4 DEF Lifecycle!Next
<1>5. QED BY <1>2, <1>3, <1>4

\* A request that only begins is not noticed.
LEMMA ServeImplements ==
    ASSUME RetentionInv, NEW s \in Sessions, Serve(s)
    PROVE  [Lifecycle!Next]_(Lifecycle!lifecycleVars)
<1>1. CASE Began(s) BY <1>1, UnnoticedStutters DEF Began
<1>2. CASE Ended(s) BY <1>2, EndedImplements
<1>3. QED BY <1>1, <1>2, ServeWell DEF RetentionInv

\* Of a purge, its mark, the deletion and the record are noticed.
LEMMA PurgeImplements ==
    ASSUME RetentionInv, NEW w \in Purgers, Purge(w) \/ PurgeFails(w)
    PROVE  [Lifecycle!Next]_(Lifecycle!lifecycleVars)
<1> USE DEF RetentionInv
<1>1. PICK from, what : Proceeds(w, from, what) BY PurgeProceeds
<1>2. appealed' = appealed /\ row \in Videos BY <1>1 DEF Proceeds, TypeOK
<1>3. CASE row' = row /\ media' = media BY <1>2, <1>3, UnnoticedStutters
<1>4. CASE from = "claiming" /\ row' = [row EXCEPT !.purging = TRUE]
  <2>1. /\ row'.purging = TRUE /\ row'.purged = row.purged /\ row'.retention = row.retention
        /\ Watchable' = FALSE
    BY <1>2, <1>4 DEF Videos, Watchable, Intact
  <2>2. row.retention = "over" /\ ~appealed
    BY <1>1, <1>4 DEF Proceeds, PeriodStands, MarkOrAppeal
  <2>3. media' = media BY <1>1, <1>4 DEF Proceeds
  <2>4. Lifecycle!Mark BY <1>2, <2>1, <2>2, <2>3 DEF Lifecycle!Mark
  <2>5. QED BY <2>4 DEF Lifecycle!Next
<1>5. CASE from = "deleting" /\ media' = FALSE /\ row' = row
  <2>1. row.purging /\ ~appealed BY <1>1, <1>5 DEF Proceeds, PurgesMarked, MarkOrAppeal
  <2>2. Watchable' = Watchable BY <1>5 DEF Watchable, Intact
  <2>3. Lifecycle!Erase BY <1>2, <1>5, <2>1, <2>2 DEF Lifecycle!Erase
  <2>4. QED BY <2>3 DEF Lifecycle!Next
<1>6. CASE from = "erased" /\ row' = [row EXCEPT !.purged = TRUE]
  <2>1. /\ row'.purged = TRUE /\ row'.purging = row.purging /\ row'.retention = row.retention
    BY <1>2, <1>6 DEF Videos
  <2>2. ~media /\ row.purging BY <1>1, <1>6 DEF Proceeds, RecordedGone, PurgesMarked
  <2>3. Watchable = FALSE /\ Watchable' = FALSE BY <2>1, <2>2 DEF Watchable, Intact
  <2>4. media' = media BY <1>1, <1>6 DEF Proceeds
  <2>5. Lifecycle!Record BY <1>2, <2>1, <2>2, <2>3, <2>4 DEF Lifecycle!Record
  <2>6. QED BY <2>5 DEF Lifecycle!Next
<1>7. QED BY <1>1, <1>3, <1>4, <1>5, <1>6 DEF Proceeds

LEMMA LapseImplements ==
    ASSUME RetentionInv, Lapse PROVE Lifecycle!Lapse
<1>1. row' = [row EXCEPT !.retention = "over"] /\ media' = media /\ appealed' = appealed
  BY DEF Lapse
<1>2. /\ row'.retention = "over"
      /\ \A c \in {"status", "hidden", "purging", "purged"} : row'[c] = row[c]
  BY <1>1 DEF RetentionInv, TypeOK, Videos
<1>3. /\ row'.status = row.status /\ row'.hidden = row.hidden
      /\ row'.purging = row.purging /\ row'.purged = row.purged
  BY <1>2
<1>4. Watchable' = Watchable BY <1>3 DEF Watchable, Intact
<1>5. QED BY <1>1, <1>2, <1>3, <1>4 DEF Lapse, Lifecycle!Lapse

\* Requests that merge their columns into a newer row, purges in two transactions, failed and
\* repeated passes: each step is one of MediaLifecycle or none, for any number of tasks.
THEOREM RetentionImplementsLifecycle == Spec => ImplementsLifecycle
<1>1. Init => Lifecycle!Init
  BY DEF Init, Lifecycle!Init, Watchable
<1>2. RetentionInv /\ [Next]_vars => [Lifecycle!Next]_(Lifecycle!lifecycleVars)
  <2> SUFFICES ASSUME RetentionInv, [Next]_vars
               PROVE  [Lifecycle!Next]_(Lifecycle!lifecycleVars)
    OBVIOUS
  <2>1. CASE UNCHANGED vars BY <2>1, UnnoticedStutters DEF vars
  <2>2. CASE Lapse BY <2>2, LapseImplements DEF Lifecycle!Next
  <2>3. QED BY <2>1, <2>2, ServeImplements, PurgeImplements DEF Next
<1>3. QED BY <1>1, <1>2, InvariantHolds, PTL DEF Spec, ImplementsLifecycle, Lifecycle!Spec

=============================================================================
