--------------------------- MODULE AutoDeployProofs ---------------------------
(***************************************************************************)
(* For any number of revisions, raises, kills, re-runs and retries: the    *)
(* images of every recovery are kept, releases run with their own          *)
(* configuration on a schema that is not behind them, what state.json      *)
(* records is what runs, and a failed revision is not activated again.     *)
(***************************************************************************)
EXTENDS AutoDeploy, TLAPS

\* A run between the choice of its candidate and the activation.
Choosing == {"preflight", "snapshot"}
Preparing == {"checkout", "pull", "prepare", "recheck", "activate"}
\* A run whose release answers for the candidate, and one that goes back.
Replaced == {"verify", "tag", "commit"}
GoingBack == {"rollback", "verify_back", "tag_back", "quarantine"}

\* No run of CI without a re-run but the first; nothing is pending before the
\* checkpoint; the phase of the checkpoint says how far the run is.
PhasesFit ==
    /\ \A r \in Revs : ciRun[r] <= reruns + 1
    /\ p.pc \in Choosing \cup {"clean"} => disk.pending = None
    /\ p.pc = "eligible" => disk.pending = None
    /\ p.pc \in Choosing => p.sha \in Revs /\ p.sha <= tip
    /\ p.pc \in {"checkout", "pull", "prepare", "recheck"} => Phase = "pull"
    /\ p.pc \in {"activate"} \cup Replaced => Phase = "activate"
    /\ p.pc = "snapshot" => running.img # Broken
    /\ disk.pending # None => disk.pending.sha <= tip

TypeInv == TypeOK /\ PhasesFit

\* Revisions are deployed in order, and a migration comes before its release.
SchemaInOrder ==
    /\ running.img <= schema /\ schema <= tip
    /\ disk.pending # None => Snap.img <= schema
    /\ p.pc \in Choosing \cup {"checkout", "pull", "prepare"} => schema <= p.sha
    /\ p.pc \in {"recheck", "activate"} => schema = p.sha

\* Which release the containers are of, by the phase of the checkpoint and the
\* place in the run.
ReleaseKnown ==
    /\ disk.pending = None /\ trail = "kept" => running.img # Broken
    /\ disk.pending # None /\ Phase = "pull" =>
           running.img = Snap.img \/ (trail = "lost" /\ running.img = Broken)
    /\ p.pc \in Replaced => running = New
    /\ p.pc \in {"verify_back", "tag_back"} => running = Old
    /\ p.pc = "quarantine" /\ Phase = "activate" => running = Old /\ default = Snap.img
    /\ p.pc = "commit" => default = p.sha

\* The recorded release is the one that runs, or the one a checkpoint goes back to.
RecordKept ==
    disk.sha # NoRev /\ trail = "kept" =>
        /\ disk.pending = None => running.img = disk.sha /\ default = disk.sha
        /\ disk.pending # None => Snap.img = disk.sha
        /\ disk.pending # None /\ Phase = "pull" => default = disk.sha

\* Where the configuration of a release can be found.
ConfigKnown ==
    /\ ConfigFitsImages
    /\ disk.pending # None => Snap.conf = Snap.img /\ disk.baseline = Snap
    /\ running.img # Broken /\ running.repo =>
           \/ checkout = running.img
           \/ disk.baseline # None /\ disk.baseline.img = running.img
    /\ p.pc \in {"pull", "prepare", "recheck", "activate"} \cup Replaced => checkout = p.sha

\* The images a run needs next are there too.
ImagesKept ==
    /\ RecoveryImagesKept
    /\ p.pc \in {"prepare", "recheck", "activate"} \cup Replaced => p.sha \in stored

\* Activations are spent one by one: a revision is chosen before its first one, or
\* by a retry whose activation is still to come.
Fresh(r) == activated[r] = 0
Tried(r) ==
    \/ disk.sha = r \/ disk.failed = r
    \/ disk.pending # None /\ disk.pending.sha = r /\ Phase = "activate"

YetToActivate ==
    \/ p.pc \in {"eligible"} \cup Choosing \cup Preparing
    \/ p.pc \in GoingBack /\ p.recovering

ActivationsSpent ==
    /\ \A r \in Revs : activated[r] <= 1 + retries
    /\ \A r \in Revs : r > tip => Fresh(r)
    /\ Fresh(tip) \/ Tried(tip)
    /\ disk.pending # None => \A r \in Revs : r > disk.pending.sha => Fresh(r)
    /\ p.pc \in Choosing => \A r \in Revs : r > p.sha => Fresh(r)
    /\ p.pc \in Choosing \cup Preparing /\ ~p.retry => Fresh(p.sha)
    /\ p.retry /\ YetToActivate =>
           \A r \in Revs : activated[r] <= retries
    /\ p.recovering => p.pc \in {"eligible"} \cup GoingBack

-----------------------------------------------------------------------------
(* Types *)

LEMMA Constants ==
    /\ None \notin Snapshots /\ None \notin Pending
    /\ MaxRev \in Nat /\ MaxTrouble \in Nat /\ MaxReruns \in Nat /\ MaxRetries \in Nat
    /\ 0 \in Revs /\ Revs \subseteq Nat /\ Idle \in Processes
    /\ Broken \notin Revs /\ NoRev \notin Revs
BY DeployAssumption, NoneAssumption DEF Revs, Idle, Processes, Pcs, Quiet, Broken, NoRev

LEMMA NextRevision ==
    ASSUME NEW r \in Revs, r < MaxRev PROVE r \in Nat /\ r + 1 \in Revs
BY DeployAssumption DEF Revs

LEMMA InitTypes == Init => TypeInv
BY Constants, DeployAssumption
   DEF Init, TypeInv, TypeOK, PhasesFit, Releases, States, Idle, Choosing, Replaced, Quiet

\* A step to another place of the run, and its end.
LEMMA GoesOn ==
    ASSUME p \in Processes, NEW pc \in Pcs, Goto(pc)
    PROVE  /\ p' \in Processes /\ p'.pc = pc /\ p'.sha = p.sha /\ p'.run = p.run
           /\ p'.retry = p.retry /\ p'.recovering = p.recovering
BY DEF Processes, Goto

LEMMA Ends ==
    ASSUME p' = Idle
    PROVE  /\ p' \in Processes /\ p'.pc = "idle" /\ p'.sha = NoRev
           /\ p'.retry = FALSE /\ p'.recovering = FALSE
BY Constants DEF Idle

LEMMA FailsTo ==
    ASSUME p \in Processes, Fail
    PROVE  /\ p' \in Processes /\ p'.sha = p.sha /\ p'.run = p.run
           /\ p'.retry = p.retry /\ p'.recovering = p.recovering
           /\ p'.pc = IF Phase = "activate" THEN "rollback" ELSE "quarantine"
<1>1. "rollback" \in Pcs /\ "quarantine" \in Pcs BY DEF Pcs
<1>2. QED BY <1>1, GoesOn DEF Fail

\* The checkpoint and the snapshots.
LEMMA Checkpoint ==
    ASSUME disk \in States
    PROVE  /\ disk.pending # None => /\ disk.pending \in Pending /\ Snap \in Snapshots
                                     /\ disk.pending.sha \in Revs
                                     /\ Phase \in {"pull", "activate"}
                                     /\ Snap.img \in Revs /\ Snap.conf \in Revs
           /\ disk.baseline # None => /\ disk.baseline \in Snapshots
                                      /\ disk.baseline.img \in Revs
                                      /\ disk.baseline.conf \in Revs
           /\ disk.rollback # None => disk.rollback \in Snapshots /\ disk.rollback.img \in Revs
BY DEF States, Pending, Snapshots, Snap, Phase

LEMMA StepTypes == TypeInv /\ [Next]_vars => TypeInv'
<1> SUFFICES ASSUME TypeInv, [Next]_vars PROVE TypeInv'
  OBVIOUS
<1> USE Constants
<1> USE DEF TypeInv, TypeOK, PhasesFit, Quiet, Choosing, Replaced, github, host, Phase, At
<1>0. disk.pending # None => disk.pending \in Pending /\ disk.pending.sha \in Revs
  BY Checkpoint
<1>1. CASE Push
  <2>1. tip' = tip + 1 /\ tip < MaxRev BY <1>1 DEF Push
  <2>2. tip \in Nat /\ tip' \in Revs BY <2>1, NextRevision
  <2>3. \A r \in Revs : r <= tip => r <= tip' BY <2>1, <2>2 DEF Revs
  <2>4. QED BY <1>0, <1>1, <2>2, <2>3 DEF Push
<1>2. CASE StartChecks
  <2>1. ciRun[tip] > 0 => reruns + 1 \in 0..MaxReruns /\ reruns' = reruns + 1
    BY <1>2 DEF StartChecks
  <2>2. ciRun[tip] = 0 => reruns' = reruns BY <1>2 DEF StartChecks
  <2>3. ciRun[tip] + 1 <= reruns' + 1 /\ reruns' \in 0..MaxReruns /\ reruns <= reruns'
    BY <2>1, <2>2
  <2>4. ciRun' \in [Revs -> 0..(MaxReruns + 1)] BY <1>2, <2>3 DEF StartChecks
  <2>5. \A r \in Revs : ciRun'[r] <= reruns' + 1 BY <1>2, <2>3 DEF StartChecks
  <2>6. checks' \in [Revs -> {"waiting", "success", "failure"}] BY <1>2 DEF StartChecks
  <2>7. QED BY <1>2, <2>3, <2>4, <2>5, <2>6 DEF StartChecks
<1>3. ASSUME NEW result \in {"success", "failure"}, FinishChecks(result) PROVE TypeInv'
  BY <1>3 DEF FinishChecks
<1>4. ASSUME NEW retry \in BOOLEAN, Start(retry) PROVE TypeInv'
  <2>1. retries' \in 0..MaxRetries BY <1>4 DEF Start
  <2>2. /\ p' \in Processes
        /\ p'.sha = IF disk.pending = None THEN NoRev ELSE disk.pending.sha
        /\ disk.pending = None => p'.pc = "eligible"
        /\ disk.pending # None => \/ p'.pc = "rollback" /\ Phase = "activate"
                                  \/ p'.pc = "quarantine"
    BY <1>0, <1>4 DEF Start, Processes, Pcs
  <2>3. QED BY <1>4, <2>1, <2>2 DEF Start
<1>5. CASE CleanupOnly
  BY <1>5 DEF CleanupOnly, CleanupStorage
<1>6. CASE Kill
  BY <1>6, Ends DEF Kill, Raises
<1>7. CASE Check
  <2>1. CASE p' = Idle BY <1>7, <2>1, Ends DEF Check
  <2>2. CASE p' # Idle
    <3>1. p' \in Processes /\ p'.pc = "preflight" /\ p'.sha = tip
      BY <1>7, <2>2 DEF Check, Processes, Pcs
    <3>2. tip \in Nat OBVIOUS
    <3>3. QED BY <1>7, <3>1, <3>2 DEF Check
  <2>3. QED BY <2>1, <2>2
<1>8. CASE Preflight
  <2>1. trouble' \in 0..MaxTrouble BY <1>8 DEF Preflight, Raises, Returns
  <2>2. CleanupStorage \/ UNCHANGED stored BY <1>8 DEF Preflight
  <2>3. stored' \subseteq Revs BY <2>2 DEF CleanupStorage
  <2>4. CASE p' = Idle BY <1>8, <2>1, <2>3, <2>4, Ends DEF Preflight
  <2>5. CASE Goto("snapshot") /\ CleanupAllowed
    <3>1. "snapshot" \in Pcs BY DEF Pcs
    <3>2. QED BY <1>8, <2>1, <2>3, <2>5, <3>1, GoesOn DEF Preflight, CleanupAllowed
  <2>6. QED BY <1>8, <2>4, <2>5 DEF Preflight, CleanupStorage
<1>9. CASE TakeSnapshot
  <2> DEFINE snap == [img |-> running.img, conf |-> ActiveConf]
  <2>1. CASE p' = Idle /\ Raises /\ UNCHANGED disk
    BY <1>9, <2>1, Ends DEF TakeSnapshot, Raises
  <2>2. CASE /\ disk' = [disk EXCEPT !.baseline = snap,
                             !.pending = [sha |-> p.sha, phase |-> "pull", snap |-> snap]]
             /\ Goto("checkout") /\ Returns
    <3>1. running.img \in Revs BY <1>9 DEF TakeSnapshot, Releases
    <3>2. ActiveConf \in Revs BY Checkpoint DEF ActiveConf, Releases
    <3>3. snap \in Snapshots BY <3>1, <3>2 DEF Snapshots
    <3> HIDE DEF snap
    <3>4. [sha |-> p.sha, phase |-> "pull", snap |-> snap] \in Pending
      BY <1>9, <3>3 DEF TakeSnapshot, Pending
    <3>5. disk' \in States /\ disk'.pending = [sha |-> p.sha, phase |-> "pull",
         snap |-> snap]
      BY <2>2, <3>3, <3>4 DEF States
    <3>6. /\ p' \in Processes /\ p'.pc = "checkout" /\ p'.sha = p.sha
      BY <2>2, GoesOn DEF Pcs
    <3>7. QED BY <1>9, <2>2, <3>4, <3>5, <3>6 DEF TakeSnapshot, Returns
  <2>3. QED BY <1>9, <2>1, <2>2 DEF TakeSnapshot
<1>10. CASE UpdateCheckout
  BY <1>10 DEF UpdateCheckout, Fail, Goto, Raises, Returns, Processes, Pcs, States, Pending
<1>11. CASE PullImages
  BY <1>11 DEF PullImages, Fail, Goto, Raises, Returns, Processes, Pcs, States, Pending
<1>12. CASE Prepare
  BY <1>12 DEF Prepare, Fail, Goto, Raises, Returns, Processes, Pcs, States, Pending
<1>13. CASE Recheck
  <2>1. CASE SavePhase /\ (Goto("activate") \/ Goto("rollback"))
    <3>1. disk.pending # None BY <1>13 DEF Recheck
    <3>2. /\ disk' \in States /\ disk'.pending # None
          /\ disk'.pending.sha = disk.pending.sha /\ disk'.pending.phase = "activate"
      BY <1>0, <2>1, <3>1 DEF SavePhase, States, Pending
    <3>3. p' \in Processes /\ p'.pc \in {"activate", "rollback"} /\ p'.sha = p.sha
      BY <2>1, GoesOn DEF Pcs
    <3>4. trouble' \in 0..MaxTrouble BY <1>13 DEF Recheck, Raises, Returns
    <3>5. QED BY <1>13, <2>1, <3>2, <3>3, <3>4 DEF Recheck
  <2>2. CASE disk' = [disk EXCEPT !.pending = None] /\ p' = Idle /\ Returns
    <3>1. disk' \in States /\ disk'.pending = None BY <2>2 DEF States
    <3>2. QED BY <1>13, <2>2, <3>1, Ends DEF Recheck, Returns
  <2>3. CASE Raises /\ Fail /\ UNCHANGED disk
    BY <1>13, <2>3, FailsTo DEF Recheck, Raises
  <2>4. CASE Raises /\ Goto("rollback") /\ UNCHANGED disk
    BY <1>13, <2>4, GoesOn DEF Recheck, Raises, Pcs
  <2>5. QED BY <1>13, <2>1, <2>2, <2>3, <2>4 DEF Recheck
<1>14. CASE Activate
  <2>1. p.sha \in Revs BY <1>0, <1>14 DEF Activate
  <2>2. New \in Releases /\ Torn(New) \in Releases BY <2>1 DEF New, Torn, Releases
  <2>3. running' \in Releases BY <1>14, <2>2 DEF Activate
  <2>4. activated' \in [Revs -> Nat]
    <3>1. activated[p.sha] \in Nat BY <2>1
    <3>2. activated[p.sha] + 1 \in Nat BY <3>1
    <3>3. QED BY <1>14, <3>2 DEF Activate
  <2>5. trouble' \in 0..MaxTrouble BY <1>14 DEF Activate, Raises, Returns
  <2>6. CASE Goto("verify") BY <1>14, <2>3, <2>4, <2>5, <2>6, GoesOn DEF Activate, Pcs
  <2>7. CASE Fail BY <1>14, <2>3, <2>4, <2>5, <2>7, FailsTo DEF Activate
  <2>8. QED BY <1>14, <2>6, <2>7 DEF Activate
<1>15. ASSUME NEW healthy \in BOOLEAN, Verify(healthy) PROVE TypeInv'
  BY <1>15 DEF Verify, Fail, Goto, Processes, Pcs
<1>16. CASE TagDefault
  BY <1>16 DEF TagDefault, Fail, Goto, Raises, Returns, Processes, Pcs, States, Pending
<1>17. CASE Commit
  BY <1>17 DEF Commit, Snap, Goto, Processes, Pcs, States, Pending
<1>18. CASE CleanAfter
  BY <1>18, Ends DEF CleanAfter, CleanupStorage
<1>19. CASE Rollback
  <2>1. Snap \in Snapshots /\ Snap.img \in Revs /\ Snap.conf \in Revs
    BY <1>19, Checkpoint DEF Rollback
  <2>2. Old \in Releases /\ Torn(Old) \in Releases BY <2>1 DEF Old, Torn, Releases
  <2>3. running' \in Releases /\ trail' \in {"kept", "lost"}
    BY <1>19, <2>2 DEF Rollback, CutShort
  <2>4. trouble' \in 0..MaxTrouble BY <1>19 DEF Rollback, CutShort, Raises, Returns
  <2>5. CASE p' = Idle BY <1>19, <2>3, <2>4, <2>5, Ends DEF Rollback, CutShort
  <2>6. CASE Goto("verify_back")
    BY <1>19, <2>3, <2>4, <2>6, GoesOn DEF Rollback, Pcs
  <2>7. QED BY <1>19, <2>5, <2>6 DEF Rollback, CutShort
<1>20. CASE VerifyBack
  <2>1. trouble' \in 0..MaxTrouble BY <1>20 DEF VerifyBack, Raises, Returns
  <2>2. CASE p' = Idle BY <1>20, <2>1, <2>2, Ends DEF VerifyBack
  <2>3. CASE Goto("tag_back") BY <1>20, <2>1, <2>3, GoesOn DEF VerifyBack, Pcs
  <2>4. QED BY <1>20, <2>2, <2>3 DEF VerifyBack
<1>21. CASE TagBack
  <2>1. Snap.img \in Revs BY <1>21, Checkpoint DEF TagBack
  <2>2. /\ default' \in Revs \cup {Broken} /\ trouble' \in 0..MaxTrouble
        /\ trail' \in {"kept", "lost"}
    BY <1>21, <2>1 DEF TagBack, CutShort, Raises, Returns
  <2>3. CASE p' = Idle BY <1>21, <2>2, <2>3, Ends DEF TagBack
  <2>4. CASE Goto("quarantine") BY <1>21, <2>2, <2>4, GoesOn DEF TagBack, Pcs
  <2>5. QED BY <1>21, <2>3, <2>4 DEF TagBack, CutShort
<1>22. CASE Quarantine
  BY <1>22 DEF Quarantine, Snap, Idle, Processes, Pcs, States, Pending, Snapshots
<1>23. CASE UNCHANGED vars
  BY <1>23 DEF vars
<1>24. QED
  BY <1>1, <1>2, <1>3, <1>4, <1>5, <1>6, <1>7, <1>8, <1>9, <1>10, <1>11, <1>12, <1>13,
     <1>14, <1>15, <1>16, <1>17, <1>18, <1>19, <1>20, <1>21, <1>22, <1>23 DEF Next, Step

-----------------------------------------------------------------------------
(* What the steps with several outcomes leave behind, field by field *)

Same == p'.sha = p.sha /\ p'.retry = p.retry /\ p'.recovering = p.recovering
AtEnd == p'.pc = "idle" /\ p'.recovering = FALSE /\ p'.retry = FALSE

LEMMA PreflightEffect ==
    ASSUME TypeInv, Preflight
    PROVE  /\ p.pc = "preflight"
           /\ UNCHANGED <<tip, running, checkout, schema, default, disk, retries, activated, trail>>
           /\ stored' = stored \/ (CleanupAllowed /\ stored \cap Protected \subseteq stored')
           /\ AtEnd \/ (p'.pc = "snapshot" /\ Same /\ CleanupAllowed)
<1>1. p.pc = "preflight" BY DEF Preflight, At
<1>2. UNCHANGED <<tip, running, checkout, schema, default, disk, retries, activated, trail>>
  BY DEF Preflight, github
<1>3. stored' = stored \/ (CleanupAllowed /\ stored \cap Protected \subseteq stored')
  BY DEF Preflight, CleanupStorage
<1>4. p' = Idle => AtEnd BY Ends DEF AtEnd
<1>5. Goto("snapshot") => p'.pc = "snapshot" /\ Same
  <2>1. "snapshot" \in Pcs BY DEF Pcs, Quiet
  <2>2. QED BY <2>1, GoesOn DEF Same, TypeInv, TypeOK
<1>6. CleanupStorage => CleanupAllowed BY DEF CleanupStorage
<1>7. p' = Idle \/ (Goto("snapshot") /\ CleanupAllowed) BY <1>6 DEF Preflight
<1>8. QED BY <1>1, <1>2, <1>3, <1>4, <1>5, <1>7

LEMMA SnapshotEffect ==
    ASSUME TypeInv, TakeSnapshot
    PROVE  /\ p.pc = "snapshot"
           /\ UNCHANGED <<tip, running, checkout, schema, stored, default, retries, activated, trail>>
           /\ \/ AtEnd /\ disk' = disk
              \/ /\ p'.pc = "checkout" /\ Same
                 /\ disk'.sha = disk.sha /\ disk'.failed = disk.failed
                 /\ disk'.rollback = disk.rollback
                 /\ disk'.baseline = disk'.pending.snap
                 /\ disk'.pending # None /\ disk'.baseline # None
                 /\ disk'.pending.sha = p.sha /\ disk'.pending.phase = "pull"
                 /\ disk'.pending.snap.img = running.img
                 /\ disk'.pending.snap.conf = ActiveConf
<1> DEFINE snap == [img |-> running.img, conf |-> ActiveConf]
           mark == [sha |-> p.sha, phase |-> "pull", snap |-> snap]
<1>1. p.pc = "snapshot" BY DEF TakeSnapshot, At
<1>2. UNCHANGED <<tip, running, checkout, schema, stored, default, retries, activated, trail>>
  BY DEF TakeSnapshot, github, host
<1>3. CASE p' = Idle /\ UNCHANGED disk BY <1>1, <1>2, <1>3, Ends DEF AtEnd
<1>4. CASE disk' = [disk EXCEPT !.baseline = snap, !.pending = mark] /\ Goto("checkout")
  <2>1. running.img \in Revs
    BY <1>1 DEF TypeInv, TypeOK, PhasesFit, Releases
  <2>2. ActiveConf \in Revs
    BY Checkpoint DEF ActiveConf, Releases, TypeInv, TypeOK
  <2>3. snap \in Snapshots /\ snap # None BY <2>1, <2>2, Constants DEF Snapshots
  <2>4. snap.img = running.img /\ snap.conf = ActiveConf OBVIOUS
  <2> HIDE DEF snap
  <2>5. mark \in Pending /\ mark # None
    BY <1>1, <2>3, Constants DEF Pending, TypeInv, TypeOK, PhasesFit, Choosing
  <2>6. mark.sha = p.sha /\ mark.phase = "pull" /\ mark.snap = snap OBVIOUS
  <2> HIDE DEF mark
  <2>7. /\ disk'.sha = disk.sha /\ disk'.failed = disk.failed
        /\ disk'.rollback = disk.rollback /\ disk'.baseline = snap /\ disk'.pending = mark
    BY <1>4 DEF TypeInv, TypeOK, States
  <2>8. p'.pc = "checkout" /\ Same BY <1>4, GoesOn DEF Same, Pcs, TypeInv, TypeOK
  <2>9. QED BY <1>1, <1>2, <2>3, <2>4, <2>5, <2>6, <2>7, <2>8
<1>5. QED BY <1>3, <1>4 DEF TakeSnapshot

LEMMA RecheckEffect ==
    ASSUME TypeInv, Recheck
    PROVE  /\ p.pc = "recheck"
           /\ UNCHANGED <<tip, running, checkout, schema, stored, default, retries, activated, trail>>
           /\ \/ p'.pc \in {"quarantine", "rollback"} /\ Same /\ disk' = disk
              \/ /\ AtEnd \/ (p'.pc \in {"activate", "rollback"} /\ Same)
                 /\ disk'.sha = disk.sha /\ disk'.failed = disk.failed
                 /\ disk'.rollback = disk.rollback /\ disk'.baseline = disk.baseline
                 /\ p'.pc = "idle" => disk'.pending = None
                 /\ p'.pc \in {"activate", "rollback"} =>
                        /\ disk'.pending # None /\ disk'.pending.sha = disk.pending.sha
                        /\ disk'.pending.phase = "activate"
                        /\ disk'.pending.snap = disk.pending.snap
<1>1. p.pc = "recheck" /\ disk.pending # None /\ Phase = "pull"
  BY DEF Recheck, At, TypeInv, TypeOK, PhasesFit, Quiet
<1>2. UNCHANGED <<tip, running, checkout, schema, stored, default, retries, activated, trail>>
  BY DEF Recheck, github, host
<1>3. CASE SavePhase /\ (Goto("activate") \/ Goto("rollback"))
  <2>1. disk.pending \in Pending BY <1>1, Checkpoint DEF TypeInv, TypeOK
  <2> DEFINE mark == [disk.pending EXCEPT !.phase = "activate"]
  <2>2. mark \in Pending /\ mark # None BY <2>1, Constants DEF Pending
  <2>3. /\ mark.sha = disk.pending.sha /\ mark.phase = "activate"
        /\ mark.snap = disk.pending.snap
    BY <2>1 DEF Pending
  <2>4. disk' = [disk EXCEPT !.pending = mark] BY <1>3 DEF SavePhase, TypeInv, TypeOK, States
  <2> HIDE DEF mark
  <2>5. /\ disk'.sha = disk.sha /\ disk'.failed = disk.failed
        /\ disk'.rollback = disk.rollback /\ disk'.baseline = disk.baseline
        /\ disk'.pending = mark
    BY <2>4 DEF TypeInv, TypeOK, States
  <2>6. p'.pc \in {"activate", "rollback"} /\ Same BY <1>3, GoesOn DEF Same, Pcs, TypeInv, TypeOK
  <2>7. QED BY <1>1, <1>2, <2>2, <2>3, <2>5, <2>6
<1>4. CASE disk' = [disk EXCEPT !.pending = None] /\ p' = Idle
  BY <1>1, <1>2, <1>4, Ends DEF AtEnd, TypeInv, TypeOK, States
<1>5. CASE Fail /\ UNCHANGED disk
  BY <1>1, <1>2, <1>5, FailsTo DEF Same, TypeInv, TypeOK
<1>6. CASE Goto("rollback") /\ UNCHANGED disk
  BY <1>1, <1>2, <1>6, GoesOn DEF Same, Pcs, TypeInv, TypeOK
<1>7. QED BY <1>3, <1>4, <1>5, <1>6 DEF Recheck

LEMMA PrepareEffect ==
    ASSUME TypeInv, Prepare
    PROVE  /\ p.pc = "prepare" /\ disk.pending # None /\ Phase = "pull"
           /\ UNCHANGED <<tip, running, checkout, stored, default, disk, retries, activated, trail>>
           /\ Same
           /\ \/ p'.pc = "recheck" /\ schema' = p.sha
              \/ p'.pc = "quarantine" /\ (schema' = schema \/ schema' = p.sha)
<1>1. p.pc = "prepare" /\ disk.pending # None /\ Phase = "pull"
  BY DEF Prepare, At, TypeInv, TypeOK, PhasesFit, Quiet
<1>2. UNCHANGED <<tip, running, checkout, stored, default, disk, retries, activated, trail>>
  BY DEF Prepare, github
<1>3. CASE Goto("recheck") /\ schema' = p.sha
  BY <1>1, <1>2, <1>3, GoesOn DEF Same, Pcs, TypeInv, TypeOK
<1>4. CASE Fail /\ schema' \in {schema, p.sha}
  BY <1>1, <1>2, <1>4, FailsTo DEF Same, TypeInv, TypeOK
<1>5. QED BY <1>3, <1>4 DEF Prepare

LEMMA ActivateEffect ==
    ASSUME TypeInv, Activate
    PROVE  /\ p.pc = "activate" /\ Phase = "activate"
           /\ UNCHANGED <<tip, checkout, schema, stored, default, disk, retries, trail>>
           /\ p.sha \in Revs /\ disk.pending # None /\ disk.pending.sha = p.sha
           /\ activated' = [activated EXCEPT ![p.sha] = @ + 1]
           /\ Same
           /\ running'.img \in {running.img, p.sha, Broken}
           /\ \/ p'.pc = "verify" /\ running' = New
              \/ /\ p'.pc = "rollback"
                 /\ running' = running \/ running' = New \/ running'.img = Broken
<1>1. p.pc = "activate" /\ Phase = "activate"
  BY DEF Activate, At, TypeInv, TypeOK, PhasesFit
<1>2. /\ UNCHANGED <<tip, checkout, schema, stored, default, disk, retries, trail>>
      /\ activated' = [activated EXCEPT ![p.sha] = @ + 1]
  BY DEF Activate, github
<1>3. p.sha \in Revs /\ disk.pending # None /\ disk.pending.sha = p.sha
  BY <1>1, Checkpoint DEF TypeInv, TypeOK, Quiet
<1>4. CASE Goto("verify") /\ running' = New
  <2>1. New.img = p.sha BY DEF New
  <2>2. QED BY <1>1, <1>2, <1>3, <1>4, <2>1, GoesOn DEF Same, Pcs, TypeInv, TypeOK
<1>5. CASE Fail /\ running' \in {running, New, Torn(New)}
  <2>1. Torn(New).img = Broken /\ New.img = p.sha BY DEF Torn, New
  <2>2. QED BY <1>1, <1>2, <1>3, <1>5, <2>1, FailsTo DEF Same, TypeInv, TypeOK
<1>6. QED BY <1>4, <1>5 DEF Activate

LEMMA CommitEffect ==
    ASSUME TypeInv, Commit
    PROVE  /\ p.pc = "commit" /\ p'.pc = "clean" /\ Same
           /\ UNCHANGED <<tip, running, checkout, schema, stored, default, retries,
                activated>>
           /\ trail' = "kept"
           /\ p.sha \in Revs /\ disk.pending # None /\ disk.pending.sha = p.sha
           /\ disk'.sha = p.sha /\ disk'.failed = NoRev /\ disk'.baseline = None
           /\ disk'.pending = None /\ disk'.rollback = Snap
<1>1. p.pc = "commit" BY DEF Commit, At
<1>2. p.sha \in Revs /\ disk.pending # None /\ disk.pending.sha = p.sha
  BY <1>1, Checkpoint DEF TypeInv, TypeOK, Quiet
<1>3. p'.pc = "clean" /\ Same BY GoesOn DEF Commit, Same, Pcs, TypeInv, TypeOK, Quiet
<1>4. QED BY <1>1, <1>2, <1>3 DEF Commit, github, host

LEMMA RollbackEffect ==
    ASSUME TypeInv, Rollback
    PROVE  /\ p.pc = "rollback" /\ disk.pending # None
           /\ UNCHANGED <<tip, checkout, schema, stored, default, disk, retries, activated>>
           /\ running'.img \in {running.img, Snap.img, Broken}
           /\ \/ /\ p'.pc = "verify_back" /\ Same /\ running' = Old /\ Snap.img \in stored
                 /\ trail' = trail
              \/ AtEnd /\ trail' = trail /\ running' = running
              \/ /\ AtEnd /\ trail' = (IF Phase = "pull" THEN "lost" ELSE trail)
                 /\ running' = running \/ running' = Old \/ running'.img = Broken
<1>1. p.pc = "rollback" /\ disk.pending # None
  BY DEF Rollback, At, TypeInv, TypeOK, Quiet
<1>2. UNCHANGED <<tip, checkout, schema, stored, default, disk, retries, activated>>
  BY DEF Rollback, github
<1>3. CASE CutShort /\ running' \in {running, Old, Torn(Old)}
  <2>1. Torn(Old).img = Broken /\ Old.img = Snap.img BY DEF Torn, Old
  <2>2. QED BY <1>1, <1>2, <1>3, <2>1, Ends DEF AtEnd, CutShort
<1>4. CASE Goto("verify_back") /\ running' = Old /\ Snap.img \in stored /\ trail' = trail
  <2>1. Old.img = Snap.img BY DEF Old
  <2>2. QED BY <1>1, <1>2, <1>4, <2>1, GoesOn DEF Same, Pcs, TypeInv, TypeOK
<1>5. CASE p' = Idle /\ running' = running /\ trail' = trail
  BY <1>1, <1>2, <1>5, Ends DEF AtEnd
<1>6. QED BY <1>3, <1>4, <1>5 DEF Rollback

LEMMA VerifyBackEffect ==
    ASSUME TypeInv, VerifyBack
    PROVE  /\ p.pc = "verify_back" /\ disk.pending # None
           /\ UNCHANGED <<tip, host, disk, retries, activated, trail>>
           /\ AtEnd \/ (p'.pc = "tag_back" /\ Same)
<1>1. p.pc = "verify_back" /\ disk.pending # None
  BY DEF VerifyBack, At, TypeInv, TypeOK, Quiet
<1>2. UNCHANGED <<tip, host, disk, retries, activated, trail>> BY DEF VerifyBack, github
<1>3. CASE p' = Idle BY <1>1, <1>2, <1>3, Ends DEF AtEnd
<1>4. CASE Goto("tag_back") BY <1>1, <1>2, <1>4, GoesOn DEF Same, Pcs, TypeInv, TypeOK
<1>5. QED BY <1>3, <1>4 DEF VerifyBack

LEMMA TagBackEffect ==
    ASSUME TypeInv, TagBack
    PROVE  /\ p.pc = "tag_back" /\ disk.pending # None
           /\ UNCHANGED <<tip, running, checkout, schema, stored, disk, retries, activated>>
           /\ \/ AtEnd /\ trail' = (IF Phase = "pull" THEN "lost" ELSE trail)
              \/ /\ p'.pc = "quarantine" /\ Same /\ default' = Snap.img
                 /\ trail' = trail
<1>1. p.pc = "tag_back" /\ disk.pending # None
  BY DEF TagBack, At, TypeInv, TypeOK, Quiet
<1>2. UNCHANGED <<tip, running, checkout, schema, stored, disk, retries, activated>>
  BY DEF TagBack, github
<1>3. CASE CutShort BY <1>1, <1>2, <1>3, Ends DEF AtEnd, CutShort
<1>4. CASE Goto("quarantine") /\ default' = Snap.img /\ trail' = trail
  BY <1>1, <1>2, <1>4, GoesOn DEF Same, Pcs, TypeInv, TypeOK
<1>5. QED BY <1>3, <1>4 DEF TagBack

LEMMA QuarantineEffect ==
    ASSUME TypeInv, Quarantine
    PROVE  /\ p.pc = "quarantine" /\ disk.pending # None
           /\ UNCHANGED <<tip, host, retries, activated, trail>>
           /\ disk'.sha = disk.sha /\ disk'.failed = disk.pending.sha
           /\ disk'.pending = None /\ disk'.baseline = Snap /\ disk'.rollback = disk.rollback
           /\ \/ AtEnd
              \/ p'.pc = "eligible" /\ Same /\ p.recovering
<1>1. p.pc = "quarantine" /\ disk.pending # None
  BY DEF Quarantine, At, TypeInv, TypeOK, Quiet
<1>2. CASE p.recovering
  <2>1. p' = [p EXCEPT !.pc = "eligible"] BY <1>2 DEF Quarantine
  <2>2. p'.pc = "eligible" /\ Same BY <2>1 DEF Same, TypeInv, TypeOK, Processes
  <2>3. QED BY <1>1, <1>2, <2>2 DEF Quarantine, TypeInv, TypeOK, States, github
<1>3. CASE ~p.recovering
  BY <1>1, <1>3, Ends DEF AtEnd, Quarantine, TypeInv, TypeOK, States, github
<1>4. QED BY <1>2, <1>3

LEMMA Numbers ==
    ASSUME TypeInv
    PROVE  /\ tip \in Nat /\ schema \in Nat /\ running.img \in Int
           /\ Broken \in Int /\ Broken < 0
           /\ disk.pending # None => Snap.img \in Nat /\ disk.pending.sha \in Nat
           /\ p.pc \notin Quiet => p.sha \in Nat /\ p.sha <= tip /\ disk.pending # None
<1>1. /\ tip \in Nat /\ schema \in Nat
      /\ Broken \in Int /\ Broken < 0
  <2>1. tip \in Nat /\ schema \in Nat BY Constants DEF TypeInv, TypeOK
  <2>2. Broken \in Int /\ Broken < 0 BY DEF Broken
  <2>3. QED BY <2>1, <2>2
<1>2. running.img \in Int
  <2>1. running.img \in Revs \cup {Broken} BY DEF TypeInv, TypeOK, Releases
  <2>2. Revs \subseteq Int BY Constants
  <2>3. QED BY <1>1, <2>1, <2>2
<1>3. disk.pending # None => Snap.img \in Nat /\ disk.pending.sha \in Nat
  BY Checkpoint, Constants DEF TypeInv, TypeOK
<1>4. p.pc \notin Quiet => p.sha \in Nat /\ p.sha <= tip /\ disk.pending # None
  BY <1>3 DEF TypeInv, TypeOK, PhasesFit
<1>5. QED BY <1>1, <1>2, <1>3, <1>4

-----------------------------------------------------------------------------
(* One lemma for each part of the invariant, one step for each action *)

\* Releases and migrations keep their order.
LEMMA StepSchema == TypeInv /\ SchemaInOrder /\ [Next]_vars => SchemaInOrder'
<1> SUFFICES ASSUME TypeInv, SchemaInOrder, [Next]_vars PROVE SchemaInOrder'
  OBVIOUS
<1> USE Constants, Checkpoint
<1> USE DEF TypeInv, TypeOK, PhasesFit, Quiet, Choosing, Replaced, github, host, Phase,
     Snap, At, SchemaInOrder
<1>1. CASE Push
  <2>1. tip' = tip + 1 /\ UNCHANGED <<running, schema, disk, p>>
    BY <1>1 DEF Push
  <2>2. schema <= tip' BY <2>1, Numbers
  <2>3. QED BY <2>1, <2>2
<1>2. CASE StartChecks
  BY <1>2, GoesOn, Ends, FailsTo DEF StartChecks, Pcs
<1>3. ASSUME NEW result \in {"success", "failure"},
     FinishChecks(result) PROVE SchemaInOrder'
  BY <1>3, GoesOn, Ends, FailsTo DEF FinishChecks, Pcs
<1>4. ASSUME NEW retry \in BOOLEAN, Start(retry) PROVE SchemaInOrder'
  BY <1>4, GoesOn, Ends, FailsTo DEF Start, Processes, Pcs
<1>5. CASE CleanupOnly
  BY <1>5, GoesOn, Ends, FailsTo DEF CleanupOnly, CleanupStorage, Pcs
<1>6. CASE Kill
  BY <1>6, GoesOn, Ends, FailsTo DEF Kill, Pcs
<1>7. CASE Check
  BY <1>7, GoesOn, Ends, FailsTo DEF Check, Processes, Eligible, Pcs
<1>8. CASE Preflight
  BY <1>8, PreflightEffect DEF Same, AtEnd, CleanupAllowed
<1>9. CASE TakeSnapshot
  BY <1>9, SnapshotEffect DEF Same, AtEnd, ActiveConf
<1>10. CASE UpdateCheckout
  BY <1>10, GoesOn, Ends, FailsTo DEF UpdateCheckout, Pcs
<1>11. CASE PullImages
  BY <1>11, GoesOn, Ends, FailsTo DEF PullImages, Pcs
<1>12. CASE Prepare
  <2>1. /\ p.pc = "prepare" /\ Same
        /\ UNCHANGED <<tip, running, disk>>
        /\ p'.pc \in {"recheck", "quarantine"}
        /\ p'.pc = "recheck" => schema' = p.sha
        /\ schema' = schema \/ schema' = p.sha
    BY <1>12, PrepareEffect
  <2>2. schema <= p.sha /\ p.sha <= tip /\ schema \in Nat /\ p.sha \in Nat
    BY <2>1, Numbers
  <2>3. schema <= schema' /\ schema' <= tip' BY <2>1, <2>2
  <2>4. running'.img <= schema' BY <2>1, <2>2, <2>3, Numbers
  <2>5. disk'.pending # None => disk'.pending.snap.img <= schema'
    BY <2>1, <2>2, <2>3, Numbers
  <2>6. QED BY <2>1, <2>3, <2>4, <2>5 DEF Same
<1>13. CASE Recheck
  BY <1>13, RecheckEffect DEF Same, AtEnd
<1>14. CASE Activate
  <2>1. running'.img \in {running.img, p.sha, Broken} /\ schema' = schema /\ p.sha = schema
    BY <1>14, ActivateEffect
  <2>2. running.img <= schema /\ Broken < schema /\ schema \in Nat BY Numbers
  <2>3. running.img <= schema' /\ p.sha <= schema' /\ Broken <= schema' BY <2>1, <2>2,
       Numbers
  <2>4. running'.img <= schema' BY <2>1, <2>3
  <2>5. QED BY <1>14, <2>4, ActivateEffect DEF Same
<1>15. ASSUME NEW healthy \in BOOLEAN, Verify(healthy) PROVE SchemaInOrder'
  BY <1>15, GoesOn, Ends, FailsTo DEF Verify, Pcs
<1>16. CASE TagDefault
  BY <1>16, GoesOn, Ends, FailsTo DEF TagDefault, Pcs
<1>17. CASE Commit
  BY <1>17, CommitEffect DEF Same, AtEnd
<1>18. CASE CleanAfter
  BY <1>18, GoesOn, Ends, FailsTo DEF CleanAfter, CleanupStorage, Pcs
<1>19. CASE Rollback
  <2>1. /\ running'.img \in {running.img, disk.pending.snap.img, Broken} /\ schema' = schema
        /\ disk.pending.snap.img <= schema
    BY <1>19, RollbackEffect
  <2>2. running.img <= schema /\ Broken < schema /\ schema \in Nat BY Numbers
  <2>3. running.img <= schema' /\ Broken <= schema' BY <2>1, <2>2, Numbers
  <2>4. running'.img <= schema' BY <2>1, <2>3
  <2>5. QED BY <1>19, <2>4, RollbackEffect DEF Same, AtEnd
<1>20. CASE VerifyBack
  BY <1>20, VerifyBackEffect DEF Same, AtEnd
<1>21. CASE TagBack
  BY <1>21, TagBackEffect DEF Same, AtEnd
<1>22. CASE Quarantine
  BY <1>22, QuarantineEffect DEF Same, AtEnd
<1>23. CASE UNCHANGED vars
  BY <1>23 DEF vars
<1>24. QED
  BY <1>1, <1>2, <1>3, <1>4, <1>5, <1>6, <1>7, <1>8, <1>9, <1>10, <1>11, <1>12,
     <1>13, <1>14, <1>15, <1>16, <1>17, <1>18, <1>19, <1>20, <1>21, <1>22, <1>23 DEF Next,
          Step

\* The phase and the place in the run tell which release runs.
LEMMA StepRelease == TypeInv /\ ReleaseKnown /\ [Next]_vars => ReleaseKnown'
<1> SUFFICES ASSUME TypeInv, ReleaseKnown, [Next]_vars PROVE ReleaseKnown'
  OBVIOUS
<1> USE Constants, Checkpoint
<1> USE DEF TypeInv, TypeOK, PhasesFit, Quiet, Choosing, Replaced, github, host, Phase,
     Snap, At, ReleaseKnown, New, Old
<1>1. CASE Push
  BY <1>1, GoesOn, Ends, FailsTo DEF Push, Pcs
<1>2. CASE StartChecks
  BY <1>2, GoesOn, Ends, FailsTo DEF StartChecks, Pcs
<1>3. ASSUME NEW result \in {"success", "failure"}, FinishChecks(result) PROVE ReleaseKnown'
  BY <1>3, GoesOn, Ends, FailsTo DEF FinishChecks, Pcs
<1>4. ASSUME NEW retry \in BOOLEAN, Start(retry) PROVE ReleaseKnown'
  BY <1>4, GoesOn, Ends, FailsTo DEF Start, Processes, Pcs
<1>5. CASE CleanupOnly
  BY <1>5, GoesOn, Ends, FailsTo DEF CleanupOnly, CleanupStorage, Pcs
<1>6. CASE Kill
  BY <1>6, GoesOn, Ends, FailsTo DEF Kill, Pcs
<1>7. CASE Check
  BY <1>7, GoesOn, Ends, FailsTo DEF Check, Processes, Eligible, Pcs
<1>8. CASE Preflight
  BY <1>8, PreflightEffect DEF Same, AtEnd, CleanupAllowed
<1>9. CASE TakeSnapshot
  BY <1>9, SnapshotEffect DEF Same, AtEnd, ActiveConf
<1>10. CASE UpdateCheckout
  BY <1>10, GoesOn, Ends, FailsTo DEF UpdateCheckout, Pcs
<1>11. CASE PullImages
  BY <1>11, GoesOn, Ends, FailsTo DEF PullImages, Pcs
<1>12. CASE Prepare
  BY <1>12, PrepareEffect DEF Same, AtEnd
<1>13. CASE Recheck
  <2>1. Snap.img # Broken BY <1>13, RecheckEffect, Checkpoint
  <2>2. /\ running.img = Snap.img \/ (trail = "lost" /\ running.img = Broken)
        /\ disk.pending # None BY <1>13, RecheckEffect
  <2>3. CASE p'.pc \in {"quarantine", "rollback"} /\ Same /\ disk' = disk
    BY <1>13, <2>1, <2>2, <2>3, RecheckEffect
  <2>4. CASE p'.pc = "idle" /\ disk'.pending = None
    BY <1>13, <2>1, <2>2, <2>4, RecheckEffect
  <2>5. CASE /\ p'.pc \in {"activate", "rollback"}
             /\ disk'.pending # None /\ disk'.pending.phase = "activate"
    BY <1>13, <2>5, RecheckEffect
  <2>6. QED BY <1>13, <2>3, <2>4, <2>5, RecheckEffect DEF AtEnd
<1>14. CASE Activate
  BY <1>14, ActivateEffect DEF Same, AtEnd, New
<1>15. ASSUME NEW healthy \in BOOLEAN, Verify(healthy) PROVE ReleaseKnown'
  BY <1>15, GoesOn, Ends, FailsTo DEF Verify, Pcs
<1>16. CASE TagDefault
  BY <1>16, GoesOn, Ends, FailsTo DEF TagDefault, Pcs
<1>17. CASE Commit
  BY <1>17, CommitEffect DEF Same, AtEnd
<1>18. CASE CleanAfter
  BY <1>18, GoesOn, Ends, FailsTo DEF CleanAfter, CleanupStorage, Pcs
<1>19. CASE Rollback
  <2>1. Old.img = Snap.img OBVIOUS
  <2>2. p.pc = "rollback" /\ disk.pending # None /\ UNCHANGED <<default, disk>>
    BY <1>19, RollbackEffect
  <2>3. CASE p'.pc = "verify_back" /\ running' = Old /\ trail' = trail
    BY <2>1, <2>2, <2>3
  <2>4. CASE p'.pc = "idle" /\ running' = running /\ trail' = trail
    BY <2>2, <2>4
  <2>5. CASE /\ p'.pc = "idle" /\ running'.img \in {running.img, Snap.img, Broken}
             /\ trail' = IF Phase = "pull" THEN "lost" ELSE trail
    <3>1. CASE Phase = "pull"
      <4>1. running.img = Snap.img \/ running.img = Broken BY <2>2, <3>1
      <4>2. trail' = "lost" /\ running'.img \in {Snap.img, Broken}
        BY <2>5, <3>1, <4>1
      <4>3. QED BY <2>2, <2>5, <4>2
    <3>2. CASE Phase # "pull" BY <2>2, <2>5, <3>2
    <3>3. QED BY <3>1, <3>2
  <2>6. QED BY <1>19, <2>3, <2>4, <2>5, RollbackEffect DEF AtEnd
<1>20. CASE VerifyBack
  BY <1>20, VerifyBackEffect DEF Same, AtEnd
<1>21. CASE TagBack
  BY <1>21, TagBackEffect DEF Same, AtEnd
<1>22. CASE Quarantine
  <2>1. trail = "kept" => running.img = Snap.img
    <3>1. Old.img = Snap.img OBVIOUS
    <3>2. QED BY <1>22, <3>1, QuarantineEffect
  <2>2. trail = "kept" => running'.img # Broken BY <1>22, <2>1, QuarantineEffect
  <2>3. QED BY <1>22, <2>2, QuarantineEffect DEF AtEnd
<1>23. CASE UNCHANGED vars
  BY <1>23 DEF vars
<1>24. QED
  BY <1>1, <1>2, <1>3, <1>4, <1>5, <1>6, <1>7, <1>8, <1>9, <1>10, <1>11, <1>12,
     <1>13, <1>14, <1>15, <1>16, <1>17, <1>18, <1>19, <1>20, <1>21, <1>22, <1>23 DEF Next,
          Step

\* The record and the running release stay together.
LEMMA StepRecord == TypeInv /\ ReleaseKnown /\ RecordKept /\ [Next]_vars => RecordKept'
<1> SUFFICES ASSUME TypeInv, ReleaseKnown, RecordKept, [Next]_vars PROVE RecordKept'
  OBVIOUS
<1> USE Constants, Checkpoint
<1> USE DEF TypeInv, TypeOK, PhasesFit, Quiet, Choosing, Replaced, github, host, Phase,
     Snap, At, ReleaseKnown, RecordKept, New, Old
<1>1. CASE Push
  BY <1>1, GoesOn, Ends, FailsTo DEF Push, Pcs
<1>2. CASE StartChecks
  BY <1>2, GoesOn, Ends, FailsTo DEF StartChecks, Pcs
<1>3. ASSUME NEW result \in {"success", "failure"}, FinishChecks(result) PROVE RecordKept'
  BY <1>3, GoesOn, Ends, FailsTo DEF FinishChecks, Pcs
<1>4. ASSUME NEW retry \in BOOLEAN, Start(retry) PROVE RecordKept'
  BY <1>4, GoesOn, Ends, FailsTo DEF Start, Processes, Pcs
<1>5. CASE CleanupOnly
  BY <1>5, GoesOn, Ends, FailsTo DEF CleanupOnly, CleanupStorage, Pcs
<1>6. CASE Kill
  BY <1>6, GoesOn, Ends, FailsTo DEF Kill, Pcs
<1>7. CASE Check
  BY <1>7, GoesOn, Ends, FailsTo DEF Check, Processes, Eligible, Pcs
<1>8. CASE Preflight
  BY <1>8, PreflightEffect DEF Same, AtEnd, CleanupAllowed
<1>9. CASE TakeSnapshot
  BY <1>9, SnapshotEffect DEF Same, AtEnd, ActiveConf
<1>10. CASE UpdateCheckout
  BY <1>10, GoesOn, Ends, FailsTo DEF UpdateCheckout, Pcs
<1>11. CASE PullImages
  BY <1>11, GoesOn, Ends, FailsTo DEF PullImages, Pcs
<1>12. CASE Prepare
  BY <1>12, PrepareEffect DEF Same, AtEnd
<1>13. CASE Recheck
  BY <1>13, RecheckEffect DEF Same, AtEnd
<1>14. CASE Activate
  BY <1>14, ActivateEffect DEF Same, AtEnd, New
<1>15. ASSUME NEW healthy \in BOOLEAN, Verify(healthy) PROVE RecordKept'
  BY <1>15, GoesOn, Ends, FailsTo DEF Verify, Pcs
<1>16. CASE TagDefault
  BY <1>16, GoesOn, Ends, FailsTo DEF TagDefault, Pcs
<1>17. CASE Commit
  BY <1>17, CommitEffect DEF Same, AtEnd
<1>18. CASE CleanAfter
  BY <1>18, GoesOn, Ends, FailsTo DEF CleanAfter, CleanupStorage, Pcs
<1>19. CASE Rollback
  BY <1>19, RollbackEffect DEF Same, AtEnd, Old
<1>20. CASE VerifyBack
  BY <1>20, VerifyBackEffect DEF Same, AtEnd
<1>21. CASE TagBack
  BY <1>21, TagBackEffect DEF Same, AtEnd
<1>22. CASE Quarantine
  <2>1. trail = "kept" => running.img = Snap.img
    <3>1. Old.img = Snap.img OBVIOUS
    <3>2. QED BY <1>22, <3>1, QuarantineEffect
  <2>2. disk.sha # NoRev /\ trail = "kept" => default = disk.sha BY <1>22, QuarantineEffect
  <2>3. QED BY <1>22, <2>1, <2>2, QuarantineEffect
<1>23. CASE UNCHANGED vars
  BY <1>23 DEF vars
<1>24. QED
  BY <1>1, <1>2, <1>3, <1>4, <1>5, <1>6, <1>7, <1>8, <1>9, <1>10, <1>11, <1>12,
     <1>13, <1>14, <1>15, <1>16, <1>17, <1>18, <1>19, <1>20, <1>21, <1>22, <1>23 DEF Next,
          Step

\* Configurations follow their images.
LEMMA StepConfig == TypeInv /\ ReleaseKnown /\ ConfigKnown /\ [Next]_vars => ConfigKnown'
<1> SUFFICES ASSUME TypeInv, ReleaseKnown, ConfigKnown, [Next]_vars PROVE ConfigKnown'
  OBVIOUS
<1> USE Constants, Checkpoint
<1> USE DEF TypeInv, TypeOK, PhasesFit, Quiet, Choosing, Replaced, github, host, Phase,
     Snap, At, ReleaseKnown, ConfigKnown, ConfigFitsImages, New, Old
<1>1. CASE Push
  BY <1>1, GoesOn, Ends, FailsTo DEF Push, Pcs
<1>2. CASE StartChecks
  BY <1>2, GoesOn, Ends, FailsTo DEF StartChecks, Pcs
<1>3. ASSUME NEW result \in {"success", "failure"}, FinishChecks(result) PROVE ConfigKnown'
  BY <1>3, GoesOn, Ends, FailsTo DEF FinishChecks, Pcs
<1>4. ASSUME NEW retry \in BOOLEAN, Start(retry) PROVE ConfigKnown'
  BY <1>4, GoesOn, Ends, FailsTo DEF Start, Processes, Pcs
<1>5. CASE CleanupOnly
  BY <1>5, GoesOn, Ends, FailsTo DEF CleanupOnly, CleanupStorage, Pcs
<1>6. CASE Kill
  BY <1>6, GoesOn, Ends, FailsTo DEF Kill, Pcs
<1>7. CASE Check
  BY <1>7, GoesOn, Ends, FailsTo DEF Check, Processes, Eligible, Pcs
<1>8. CASE Preflight
  BY <1>8, PreflightEffect DEF Same, AtEnd, CleanupAllowed
<1>9. CASE TakeSnapshot
  <2>1. disk.baseline # None => disk.baseline.conf = disk.baseline.img OBVIOUS
  <2>2. running.conf = running.img BY <1>9, SnapshotEffect
  <2>3. ActiveConf = running.img BY <1>9, <2>1, <2>2, SnapshotEffect DEF ActiveConf
  <2>4. CASE AtEnd /\ disk' = disk BY <1>9, <2>4, SnapshotEffect DEF AtEnd
  <2>5. CASE p'.pc = "checkout" /\ Same
    <3>1. /\ running' = running /\ checkout' = checkout /\ disk'.rollback = disk.rollback
          /\ disk'.baseline = disk'.pending.snap /\ disk'.pending # None
          /\ disk'.baseline # None
          /\ disk'.baseline.img = running.img /\ disk'.baseline.conf = running.img
      BY <1>9, <2>3, <2>5, SnapshotEffect DEF AtEnd
    <3>2. \A s \in {disk'.baseline, disk'.rollback} \ {None} : s.conf = s.img
      BY <3>1
    <3>3. running'.conf = running'.img BY <1>9, <3>1, SnapshotEffect
    <3>4. /\ disk'.pending.snap.conf = disk'.pending.snap.img /\ disk'.baseline # None
          /\ p'.pc = "checkout"
      BY <2>5, <3>1
    <3>5. QED BY <3>1, <3>2, <3>3, <3>4
  <2>6. QED BY <1>9, <2>4, <2>5, SnapshotEffect
<1>10. CASE UpdateCheckout
  <2>1. /\ p.pc = "checkout" /\ UNCHANGED <<running, disk>>
        /\ p'.pc \in {"pull", "quarantine"} /\ p'.sha = p.sha
        /\ p'.pc = "pull" => checkout' = p.sha
        /\ checkout' = checkout \/ checkout' = p.sha
    BY <1>10, GoesOn, FailsTo DEF UpdateCheckout, Pcs
  <2>2. disk.pending # None /\ Phase = "pull" BY <2>1
  <2>3. QED BY <2>1, <2>2
<1>11. CASE PullImages
  BY <1>11, GoesOn, Ends, FailsTo DEF PullImages, Pcs
<1>12. CASE Prepare
  BY <1>12, PrepareEffect DEF Same, AtEnd
<1>13. CASE Recheck
  BY <1>13, RecheckEffect DEF Same, AtEnd
<1>14. CASE Activate
  BY <1>14, ActivateEffect DEF Same, AtEnd, New
<1>15. ASSUME NEW healthy \in BOOLEAN, Verify(healthy) PROVE ConfigKnown'
  BY <1>15, GoesOn, Ends, FailsTo DEF Verify, Pcs
<1>16. CASE TagDefault
  BY <1>16, GoesOn, Ends, FailsTo DEF TagDefault, Pcs
<1>17. CASE Commit
  BY <1>17, CommitEffect DEF Same, AtEnd
<1>18. CASE CleanAfter
  BY <1>18, GoesOn, Ends, FailsTo DEF CleanAfter, CleanupStorage, Pcs
<1>19. CASE Rollback
  <2>1. Old.img = Snap.img /\ Old.conf = Snap.conf /\ ~Old.repo OBVIOUS
  <2>2. \/ running' = running \/ running'.img = Broken
        \/ running'.img = running'.conf /\ ~running'.repo
    BY <1>19, <2>1, RollbackEffect
  <2>3. QED BY <1>19, <2>2, RollbackEffect DEF AtEnd
<1>20. CASE VerifyBack
  BY <1>20, VerifyBackEffect DEF Same, AtEnd
<1>21. CASE TagBack
  BY <1>21, TagBackEffect DEF Same, AtEnd
<1>22. CASE Quarantine
  <2>1. disk'.baseline # None /\ disk'.baseline = disk.baseline
    BY <1>22, QuarantineEffect
  <2>2. QED BY <1>22, <2>1, QuarantineEffect DEF AtEnd
<1>23. CASE UNCHANGED vars
  BY <1>23 DEF vars
<1>24. QED
  BY <1>1, <1>2, <1>3, <1>4, <1>5, <1>6, <1>7, <1>8, <1>9, <1>10, <1>11, <1>12,
     <1>13, <1>14, <1>15, <1>16, <1>17, <1>18, <1>19, <1>20, <1>21, <1>22, <1>23 DEF Next,
          Step

\* The images of every recovery stay.
LEMMA StepImages == TypeInv /\ ReleaseKnown /\ ImagesKept /\ [Next]_vars => ImagesKept'
<1> SUFFICES ASSUME TypeInv, ReleaseKnown, ImagesKept, [Next]_vars PROVE ImagesKept'
  OBVIOUS
<1> USE Constants, Checkpoint
<1> USE DEF TypeInv, TypeOK, PhasesFit, Quiet, Choosing, Replaced, github, host, Phase,
     Snap, At, ReleaseKnown, ImagesKept, RecoveryImagesKept, Protected, New, Old
<1>1. CASE Push
  BY <1>1, GoesOn, Ends, FailsTo DEF Push, Pcs
<1>2. CASE StartChecks
  BY <1>2, GoesOn, Ends, FailsTo DEF StartChecks, Pcs
<1>3. ASSUME NEW result \in {"success", "failure"}, FinishChecks(result) PROVE ImagesKept'
  BY <1>3, GoesOn, Ends, FailsTo DEF FinishChecks, Pcs
<1>4. ASSUME NEW retry \in BOOLEAN, Start(retry) PROVE ImagesKept'
  BY <1>4, GoesOn, Ends, FailsTo DEF Start, Processes, Pcs
<1>5. CASE CleanupOnly
  BY <1>5, GoesOn, Ends, FailsTo DEF CleanupOnly, CleanupStorage, Pcs
<1>6. CASE Kill
  BY <1>6, GoesOn, Ends, FailsTo DEF Kill, Pcs
<1>7. CASE Check
  BY <1>7, GoesOn, Ends, FailsTo DEF Check, Processes, Eligible, Pcs
<1>8. CASE Preflight
  BY <1>8, PreflightEffect DEF Same, AtEnd, CleanupAllowed
<1>9. CASE TakeSnapshot
  BY <1>9, SnapshotEffect DEF Same, AtEnd, ActiveConf
<1>10. CASE UpdateCheckout
  BY <1>10, GoesOn, Ends, FailsTo DEF UpdateCheckout, Pcs
<1>11. CASE PullImages
  BY <1>11, GoesOn, Ends, FailsTo DEF PullImages, Pcs
<1>12. CASE Prepare
  BY <1>12, PrepareEffect DEF Same, AtEnd
<1>13. CASE Recheck
  BY <1>13, RecheckEffect DEF Same, AtEnd
<1>14. CASE Activate
  BY <1>14, ActivateEffect DEF Same, AtEnd, New
<1>15. ASSUME NEW healthy \in BOOLEAN, Verify(healthy) PROVE ImagesKept'
  BY <1>15, GoesOn, Ends, FailsTo DEF Verify, Pcs
<1>16. CASE TagDefault
  BY <1>16, GoesOn, Ends, FailsTo DEF TagDefault, Pcs
<1>17. CASE Commit
  BY <1>17, CommitEffect DEF Same, AtEnd
<1>18. CASE CleanAfter
  BY <1>18, GoesOn, Ends, FailsTo DEF CleanAfter, CleanupStorage, Pcs
<1>19. CASE Rollback
  BY <1>19, RollbackEffect DEF AtEnd
<1>20. CASE VerifyBack
  BY <1>20, VerifyBackEffect DEF Same, AtEnd
<1>21. CASE TagBack
  BY <1>21, TagBackEffect DEF Same, AtEnd
<1>22. CASE Quarantine
  BY <1>22, QuarantineEffect DEF Same, AtEnd
<1>23. CASE UNCHANGED vars
  BY <1>23 DEF vars
<1>24. QED
  BY <1>1, <1>2, <1>3, <1>4, <1>5, <1>6, <1>7, <1>8, <1>9, <1>10, <1>11, <1>12,
     <1>13, <1>14, <1>15, <1>16, <1>17, <1>18, <1>19, <1>20, <1>21, <1>22, <1>23 DEF Next,
          Step

\* No activation without a fresh candidate or a retry.
LEMMA StepActivations == TypeInv /\ ActivationsSpent /\ [Next]_vars => ActivationsSpent'
<1> SUFFICES ASSUME TypeInv, ActivationsSpent, [Next]_vars PROVE ActivationsSpent'
  OBVIOUS
<1> USE Constants, Checkpoint
<1> USE DEF TypeInv, TypeOK, PhasesFit, Quiet, Choosing, Replaced, github, host, Phase,
     Snap, At, ActivationsSpent, Fresh, Tried, YetToActivate, Preparing, GoingBack
<1>1. CASE Push
  <2>1. tip' \in Revs /\ tip' = tip + 1 /\ tip \in Nat BY <1>1, NextRevision DEF Push
  <2>2. tip' > tip /\ \A r \in Revs : r > tip' => r > tip BY <2>1
  <2>3. activated[tip'] = 0 BY <2>1, <2>2
  <2>4. QED BY <1>1, <2>1, <2>2, <2>3 DEF Push
<1>2. CASE StartChecks
  BY <1>2, GoesOn, Ends, FailsTo DEF StartChecks, Pcs
<1>3. ASSUME NEW result \in {"success", "failure"},
     FinishChecks(result) PROVE ActivationsSpent'
  BY <1>3, GoesOn, Ends, FailsTo DEF FinishChecks, Pcs
<1>4. ASSUME NEW retry \in BOOLEAN, Start(retry) PROVE ActivationsSpent'
  BY <1>4, GoesOn, Ends, FailsTo DEF Start, Processes, Pcs
<1>5. CASE CleanupOnly
  BY <1>5, GoesOn, Ends, FailsTo DEF CleanupOnly, CleanupStorage, Pcs
<1>6. CASE Kill
  BY <1>6, GoesOn, Ends, FailsTo DEF Kill, Pcs
<1>7. CASE Check
  BY <1>7, GoesOn, Ends, FailsTo DEF Check, Processes, Eligible, Pcs
<1>8. CASE Preflight
  BY <1>8, PreflightEffect DEF Same, AtEnd, CleanupAllowed
<1>9. CASE TakeSnapshot
  <2>1. CASE AtEnd /\ disk' = disk BY <1>9, <2>1, SnapshotEffect DEF AtEnd
  <2>2. CASE p'.pc = "checkout"
    <3>1. /\ p.pc = "snapshot" /\ UNCHANGED <<tip, retries, activated>> /\ Same
          /\ disk'.sha = disk.sha /\ disk'.failed = disk.failed
          /\ disk'.pending # None /\ disk'.pending.sha = p.sha
      BY <1>9, <2>2, SnapshotEffect DEF AtEnd
    <3>2. disk.pending = None BY <3>1
    <3>3. Fresh(tip)' \/ Tried(tip)' BY <3>1, <3>2
    <3>4. QED BY <2>2, <3>1, <3>2, <3>3 DEF Same
  <2>3. QED BY <1>9, <2>1, <2>2, SnapshotEffect
<1>10. CASE UpdateCheckout
  BY <1>10, GoesOn, Ends, FailsTo DEF UpdateCheckout, Pcs
<1>11. CASE PullImages
  BY <1>11, GoesOn, Ends, FailsTo DEF PullImages, Pcs
<1>12. CASE Prepare
  BY <1>12, PrepareEffect DEF Same, AtEnd
<1>13. CASE Recheck
  <2>1. /\ p.pc = "recheck" /\ UNCHANGED <<tip, retries, activated>>
        /\ disk.pending # None /\ Phase = "pull" /\ disk.pending.sha = p.sha
        /\ disk'.sha = disk.sha /\ disk'.failed = disk.failed
    BY <1>13, RecheckEffect
  <2>2. Fresh(tip)' \/ disk'.sha = tip' \/ disk'.failed = tip' BY <2>1
  <2>3. CASE AtEnd BY <1>13, <2>1, <2>2, <2>3, RecheckEffect DEF AtEnd
  <2>4. CASE p'.pc \in {"quarantine", "rollback"} /\ Same /\ disk' = disk
    BY <2>1, <2>2, <2>4 DEF Same
  <2>5. CASE p'.pc \in {"activate", "rollback"} /\ Same /\ disk'.pending # None
    <3>1. disk'.pending # None /\ disk'.pending.sha = p.sha BY <1>13, <2>1, <2>5,
         RecheckEffect
    <3>2. QED BY <2>1, <2>2, <2>5, <3>1 DEF Same
  <2>6. QED BY <1>13, <2>3, <2>4, <2>5, RecheckEffect
<1>14. CASE Activate
  BY <1>14, ActivateEffect DEF Same, AtEnd, New
<1>15. ASSUME NEW healthy \in BOOLEAN, Verify(healthy) PROVE ActivationsSpent'
  BY <1>15, GoesOn, Ends, FailsTo DEF Verify, Pcs
<1>16. CASE TagDefault
  BY <1>16, GoesOn, Ends, FailsTo DEF TagDefault, Pcs
<1>17. CASE Commit
  <2>1. /\ p.pc = "commit" /\ p'.pc = "clean" /\ Same
        /\ UNCHANGED <<tip, retries, activated>>
        /\ disk.pending.sha = p.sha /\ disk.pending # None
        /\ disk'.sha = p.sha /\ disk'.pending = None /\ p.sha \in Nat /\ p.sha <= tip
    BY <1>17, CommitEffect, Numbers
  <2>2. p.sha < tip => activated[tip] = 0 BY <2>1
  <2>3. Fresh(tip)' \/ Tried(tip)' BY <2>1, <2>2, Numbers
  <2>4. ~p.recovering BY <2>1
  <2>5. QED BY <2>1, <2>3, <2>4 DEF Same
<1>18. CASE CleanAfter
  BY <1>18, GoesOn, Ends, FailsTo DEF CleanAfter, CleanupStorage, Pcs
<1>19. CASE Rollback
  <2>1. /\ p.pc = "rollback" /\ UNCHANGED <<tip, disk, retries, activated>>
        /\ AtEnd \/ (p'.pc = "verify_back" /\ Same)
    BY <1>19, RollbackEffect
  <2>2. QED BY <2>1 DEF AtEnd, Same
<1>20. CASE VerifyBack
  BY <1>20, VerifyBackEffect DEF Same, AtEnd
<1>21. CASE TagBack
  <2>1. /\ p.pc = "tag_back" /\ UNCHANGED <<tip, disk, retries, activated>>
        /\ AtEnd \/ (p'.pc = "quarantine" /\ Same)
    BY <1>21, TagBackEffect
  <2>2. QED BY <2>1 DEF AtEnd, Same
<1>22. CASE Quarantine
  <2>1. /\ p.pc = "quarantine" /\ disk.pending # None
        /\ UNCHANGED <<tip, retries, activated>>
        /\ disk'.sha = disk.sha /\ disk'.failed = disk.pending.sha /\ disk'.pending = None
        /\ AtEnd \/ (p'.pc = "eligible" /\ Same /\ p.recovering)
    BY <1>22, QuarantineEffect
  <2>2. disk.pending.sha < tip => activated[tip] = 0 BY <2>1
  <2>3. Fresh(tip)' \/ Tried(tip)' BY <2>1, <2>2, Numbers
  <2>4. QED BY <2>1, <2>3 DEF AtEnd, Same
<1>23. CASE UNCHANGED vars
  BY <1>23 DEF vars
<1>24. QED
  BY <1>1, <1>2, <1>3, <1>4, <1>5, <1>6, <1>7, <1>8, <1>9, <1>10, <1>11, <1>12,
     <1>13, <1>14, <1>15, <1>16, <1>17, <1>18, <1>19, <1>20, <1>21, <1>22, <1>23 DEF Next,
          Step

-----------------------------------------------------------------------------
(* The invariant and what follows from it *)

DeployInv ==
    TypeInv /\ SchemaInOrder /\ ReleaseKnown /\ RecordKept /\ ConfigKnown /\ ImagesKept
    /\ ActivationsSpent

LEMMA InitInv == Init => DeployInv
<1> SUFFICES ASSUME Init PROVE DeployInv
  OBVIOUS
<1>1. TypeInv BY InitTypes
<1>2. p.pc = "idle" /\ disk.pending = None /\ disk.baseline = None /\ disk.rollback = None
      /\ disk.sha = NoRev /\ p.recovering = FALSE
  BY DEF Init, Idle
<1>3. tip = 0 /\ schema = 0 /\ running.img = 0 /\ running.conf = 0 /\ stored = {0}
  BY DEF Init
<1>4. SchemaInOrder BY <1>2, <1>3 DEF SchemaInOrder, Choosing
<1>5. ReleaseKnown BY <1>2, <1>3, Constants DEF ReleaseKnown, Replaced
<1>6. RecordKept BY <1>2 DEF RecordKept
<1>7. ConfigKnown
  BY <1>2, <1>3 DEF Init, ConfigKnown, ConfigFitsImages, Replaced
<1>8. ImagesKept BY <1>2, <1>3 DEF ImagesKept, RecoveryImagesKept, Replaced
<1>9. ActivationsSpent
  <2>1. \A r \in Revs : activated[r] = 0 BY DEF Init
  <2>2. retries = 0 BY DEF Init
  <2>3. \A r \in Revs : activated[r] <= 1 + retries /\ activated[r] <= retries
    BY <2>1, <2>2
  <2>4. tip \in Revs BY <1>1 DEF TypeInv, TypeOK
  <2>5. QED
    BY <1>2, <2>1, <2>3, <2>4 DEF ActivationsSpent, Fresh, Choosing, Preparing, GoingBack
<1>10. QED BY <1>1, <1>4, <1>5, <1>6, <1>7, <1>8, <1>9 DEF DeployInv

LEMMA StepInv == DeployInv /\ [Next]_vars => DeployInv'
BY StepTypes, StepSchema, StepRelease, StepRecord, StepConfig, StepImages, StepActivations
   DEF DeployInv

LEMMA InvHolds == Spec => []DeployInv
BY InitInv, StepInv, PTL DEF Spec

\* The variables keep their types, for every number of revisions and faults.
THEOREM TypeCorrect == Spec => []TypeOK
<1>1. DeployInv => TypeOK BY DEF DeployInv, TypeInv
<1>2. QED BY <1>1, InvHolds, PTL

\* Migrations come before their release: no release runs on an older schema.
THEOREM SchemaFirst == Spec => []SchemaNotBehind
<1>1. DeployInv => SchemaNotBehind BY DEF DeployInv, SchemaInOrder, SchemaNotBehind
<1>2. QED BY <1>1, InvHolds, PTL

\* Unless a checkpoint says otherwise, or a rollback was cut short that state.json
\* knew nothing of, the containers are those of one release.
THEOREM CompleteReleaseRuns == Spec => []NeverLeftBroken
<1>1. DeployInv => NeverLeftBroken BY DEF DeployInv, ReleaseKnown, NeverLeftBroken
<1>2. QED BY <1>1, InvHolds, PTL

\* Between runs the recorded release runs and the default tags select it, unless
\* such a rollback came after the last successful release.
THEOREM RecordRuns == Spec => []RecordedReleaseRuns
<1>1. DeployInv => RecordedReleaseRuns
  BY DEF DeployInv, RecordKept, RecordedReleaseRuns
<1>2. QED BY <1>1, InvHolds, PTL

\* Every release and every snapshot keeps its own configuration.
THEOREM ConfigurationsFit == Spec => []ConfigFitsImages
<1>1. DeployInv => ConfigFitsImages BY DEF DeployInv, ConfigKnown
<1>2. QED BY <1>1, InvHolds, PTL

\* No cleanup takes an image that a recovery may need.
THEOREM RecoveryPossible == Spec => []RecoveryImagesKept
<1>1. DeployInv => RecoveryImagesKept BY DEF DeployInv, ImagesKept
<1>2. QED BY <1>1, InvHolds, PTL

\* Without a retry by the operator no revision is activated twice.
THEOREM NoSecondActivation == Spec => []ActivatedOnce
<1>1. DeployInv => ActivatedOnce BY DEF DeployInv, ActivationsSpent, ActivatedOnce
<1>2. QED BY <1>1, InvHolds, PTL

=============================================================================
