----------------------------- MODULE AutoDeploy -----------------------------
(***************************************************************************)
(* The deployment controller of the EC2 host (ec2_autodeploy.py): a timer  *)
(* starts it every five minutes, under a lock that keeps runs apart.  A    *)
(* run recovers an interrupted activation from state.json, asks GitHub for *)
(* the tip of main and its checks, and deploys the tip: snapshot of the    *)
(* running release, checkout, image pull, migration, second check,         *)
(* activation, verification, commit; or rollback and quarantine.           *)
(*                                                                         *)
(* A revision is a number, main only advances, and the image, the checked  *)
(* out configuration and the schema of a revision are named by it.  The    *)
(* process may be killed between any two of its steps; what it has not     *)
(* saved is lost.  A step that calls git, docker, HTTP or the file system  *)
(* may raise, with or without having had its effect; where an assignment   *)
(* and its save are one step, what a raise between the two leaves behind   *)
(* is an outcome of that step or of the process ending before it.          *)
(***************************************************************************)
EXTENDS Integers

CONSTANTS MaxRev,      \* revisions pushed after the one running at the start
          MaxTrouble,  \* bound on raises and kills
          MaxReruns,   \* bound on re-runs of CI, over all revisions
          MaxRetries,  \* bound on --retry-failed by an operator
          None         \* no snapshot, no pending deployment

ASSUME DeployAssumption == {MaxRev, MaxTrouble, MaxReruns, MaxRetries} \subseteq Nat

VARIABLES
    tip,      \* GitHub: the tip of main
    checks,   \* GitHub: the result of each revision's CI run and statuses
    ciRun,    \* GitHub: the id of each revision's latest CI run
    reruns,   \* counter of the re-runs
    running,  \* host: image, configuration and config file of the containers
    checkout, \* host: the revision of the working tree
    schema,   \* host: the latest revision whose migrations have run
    stored,   \* host: revisions whose images docker has
    default,  \* host: the image behind the default local tags
    disk,     \* state.json
    p,        \* the running process of the controller
    trouble, retries,  \* counters of the bounds
    activated, \* history: how often each revision was activated
    trail     \* history: "lost" once a rollback was cut short that state.json
              \* knew nothing of, until the next successful release

github == <<tip, checks, ciRun, reruns>>
host == <<running, checkout, schema, stored, default>>
vars == <<github, host, disk, p, trouble, retries, activated, trail>>

Revs == 0..MaxRev
NoRev == -1     \* no revision recorded
Broken == -2    \* not one running container for each service

Snapshots == [img : Revs, conf : Revs]
Pending == [sha : Revs, phase : {"pull", "activate"}, snap : Snapshots]

ASSUME NoneAssumption == None \notin Snapshots \cup Pending

Releases == [img : Revs \cup {Broken}, conf : Revs, repo : BOOLEAN]

States == [sha : Revs \cup {NoRev}, failed : Revs \cup {NoRev},
           baseline : Snapshots \cup {None}, pending : Pending \cup {None},
           rollback : Snapshots \cup {None}]

Quiet == {"idle", "eligible", "preflight", "snapshot", "clean"}  \* no checkpoint
Pcs == Quiet \cup {"checkout", "pull", "prepare", "recheck", "activate", "verify",
                  "tag", "commit", "rollback", "verify_back", "tag_back", "quarantine"}

Processes == [pc : Pcs, sha : Revs \cup {NoRev}, run : 0..(MaxReruns + 1),
              retry : BOOLEAN, recovering : BOOLEAN]

TypeOK ==
    /\ tip \in Revs
    /\ checks \in [Revs -> {"waiting", "success", "failure"}]
    /\ ciRun \in [Revs -> 0..(MaxReruns + 1)]
    /\ running \in Releases
    /\ checkout \in Revs /\ schema \in Revs /\ stored \subseteq Revs
    /\ default \in Revs \cup {Broken}
    /\ disk \in States
    /\ p \in Processes
    /\ p.pc \notin Quiet => disk.pending # None /\ disk.pending.sha = p.sha
    /\ reruns \in 0..MaxReruns /\ trouble \in 0..MaxTrouble /\ retries \in 0..MaxRetries
    /\ activated \in [Revs -> Nat] /\ trail \in {"kept", "lost"}

Idle == [pc |-> "idle", sha |-> NoRev, run |-> 0, retry |-> FALSE, recovering |-> FALSE]

\* A host set up by hand at revision 0: no state file yet.
Init ==
    /\ tip = 0
    /\ checks = [r \in Revs |-> "waiting"]
    /\ ciRun = [r \in Revs |-> 0] /\ reruns = 0
    /\ running = [img |-> 0, conf |-> 0, repo |-> TRUE]
    /\ checkout = 0 /\ schema = 0 /\ stored = {0} /\ default = 0
    /\ disk = [sha |-> NoRev, failed |-> NoRev, baseline |-> None,
               pending |-> None, rollback |-> None]
    /\ p = Idle
    /\ trouble = 0 /\ retries = 0
    /\ activated = [r \in Revs |-> 0] /\ trail = "kept"

-----------------------------------------------------------------------------
(* GitHub *)

Push ==
    /\ tip < MaxRev
    /\ tip' = tip + 1
    /\ UNCHANGED <<checks, ciRun, reruns, host, disk, p, trouble, retries, activated, trail>>

\* A first run or a re-run of the workflow: its jobs are not complete.  Only
\* the tip's checks are modelled: the controller reads no others.
StartChecks ==
    LET r == tip IN
    /\ ciRun[r] > 0 => reruns < MaxReruns
    /\ reruns' = IF ciRun[r] > 0 THEN reruns + 1 ELSE reruns
    /\ ciRun' = [ciRun EXCEPT ![r] = @ + 1]
    /\ checks' = [checks EXCEPT ![r] = "waiting"]
    /\ UNCHANGED <<tip, host, disk, p, trouble, retries, activated, trail>>

FinishChecks(result) ==
    /\ ciRun[tip] > 0 /\ checks[tip] = "waiting"
    /\ result \in {"success", "failure"}
    /\ checks' = [checks EXCEPT ![tip] = result]
    /\ UNCHANGED <<tip, ciRun, reruns, host, disk, p, trouble, retries, activated, trail>>

-----------------------------------------------------------------------------
(* A run of the controller *)

Goto(pc) == p' = [p EXCEPT !.pc = pc]
At(pc) == p.pc = pc

\* A step that raises uses up some of the modelled trouble.
Raises == trouble < MaxTrouble /\ trouble' = trouble + 1
Returns == trouble' = trouble

Snap == disk.pending.snap
Phase == disk.pending.phase

\* main: recover first; the phase of the checkpoint says whether containers
\* may have been replaced.
Start(retry) ==
    /\ At("idle")
    /\ retry => retries < MaxRetries
    /\ retries' = IF retry THEN retries + 1 ELSE retries
    /\ p' = [p EXCEPT !.retry = retry,
                 !.recovering = disk.pending # None,
                 !.sha = IF disk.pending = None THEN NoRev ELSE disk.pending.sha,
                 !.pc = CASE disk.pending = None -> "eligible"
                          [] disk.pending # None /\ Phase = "activate" -> "rollback"
                          [] OTHER -> "quarantine"]
    /\ UNCHANGED <<github, host, disk, trouble, activated, trail>>

\* gate_reason finds nothing to wait for: the run belongs to this revision,
\* every job and every required status succeeded.
Passed(r) == checks[r] = "success"

\* Mutants: a quarantined revision is tried again, and any quarantine holds
\* every later revision back.
EligibleAgain(retry) == disk.sha # tip /\ Passed(tip)

EligibleUnlessFailed(retry) ==
    disk.sha # tip /\ (disk.failed = NoRev \/ retry) /\ Passed(tip)

\* eligible: the candidate, or nothing to do.
Eligible(retry) ==
    /\ disk.sha # tip
    /\ disk.failed # tip \/ retry
    /\ Passed(tip)

Check ==
    /\ At("eligible")
    /\ p' = IF Eligible(p.retry)
            THEN [p EXCEPT !.pc = "preflight", !.sha = tip, !.run = ciRun[tip],
                           !.recovering = FALSE]
            ELSE Idle
    /\ UNCHANGED <<github, host, disk, trouble, retries, activated, trail>>

\* Mutant: only the images in use are protected.
ProtectedInUse == {running.img, disk.sha}

\* The images cleanup_storage must not remove: those of containers, of the
\* recorded release, of the snapshots and of the retained rollback.
Protected ==
    {running.img} \cup {disk.sha}
    \cup {s.img : s \in {disk.baseline, disk.rollback} \ {None}}
    \cup (IF disk.pending = None THEN {} ELSE {Snap.img})

\* It raises before any removal unless every service runs in one container and
\* the retained rollback resolves; a failed removal leaves the rest behind.
CleanupAllowed ==
    /\ running.img # Broken
    /\ disk.rollback # None => disk.rollback.img \in stored

CleanupStorage ==
    /\ CleanupAllowed
    /\ \E kept \in SUBSET stored :
        /\ stored \cap Protected \subseteq kept
        /\ stored' = kept

\* preflight: the checkout is clean, the storage cleaned and the disk free; a
\* raise ends the run before anything is recorded.
Preflight ==
    /\ At("preflight")
    /\ \/ CleanupStorage /\ Goto("snapshot") /\ Returns
       \/ ~CleanupAllowed /\ p' = Idle /\ Returns /\ UNCHANGED stored
       \/ Raises /\ p' = Idle /\ (CleanupStorage \/ UNCHANGED stored)
    /\ UNCHANGED <<github, running, checkout, schema, default, disk, retries, activated, trail>>

\* --cleanup-only refuses while a deployment is pending.
CleanupOnly ==
    /\ At("idle") /\ disk.pending = None
    /\ CleanupStorage
    /\ UNCHANGED <<github, running, checkout, schema, default, disk, p, trouble,
                   retries, activated, trail>>

\* Mutant: the file the label names is read as it is checked out now.
ActiveConfNow == IF running.repo THEN checkout ELSE running.conf

\* The compose file the running containers were created from: the saved one of
\* the baseline when the images are still its images, else the file their label
\* names, which in the repository is the version checked out now.
ActiveConf ==
    IF disk.baseline # None /\ disk.baseline.img = running.img THEN disk.baseline.conf
    ELSE IF running.repo THEN checkout ELSE running.conf

\* snapshot, then the checkpoint of phase pull.
TakeSnapshot ==
    /\ At("snapshot")
    /\ \/ LET snap == [img |-> running.img, conf |-> ActiveConf] IN
          /\ disk' = [disk EXCEPT !.baseline = snap,
                         !.pending = [sha |-> p.sha, phase |-> "pull", snap |-> snap]]
          /\ Goto("checkout") /\ Returns
       \/ Raises /\ p' = Idle /\ UNCHANGED disk
    /\ UNCHANGED <<github, host, retries, activated, trail>>

\* The handler of deploy: roll back only what may have been activated.
Fail == Goto(IF Phase = "activate" THEN "rollback" ELSE "quarantine")

\* update_checkout: fetch, compare the fetched tip, fast-forward.
UpdateCheckout ==
    /\ At("checkout")
    /\ \/ tip = p.sha /\ checkout' = p.sha /\ Goto("pull") /\ Returns
       \/ tip # p.sha /\ Fail /\ Returns /\ UNCHANGED checkout
       \/ Raises /\ Fail /\ checkout' \in {checkout, p.sha}
    /\ UNCHANGED <<github, running, schema, stored, default, disk, retries, activated, trail>>

\* pull_images: both images of the revision, identified by their digests.
PullImages ==
    /\ At("pull")
    /\ \/ stored' = stored \cup {p.sha} /\ Goto("prepare") /\ Returns
       \/ Raises /\ Fail /\ stored' \in {stored, stored \cup {p.sha}}
    /\ UNCHANGED <<github, running, checkout, schema, default, disk, retries, activated, trail>>

\* prepare: validate Caddy, start the broker, migrate; the old containers run on.
Prepare ==
    /\ At("prepare")
    /\ \/ schema' = p.sha /\ Goto("recheck") /\ Returns
       \/ Raises /\ Fail /\ schema' \in {schema, p.sha}
    /\ UNCHANGED <<github, running, checkout, stored, default, disk, retries, activated, trail>>

StillWanted == tip = p.sha /\ Eligible(TRUE) /\ ciRun[p.sha] = p.run

SavePhase == disk' = [disk EXCEPT !.pending.phase = "activate"]

\* Mutant: the containers are replaced before the phase is saved.
RecheckUnsaved ==
    /\ At("recheck")
    /\ StillWanted /\ Goto("activate") /\ Returns
    /\ UNCHANGED <<github, host, disk, retries, activated, trail>>

\* The second check of tip and gate: a change defers the deployment, else the
\* checkpoint enters phase activate before any container is touched.  When the
\* save of the phase raises, the process already has it in memory and rolls
\* back, whatever state.json says.
Recheck ==
    /\ At("recheck")
    /\ \/ StillWanted /\ SavePhase /\ Goto("activate") /\ Returns
       \/ StillWanted /\ Raises /\ Goto("rollback") /\ (SavePhase \/ UNCHANGED disk)
       \/ ~StillWanted /\ disk' = [disk EXCEPT !.pending = None] /\ p' = Idle /\ Returns
       \/ Raises /\ Fail /\ UNCHANGED disk
    /\ UNCHANGED <<github, host, retries, activated, trail>>

New == [img |-> p.sha, conf |-> checkout, repo |-> TRUE]
Old == [img |-> Snap.img, conf |-> Snap.conf, repo |-> FALSE]
Torn(release) == [release EXCEPT !.img = Broken]

\* docker compose up --force-recreate of the three services; when it raises,
\* containers are old, new or missing.
Activate ==
    /\ At("activate")
    /\ \/ running' = New /\ Goto("verify") /\ Returns
       \/ Raises /\ Fail /\ running' \in {running, New, Torn(New)}
    /\ activated' = [activated EXCEPT ![p.sha] = @ + 1]
    /\ UNCHANGED <<github, checkout, schema, stored, default, disk, retries, trail>>

\* verify polls the health endpoints, the revision and the image ids until the
\* deadline; a release may never become healthy.
Verify(healthy) ==
    /\ At("verify")
    /\ IF healthy THEN Goto("tag") ELSE Fail
    /\ UNCHANGED <<github, host, disk, trouble, retries, activated, trail>>

\* set_default_image_tags of the new release, before the commit.
TagDefault ==
    /\ At("tag")
    /\ \/ default' = p.sha /\ Goto("commit") /\ Returns
       \/ Raises /\ Fail /\ default' \in {default, Broken, p.sha}
    /\ UNCHANGED <<github, running, checkout, schema, stored, disk, retries, activated, trail>>

\* The successful release replaces the whole state.
Commit ==
    /\ At("commit")
    /\ trail' = "kept"
    /\ disk' = [sha |-> p.sha, failed |-> NoRev, baseline |-> None,
                pending |-> None, rollback |-> Snap]
    /\ Goto("clean")
    /\ UNCHANGED <<github, host, trouble, retries, activated>>

\* Cleanup after the commit; whatever it raises is only logged.
CleanAfter ==
    /\ At("clean")
    /\ CleanupStorage \/ UNCHANGED stored
    /\ p' = Idle
    /\ UNCHANGED <<github, running, checkout, schema, default, disk, trouble,
                   retries, activated, trail>>

\* A rollback that raises leaves its checkpoint for the next run, which goes
\* back again only if state.json says that the activation had begun.
CutShort ==
    /\ Raises /\ p' = Idle
    /\ trail' = IF Phase = "pull" THEN "lost" ELSE trail

\* rollback: recreate the containers of the snapshot from its pinned images.
Rollback ==
    /\ At("rollback")
    /\ \/ /\ Snap.img \in stored /\ running' = Old
          /\ Goto("verify_back") /\ Returns /\ UNCHANGED trail
       \/ /\ Snap.img \notin stored /\ UNCHANGED running
          /\ p' = Idle /\ Returns /\ UNCHANGED trail
       \/ CutShort /\ running' \in {running, Old, Torn(Old)}
    /\ UNCHANGED <<github, checkout, schema, stored, default, disk, retries, activated>>

\* Mutant: the default tags are not moved back.
VerifyBackUntagged ==
    /\ At("verify_back")
    /\ Goto("quarantine")
    /\ UNCHANGED <<github, host, disk, trouble, retries, activated, trail>>

VerifyBack ==
    /\ At("verify_back")
    /\ \/ Goto("tag_back") /\ Returns
       \/ Raises /\ p' = Idle
    /\ UNCHANGED <<github, host, disk, retries, activated, trail>>

TagBack ==
    /\ At("tag_back")
    /\ \/ default' = Snap.img /\ Goto("quarantine") /\ Returns /\ UNCHANGED trail
       \/ CutShort /\ default' \in {default, Broken, Snap.img}
    /\ UNCHANGED <<github, running, checkout, schema, stored, disk, retries, activated>>

\* The revision is quarantined and the checkpoint dropped; recover_interrupted
\* goes on to look for a candidate, a failed deployment ends the run.
Quarantine ==
    /\ At("quarantine")
    /\ disk' = [disk EXCEPT !.failed = disk.pending.sha, !.pending = None,
                            !.baseline = Snap]
    /\ p' = IF p.recovering THEN [p EXCEPT !.pc = "eligible"] ELSE Idle
    /\ UNCHANGED <<github, host, trouble, retries, activated, trail>>

\* The process ends before its next step: SIGTERM, SIGKILL, a reboot, or an
\* exception that deploy does not handle.
Kill ==
    /\ ~At("idle")
    /\ Raises
    /\ p' = Idle
    /\ UNCHANGED <<github, host, disk, retries, activated, trail>>

Step ==
    \/ Check \/ Preflight \/ TakeSnapshot \/ UpdateCheckout \/ PullImages \/ Prepare
    \/ Recheck \/ Activate \/ (\E healthy \in BOOLEAN : Verify(healthy)) \/ TagDefault
    \/ Commit \/ CleanAfter \/ Rollback \/ VerifyBack \/ TagBack \/ Quarantine

Next ==
    \/ Push \/ StartChecks
    \/ \E result \in {"success", "failure"} : FinishChecks(result)
    \/ \E retry \in BOOLEAN : Start(retry)
    \/ Step \/ CleanupOnly \/ Kill

\* The timer fires again and again and a run proceeds; nobody has to push, to
\* re-run checks or to retry.
Fairness == WF_vars(Start(FALSE)) /\ WF_vars(Step)

Spec == Init /\ [][Next]_vars /\ Fairness

-----------------------------------------------------------------------------
(* What the controller promises *)

\* Whatever cleanup removed and wherever a run was killed, docker still has the
\* images to run the present release, to roll an interrupted deployment back,
\* and to undo the last successful one.
RecoveryImagesKept ==
    /\ running.img # Broken => running.img \in stored
    /\ disk.pending # None => Snap.img \in stored
    /\ disk.rollback # None => disk.rollback.img \in stored

\* A release always runs with its own configuration, and a snapshot pairs the
\* images with the configuration they ran with, although the checkout may be
\* several revisions ahead of the running release.
ConfigFitsImages ==
    /\ running.img # Broken => running.conf = running.img
    /\ \A s \in {disk.baseline, disk.rollback} \ {None} : s.conf = s.img

\* Between runs, without a checkpoint, the host runs what state.json records,
\* and the default tags select that release; except after a rollback cut short
\* that state.json knew nothing of, until the next successful release.
RecordedReleaseRuns ==
    At("idle") /\ disk.pending = None /\ disk.sha # NoRev /\ trail = "kept" =>
        running.img = disk.sha /\ default = disk.sha

\* Without a checkpoint the containers are those of a complete release; the one
\* way to containers nobody will restore is a rollback cut short that state.json
\* knew nothing of.
NeverLeftBroken == disk.pending = None /\ trail = "kept" => running.img # Broken

\* No release runs on a schema older than its own.
SchemaNotBehind == running.img <= schema

\* A revision that failed or was interrupted is activated again only when the
\* operator asks for it.
ActivatedOnce == \A r \in Revs : activated[r] <= 1 + retries

\* Once GitHub is quiet, the host settles on the tip of main, unless its
\* checks do not pass, its deployment failed, or such a rollback left broken
\* containers, at which every later preflight stops.
SettlesOnTip ==
    <>[](\/ running.img = tip \/ disk.failed = tip \/ ~Passed(tip)
         \/ trail = "lost" /\ running.img = Broken /\ disk.pending = None)
=============================================================================
