-------------------------- MODULE ModelPublication --------------------------
(***************************************************************************)
(* The model registry of the recommendation service: several replicas of   *)
(* the service train a model for a job, publish it as the active model and *)
(* reload what another replica has published.  They share nothing but the  *)
(* objects of an R2 bucket: one record per job (jobs/<id>.json), the       *)
(* training lease (training-lease.json) and the manifest of the active     *)
(* model (active.json).                                                    *)
(*                                                                         *)
(* A job stands for its payload and for the one model it may build, so the *)
(* active manifest is the job that built it.  A read followed by a write   *)
(* conditional on the ETag of the read (compare_write_json) is one step:   *)
(* the write takes effect only while the object is what was read, and      *)
(* every caller treats a conflict as it treats the newer value.  A plain   *)
(* write (active.json) and a read that is acted upon later are steps of    *)
(* their own.  Every call of the store has an outcome: it returns, or it   *)
(* raises without effect, or it raises although it took effect (the        *)
(* answer was lost).                                                       *)
(***************************************************************************)
EXTENDS Naturals, FiniteSets

CONSTANTS Replicas,    \* the processes running the service
          Jobs,        \* job identifiers
          NoJob,       \* no job: no active model, nothing loaded, a free lock
          Nowhere,     \* the place of a task that does not exist yet
          Refresher,   \* the holder of update_lock while refresh runs
          MaxTrouble   \* bound on store calls that raise, crashes and stalls

ASSUME PublicationAssumption ==
    /\ IsFiniteSet(Jobs)
    /\ NoJob \notin Jobs /\ Refresher \notin Jobs /\ NoJob # Refresher
    /\ Nowhere \notin Replicas
    /\ MaxTrouble \in Nat

VARIABLES
    job,        \* the record of each job on R2
    lease,      \* the training lease on R2
    active,     \* the job whose manifest is active.json, or NoJob
    up,         \* the running replicas
    lock,       \* update_lock of each replica
    loaded,     \* the model each replica serves (loaded and manifest)
    fetched,    \* the manifest a running refresh has read
    admitted,   \* train requests past the update_task check, not yet created
    task,       \* the background task of each job
    poll,       \* jobs a status request (get_job) is about to complete
    faults, crashes, stalls,  \* counters: calls that raised, crashes, stalls
    published,  \* history: jobs whose manifest has been active
    begun,      \* history: jobs in the order they took the lease
    overtaken   \* history: jobs that lost the lease after renewing it

store == <<job, lease, active>>
replica == <<up, lock, loaded, fetched>>
bounds == <<faults, crashes, stalls>>
history == <<published, begun, overtaken>>
vars == <<store, replica, admitted, task, poll, bounds, history>>

Status == {"none", "running", "publishing", "completed", "failed", "cancelled"}
Final == {"completed", "failed", "cancelled"}
Stamps == {"none", "acquired", "renewed", "released"}
Outcomes == {"returns", "fails", "answer_lost"}
ReadOutcomes == {"returns", "fails"}
Steps == {"none", "lock", "lease", "build", "begin", "activate", "serve", "release",
          "record", "reconcile", "record_failed", "done", "dead"}

\* training-lease.json: absent at first.
NoLease == [owner |-> NoJob, stamp |-> "none", live |-> FALSE]
Leases == {NoLease} \cup [owner : Jobs, stamp : Stamps \ {"none"}, live : BOOLEAN]

\* Types; each job also takes the lease once at most, so that the n-th to take
\* it has begun[j] = n.
TypeOK ==
    /\ job \in [Jobs -> Status]
    /\ lease \in Leases
    /\ active \in Jobs \cup {NoJob}
    /\ up \subseteq Replicas
    /\ lock \in [Replicas -> Jobs \cup {NoJob, Refresher}]
    /\ loaded \in [Replicas -> Jobs \cup {NoJob}]
    /\ fetched \in [Replicas -> Jobs \cup {NoJob}]
    /\ admitted \subseteq Replicas \X Jobs
    /\ task \in [Jobs -> [pc : Steps, at : Replicas \cup {Nowhere}, stamp : Stamps, ok : BOOLEAN]]
    /\ poll \in SUBSET Jobs
    /\ {faults, crashes, stalls} \subseteq 0..MaxTrouble
    /\ published \subseteq Jobs /\ overtaken \subseteq Jobs
    /\ begun \in [Jobs -> 0..Cardinality(Jobs)]

Init ==
    /\ job = [j \in Jobs |-> "none"]
    /\ lease = NoLease
    /\ active = NoJob
    /\ up = Replicas
    /\ lock = [r \in Replicas |-> NoJob]
    /\ loaded = [r \in Replicas |-> NoJob]
    /\ fetched = [r \in Replicas |-> NoJob]
    /\ admitted = {}
    /\ task = [j \in Jobs |-> [pc |-> "none", at |-> Nowhere, stamp |-> "none", ok |-> FALSE]]
    /\ poll = {}
    /\ faults = 0 /\ crashes = 0 /\ stalls = 0
    /\ published = {} /\ overtaken = {}
    /\ begun = [j \in Jobs |-> 0]

-----------------------------------------------------------------------------
(* Store calls *)

TroubleAllowed == faults + crashes + stalls < MaxTrouble

\* What a store call may do: a raise uses up some of the modelled trouble.
Outcome(o) ==
    /\ o # "returns" => TroubleAllowed
    /\ faults' = IF o = "returns" THEN faults ELSE faults + 1
    /\ UNCHANGED <<crashes, stalls>>

Applied(o) == o \in {"returns", "answer_lost"}

\* Mutant: a cancelled record is replaced like any other.
RecordJobAny(j, value) == job' = [job EXCEPT ![j] = value]

\* record_job: the value replaces any record but a cancelled one.
RecordJob(j, value) == job' = IF job[j] = "cancelled" THEN job
                              ELSE [job EXCEPT ![j] = value]

\* The lease file is what job j wrote there last, so j's ETag still matches.
LeaseIs(j) == lease.owner = j /\ lease.stamp = task[j].stamp

WriteLease(j, stamp) ==
    lease' = [owner |-> j, stamp |-> stamp, live |-> stamp # "released"]

\* How many jobs have taken the lease so far.
Begun == Cardinality({j \in Jobs : begun[j] > 0})

-----------------------------------------------------------------------------
(* Requests of the administration API *)

\* A task of replica r has not finished.  (update_task names the latest one only:
\* with three jobs a replica could admit the third while the first still runs.)
Busy(r) == \E j \in Jobs : task[j].at = r /\ task[j].pc \notin {"none", "done", "dead"}

\* POST /internal/model/train, up to the await of create_job: an existing job
\* is answered with its status, a running task of this replica with 409.
AdmitTrain(r, j) ==
    /\ r \in up
    /\ <<r, j>> \notin admitted
    /\ job[j] = "none"
    /\ ~Busy(r)
    /\ admitted' = admitted \cup {<<r, j>>}
    /\ UNCHANGED <<store, replica, task, poll, bounds, history>>

\* create_job writes the record only if there is none, and the request that
\* wrote it schedules the work; a lost answer leaves a running job without one.
\* Other requests for the job find the record and answer with its status.
CreateJob(r, j, o) ==
    /\ <<r, j>> \in admitted
    /\ Outcome(o)
    /\ IF Applied(o)
       THEN /\ admitted' = {a \in admitted : a[2] # j}
            /\ job' = [job EXCEPT ![j] = "running"]
            /\ task' = [task EXCEPT ![j].at = r,
                            ![j].pc = IF o = "returns" THEN "lock" ELSE "dead"]
       ELSE admitted' = admitted \ {<<r, j>>} /\ UNCHANGED <<job, task>>
    /\ UNCHANGED <<lease, active, replica, poll, history>>

\* POST /internal/model/jobs/{id}/cancel: a finished job is answered as it is,
\* one in publication is refused (409), any other becomes cancelled; a job
\* that was never submitted gets a cancelled record.
CancelJob(j) ==
    /\ job[j] \in {"none", "running"}
    /\ job' = [job EXCEPT ![j] = "cancelled"]
    /\ admitted' = {a \in admitted : a[2] # j}
    /\ UNCHANGED <<lease, active, replica, task, poll, bounds, history>>

\* active.jobId must be this job's: an equal payload is not enough.
Matches(j) == active = j

\* GET /internal/model/jobs/{id}: get_job reads the record and active.json,
\* and an unfinished job whose manifest is active is about to be completed.
PollActive(j) ==
    /\ j \notin poll
    /\ job[j] \in {"running", "publishing"} /\ Matches(j)
    /\ poll' = poll \cup {j}
    /\ UNCHANGED <<store, replica, admitted, task, bounds, history>>

PollRecord(j) ==
    /\ j \in poll
    /\ RecordJob(j, "completed")
    /\ poll' = poll \ {j}
    /\ UNCHANGED <<lease, active, replica, admitted, task, bounds, history>>

-----------------------------------------------------------------------------
(* The work of a job: train_from_r2, then record_job *)

Goto(j, pc) == task' = [task EXCEPT ![j].pc = pc]

\* An exception inside train_from_r2 runs its finally clause.
Raise(j) == task' = [task EXCEPT ![j].pc = "release", ![j].ok = FALSE]

\* update_lock.acquire(blocking=False); a held lock fails the job, and a job
\* cancelled before its training starts is not trained.
StartTraining(j, o) ==
    LET r == task[j].at IN
    /\ task[j].pc = "lock"
    /\ Outcome(o)
    /\ IF lock[r] # NoJob
       THEN Goto(j, "reconcile") /\ UNCHANGED lock
       ELSE /\ lock' = [lock EXCEPT ![r] = j]
            /\ IF o = "returns" /\ job[j] # "cancelled" THEN Goto(j, "lease") ELSE Raise(j)
    /\ UNCHANGED <<store, up, loaded, fetched, admitted, poll, history>>

\* acquire_training_lease: a lease that has not expired belongs to a replica
\* in training.  When the answer is lost, nobody holds the ETag to release it.
AcquireLease(j, o) ==
    /\ task[j].pc = "lease"
    /\ Outcome(o)
    /\ IF ~lease.live /\ Applied(o)
       THEN /\ WriteLease(j, "acquired")
            /\ begun' = [begun EXCEPT ![j] = Begun + 1]
            /\ overtaken' = IF lease.stamp = "renewed" THEN overtaken \cup {lease.owner}
                            ELSE overtaken
       ELSE UNCHANGED <<lease, begun, overtaken>>
    /\ IF ~lease.live /\ o = "returns"
       THEN task' = [task EXCEPT ![j].pc = "build", ![j].stamp = "acquired"]
       ELSE Raise(j)
    /\ UNCHANGED <<job, active, replica, admitted, poll, published>>

\* Mutant: the lease is not renewed before the publication.
BuildUnrenewed(j, built, o) ==
    /\ task[j].pc = "build"
    /\ Outcome(o)
    /\ IF built /\ Applied(o) THEN WriteLease(j, "renewed") ELSE UNCHANGED lease
    /\ IF built /\ o = "returns"
       THEN task' = [task EXCEPT ![j].pc = "begin", ![j].stamp = "renewed"]
       ELSE Raise(j)
    /\ UNCHANGED <<job, active, replica, admitted, poll, history>>

\* Read the CSV, train, write the artifact and the manifest of the build and
\* load it back: any of it may fail, and changes nothing that anyone reads.
\* Then renew_training_lease, conditional on the ETag whatever the time is.
BuildAndRenew(j, built, o) ==
    /\ task[j].pc = "build"
    /\ Outcome(o)
    /\ IF built /\ LeaseIs(j) /\ Applied(o) THEN WriteLease(j, "renewed") ELSE UNCHANGED lease
    /\ IF built /\ LeaseIs(j) /\ o = "returns"
       THEN task' = [task EXCEPT ![j].pc = "begin", ![j].stamp = "renewed"]
       ELSE Raise(j)
    /\ UNCHANGED <<job, active, replica, admitted, poll, history>>

\* Mutant: the record is checked but not claimed for the publication.
BeginUnclaimed(j, o) ==
    /\ task[j].pc = "begin"
    /\ Outcome(o)
    /\ IF job[j] = "running" /\ o = "returns" THEN Goto(j, "activate") ELSE Raise(j)
    /\ UNCHANGED <<store, replica, admitted, poll, history>>

\* begin_publication: from running to publishing, or the cancellation won.
BeginPublication(j, o) ==
    /\ task[j].pc = "begin"
    /\ Outcome(o)
    /\ IF job[j] = "running" /\ Applied(o)
       THEN job' = [job EXCEPT ![j] = "publishing"]
       ELSE UNCHANGED job
    /\ IF job[j] = "running" /\ o = "returns" THEN Goto(j, "activate") ELSE Raise(j)
    /\ UNCHANGED <<lease, active, replica, admitted, poll, history>>

\* The publication point: an unconditional write of active.json.
WriteActive(j, o) ==
    /\ task[j].pc = "activate"
    /\ Outcome(o)
    /\ IF Applied(o)
       THEN active' = j /\ published' = published \cup {j}
       ELSE UNCHANGED <<active, published>>
    /\ IF o = "returns" THEN Goto(j, "serve") ELSE Raise(j)
    /\ UNCHANGED <<job, lease, replica, admitted, poll, begun, overtaken>>

Serve(j) ==
    /\ task[j].pc = "serve"
    /\ loaded' = [loaded EXCEPT ![task[j].at] = j]
    /\ task' = [task EXCEPT ![j].pc = "release", ![j].ok = TRUE]
    /\ UNCHANGED <<store, up, lock, fetched, admitted, poll, bounds, history>>

\* Mutant: the job of a published model is recorded as failed.
ReleaseFailed(j, o) ==
    /\ task[j].pc = "release"
    /\ Outcome(o)
    /\ IF task[j].stamp # "none" /\ LeaseIs(j) /\ Applied(o)
       THEN WriteLease(j, "released")
       ELSE UNCHANGED lease
    /\ lock' = [lock EXCEPT ![task[j].at] = NoJob]
    /\ Goto(j, IF task[j].ok THEN "record_failed" ELSE "reconcile")
    /\ UNCHANGED <<job, active, up, loaded, fetched, admitted, poll, history>>

\* The finally clause: release the lease if its ETag still matches, whatever
\* the store answers, then the lock.
Release(j, o) ==
    /\ task[j].pc = "release"
    /\ Outcome(o)
    /\ IF task[j].stamp # "none" /\ LeaseIs(j) /\ Applied(o)
       THEN WriteLease(j, "released")
       ELSE UNCHANGED lease
    /\ lock' = [lock EXCEPT ![task[j].at] = NoJob]
    /\ Goto(j, IF task[j].ok THEN "record" ELSE "reconcile")
    /\ UNCHANGED <<job, active, up, loaded, fetched, admitted, poll, history>>

\* record_job(completed); if it raises, the job is reconciled like a failure.
RecordCompleted(j, o) ==
    /\ task[j].pc = "record"
    /\ Outcome(o)
    /\ IF Applied(o) THEN RecordJob(j, "completed") ELSE UNCHANGED job
    /\ Goto(j, CASE o = "returns" -> "done"
                 [] o # "returns" /\ task[j].ok -> "reconcile"
                 [] OTHER -> "dead")
    /\ UNCHANGED <<lease, active, replica, admitted, poll, history>>

\* Mutant: a job in publication is left to its publisher.
ReconcilePublishing(j, o) ==
    /\ task[j].pc = "reconcile"
    /\ Outcome(o)
    /\ task' = [task EXCEPT ![j].ok = FALSE,
                    ![j].pc = CASE o # "returns" -> "dead"
                                [] o = "returns" /\ job[j] \in {"completed", "cancelled", "publishing"} -> "done"
                                [] o = "returns" /\ job[j] = "running"
                                                 /\ Matches(j) -> "record"
                                [] OTHER -> "record_failed"]
    /\ UNCHANGED <<store, replica, admitted, poll, history>>

\* The exception handler of the work: get_job reads the record and active.json
\* and completes the job if its manifest is active; an unfinished job failed.
Reconcile(j, o) ==
    /\ task[j].pc = "reconcile"
    /\ Outcome(o)
    /\ task' = [task EXCEPT ![j].ok = FALSE,
                    ![j].pc = CASE o # "returns" -> "dead"
                                [] o = "returns" /\ job[j] \in {"completed", "cancelled"} -> "done"
                                [] o = "returns" /\ job[j] \in {"running", "publishing"}
                                                 /\ Matches(j) -> "record"
                                [] OTHER -> "record_failed"]
    /\ UNCHANGED <<store, replica, admitted, poll, history>>

RecordFailed(j, o) ==
    /\ task[j].pc = "record_failed"
    /\ Outcome(o)
    /\ IF Applied(o) THEN RecordJob(j, "failed") ELSE UNCHANGED job
    /\ Goto(j, IF o = "returns" THEN "done" ELSE "dead")
    /\ UNCHANGED <<lease, active, replica, admitted, poll, history>>

Work(j) ==
    \/ Serve(j)
    \/ \E built \in BOOLEAN, o \in Outcomes : BuildAndRenew(j, built, o)
    \/ \E o \in ReadOutcomes : StartTraining(j, o) \/ Reconcile(j, o)
    \/ \E o \in Outcomes :
        \/ AcquireLease(j, o) \/ BeginPublication(j, o) \/ WriteActive(j, o)
        \/ Release(j, o) \/ RecordCompleted(j, o) \/ RecordFailed(j, o)

-----------------------------------------------------------------------------
(* The refresh loop of a replica, crashes, and the clock of the lease *)

\* Mutant: a replica that has a model reads no other.
RefreshOnce(r, o) ==
    /\ r \in up
    /\ lock[r] = NoJob
    /\ loaded[r] = NoJob /\ active # NoJob
    /\ Outcome(o)
    /\ IF o = "returns"
       THEN /\ lock' = [lock EXCEPT ![r] = Refresher]
            /\ fetched' = [fetched EXCEPT ![r] = active]
       ELSE UNCHANGED <<lock, fetched>>
    /\ UNCHANGED <<store, up, loaded, admitted, task, poll, history>>

\* refresh: skipped while a training holds update_lock; load reads active.json
\* and returns when the manifest is the one already loaded.
RefreshRead(r, o) ==
    /\ r \in up
    /\ lock[r] = NoJob
    /\ active # loaded[r]
    /\ Outcome(o)
    /\ IF o = "returns"
       THEN /\ lock' = [lock EXCEPT ![r] = Refresher]
            /\ fetched' = [fetched EXCEPT ![r] = active]
       ELSE UNCHANGED <<lock, fetched>>
    /\ UNCHANGED <<store, up, loaded, admitted, task, poll, history>>

\* The archive of the manifest replaces the model; a failed load keeps it.
RefreshLoad(r, o) ==
    /\ lock[r] = Refresher
    /\ Outcome(o)
    /\ loaded' = IF o = "returns" THEN [loaded EXCEPT ![r] = fetched[r]] ELSE loaded
    /\ lock' = [lock EXCEPT ![r] = NoJob]
    /\ fetched' = [fetched EXCEPT ![r] = NoJob]
    /\ UNCHANGED <<store, up, admitted, task, poll, history>>

\* The process of a replica ends, with its tasks, its lock and its model.
Crash(r) ==
    /\ r \in up
    /\ TroubleAllowed
    /\ crashes' = crashes + 1
    /\ up' = up \ {r}
    /\ lock' = [lock EXCEPT ![r] = NoJob]
    /\ loaded' = [loaded EXCEPT ![r] = NoJob]
    /\ fetched' = [fetched EXCEPT ![r] = NoJob]
    /\ admitted' = {a \in admitted : a[1] # r}
    /\ task' = [j \in Jobs |-> IF task[j].at = r /\ task[j].pc \notin {"none", "done"}
                               THEN [task[j] EXCEPT !.pc = "dead"] ELSE task[j]]
    /\ UNCHANGED <<store, poll, faults, stalls, history>>

Restart(r) ==
    /\ r \notin up
    /\ up' = up \cup {r}
    /\ UNCHANGED <<store, lock, loaded, fetched, admitted, task, poll, bounds, history>>

\* expiresAt passes: at once for a lease nobody will release, and for a
\* training that takes longer than its 1800 seconds (a stall, bounded).
LeaseExpires ==
    LET abandoned == task[lease.owner].pc \in {"reconcile", "record", "record_failed",
                                               "done", "dead"} IN
    /\ lease.live
    /\ abandoned \/ TroubleAllowed
    /\ stalls' = IF abandoned THEN stalls ELSE stalls + 1
    /\ lease' = [lease EXCEPT !.live = FALSE]
    /\ UNCHANGED <<job, active, replica, admitted, task, poll, faults, crashes, history>>

Next ==
    \/ \E j \in Jobs :
        \/ CancelJob(j) \/ PollActive(j) \/ PollRecord(j) \/ Work(j)
        \/ \E r \in Replicas : AdmitTrain(r, j)
        \/ \E r \in Replicas, o \in Outcomes : CreateJob(r, j, o)
    \/ \E r \in Replicas :
        \/ Crash(r) \/ Restart(r)
        \/ \E o \in ReadOutcomes : RefreshRead(r, o) \/ RefreshLoad(r, o)
    \/ LeaseExpires

\* Threads run on, requests are answered, the loops refresh, processes are
\* restarted and time passes; nobody has to submit or to cancel anything.
Fairness ==
    /\ \A j \in Jobs : /\ WF_vars(Work(j))
                       /\ WF_vars(\E r \in Replicas, o \in Outcomes : CreateJob(r, j, o))
                       /\ WF_vars(PollRecord(j))
    /\ \A r \in Replicas :
        /\ WF_vars(\E o \in ReadOutcomes : RefreshRead(r, o))
        /\ WF_vars(\E o \in ReadOutcomes : RefreshLoad(r, o))
        /\ WF_vars(Restart(r))
    /\ WF_vars(LeaseExpires)

Spec == Init /\ [][Next]_vars /\ Fairness

-----------------------------------------------------------------------------
(* What the registry promises *)

\* A job whose cancellation was acknowledged never becomes the active model:
\* the write of active.json comes after begin_publication claimed the record.
CancelledNeverPublished ==
    \A j \in Jobs : job[j] = "cancelled" =>
        j \notin published /\ task[j].pc \notin {"activate", "serve"}

\* A job is reported completed only if its manifest has been active, whoever
\* reported it: its own task, its exception handler or a status request.
CompletedWasPublished ==
    \A j \in Jobs : job[j] = "completed" => j \in published

\* A replica serves only models that were published at some time, also when
\* the write of active.json raised or a reload failed half way.
ServedWasPublished ==
    \A r \in Replicas : {loaded[r], fetched[r]} \ {NoJob} \subseteq published

\* The active model is the latest build that was published, unless its builder
\* stalled: it renewed its lease, and another replica took it after it expired.
ActiveIsNewest ==
    active # NoJob =>
        \/ active \in overtaken
        \/ \A j \in published : begun[j] <= begun[active]

\* Two jobs work under a valid lease at the same time only after a stall.
OneBuilder ==
    \A j, k \in Jobs :
        /\ j # k /\ stalls = 0
        /\ task[j].pc \in {"build", "begin", "activate", "serve"}
        => task[k].pc \notin {"build", "begin", "activate", "serve"}

\* When the store answered every call, a job whose work ended is completed if
\* its model was published, however status requests and later jobs interleave.
PublishedIsReported ==
    \A j \in Jobs : faults = 0 /\ task[j].pc = "done" /\ j \in published
                    => job[j] = "completed"

\* The result of a job is final: an acknowledged cancellation always, and the
\* other results as long as the store answers.
ResultIsFinal ==
    [][\A j \in Jobs : job[j] = "cancelled" \/ (job[j] \in Final /\ faults = 0)
                       => job'[j] = job[j]]_vars

\* The registry implements TrainingRegistry, where publishing is one step and nothing
\* fails half-way: whatever raises, crashes or stalls between the records, the lease and
\* active.json, administrators and replicas see only what those steps allow.
Result(j) == IF job[j] \in {"running", "publishing"} THEN "open" ELSE job[j]

Registry == INSTANCE TrainingRegistry WITH
    result <- [j \in Jobs |-> Result(j)],
    serves <- loaded,
    calm <- faults = 0

ImplementsRegistry == Registry!Spec

\* A submitted job reaches a result, unless its process or its last store
\* calls failed: the leases and locks of others never hold it for ever.
JobSettles ==
    \A j \in Jobs : job[j] \in {"running", "publishing"} ~>
                        job[j] \in Final \/ task[j].pc = "dead"

\* In the end every replica serves the active model.
ReplicasConverge == <>[](\A r \in Replicas : loaded[r] = active)
=============================================================================
