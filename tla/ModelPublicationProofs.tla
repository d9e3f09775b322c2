------------------------ MODULE ModelPublicationProofs ------------------------
(***************************************************************************)
(* For any replicas and jobs, and any number of failed calls, crashes and  *)
(* stalls: a cancelled job is not published, what is reported or served    *)
(* was published, one job builds at a time, the active model is the newest *)
(* unless its builder was overtaken, and TrainingRegistry is implemented.  *)
(***************************************************************************)
EXTENDS ModelPublication, FiniteSetTheorems, TLAPS

\* What the type of a step does not say.  A request waits only for a job that
\* nobody has created, and a job has taken no lease before its turn.
StepsInOrder ==
    /\ \A a \in admitted : job[a[2]] = "none"
    /\ \A j \in poll : job[j] # "none"
    /\ \A j \in Jobs :
        /\ job[j] = "none" => task[j].pc = "none"
        /\ task[j].pc \in {"none", "lock", "lease"} => begun[j] = 0

\* The record is claimed before active.json is written, and stays claimed.
ClaimedBeforeActive ==
    \A j \in Jobs :
        task[j].pc = "activate" => job[j] = "publishing" /\ j \notin published

\* A published job is neither cancelled nor on its way to publication.
PublishedIsClaimed ==
    \A j \in published :
        /\ job[j] \in {"publishing", "completed", "failed"}
        /\ task[j].pc \notin {"none", "lock", "lease", "build", "begin"}

\* Everything that is reported or served goes back to a written active.json.
ReportsArePublished ==
    /\ active # NoJob => active \in published
    /\ poll \subseteq published
    /\ \A j \in Jobs :
        /\ job[j] = "completed" => j \in published
        /\ task[j].pc \in {"serve", "record"} => j \in published
        /\ task[j].pc = "release" /\ task[j].ok => j \in published

\* While the store answers, a published job goes straight to its record.
StraightToRecord ==
    faults = 0 => \A j \in published :
        /\ task[j].pc \in {"serve", "release", "record", "done", "dead"}
        /\ task[j].pc = "release" => task[j].ok
        /\ task[j].pc = "done" => job[j] = "completed"
        /\ job[j] # "failed"

\* Without a stall who builds owns the valid lease.
BuilderOwnsLease ==
    stalls = 0 => \A j \in Jobs :
        task[j].pc \in {"build", "begin", "activate", "serve"} =>
            lease.owner = j /\ lease.live

\* Jobs are numbered as they take the lease, and its owner is the last of them.
LeaseOrder ==
    /\ \A j \in Jobs : begun[j] <= Begun
    /\ lease.owner # NoJob => \A j \in Jobs : begun[j] <= begun[lease.owner]
    /\ \A j \in Jobs : task[j].pc \in {"begin", "activate"} =>
            j \in overtaken \/ (lease.owner = j /\ lease.stamp = "renewed")

-----------------------------------------------------------------------------
(* Types *)

Tasks == [pc : Steps, at : Replicas \cup {Nowhere}, stamp : Stamps, ok : BOOLEAN]

TypeInv == TypeOK /\ StepsInOrder

LEMMA GotoTypes ==
    ASSUME TypeOK, NEW j \in Jobs, NEW pc \in Steps, Goto(j, pc)
    PROVE  /\ task' \in [Jobs -> Tasks]
           /\ task'[j] = [task[j] EXCEPT !.pc = pc]
           /\ task'[j].pc = pc /\ task'[j].ok = task[j].ok
           /\ \A k \in Jobs \ {j} : task'[k] = task[k]
BY DEF Goto, TypeOK, Tasks

LEMMA RaiseTypes ==
    ASSUME TypeOK, NEW j \in Jobs, Raise(j)
    PROVE  /\ task' \in [Jobs -> Tasks]
           /\ task'[j].pc = "release" /\ task'[j].ok = FALSE
           /\ \A k \in Jobs \ {j} : task'[k] = task[k]
<1> DEFINE t == [task[j] EXCEPT !.pc = "release", !.ok = FALSE]
<1>1. task \in [Jobs -> Tasks] /\ task[j] \in Tasks BY DEF TypeOK, Tasks
<1>2. task' = [task EXCEPT ![j] = t] BY <1>1 DEF Raise, Tasks
<1>3. t \in Tasks /\ t.pc = "release" /\ t.ok = FALSE BY <1>1 DEF Tasks, Steps
<1> HIDE DEF t
<1>4. QED BY <1>1, <1>2, <1>3

LEMMA OutcomeTypes ==
    ASSUME TypeOK, NEW o, Outcome(o)
    PROVE  /\ {faults', crashes', stalls'} \subseteq 0..MaxTrouble
           /\ crashes' = crashes /\ stalls' = stalls
           /\ faults' = 0 => faults = 0 /\ o = "returns"
BY PublicationAssumption DEF Outcome, TroubleAllowed, TypeOK

LEMMA RecordTypes ==
    ASSUME TypeOK, NEW j \in Jobs, NEW value \in Status, RecordJob(j, value)
    PROVE  /\ job' \in [Jobs -> Status]
           /\ \A k \in Jobs \ {j} : job'[k] = job[k]
           /\ job[j] = "cancelled" => job'[j] = "cancelled"
           /\ job[j] # "cancelled" => job'[j] = value
BY DEF RecordJob, TypeOK

LEMMA WriteLeaseTypes ==
    ASSUME NEW j \in Jobs, NEW stamp \in Stamps \ {"none"}, WriteLease(j, stamp)
    PROVE  /\ lease' \in Leases
           /\ lease'.owner = j /\ lease'.stamp = stamp
           /\ lease'.live = (stamp # "released")
BY DEF WriteLease, Leases

\* The number of a job that takes the lease is new, and there are enough.
LEMMA BegunCounts ==
    ASSUME TypeOK, NEW j \in Jobs, begun[j] = 0,
           begun' = [begun EXCEPT ![j] = Begun + 1]
    PROVE  /\ Begun \in Nat /\ Begun + 1 <= Cardinality(Jobs)
           /\ begun' \in [Jobs -> 0..Cardinality(Jobs)]
           /\ Begun' = Begun + 1
<1> DEFINE S == {k \in Jobs : begun[k] > 0}
           T == {k \in Jobs : begun'[k] > 0}
<1>1. IsFiniteSet(Jobs) BY PublicationAssumption
<1>2. /\ IsFiniteSet(S) /\ Cardinality(S) \in Nat /\ Cardinality(Jobs) \in Nat
  BY <1>1, FS_Subset, FS_CardinalityType
<1>3. T = S \cup {j}
  <2>1. \A k \in Jobs : begun[k] \in Nat BY <1>2 DEF TypeOK
  <2>2. begun'[j] = Cardinality(S) + 1 /\ \A k \in Jobs \ {j} : begun'[k] = begun[k]
    BY DEF TypeOK, Begun
  <2>3. QED BY <1>2, <2>2
<1>4. j \notin S BY DEF TypeOK
<1>5. Cardinality(S \cup {j}) = Cardinality(S) + 1 BY <1>2, <1>4, FS_AddElement
<1>6. IsFiniteSet(S \cup {j}) BY <1>2, FS_AddElement
<1>7. S \cup {j} \subseteq Jobs OBVIOUS
<1>8. Cardinality(S \cup {j}) <= Cardinality(Jobs) BY <1>1, <1>7, FS_Subset
<1> HIDE DEF S, T
<1>9. Begun = Cardinality(S) /\ Begun' = Cardinality(T) BY DEF Begun, S, T
<1>10. QED BY <1>2, <1>3, <1>5, <1>8, <1>9 DEF TypeOK

LEMMA InitTypes == Init => TypeInv
<1> SUFFICES ASSUME Init PROVE TypeInv OBVIOUS
<1>1. Cardinality(Jobs) \in Nat BY PublicationAssumption, FS_CardinalityType
<1>2. QED BY <1>1, PublicationAssumption
           DEF Init, TypeInv, TypeOK, Leases, StepsInOrder, Status, Stamps, Steps

\* Requests, and the answers to status requests.
LEMMA RequestTypes ==
    ASSUME TypeInv, NEW j \in Jobs,
           \/ \E r \in Replicas : AdmitTrain(r, j)
           \/ \E r \in Replicas, o \in Outcomes : CreateJob(r, j, o)
           \/ CancelJob(j) \/ PollActive(j) \/ PollRecord(j)
    PROVE  TypeInv'
<1> USE DEF TypeInv, StepsInOrder
<1>1. ASSUME NEW r \in Replicas, AdmitTrain(r, j) PROVE TypeInv'
  <2>1. admitted' \subseteq Replicas \X Jobs BY <1>1 DEF AdmitTrain, TypeOK
  <2>2. \A a \in admitted' : job[a[2]] = "none" BY <1>1 DEF AdmitTrain
  <2>3. QED BY <1>1, <2>1, <2>2 DEF AdmitTrain, store, replica, bounds, history, TypeOK
<1>2. ASSUME NEW r \in Replicas, NEW o \in Outcomes, CreateJob(r, j, o) PROVE TypeInv'
  <2>1. {faults', crashes', stalls'} \subseteq 0..MaxTrouble
    BY <1>2, OutcomeTypes DEF CreateJob
  <2>2. CASE Applied(o)
    <3> DEFINE pc == IF o = "returns" THEN "lock" ELSE "dead"
               t == [task[j] EXCEPT !.at = r, !.pc = pc]
    <3>1. task \in [Jobs -> Tasks] /\ task[j] \in Tasks BY DEF TypeOK, Tasks
    <3>2. /\ task' = [task EXCEPT ![j] = t] /\ job' = [job EXCEPT ![j] = "running"]
          /\ admitted' = {a \in admitted : a[2] # j}
      BY <1>2, <2>2, <3>1 DEF CreateJob, Tasks
    <3>3. t \in Tasks /\ t.pc # "none" /\ t.pc \in {"lock", "dead"}
      BY <3>1 DEF Tasks, Steps
    <3>4. begun[j] = 0 BY <1>2 DEF CreateJob
    <3> HIDE DEF t
    <3>5. task' \in [Jobs -> Tasks] /\ job' \in [Jobs -> Status]
      BY <3>1, <3>2, <3>3 DEF TypeOK, Status
    <3>6. TypeOK'
      BY <1>2, <2>1, <3>2, <3>5 DEF CreateJob, replica, history, TypeOK, Tasks
    <3>7. /\ \A k \in Jobs \ {j} : task'[k] = task[k] /\ job'[k] = job[k]
          /\ task'[j] = t /\ job'[j] = "running" /\ begun' = begun
      BY <1>2, <3>1, <3>2 DEF CreateJob, history, TypeOK
    <3>8. \A a \in admitted' : job'[a[2]] = "none"
      BY <3>2, <3>7 DEF TypeOK
    <3>9. poll' = poll /\ poll \subseteq Jobs BY <1>2 DEF CreateJob, TypeOK
    <3>10. QED BY <3>3, <3>4, <3>6, <3>7, <3>8, <3>9
  <2>3. CASE ~Applied(o)
    BY <1>2, <2>1, <2>3 DEF CreateJob, replica, history, TypeOK
  <2>4. QED BY <2>2, <2>3
<1>3. CASE CancelJob(j)
  <2>1. job' \in [Jobs -> Status] BY <1>3 DEF CancelJob, TypeOK, Status
  <2>2. TypeOK' BY <1>3, <2>1 DEF CancelJob, replica, bounds, history, TypeOK
  <2>3. /\ job'[j] = "cancelled" /\ \A k \in Jobs \ {j} : job'[k] = job[k]
        /\ admitted' = {a \in admitted : a[2] # j}
    BY <1>3 DEF CancelJob, TypeOK
  <2>4. \A a \in admitted' : job'[a[2]] = "none" BY <2>3 DEF TypeOK
  <2>5. poll \subseteq Jobs BY DEF TypeOK
  <2>6. UNCHANGED <<poll, task, begun>> BY <1>3 DEF CancelJob, history
  <2>7. QED BY <2>2, <2>3, <2>4, <2>5, <2>6
<1>4. CASE PollActive(j) BY <1>4 DEF PollActive, store, replica, bounds, history, TypeOK
<1>5. CASE PollRecord(j)
  <2>1. /\ job' \in [Jobs -> Status] /\ \A k \in Jobs \ {j} : job'[k] = job[k]
        /\ job'[j] \in {"cancelled", "completed"}
    BY <1>5, RecordTypes DEF PollRecord, Status
  <2>2. TypeOK' BY <1>5, <2>1 DEF PollRecord, replica, bounds, history, TypeOK
  <2>3. /\ job[j] # "none" /\ poll' = poll \ {j}
        /\ UNCHANGED <<admitted, task, begun>>
    BY <1>5 DEF PollRecord, history
  <2>4. \A a \in admitted : a[2] # j BY <2>3
  <2>5. poll \subseteq Jobs /\ \A a \in admitted : a[2] \in Jobs BY DEF TypeOK
  <2>6. QED BY <2>1, <2>2, <2>3, <2>4, <2>5
<1>6. QED BY <1>1, <1>2, <1>3, <1>4, <1>5

\* A step of the work of j leaves the others' records and tasks alone.
OthersStay(j) ==
    /\ \A k \in Jobs \ {j} : task'[k] = task[k] /\ job'[k] = job[k] /\ begun'[k] = begun[k]
    /\ UNCHANGED <<admitted, poll>>

LEMMA OrderKept ==
    ASSUME TypeInv, NEW j \in Jobs, OthersStay(j), task[j].pc # "none",
           job[j] # "none" => job'[j] # "none",
           task'[j].pc \notin {"none", "lock"},
           task'[j].pc = "lease" => begun'[j] = 0
    PROVE  StepsInOrder'
<1> USE DEF TypeInv, StepsInOrder, OthersStay
<1>1. /\ admitted \subseteq Replicas \X Jobs /\ poll \subseteq Jobs
      /\ job[j] # "none"
  BY DEF TypeOK
<1>2. \A a \in admitted : a[2] \in Jobs BY <1>1
<1>3. QED BY <1>1, <1>2

LEMMA StartTypes ==
    ASSUME TypeInv, NEW j \in Jobs, NEW o \in ReadOutcomes, StartTraining(j, o)
    PROVE  TypeInv'
<1> USE DEF TypeInv
<1>1. UNCHANGED <<job, lease, active, begun, published, overtaken, up, loaded, fetched, admitted, poll>>
  BY DEF StartTraining, store, history
<1>2. {faults', crashes', stalls'} \subseteq 0..MaxTrouble BY OutcomeTypes DEF StartTraining
<1>3. lock' \in [Replicas -> Jobs \cup {NoJob, Refresher}] BY DEF StartTraining, TypeOK
<1>4. Goto(j, "reconcile") \/ Goto(j, "lease") \/ Raise(j) BY DEF StartTraining
<1>5. /\ task' \in [Jobs -> Tasks] /\ task'[j].pc \in {"reconcile", "lease", "release"}
      /\ \A k \in Jobs \ {j} : task'[k] = task[k]
  BY <1>4, GotoTypes, RaiseTypes DEF Steps
<1>6. TypeOK' BY <1>1, <1>2, <1>3, <1>5 DEF TypeOK, Tasks
<1>7. task[j].pc = "lock" /\ begun[j] = 0 BY DEF StartTraining, StepsInOrder
<1>8. OthersStay(j) BY <1>1, <1>5 DEF OthersStay
<1>9. QED BY <1>1, <1>5, <1>6, <1>7, <1>8, OrderKept

LEMMA AcquireTypes ==
    ASSUME TypeInv, NEW j \in Jobs, NEW o \in Outcomes, AcquireLease(j, o)
    PROVE  TypeInv'
<1> USE DEF TypeInv
<1>1. UNCHANGED <<job, active, up, lock, loaded, fetched, admitted, poll, published>>
  BY DEF AcquireLease, replica
<1>2. {faults', crashes', stalls'} \subseteq 0..MaxTrouble BY OutcomeTypes DEF AcquireLease
<1>3. task[j].pc = "lease" /\ begun[j] = 0 BY DEF AcquireLease, StepsInOrder
<1>4. /\ lease' \in Leases
      /\ overtaken' \subseteq Jobs
      /\ begun' \in [Jobs -> 0..Cardinality(Jobs)]
      /\ \A k \in Jobs \ {j} : begun'[k] = begun[k]
  <2>1. CASE ~lease.live /\ Applied(o)
    <3>1. /\ WriteLease(j, "acquired") /\ begun' = [begun EXCEPT ![j] = Begun + 1]
          /\ overtaken' = IF lease.stamp = "renewed" THEN overtaken \cup {lease.owner}
                          ELSE overtaken
      BY <2>1 DEF AcquireLease
    <3>2. lease.stamp = "renewed" => lease.owner \in Jobs
      BY DEF TypeOK, Leases, NoLease
    <3>3. "acquired" \in Stamps \ {"none"} BY DEF Stamps
    <3>4. lease' \in Leases
      BY <3>1, <3>3, WriteLeaseTypes
    <3>5. begun' \in [Jobs -> 0..Cardinality(Jobs)] BY <1>3, <3>1, BegunCounts
    <3>6. QED BY <3>1, <3>2, <3>4, <3>5 DEF TypeOK
  <2>2. CASE ~(~lease.live /\ Applied(o)) BY <2>2 DEF AcquireLease, TypeOK
  <2>3. QED BY <2>1, <2>2
<1>5. /\ task' \in [Jobs -> Tasks] /\ task'[j].pc \in {"build", "release"}
      /\ \A k \in Jobs \ {j} : task'[k] = task[k]
  <2>1. CASE Raise(j) BY <2>1, RaiseTypes
  <2>2. CASE task' = [task EXCEPT ![j].pc = "build", ![j].stamp = "acquired"]
    <3> DEFINE t == [task[j] EXCEPT !.pc = "build", !.stamp = "acquired"]
    <3>1. task \in [Jobs -> Tasks] /\ task[j] \in Tasks BY DEF TypeOK, Tasks
    <3>2. task' = [task EXCEPT ![j] = t] BY <2>2, <3>1 DEF Tasks
    <3>3. t \in Tasks /\ t.pc = "build" BY <3>1 DEF Tasks, Steps, Stamps
    <3> HIDE DEF t
    <3>4. QED BY <3>1, <3>2, <3>3
  <2>3. QED BY <2>1, <2>2 DEF AcquireLease
<1>6. TypeOK' BY <1>1, <1>2, <1>4, <1>5 DEF TypeOK, Tasks
<1>7. OthersStay(j) BY <1>1, <1>4, <1>5 DEF OthersStay
<1>8. QED BY <1>1, <1>3, <1>5, <1>6, <1>7, OrderKept

LEMMA BuildTypes ==
    ASSUME TypeInv, NEW j \in Jobs, NEW built \in BOOLEAN, NEW o \in Outcomes,
           BuildAndRenew(j, built, o)
    PROVE  TypeInv'
<1> USE DEF TypeInv
<1>1. UNCHANGED <<job, active, up, lock, loaded, fetched, admitted, poll, published, begun, overtaken>>
  BY DEF BuildAndRenew, replica, history
<1>2. {faults', crashes', stalls'} \subseteq 0..MaxTrouble BY OutcomeTypes DEF BuildAndRenew
<1>3. lease' \in Leases
  <2>1. "renewed" \in Stamps \ {"none"} BY DEF Stamps
  <2>2. QED BY <2>1, WriteLeaseTypes DEF BuildAndRenew, TypeOK
<1>4. /\ task' \in [Jobs -> Tasks] /\ task'[j].pc \in {"begin", "release"}
      /\ \A k \in Jobs \ {j} : task'[k] = task[k]
  <2>1. CASE Raise(j) BY <2>1, RaiseTypes
  <2>2. CASE task' = [task EXCEPT ![j].pc = "begin", ![j].stamp = "renewed"]
    <3> DEFINE t == [task[j] EXCEPT !.pc = "begin", !.stamp = "renewed"]
    <3>1. task \in [Jobs -> Tasks] /\ task[j] \in Tasks BY DEF TypeOK, Tasks
    <3>2. task' = [task EXCEPT ![j] = t] BY <2>2, <3>1 DEF Tasks
    <3>3. t \in Tasks /\ t.pc = "begin" BY <3>1 DEF Tasks, Steps, Stamps
    <3> HIDE DEF t
    <3>4. QED BY <3>1, <3>2, <3>3
  <2>3. QED BY <2>1, <2>2 DEF BuildAndRenew
<1>5. TypeOK' BY <1>1, <1>2, <1>3, <1>4 DEF TypeOK, Tasks
<1>6. OthersStay(j) /\ task[j].pc # "none" BY <1>1, <1>4 DEF OthersStay, BuildAndRenew
<1>7. QED BY <1>1, <1>4, <1>5, <1>6, OrderKept

\* The steps that change nothing but the record of j, its task and the
\* publication.
LEMMA RecordStepTypes ==
    ASSUME TypeInv, NEW j \in Jobs, NEW o \in Outcomes,
           BeginPublication(j, o) \/ WriteActive(j, o) \/ RecordCompleted(j, o)
             \/ RecordFailed(j, o) \/ Reconcile(j, o)
    PROVE  TypeInv'
<1> USE DEF TypeInv
<1>1. /\ UNCHANGED <<lease, up, lock, loaded, fetched, admitted, poll, begun, overtaken>>
      /\ {faults', crashes', stalls'} \subseteq 0..MaxTrouble
      /\ task[j].pc \notin {"none", "lock", "lease"}
  BY OutcomeTypes DEF BeginPublication, WriteActive, RecordCompleted, RecordFailed, Reconcile,
     replica, history, store
<1>2. /\ active' \in Jobs \cup {NoJob} /\ published' \subseteq Jobs
  BY DEF BeginPublication, WriteActive, RecordCompleted, RecordFailed, Reconcile, history, store,
     TypeOK
<1>3. /\ job' \in [Jobs -> Status] /\ (job[j] # "none" => job'[j] # "none")
      /\ \A k \in Jobs \ {j} : job'[k] = job[k]
  <2>1. CASE RecordJob(j, "completed") \/ RecordJob(j, "failed")
    BY <2>1, RecordTypes DEF Status
  <2>2. CASE job' = [job EXCEPT ![j] = "publishing"] BY <2>2 DEF TypeOK, Status
  <2>3. CASE job' = job BY <2>3 DEF TypeOK
  <2>4. QED BY <2>1, <2>2, <2>3 DEF BeginPublication, WriteActive, RecordCompleted,
               RecordFailed, Reconcile, store
<1>4. /\ task' \in [Jobs -> Tasks] /\ task'[j].pc \notin {"none", "lock", "lease"}
      /\ \A k \in Jobs \ {j} : task'[k] = task[k]
  <2>1. CASE Raise(j) BY <2>1, RaiseTypes
  <2>2. ASSUME NEW pc \in {"activate", "serve", "done", "dead", "reconcile"}, Goto(j, pc)
        PROVE  /\ task' \in [Jobs -> Tasks] /\ task'[j].pc \notin {"none", "lock", "lease"}
               /\ \A k \in Jobs \ {j} : task'[k] = task[k]
    BY <2>2, GotoTypes DEF Steps
  <2>3. CASE Reconcile(j, o)
    <3>1. PICK pc \in {"dead", "done", "record", "record_failed"} :
              task' = [task EXCEPT ![j].ok = FALSE, ![j].pc = pc]
      BY <2>3 DEF Reconcile
    <3> DEFINE t == [task[j] EXCEPT !.ok = FALSE, !.pc = pc]
    <3>2. task \in [Jobs -> Tasks] /\ task[j] \in Tasks BY DEF TypeOK, Tasks
    <3>3. task' = [task EXCEPT ![j] = t] BY <3>1, <3>2 DEF Tasks
    <3>4. t \in Tasks /\ t.pc = pc BY <3>1, <3>2 DEF Tasks, Steps
    <3> HIDE DEF t
    <3>5. QED BY <3>1, <3>2, <3>3, <3>4
  <2>4. QED BY <2>1, <2>2, <2>3 DEF BeginPublication, WriteActive, RecordCompleted, RecordFailed
<1>5. TypeOK' BY <1>1, <1>2, <1>3, <1>4 DEF TypeOK, Tasks
<1>6. OthersStay(j) BY <1>1, <1>3, <1>4 DEF OthersStay
<1>7. QED BY <1>1, <1>3, <1>4, <1>5, <1>6, OrderKept

LEMMA ServeTypes ==
    ASSUME TypeInv, NEW j \in Jobs, Serve(j) PROVE TypeInv'
<1> USE DEF TypeInv
<1> DEFINE t == [task[j] EXCEPT !.pc = "release", !.ok = TRUE]
<1>1. task \in [Jobs -> Tasks] /\ task[j] \in Tasks BY DEF TypeOK, Tasks
<1>2. task' = [task EXCEPT ![j] = t] BY <1>1 DEF Serve, Tasks
<1>3. t \in Tasks /\ t.pc = "release" BY <1>1 DEF Tasks, Steps
<1> HIDE DEF t
<1>4. /\ task' \in [Jobs -> Tasks] /\ task'[j].pc = "release"
      /\ \A k \in Jobs \ {j} : task'[k] = task[k]
  BY <1>1, <1>2, <1>3
<1>5. TypeOK' BY <1>4 DEF Serve, TypeOK, Tasks, store, bounds, history
<1>6. /\ UNCHANGED <<job, begun, admitted, poll>> /\ task[j].pc = "serve"
  BY DEF Serve, store, history
<1>7. OthersStay(j) BY <1>4, <1>6 DEF OthersStay
<1>8. QED BY <1>4, <1>5, <1>6, <1>7, OrderKept

LEMMA ReleaseTypes ==
    ASSUME TypeInv, NEW j \in Jobs, NEW o \in Outcomes, Release(j, o) PROVE TypeInv'
<1> USE DEF TypeInv
<1>1. /\ UNCHANGED <<job, active, up, loaded, fetched, admitted, poll, published, begun, overtaken>>
      /\ task[j].pc = "release"
  BY DEF Release, history
<1>2. {faults', crashes', stalls'} \subseteq 0..MaxTrouble BY OutcomeTypes DEF Release
<1>3. lease' \in Leases
  <2>1. "released" \in Stamps \ {"none"} BY DEF Stamps
  <2>2. QED BY <2>1, WriteLeaseTypes DEF Release, TypeOK
<1>4. lock' \in [Replicas -> Jobs \cup {NoJob, Refresher}] BY DEF Release, TypeOK
<1>5. /\ task' \in [Jobs -> Tasks] /\ task'[j].pc \in {"record", "reconcile"}
      /\ \A k \in Jobs \ {j} : task'[k] = task[k]
  BY GotoTypes DEF Release, Steps
<1>6. TypeOK' BY <1>1, <1>2, <1>3, <1>4, <1>5 DEF TypeOK, Tasks
<1>7. OthersStay(j) BY <1>1, <1>5 DEF OthersStay
<1>8. QED BY <1>1, <1>5, <1>6, <1>7, OrderKept

LEMMA CrashTypes ==
    ASSUME TypeOK, NEW r \in Replicas, Crash(r)
    PROVE  /\ task' \in [Jobs -> Tasks]
           /\ \A k \in Jobs : task'[k] = task[k]
                              \/ (task'[k].pc = "dead" /\ task[k].pc # "none")
<1>1. task \in [Jobs -> Tasks] BY DEF TypeOK, Tasks
<1>2. \A k \in Jobs : [task[k] EXCEPT !.pc = "dead"] \in Tasks
                      /\ [task[k] EXCEPT !.pc = "dead"].pc = "dead"
  BY <1>1 DEF Tasks, Steps
<1>3. QED BY <1>1, <1>2 DEF Crash

LEMMA ReplicaTypes ==
    ASSUME TypeInv, NEW r \in Replicas,
           \/ \E o \in ReadOutcomes : RefreshRead(r, o) \/ RefreshLoad(r, o)
           \/ Crash(r) \/ Restart(r)
    PROVE  TypeInv'
<1> USE DEF TypeInv
<1>1. ASSUME NEW o \in ReadOutcomes, RefreshRead(r, o) \/ RefreshLoad(r, o) PROVE TypeInv'
  <2>1. {faults', crashes', stalls'} \subseteq 0..MaxTrouble
    BY <1>1, OutcomeTypes DEF RefreshRead, RefreshLoad
  <2>2. UNCHANGED <<job, lease, active, up, admitted, task, poll, published, begun, overtaken>>
    BY <1>1 DEF RefreshRead, RefreshLoad, store, history
  <2>3. /\ lock' \in [Replicas -> Jobs \cup {NoJob, Refresher}]
        /\ fetched' \in [Replicas -> Jobs \cup {NoJob}]
        /\ loaded' \in [Replicas -> Jobs \cup {NoJob}]
    BY <1>1 DEF RefreshRead, RefreshLoad, TypeOK
  <2>4. TypeOK' BY <2>1, <2>2, <2>3 DEF TypeOK
  <2>5. QED BY <2>2, <2>4 DEF StepsInOrder
<1>2. CASE Crash(r)
  <2>1. UNCHANGED <<job, lease, active, poll, faults, stalls, published, begun, overtaken>>
    BY <1>2 DEF Crash, store, history
  <2>2. crashes' \in 0..MaxTrouble
    BY <1>2, PublicationAssumption DEF Crash, TroubleAllowed, TypeOK
  <2>3. /\ lock' \in [Replicas -> Jobs \cup {NoJob, Refresher}]
        /\ fetched' \in [Replicas -> Jobs \cup {NoJob}]
        /\ loaded' \in [Replicas -> Jobs \cup {NoJob}]
        /\ up' \subseteq Replicas /\ admitted' \subseteq admitted
    BY <1>2 DEF Crash, TypeOK
  <2>4. /\ task' \in [Jobs -> Tasks]
        /\ \A k \in Jobs : task'[k] = task[k]
                           \/ (task'[k].pc = "dead" /\ task[k].pc # "none")
    BY <1>2, CrashTypes
  <2>5. TypeOK' BY <2>1, <2>2, <2>3, <2>4 DEF TypeOK, Tasks
  <2>6. QED BY <2>1, <2>3, <2>4, <2>5 DEF StepsInOrder
<1>3. CASE Restart(r)
  BY <1>3 DEF Restart, store, bounds, history, TypeOK, StepsInOrder
<1>4. QED BY <1>1, <1>2, <1>3

LEMMA ExpiryTypes ==
    ASSUME TypeInv, LeaseExpires PROVE TypeInv'
<1> USE DEF TypeInv
<1>1. /\ UNCHANGED <<job, active, up, lock, loaded, fetched, admitted, task, poll, faults,
                     crashes, published, begun, overtaken>>
      /\ lease.live
  BY DEF LeaseExpires, replica, history
<1>2. lease' \in Leases
  <2>1. lease \in [owner : Jobs, stamp : Stamps \ {"none"}, live : BOOLEAN]
    BY <1>1 DEF TypeOK, Leases, NoLease
  <2>2. [lease EXCEPT !.live = FALSE]
           \in [owner : Jobs, stamp : Stamps \ {"none"}, live : BOOLEAN]
    BY <2>1
  <2>3. QED BY <2>2 DEF LeaseExpires, Leases
<1>3. stalls' \in 0..MaxTrouble
  BY PublicationAssumption DEF LeaseExpires, TroubleAllowed, TypeOK
<1>4. TypeOK' BY <1>1, <1>2, <1>3 DEF TypeOK
<1>5. QED BY <1>1, <1>4 DEF StepsInOrder

LEMMA TypesKept == TypeInv /\ [Next]_vars => TypeInv'
<1> SUFFICES ASSUME TypeInv, [Next]_vars PROVE TypeInv' OBVIOUS
<1>1. CASE UNCHANGED vars
  BY <1>1 DEF vars, store, replica, bounds, history, TypeInv, TypeOK, StepsInOrder
<1>2. ASSUME NEW j \in Jobs, Work(j) PROVE TypeInv'
  <2>1. ReadOutcomes \subseteq Outcomes BY DEF ReadOutcomes, Outcomes
  <2>2. QED
    BY <1>2, <2>1, StartTypes, AcquireTypes, BuildTypes, RecordStepTypes, ServeTypes, ReleaseTypes
       DEF Work
<1>3. ASSUME NEW j \in Jobs,
             \/ \E r \in Replicas : AdmitTrain(r, j)
             \/ \E r \in Replicas, o \in Outcomes : CreateJob(r, j, o)
             \/ CancelJob(j) \/ PollActive(j) \/ PollRecord(j)
      PROVE  TypeInv'
  BY <1>3, RequestTypes
<1>4. ASSUME NEW r \in Replicas,
             \/ \E o \in ReadOutcomes : RefreshRead(r, o) \/ RefreshLoad(r, o)
             \/ Crash(r) \/ Restart(r)
      PROVE  TypeInv'
  BY <1>4, ReplicaTypes
<1>5. CASE LeaseExpires BY <1>5, ExpiryTypes
<1>6. QED BY <1>1, <1>2, <1>3, <1>4, <1>5 DEF Next

\* Every variable keeps its type, and no job takes the lease twice.
THEOREM TypeCorrect == Spec => []TypeOK
<1>1. TypeInv => TypeOK BY DEF TypeInv
<1>2. QED BY <1>1, InitTypes, TypesKept, PTL DEF Spec

-----------------------------------------------------------------------------
(* Publication: cancelled, completed, served *)

PubInv == ClaimedBeforeActive /\ PublishedIsClaimed /\ ReportsArePublished /\ ServedWasPublished

\* A step of j that publishes nothing keeps the invariant if j itself does.
LEMMA PubKept ==
    ASSUME TypeInv, PubInv, NEW j \in Jobs,
           UNCHANGED <<active, published, poll>>, loaded' = loaded, fetched' = fetched,
           \A k \in Jobs \ {j} : task'[k] = task[k] /\ job'[k] = job[k],
           task'[j].pc = "activate" => job'[j] = "publishing" /\ j \notin published,
           j \in published =>
               /\ job'[j] \in {"publishing", "completed", "failed"}
               /\ task'[j].pc \notin {"none", "lock", "lease", "build", "begin"},
           job'[j] = "completed" => j \in published,
           task'[j].pc \in {"serve", "record"} => j \in published,
           task'[j].pc = "release" /\ task'[j].ok => j \in published
    PROVE  PubInv'
<1> USE DEF PubInv
<1>1. published \subseteq Jobs BY DEF TypeInv, TypeOK
<1>2. ClaimedBeforeActive' BY DEF ClaimedBeforeActive
<1>3. PublishedIsClaimed' BY <1>1 DEF PublishedIsClaimed
<1>4. ReportsArePublished' BY DEF ReportsArePublished
<1>5. ServedWasPublished' BY DEF ServedWasPublished
<1>6. QED BY <1>2, <1>3, <1>4, <1>5

LEMMA PubRequests ==
    ASSUME TypeInv, PubInv, NEW j \in Jobs,
           \/ \E r \in Replicas : AdmitTrain(r, j)
           \/ \E r \in Replicas, o \in Outcomes : CreateJob(r, j, o)
           \/ CancelJob(j) \/ PollActive(j) \/ PollRecord(j)
    PROVE  PubInv'
<1>1. ASSUME NEW r \in Replicas, AdmitTrain(r, j) PROVE PubInv'
  BY <1>1 DEF AdmitTrain, store, replica, history, PubInv, ClaimedBeforeActive,
     PublishedIsClaimed, ReportsArePublished, ServedWasPublished
<1>2. ASSUME NEW r \in Replicas, NEW o \in Outcomes, CreateJob(r, j, o) PROVE PubInv'
  <2>1. /\ job[j] = "none" /\ j \notin published
        /\ UNCHANGED <<active, published, poll, loaded, fetched>>
    BY <1>2 DEF CreateJob, TypeInv, TypeOK, StepsInOrder, PubInv, PublishedIsClaimed, replica, history
  <2>2. CASE Applied(o)
    <3>1. /\ task'[j].pc \in {"lock", "dead"} /\ job'[j] = "running"
          /\ \A k \in Jobs \ {j} : task'[k] = task[k] /\ job'[k] = job[k]
      BY <1>2, <2>2 DEF CreateJob, TypeInv, TypeOK
    <3>2. QED BY <2>1, <3>1, PubKept
  <2>3. CASE ~Applied(o)
    BY <1>2, <2>1, <2>3 DEF CreateJob, PubInv, ClaimedBeforeActive,
       PublishedIsClaimed, ReportsArePublished, ServedWasPublished
  <2>4. QED BY <2>2, <2>3
<1>3. CASE CancelJob(j)
  <2>1. /\ job[j] \in {"none", "running"} /\ job'[j] = "cancelled"
        /\ \A k \in Jobs \ {j} : task'[k] = task[k] /\ job'[k] = job[k]
        /\ UNCHANGED <<active, published, poll, loaded, fetched, task>>
    BY <1>3 DEF CancelJob, TypeInv, TypeOK, replica, history
  <2>2. j \notin published /\ task[j].pc \notin {"activate", "serve", "record"}
    BY <2>1 DEF PubInv, PublishedIsClaimed, ClaimedBeforeActive, ReportsArePublished
  <2>3. ~(task[j].pc = "release" /\ task[j].ok)
    BY <2>2 DEF PubInv, ReportsArePublished
  <2>4. QED BY <2>1, <2>2, <2>3, PubKept
<1>4. CASE PollActive(j)
  <2>1. j \in published
    BY <1>4, PublicationAssumption DEF PollActive, Matches, PubInv, ReportsArePublished
  <2>2. QED
    BY <1>4, <2>1 DEF PollActive, store, replica, history, PubInv, ClaimedBeforeActive,
       PublishedIsClaimed, ReportsArePublished, ServedWasPublished
<1>5. CASE PollRecord(j)
  <2>1. j \in published /\ job[j] \in {"publishing", "completed", "failed"}
    BY <1>5 DEF PollRecord, PubInv, ReportsArePublished, PublishedIsClaimed
  <2>2. /\ \A k \in Jobs \ {j} : job'[k] = job[k]
        /\ job'[j] = "completed"
    BY <1>5, <2>1, RecordTypes DEF PollRecord, TypeInv, Status
  <2>3. /\ poll' = poll \ {j} /\ UNCHANGED <<active, published, task, loaded, fetched>>
        /\ task[j].pc # "activate"
    BY <1>5, <2>1 DEF PollRecord, replica, history, PubInv, ClaimedBeforeActive
  <2>4. ClaimedBeforeActive' BY <2>2, <2>3 DEF PubInv, ClaimedBeforeActive
  <2>5. PublishedIsClaimed' BY <2>2, <2>3 DEF PubInv, PublishedIsClaimed, TypeInv, TypeOK
  <2>6. ReportsArePublished' BY <2>1, <2>2, <2>3 DEF PubInv, ReportsArePublished
  <2>7. ServedWasPublished' BY <2>3 DEF PubInv, ServedWasPublished
  <2>8. QED BY <2>4, <2>5, <2>6, <2>7 DEF PubInv
<1>6. QED BY <1>1, <1>2, <1>3, <1>4, <1>5

\* The steps of the work that neither publish nor serve.
LEMMA PubWork ==
    ASSUME TypeInv, PubInv, NEW j \in Jobs, NEW o \in Outcomes,
           \/ StartTraining(j, o) \/ AcquireLease(j, o)
           \/ \E built \in BOOLEAN : BuildAndRenew(j, built, o)
           \/ BeginPublication(j, o) \/ Release(j, o) \/ RecordCompleted(j, o)
           \/ RecordFailed(j, o) \/ Reconcile(j, o)
    PROVE  PubInv'
<1> USE DEF TypeInv
<1>1. UNCHANGED <<active, published, poll, loaded, fetched>>
  BY DEF StartTraining, AcquireLease, BuildAndRenew, BeginPublication, Release, RecordCompleted,
     RecordFailed, Reconcile, store, replica, history
<1>2. CASE StartTraining(j, o) \/ AcquireLease(j, o)
             \/ (\E built \in BOOLEAN : BuildAndRenew(j, built, o))
  <2>1. /\ task'[j].pc \in {"reconcile", "lease", "build", "begin", "release"}
        /\ task'[j].pc = "release" => ~task'[j].ok
        /\ \A k \in Jobs \ {j} : task'[k] = task[k]
        /\ job' = job /\ task[j].pc \in {"lock", "lease", "build"}
    BY <1>2 DEF StartTraining, AcquireLease, BuildAndRenew, Goto, Raise, store, TypeOK
  <2>2. j \notin published BY <2>1 DEF PubInv, PublishedIsClaimed
  <2>3. job[j] # "completed" BY <2>2 DEF PubInv, ReportsArePublished
  <2>4. QED BY <1>1, <2>1, <2>2, <2>3, PubKept
<1>3. CASE BeginPublication(j, o)
  <2>1. /\ \/ task'[j].pc = "release" /\ ~task'[j].ok /\ job'[j] \in {job[j], "publishing"}
           \/ task'[j].pc = "activate" /\ job'[j] = "publishing"
        /\ \A k \in Jobs \ {j} : task'[k] = task[k] /\ job'[k] = job[k]
        /\ task[j].pc = "begin"
    BY <1>3 DEF BeginPublication, Goto, Raise, Applied, TypeOK
  <2>2. j \notin published BY <2>1 DEF PubInv, PublishedIsClaimed
  <2>3. job[j] # "completed" BY <2>2 DEF PubInv, ReportsArePublished
  <2>4. QED BY <1>1, <2>1, <2>2, <2>3, PubKept
<1>4. CASE Release(j, o)
  <2>1. /\ task'[j].pc = IF task[j].ok THEN "record" ELSE "reconcile"
        /\ \A k \in Jobs \ {j} : task'[k] = task[k]
        /\ job' = job /\ task[j].pc = "release"
    BY <1>4 DEF Release, Goto, TypeOK
  <2>2. task[j].ok => j \in published BY <2>1 DEF PubInv, ReportsArePublished
  <2>3. /\ j \in published => job[j] \in {"publishing", "completed", "failed"}
        /\ job[j] = "completed" => j \in published
    BY DEF PubInv, PublishedIsClaimed, ReportsArePublished
  <2>4. QED BY <1>1, <2>1, <2>2, <2>3, PubKept
<1>5. CASE RecordCompleted(j, o)
  <2>1. /\ task'[j].pc \in {"done", "reconcile", "dead"}
        /\ \A k \in Jobs \ {j} : task'[k] = task[k] /\ job'[k] = job[k]
        /\ job'[j] \in {job[j], "completed"} /\ task[j].pc = "record"
    BY <1>5 DEF RecordCompleted, RecordJob, Goto, TypeOK
  <2>2. j \in published /\ job[j] \in {"publishing", "completed", "failed"}
    BY <2>1 DEF PubInv, PublishedIsClaimed, ReportsArePublished
  <2>3. QED BY <1>1, <2>1, <2>2, PubKept
<1>6. CASE RecordFailed(j, o)
  <2>1. /\ task'[j].pc \in {"done", "dead"}
        /\ \A k \in Jobs \ {j} : task'[k] = task[k] /\ job'[k] = job[k]
        /\ job'[j] \in {job[j], "failed"} /\ task[j].pc = "record_failed"
    BY <1>6 DEF RecordFailed, RecordJob, Goto, TypeOK
  <2>2. /\ j \in published => job[j] \in {"publishing", "completed", "failed"}
        /\ job[j] = "completed" => j \in published
    BY DEF PubInv, PublishedIsClaimed, ReportsArePublished
  <2>3. QED BY <1>1, <2>1, <2>2, PubKept
<1>7. CASE Reconcile(j, o)
  <2>1. /\ task'[j].pc \in {"done", "dead", "record", "record_failed"}
        /\ task'[j].pc = "record" => active = j
        /\ \A k \in Jobs \ {j} : task'[k] = task[k]
        /\ job' = job /\ task[j].pc = "reconcile"
    BY <1>7 DEF Reconcile, Matches, store, TypeOK
  <2>2. /\ j \in published => job[j] \in {"publishing", "completed", "failed"}
        /\ job[j] = "completed" => j \in published
        /\ active = j => j \in published
    BY PublicationAssumption DEF PubInv, PublishedIsClaimed, ReportsArePublished
  <2>3. QED BY <1>1, <2>1, <2>2, PubKept
<1>8. QED BY <1>2, <1>3, <1>4, <1>5, <1>6, <1>7

\* The publication point, and the model served after it.
LEMMA PubActivate ==
    ASSUME TypeInv, PubInv, NEW j \in Jobs, NEW o \in Outcomes, WriteActive(j, o)
    PROVE  PubInv'
<1> USE DEF TypeInv
<1>1. /\ UNCHANGED <<job, poll, loaded, fetched>> /\ task[j].pc = "activate"
      /\ \A k \in Jobs \ {j} : task'[k] = task[k]
      /\ task'[j].pc = "serve" \/ (task'[j].pc = "release" /\ ~task'[j].ok)
      /\ task'[j].pc = "serve" => j \in published'
  BY DEF WriteActive, Applied, Goto, Raise, replica, TypeOK
<1>2. \/ published' = published \cup {j} /\ active' = j
      \/ published' = published /\ active' = active
  BY DEF WriteActive, history
<1>3. job[j] = "publishing" BY <1>1 DEF PubInv, ClaimedBeforeActive
<1>4. ClaimedBeforeActive'
  BY <1>1, <1>2 DEF PubInv, ClaimedBeforeActive
<1>5. PublishedIsClaimed'
  BY <1>1, <1>2, <1>3 DEF PubInv, PublishedIsClaimed, TypeOK
<1>6. ReportsArePublished' BY <1>1, <1>2, <1>3 DEF PubInv, ReportsArePublished
<1>7. ServedWasPublished' BY <1>1, <1>2 DEF PubInv, ServedWasPublished
<1>8. QED BY <1>4, <1>5, <1>6, <1>7 DEF PubInv

LEMMA PubServe ==
    ASSUME TypeInv, PubInv, NEW j \in Jobs, Serve(j) PROVE PubInv'
<1> USE DEF TypeInv
<1>1. /\ UNCHANGED <<job, active, published, poll, fetched>> /\ task[j].pc = "serve"
      /\ \A k \in Jobs \ {j} : task'[k] = task[k]
      /\ task'[j].pc = "release"
      /\ \A r \in Replicas : loaded'[r] \in {loaded[r], j}
  BY DEF Serve, store, history, TypeOK
<1>2. j \in published BY <1>1 DEF PubInv, ReportsArePublished
<1>3. ClaimedBeforeActive' BY <1>1 DEF PubInv, ClaimedBeforeActive
<1>4. PublishedIsClaimed' BY <1>1 DEF PubInv, PublishedIsClaimed, TypeOK
<1>5. ReportsArePublished' BY <1>1, <1>2 DEF PubInv, ReportsArePublished
<1>6. ServedWasPublished' BY <1>1, <1>2 DEF PubInv, ServedWasPublished
<1>7. QED BY <1>3, <1>4, <1>5, <1>6 DEF PubInv

\* Refreshes, crashes, restarts and the clock leave every record alone.
LEMMA PubElsewhere ==
    ASSUME TypeInv, PubInv,
           \/ \E r \in Replicas :
                 \/ Crash(r) \/ Restart(r)
                 \/ \E o \in ReadOutcomes : RefreshRead(r, o) \/ RefreshLoad(r, o)
           \/ LeaseExpires
    PROVE  PubInv'
<1> USE DEF TypeInv
<1>1. UNCHANGED <<job, active, published, poll>>
  BY DEF Crash, Restart, RefreshRead, RefreshLoad, LeaseExpires, store, history
<1>2. \A k \in Jobs : task'[k] = task[k] \/ (task'[k].pc = "dead" /\ task[k].pc # "none")
  <2>1. ASSUME NEW r \in Replicas, Crash(r)
        PROVE  \A k \in Jobs : \/ task'[k] = task[k]
                               \/ (task'[k].pc = "dead" /\ task[k].pc # "none")
    BY <2>1, CrashTypes
  <2>2. QED BY <2>1 DEF Restart, RefreshRead, RefreshLoad, LeaseExpires
<1>3. \A r \in Replicas : /\ loaded'[r] \in {loaded[r], fetched[r], NoJob}
                          /\ fetched'[r] \in {fetched[r], active, NoJob}
  BY DEF Crash, Restart, RefreshRead, RefreshLoad, LeaseExpires, replica, TypeOK
<1>4. ClaimedBeforeActive' BY <1>1, <1>2 DEF PubInv, ClaimedBeforeActive
<1>5. PublishedIsClaimed'
  <2>1. published \subseteq Jobs BY DEF TypeOK
  <2>2. QED BY <1>1, <1>2, <2>1 DEF PubInv, PublishedIsClaimed
<1>6. ReportsArePublished' BY <1>1, <1>2 DEF PubInv, ReportsArePublished
<1>7. ServedWasPublished'
  BY <1>1, <1>3 DEF PubInv, ServedWasPublished, ReportsArePublished
<1>8. QED BY <1>4, <1>5, <1>6, <1>7 DEF PubInv

LEMMA PubPreserved == TypeInv /\ PubInv /\ [Next]_vars => PubInv'
<1> SUFFICES ASSUME TypeInv, PubInv, [Next]_vars PROVE PubInv' OBVIOUS
<1>1. CASE UNCHANGED vars
  BY <1>1 DEF vars, store, replica, history, PubInv, ClaimedBeforeActive, PublishedIsClaimed,
     ReportsArePublished, ServedWasPublished
<1>2. ASSUME NEW j \in Jobs, Work(j) PROVE PubInv'
  <2>1. ReadOutcomes \subseteq Outcomes BY DEF ReadOutcomes, Outcomes
  <2>2. QED BY <1>2, <2>1, PubWork, PubActivate, PubServe DEF Work
<1>3. ASSUME NEW j \in Jobs,
             \/ \E r \in Replicas : AdmitTrain(r, j)
             \/ \E r \in Replicas, o \in Outcomes : CreateJob(r, j, o)
             \/ CancelJob(j) \/ PollActive(j) \/ PollRecord(j)
      PROVE  PubInv'
  BY <1>3, PubRequests
<1>4. CASE \/ \E r \in Replicas :
                 \/ Crash(r) \/ Restart(r)
                 \/ \E o \in ReadOutcomes : RefreshRead(r, o) \/ RefreshLoad(r, o)
           \/ LeaseExpires
  BY <1>4, PubElsewhere
<1>5. QED BY <1>1, <1>2, <1>3, <1>4 DEF Next

LEMMA PubAlways == Spec => [](TypeInv /\ PubInv)
<1>1. Init => PubInv
  BY PublicationAssumption DEF Init, PubInv, ClaimedBeforeActive, PublishedIsClaimed,
     ReportsArePublished, ServedWasPublished
<1>2. QED BY <1>1, InitTypes, TypesKept, PubPreserved, PTL DEF Spec

\* An acknowledged cancellation keeps the model of the job out of active.json.
THEOREM CancelWins == Spec => []CancelledNeverPublished
<1>1. PubInv => CancelledNeverPublished
  <2>1. SUFFICES ASSUME PubInv, NEW j \in Jobs, job[j] = "cancelled"
                 PROVE  j \notin published /\ task[j].pc \notin {"activate", "serve"}
    BY DEF CancelledNeverPublished
  <2>2. j \notin published BY <2>1 DEF PubInv, PublishedIsClaimed
  <2>3. QED BY <2>1, <2>2 DEF PubInv, ClaimedBeforeActive, ReportsArePublished
<1>2. QED BY <1>1, PubAlways, PTL

\* Completed is only said of jobs whose manifest has been active.
THEOREM CompletedHonest == Spec => []CompletedWasPublished
<1>1. PubInv => CompletedWasPublished
  BY DEF PubInv, ReportsArePublished, CompletedWasPublished
<1>2. QED BY <1>1, PubAlways, PTL

\* Replicas serve published models only.
THEOREM ServedHonest == Spec => []ServedWasPublished
<1>1. PubInv => ServedWasPublished BY DEF PubInv
<1>2. QED BY <1>1, PubAlways, PTL

-----------------------------------------------------------------------------
(* Results, while the store answers *)

\* Where the trouble and the history of publications can change.
LEMMA StraightWork ==
    ASSUME TypeInv, PubInv, StraightToRecord, NEW j \in Jobs, NEW o \in Outcomes,
           \/ StartTraining(j, o) \/ AcquireLease(j, o)
           \/ \E built \in BOOLEAN : BuildAndRenew(j, built, o)
           \/ BeginPublication(j, o) \/ Release(j, o) \/ RecordCompleted(j, o)
           \/ RecordFailed(j, o) \/ Reconcile(j, o) \/ WriteActive(j, o)
    PROVE  StraightToRecord'
<1> USE DEF TypeInv
<1>1. SUFFICES ASSUME faults' = 0
               PROVE  \A k \in published' :
                        /\ task'[k].pc \in {"serve", "release", "record", "done", "dead"}
                        /\ task'[k].pc = "release" => task'[k].ok
                        /\ task'[k].pc = "done" => job'[k] = "completed"
                        /\ job'[k] # "failed"
  BY DEF StraightToRecord
<1>2. faults = 0 /\ o = "returns"
  BY <1>1, OutcomeTypes DEF StartTraining, AcquireLease, BuildAndRenew, BeginPublication, Release,
     RecordCompleted, RecordFailed, Reconcile, WriteActive
<1>3. published \subseteq Jobs BY DEF TypeOK
<1>4. \A k \in Jobs \ {j} : task'[k] = task[k] /\ job'[k] = job[k]
  BY DEF StartTraining, AcquireLease, BuildAndRenew, BeginPublication, Release, RecordCompleted,
     RecordFailed, Reconcile, WriteActive, RecordJob, Goto, Raise, store, TypeOK
<1>5. published' = published \/ (published' = published \cup {j} /\ WriteActive(j, o))
  BY DEF StartTraining, AcquireLease, BuildAndRenew, BeginPublication, Release, RecordCompleted,
     RecordFailed, Reconcile, WriteActive, history
<1>6. ASSUME j \in published'
      PROVE  /\ task'[j].pc \in {"serve", "release", "record", "done", "dead"}
             /\ task'[j].pc = "release" => task'[j].ok
             /\ task'[j].pc = "done" => job'[j] = "completed"
             /\ job'[j] # "failed"
  <2>1. CASE WriteActive(j, o)
    <3>1. task'[j].pc = "serve" /\ job' = job /\ task[j].pc = "activate"
      BY <1>2, <2>1 DEF WriteActive, Goto, TypeOK
    <3>2. job[j] = "publishing" BY <3>1 DEF PubInv, ClaimedBeforeActive
    <3>3. QED BY <3>1, <3>2
  <2>2. CASE ~WriteActive(j, o)
    <3>1. j \in published BY <1>5, <1>6, <2>2
    <3>2. /\ task[j].pc \in {"release", "record"} /\ (task[j].pc = "release" => task[j].ok)
          /\ job[j] \in {"publishing", "completed"}
      BY <1>2, <2>2, <3>1 DEF StraightToRecord, PubInv, PublishedIsClaimed, StartTraining,
         AcquireLease, BuildAndRenew, BeginPublication, Release, RecordCompleted, RecordFailed, Reconcile
    <3>3. CASE Release(j, o)
      BY <3>2, <3>3 DEF Release, Goto, TypeOK
    <3>4. CASE RecordCompleted(j, o)
      BY <1>2, <3>2, <3>4 DEF RecordCompleted, Applied, RecordJob, Goto, TypeOK
    <3>5. QED
      BY <2>2, <3>2, <3>3, <3>4 DEF StartTraining, AcquireLease, BuildAndRenew, BeginPublication,
         RecordFailed, Reconcile
  <2>3. QED BY <2>1, <2>2
<1>7. \A k \in published' : k = j \/ k \in published BY <1>5
<1>8. QED BY <1>2, <1>3, <1>4, <1>6, <1>7 DEF StraightToRecord

LEMMA StraightElsewhere ==
    ASSUME TypeInv, PubInv, StraightToRecord,
           \/ \E j \in Jobs :
                 \/ Serve(j) \/ CancelJob(j) \/ PollActive(j) \/ PollRecord(j)
                 \/ \E r \in Replicas : AdmitTrain(r, j)
                 \/ \E r \in Replicas, o \in Outcomes : CreateJob(r, j, o)
           \/ \E r \in Replicas :
                 \/ Crash(r) \/ Restart(r)
                 \/ \E o \in ReadOutcomes : RefreshRead(r, o) \/ RefreshLoad(r, o)
           \/ LeaseExpires
    PROVE  StraightToRecord'
<1> USE DEF TypeInv
<1>1. /\ published' = published /\ published \subseteq Jobs
      /\ faults' = 0 => faults = 0
  BY OutcomeTypes DEF Serve, CancelJob, PollActive, PollRecord, AdmitTrain, CreateJob, Crash,
     Restart, RefreshRead, RefreshLoad, LeaseExpires, bounds, history, TypeOK
<1>2. ASSUME NEW k \in published
      PROVE  /\ job'[k] = job[k] \/ job'[k] = "completed"
             /\ \/ task'[k] = task[k] \/ task'[k].pc = "dead"
                \/ task'[k].pc = "release" /\ task'[k].ok
  <2>1. k \in Jobs /\ job[k] \notin {"none", "running"}
    BY <1>1 DEF PubInv, PublishedIsClaimed
  <2>2. ASSUME NEW j \in Jobs, Serve(j) \/ CancelJob(j) \/ PollActive(j) \/ PollRecord(j)
                               \/ \E r \in Replicas : AdmitTrain(r, j)
        PROVE  /\ job'[k] = job[k] \/ job'[k] = "completed"
               /\ task'[k] = task[k] \/ (task'[k].pc = "release" /\ task'[k].ok)
    <3>1. CASE Serve(j)
      <4>1. job' = job /\ \A i \in Jobs \ {j} : task'[i] = task[i]
        BY <3>1 DEF Serve, store, TypeOK
      <4>2. task'[j].pc = "release" /\ task'[j].ok BY <3>1 DEF Serve, TypeOK
      <4>3. QED BY <2>1, <4>1, <4>2
    <3>2. CASE CancelJob(j)
      <4>1. k # j BY <2>1, <3>2 DEF CancelJob
      <4>2. QED BY <2>1, <3>2, <4>1 DEF CancelJob, TypeOK
    <3>3. CASE PollRecord(j)
      BY <2>1, <3>3 DEF PollRecord, RecordJob, TypeOK
    <3>4. CASE PollActive(j) \/ \E r \in Replicas : AdmitTrain(r, j)
      BY <3>4 DEF PollActive, AdmitTrain, store
    <3>5. QED BY <2>2, <3>1, <3>2, <3>3, <3>4
  <2>3. ASSUME NEW j \in Jobs, NEW r \in Replicas, NEW o \in Outcomes, CreateJob(r, j, o)
        PROVE  job'[k] = job[k] /\ task'[k] = task[k]
    <3>1. k # j BY <2>1, <2>3 DEF CreateJob, StepsInOrder
    <3>2. QED BY <2>1, <2>3, <3>1 DEF CreateJob, TypeOK
  <2>4. ASSUME NEW r \in Replicas, Crash(r)
        PROVE  job' = job /\ (task'[k] = task[k] \/ task'[k].pc = "dead")
    BY <2>1, <2>4, CrashTypes DEF Crash, store
  <2>5. ASSUME NEW r \in Replicas,
               Restart(r) \/ \E o \in ReadOutcomes : RefreshRead(r, o) \/ RefreshLoad(r, o)
        PROVE  job' = job /\ task' = task
    BY <2>5 DEF Restart, RefreshRead, RefreshLoad, store
  <2>6. LeaseExpires => job' = job /\ task' = task BY DEF LeaseExpires
  <2>7. QED BY <2>2, <2>3, <2>4, <2>5, <2>6
<1>3. QED BY <1>1, <1>2 DEF StraightToRecord

LEMMA StraightPreserved ==
    TypeInv /\ PubInv /\ StraightToRecord /\ [Next]_vars => StraightToRecord'
<1> SUFFICES ASSUME TypeInv, PubInv, StraightToRecord, [Next]_vars PROVE StraightToRecord'
  OBVIOUS
<1>1. CASE UNCHANGED vars
  BY <1>1 DEF vars, store, bounds, history, StraightToRecord
<1>2. ASSUME NEW j \in Jobs, Work(j) PROVE StraightToRecord'
  <2>1. ReadOutcomes \subseteq Outcomes BY DEF ReadOutcomes, Outcomes
  <2>2. CASE Serve(j) BY <2>2, StraightElsewhere
  <2>3. QED BY <1>2, <2>1, <2>2, StraightWork DEF Work
<1>3. QED BY <1>1, <1>2, StraightElsewhere DEF Next

LEMMA StraightAlways == Spec => [](TypeInv /\ PubInv /\ StraightToRecord)
<1>1. Init => StraightToRecord BY DEF Init, StraightToRecord
<1>2. QED BY <1>1, PubAlways, StraightPreserved, PTL DEF Spec

\* The job of a published model ends as completed if the store answered.
THEOREM PublicationReported == Spec => []PublishedIsReported
<1>1. StraightToRecord => PublishedIsReported BY DEF StraightToRecord, PublishedIsReported
<1>2. QED BY <1>1, StraightAlways, PTL

\* What a step may do to the record of a job that has a result.
LEMMA FinalRecords ==
    ASSUME TypeInv, PubInv, StraightToRecord, [Next]_vars,
           NEW k \in Jobs, job[k] = "cancelled" \/ (job[k] \in Final /\ faults = 0)
    PROVE  job'[k] = job[k]
<1> USE DEF TypeInv
<1>1. job[k] \in Final BY DEF Final
<1>2. CASE UNCHANGED vars BY <1>2 DEF vars, store
<1>3. ASSUME NEW j \in Jobs, NEW o \in Outcomes,
             \/ RecordCompleted(j, o) \/ RecordFailed(j, o) \/ BeginPublication(j, o)
             \/ CancelJob(j) \/ PollRecord(j)
             \/ \E r \in Replicas : CreateJob(r, j, o)
      PROVE  job'[k] = job[k]
  <2>1. /\ job' = job \/ (\A i \in Jobs \ {j} : job'[i] = job[i])
        /\ job'[j] \in {job[j], "completed", "failed"} \/ job[j] \in {"none", "running"}
    BY <1>3 DEF RecordCompleted, RecordFailed, BeginPublication, CancelJob, PollRecord, CreateJob,
       RecordJob, StepsInOrder, TypeOK
  <2>2. CASE k # j \/ job[j] = "cancelled" \/ job' = job
    BY <1>1, <1>3, <2>1, <2>2 DEF RecordCompleted, RecordFailed, BeginPublication, CancelJob,
       PollRecord, CreateJob, RecordJob, Final, StepsInOrder
  <2>3. CASE k = j /\ job[j] # "cancelled" /\ job' # job
    <3>1. faults = 0 /\ job[j] \in {"completed", "failed"} BY <2>3 DEF Final
    <3>2. j \in published => job[j] = "completed" BY <3>1 DEF StraightToRecord
    <3>3. job[j] = "completed" => j \in published BY DEF PubInv, ReportsArePublished
    <3>4. CASE RecordCompleted(j, o) \/ PollRecord(j)
      <4>1. j \in published
        BY <3>4 DEF RecordCompleted, PollRecord, PubInv, ReportsArePublished
      <4>2. RecordJob(j, "completed")
        BY <2>3, <3>4 DEF RecordCompleted, PollRecord
      <4>3. QED BY <2>3, <3>2, <4>1, <4>2 DEF RecordJob, TypeOK
    <3>5. CASE RecordFailed(j, o)
      <4>1. j \notin published BY <3>1, <3>5 DEF RecordFailed, StraightToRecord
      <4>2. RecordJob(j, "failed") BY <2>3, <3>5 DEF RecordFailed
      <4>3. QED BY <2>3, <3>1, <3>3, <4>1, <4>2 DEF RecordJob, TypeOK
    <3>6. CASE \/ BeginPublication(j, o) \/ CancelJob(j)
               \/ \E r \in Replicas : CreateJob(r, j, o)
      BY <2>3, <3>1, <3>6 DEF BeginPublication, CancelJob, CreateJob, StepsInOrder
    <3>7. QED BY <1>3, <3>4, <3>5, <3>6
  <2>4. QED BY <2>2, <2>3
<1>4. ASSUME NEW j \in Jobs, Work(j) PROVE job'[k] = job[k]
  BY <1>3, <1>4 DEF Work, Serve, BuildAndRenew, StartTraining, Reconcile, AcquireLease,
     WriteActive, Release, store
<1>5. ASSUME NEW j \in Jobs,
             \/ CancelJob(j) \/ PollActive(j) \/ PollRecord(j)
             \/ \E r \in Replicas : AdmitTrain(r, j)
             \/ \E r \in Replicas, o \in Outcomes : CreateJob(r, j, o)
      PROVE  job'[k] = job[k]
  <2>1. Outcomes # {} BY DEF Outcomes
  <2>2. QED BY <1>3, <1>5, <2>1 DEF PollActive, AdmitTrain, store
<1>6. ASSUME NEW r \in Replicas,
             \/ Crash(r) \/ Restart(r)
             \/ \E o \in ReadOutcomes : RefreshRead(r, o) \/ RefreshLoad(r, o)
      PROVE  job'[k] = job[k]
  BY <1>6 DEF Crash, Restart, RefreshRead, RefreshLoad, store
<1>7. LeaseExpires => job'[k] = job[k] BY DEF LeaseExpires
<1>8. QED BY <1>2, <1>4, <1>5, <1>6, <1>7 DEF Next

\* A result is never taken back: a cancellation at all, and any other one while
\* every call of the store was answered.
THEOREM ResultsStay == Spec => ResultIsFinal
<1>1. TypeInv /\ PubInv /\ StraightToRecord /\ [Next]_vars
        => \A j \in Jobs : job[j] = "cancelled" \/ (job[j] \in Final /\ faults = 0)
                           => job'[j] = job[j]
  BY FinalRecords
<1>2. QED BY <1>1, StraightAlways, PTL DEF Spec, ResultIsFinal

-----------------------------------------------------------------------------
(* The lease *)

LeaseInv == BuilderOwnsLease /\ LeaseOrder /\ ActiveIsNewest

Building == {"build", "begin", "activate", "serve"}

\* Steps that leave the lease alone, and put no one to work under it.
LEMMA LeaseUntouched ==
    ASSUME TypeInv, LeaseInv,
           UNCHANGED <<lease, active, published, begun, overtaken>>,
           stalls' = stalls,
           \A k \in Jobs :
               /\ task'[k].pc \in Building => task[k].pc \in Building
               /\ task'[k].pc \in {"begin", "activate"} => task[k].pc \in {"begin", "activate"}
    PROVE  LeaseInv'
<1>1. Begun' = Begun BY DEF Begun
<1>2. BuilderOwnsLease' BY DEF LeaseInv, BuilderOwnsLease, Building
<1>3. LeaseOrder' BY <1>1 DEF LeaseInv, LeaseOrder
<1>4. ActiveIsNewest' BY DEF LeaseInv, ActiveIsNewest
<1>5. QED BY <1>2, <1>3, <1>4 DEF LeaseInv

LEMMA LeaseAcquired ==
    ASSUME TypeInv, PubInv, LeaseInv, NEW j \in Jobs, NEW o \in Outcomes, AcquireLease(j, o)
    PROVE  LeaseInv'
<1> USE DEF TypeInv
<1>1. /\ UNCHANGED <<active, published>> /\ stalls' = stalls
      /\ task[j].pc = "lease" /\ begun[j] = 0
      /\ task'[j].pc \in {"build", "release"}
      /\ \A k \in Jobs \ {j} : task'[k] = task[k]
  BY OutcomeTypes DEF AcquireLease, Raise, StepsInOrder, TypeOK
<1>2. CASE ~lease.live /\ Applied(o)
  <2>1. /\ WriteLease(j, "acquired") /\ begun' = [begun EXCEPT ![j] = Begun + 1]
        /\ overtaken' = IF lease.stamp = "renewed" THEN overtaken \cup {lease.owner}
                        ELSE overtaken
    BY <1>2 DEF AcquireLease
  <2>2. lease'.owner = j /\ lease'.live /\ lease'.stamp = "acquired"
    BY <2>1 DEF WriteLease
  <2>3. /\ Begun \in Nat /\ Begun' = Begun + 1 /\ begun'[j] = Begun + 1
        /\ \A k \in Jobs \ {j} : begun'[k] = begun[k]
        /\ \A k \in Jobs : begun[k] \in Nat
    <3>1. Cardinality(Jobs) \in Nat BY PublicationAssumption, FS_CardinalityType
    <3>2. begun \in [Jobs -> 0..Cardinality(Jobs)] BY DEF TypeOK
    <3>3. Begun \in Nat /\ Begun' = Begun + 1 BY <1>1, <2>1, BegunCounts
    <3>4. begun'[j] = Begun + 1 /\ \A k \in Jobs \ {j} : begun'[k] = begun[k]
      BY <2>1, <3>2
    <3>5. QED BY <3>1, <3>2, <3>3, <3>4
  <2>4. BuilderOwnsLease'
    BY <1>1, <1>2, <2>2 DEF LeaseInv, BuilderOwnsLease
  <2>5. \A k \in Jobs : begun'[k] <= Begun' /\ begun'[k] <= begun'[j]
    BY <2>3 DEF LeaseInv, LeaseOrder
  <2>6. \A k \in Jobs : task'[k].pc \in {"begin", "activate"} => k \in overtaken'
    BY <1>1, <2>1 DEF LeaseInv, LeaseOrder
  <2>7. LeaseOrder' BY <2>2, <2>5, <2>6 DEF LeaseOrder
  <2>8. j \notin published BY <1>1 DEF PubInv, PublishedIsClaimed
  <2>9. active # NoJob => active \in published /\ published \subseteq Jobs
    BY DEF PubInv, ReportsArePublished, TypeOK
  <2>10. ActiveIsNewest'
    BY <1>1, <2>1, <2>3, <2>8, <2>9 DEF LeaseInv, ActiveIsNewest, TypeOK
  <2>11. QED BY <2>4, <2>7, <2>10 DEF LeaseInv
<1>3. CASE ~(~lease.live /\ Applied(o))
  <2>1. UNCHANGED <<lease, begun, overtaken>> /\ task'[j].pc = "release"
    BY <1>3 DEF AcquireLease, Raise, Applied, TypeOK
  <2>2. QED BY <1>1, <2>1, LeaseUntouched DEF Building
<1>4. QED BY <1>2, <1>3

\* The owner of the lease alone renews and releases it.
LEMMA LeaseOwned ==
    ASSUME TypeInv, LeaseInv, NEW j \in Jobs, NEW o \in Outcomes,
           (\E built \in BOOLEAN : BuildAndRenew(j, built, o)) \/ Release(j, o)
    PROVE  LeaseInv'
<1> USE DEF TypeInv
<1>1. /\ UNCHANGED <<active, published, begun, overtaken>> /\ stalls' = stalls
      /\ \A k \in Jobs \ {j} : task'[k] = task[k]
  BY OutcomeTypes DEF BuildAndRenew, Release, Raise, Goto, history, TypeOK
<1>2. \/ /\ BuildAndRenew(j, TRUE, o) \/ Release(j, o)
         /\ lease.owner = j /\ lease'.owner = j
      \/ /\ lease' = lease
         /\ task'[j].pc \notin Building
  <2>1. ASSUME NEW built \in BOOLEAN, BuildAndRenew(j, built, o)
        PROVE  \/ BuildAndRenew(j, TRUE, o) /\ lease.owner = j /\ lease'.owner = j
               \/ lease' = lease /\ task'[j].pc \notin Building
    <3>1. CASE built /\ LeaseIs(j) /\ Applied(o)
      BY <2>1, <3>1 DEF BuildAndRenew, WriteLease, LeaseIs
    <3>2. CASE ~(built /\ LeaseIs(j) /\ Applied(o))
      <4>1. lease' = lease /\ Raise(j) BY <2>1, <3>2 DEF BuildAndRenew, Applied
      <4>2. QED BY <4>1, RaiseTypes DEF Building
    <3>3. QED BY <3>1, <3>2
  <2>2. ASSUME Release(j, o)
        PROVE  \/ lease.owner = j /\ lease'.owner = j
               \/ lease' = lease /\ task'[j].pc \notin Building
    <3>1. task'[j].pc \in {"record", "reconcile"} BY <2>2, GotoTypes DEF Release, Steps
    <3>2. QED BY <2>2, <3>1 DEF Release, WriteLease, LeaseIs, Building
  <2>3. QED BY <2>1, <2>2
<1>3. CASE lease' = lease /\ task'[j].pc \notin Building
  BY <1>1, <1>3, LeaseUntouched DEF Building
<1>4. CASE /\ BuildAndRenew(j, TRUE, o) \/ Release(j, o)
           /\ lease.owner = j /\ lease'.owner = j
  <2>1. Begun' = Begun BY <1>1 DEF Begun
  <2>2. task'[j].pc \in Building =>
            /\ task'[j].pc = "begin" /\ lease'.live /\ lease'.stamp = "renewed"
    BY <1>4 DEF BuildAndRenew, Release, WriteLease, Raise, Goto, Applied, Building, TypeOK
  <2>3. BuilderOwnsLease'
    BY <1>1, <1>4, <2>2 DEF LeaseInv, BuilderOwnsLease, Building
  <2>4. LeaseOrder'
    <3>1. \A k \in Jobs : task'[k].pc \in {"begin", "activate"} =>
              k \in overtaken' \/ (lease'.owner = k /\ lease'.stamp = "renewed")
      BY <1>1, <1>4, <2>2 DEF LeaseInv, LeaseOrder, Building
    <3>2. QED BY <1>1, <1>4, <2>1, <3>1 DEF LeaseInv, LeaseOrder
  <2>5. ActiveIsNewest' BY <1>1 DEF LeaseInv, ActiveIsNewest
  <2>6. QED BY <2>3, <2>4, <2>5 DEF LeaseInv
<1>5. QED BY <1>2, <1>3, <1>4

\* Who writes active.json owns the lease, or was overtaken.
LEMMA LeasePublished ==
    ASSUME TypeInv, LeaseInv, NEW j \in Jobs, NEW o \in Outcomes, WriteActive(j, o)
    PROVE  LeaseInv'
<1> USE DEF TypeInv
<1>1. /\ UNCHANGED <<lease, begun, overtaken>> /\ stalls' = stalls
      /\ task[j].pc = "activate" /\ task'[j].pc \in {"serve", "release"}
      /\ \A k \in Jobs \ {j} : task'[k] = task[k]
      /\ (published' = published /\ active' = active) \/ active' = j
  BY OutcomeTypes DEF WriteActive, Raise, Goto, history, TypeOK
<1>2. Begun' = Begun BY <1>1 DEF Begun
<1>3. BuilderOwnsLease' BY <1>1 DEF LeaseInv, BuilderOwnsLease
<1>4. LeaseOrder' BY <1>1, <1>2 DEF LeaseInv, LeaseOrder
<1>5. j \in overtaken \/ \A k \in Jobs : begun[k] <= begun[j]
  BY <1>1, PublicationAssumption DEF LeaseInv, LeaseOrder
<1>6. published' \subseteq Jobs BY DEF WriteActive, history, TypeOK
<1>7. ActiveIsNewest' BY <1>1, <1>5, <1>6 DEF LeaseInv, ActiveIsNewest
<1>8. QED BY <1>3, <1>4, <1>7 DEF LeaseInv

LEMMA LeaseTimedOut ==
    ASSUME TypeInv, LeaseInv, LeaseExpires PROVE LeaseInv'
<1> USE DEF TypeInv
<1>1. /\ UNCHANGED <<active, published, begun, overtaken, task>>
      /\ lease.live
      /\ lease'.owner = lease.owner /\ lease'.stamp = lease.stamp
  BY DEF LeaseExpires, history, TypeOK, Leases, NoLease
<1>2. /\ \/ task[lease.owner].pc \in {"reconcile", "record", "record_failed", "done", "dead"}
         \/ stalls' = stalls + 1
      /\ stalls' \in {stalls, stalls + 1} /\ stalls \in Nat
  BY PublicationAssumption DEF LeaseExpires, TypeOK
<1>3. Begun' = Begun BY <1>1 DEF Begun
<1>4. BuilderOwnsLease'
  <2>1. SUFFICES ASSUME stalls' = 0, NEW k \in Jobs, task'[k].pc \in Building PROVE FALSE
    BY DEF BuilderOwnsLease, Building
  <2>2. lease.owner = k BY <1>1, <1>2, <2>1 DEF LeaseInv, BuilderOwnsLease, Building
  <2>3. QED BY <1>1, <1>2, <2>1, <2>2 DEF Building
<1>5. LeaseOrder' BY <1>1, <1>3 DEF LeaseInv, LeaseOrder
<1>6. ActiveIsNewest' BY <1>1 DEF LeaseInv, ActiveIsNewest
<1>7. QED BY <1>4, <1>5, <1>6 DEF LeaseInv

LEMMA LeaseElsewhere ==
    ASSUME TypeInv, LeaseInv,
           \/ \E j \in Jobs :
                 \/ Serve(j) \/ CancelJob(j) \/ PollActive(j) \/ PollRecord(j)
                 \/ \E r \in Replicas : AdmitTrain(r, j)
                 \/ \E r \in Replicas, o \in Outcomes : CreateJob(r, j, o)
                 \/ \E o \in Outcomes :
                       \/ StartTraining(j, o) \/ BeginPublication(j, o) \/ RecordCompleted(j, o)
                       \/ RecordFailed(j, o) \/ Reconcile(j, o)
           \/ \E r \in Replicas :
                 \/ Crash(r) \/ Restart(r)
                 \/ \E o \in ReadOutcomes : RefreshRead(r, o) \/ RefreshLoad(r, o)
    PROVE  LeaseInv'
<1> USE DEF TypeInv
<1>1. UNCHANGED <<lease, active, published, begun, overtaken>> /\ stalls' = stalls
  <2>1. ASSUME NEW j \in Jobs, Serve(j) \/ CancelJob(j) \/ PollActive(j) \/ PollRecord(j)
                                  \/ \E r \in Replicas : AdmitTrain(r, j)
        PROVE  UNCHANGED <<lease, active, published, begun, overtaken>> /\ stalls' = stalls
    BY <2>1 DEF Serve, CancelJob, PollActive, PollRecord, AdmitTrain, store, bounds, history
  <2>2. ASSUME NEW j \in Jobs, NEW o \in Outcomes,
               \/ StartTraining(j, o) \/ BeginPublication(j, o) \/ RecordCompleted(j, o)
               \/ RecordFailed(j, o) \/ Reconcile(j, o)
               \/ \E r \in Replicas : CreateJob(r, j, o)
        PROVE  UNCHANGED <<lease, active, published, begun, overtaken>> /\ stalls' = stalls
    BY <2>2, OutcomeTypes DEF StartTraining, BeginPublication, RecordCompleted, RecordFailed,
       Reconcile, CreateJob, store, history
  <2>3. ASSUME NEW r \in Replicas,
               \/ Crash(r) \/ Restart(r)
               \/ \E o \in ReadOutcomes : RefreshRead(r, o) \/ RefreshLoad(r, o)
        PROVE  UNCHANGED <<lease, active, published, begun, overtaken>> /\ stalls' = stalls
    BY <2>3, OutcomeTypes DEF Crash, Restart, RefreshRead, RefreshLoad, store, bounds, history
  <2>4. QED BY <2>1, <2>2, <2>3
<1>2. ASSUME NEW k \in Jobs
      PROVE  \/ task'[k].pc \in {task[k].pc, "dead", "lock", "lease", "release", "record",
                                 "reconcile", "record_failed", "done"}
             \/ task[k].pc = "begin" /\ task'[k].pc = "activate"
  <2>1. ASSUME NEW r \in Replicas, Crash(r) PROVE task'[k].pc \in {task[k].pc, "dead"}
    BY <2>1, CrashTypes
  <2>2. ASSUME NEW j \in Jobs, Serve(j) PROVE task'[k].pc \in {task[k].pc, "release"}
    BY <2>2 DEF Serve, TypeOK
  <2>3. ASSUME NEW j \in Jobs, NEW r \in Replicas, NEW o \in Outcomes, CreateJob(r, j, o)
        PROVE  task'[k].pc \in {task[k].pc, "lock", "dead"}
    BY <2>3 DEF CreateJob, TypeOK
  <2>4. ASSUME NEW j \in Jobs, NEW o \in Outcomes,
               \/ StartTraining(j, o) \/ BeginPublication(j, o) \/ RecordCompleted(j, o)
               \/ RecordFailed(j, o) \/ Reconcile(j, o)
        PROVE  \/ task'[k].pc \in {task[k].pc, "dead", "lease", "release", "record",
                                   "reconcile", "record_failed", "done"}
               \/ task[k].pc = "begin" /\ task'[k].pc = "activate"
    <3>1. \/ \E pc \in {"dead", "lease", "record", "reconcile", "record_failed", "done"} :
                Goto(j, pc) \/ task' = [task EXCEPT ![j].ok = FALSE, ![j].pc = pc]
          \/ Raise(j) \/ (task[j].pc = "begin" /\ Goto(j, "activate"))
      BY <2>4 DEF StartTraining, BeginPublication, RecordCompleted, RecordFailed, Reconcile
    <3>2. QED BY <3>1 DEF Goto, Raise, TypeOK
  <2>5. CASE task' = task BY <2>5
  <2>6. QED
    BY <2>1, <2>2, <2>3, <2>4, <2>5
       DEF CancelJob, PollActive, PollRecord, AdmitTrain, Restart, RefreshRead, RefreshLoad
<1>3. \A k \in Jobs :
          /\ task'[k].pc \in Building => task[k].pc \in Building
          /\ task'[k].pc \in {"begin", "activate"} => task[k].pc \in {"begin", "activate"}
  BY <1>2 DEF Building
<1>4. QED BY <1>1, <1>3, LeaseUntouched

LEMMA LeasePreserved == TypeInv /\ PubInv /\ LeaseInv /\ [Next]_vars => LeaseInv'
<1> SUFFICES ASSUME TypeInv, PubInv, LeaseInv, [Next]_vars PROVE LeaseInv' OBVIOUS
<1>1. CASE UNCHANGED vars
  BY <1>1, LeaseUntouched DEF vars, store, bounds, history
<1>2. ASSUME NEW j \in Jobs, Work(j) PROVE LeaseInv'
  <2>1. ReadOutcomes \subseteq Outcomes BY DEF ReadOutcomes, Outcomes
  <2>2. QED
    BY <1>2, <2>1, LeaseAcquired, LeaseOwned, LeasePublished, LeaseElsewhere DEF Work
<1>3. QED BY <1>1, <1>2, LeaseTimedOut, LeaseElsewhere DEF Next

LEMMA LeaseAlways == Spec => [](TypeInv /\ PubInv /\ LeaseInv)
<1>1. ASSUME Init PROVE LeaseInv
  <2>1. Cardinality({}) = 0 BY FS_EmptySet
  <2>2. {j \in Jobs : begun[j] > 0} = {} BY <1>1 DEF Init
  <2>3. Begun = 0 BY <2>1, <2>2 DEF Begun
  <2>4. /\ \A j \in Jobs : begun[j] = 0 /\ task[j].pc = "none"
        /\ active = NoJob /\ lease.owner = NoJob
    BY <1>1 DEF Init, NoLease
  <2>5. BuilderOwnsLease BY <2>4 DEF BuilderOwnsLease
  <2>6. LeaseOrder BY <2>3, <2>4 DEF LeaseOrder
  <2>7. QED BY <2>4, <2>5, <2>6 DEF LeaseInv, ActiveIsNewest
<1>2. QED BY <1>1, PubAlways, LeasePreserved, PTL DEF Spec

\* One job at a time works under a lease that has not expired.
THEOREM OneBuilderAtATime == Spec => []OneBuilder
<1>1. LeaseInv => OneBuilder BY DEF LeaseInv, BuilderOwnsLease, OneBuilder
<1>2. QED BY <1>1, LeaseAlways, PTL

\* An older build replaces a newer one only if its builder was overtaken.
THEOREM NewestIsActive == Spec => []ActiveIsNewest
<1>1. LeaseInv => ActiveIsNewest BY DEF LeaseInv
<1>2. QED BY <1>1, LeaseAlways, PTL

-----------------------------------------------------------------------------
(* The registry implements TrainingRegistry *)

\* Trouble with the store only ever begins.
LEMMA CalmEnds ==
    ASSUME TypeOK, faults' = faults \/ \E o : Outcome(o)
    PROVE  (faults' = 0) \in {faults = 0, FALSE}
<1>1. faults' = 0 => faults = 0 BY OutcomeTypes
<1>2. CASE faults = 0 /\ faults' = 0 BY <1>2
<1>3. CASE faults' # 0 BY <1>3
<1>4. QED BY <1>1, <1>2, <1>3

\* What administrators and replicas cannot see.
LEMMA Unseen ==
    ASSUME \A j \in Jobs : Result(j)' = Result(j), UNCHANGED <<published, active, loaded>>,
           (faults' = 0) \in {faults = 0, FALSE}
    PROVE  Registry!Next
BY DEF Registry!Next

\* A record that is written is a report, or changes nothing.
LEMMA Reported ==
    ASSUME TypeInv, PubInv, StraightToRecord, NEW j \in Jobs,
           \/ RecordJob(j, "completed") /\ j \in published
           \/ RecordJob(j, "failed") /\ ~(faults = 0 /\ j \in published),
           faults = 0 => job[j] \notin {"completed", "failed"} \/ job' = job,
           job[j] # "none", UNCHANGED <<published, active, loaded>>,
           (faults' = 0) \in {faults = 0, FALSE}
    PROVE  Registry!Next
<1>1. CASE job' = job BY <1>1, Unseen DEF Result
<1>2. CASE job' # job
  <2>1. job[j] \in {"running", "publishing", "completed", "failed"}
    BY <1>2 DEF RecordJob, TypeInv, TypeOK, Status
  <2>2. Result(j) = "open" \/ (~(faults = 0) /\ Result(j) \in {"completed", "failed"})
    BY <1>2, <2>1 DEF Result
  <2>3. \/ job' = [job EXCEPT ![j] = "completed"] /\ j \in published
        \/ job' = [job EXCEPT ![j] = "failed"] /\ ~(faults = 0 /\ j \in published)
    BY <1>2 DEF RecordJob
  <2>4. \/ /\ j \in published
           /\ [k \in Jobs |-> Result(k)]' = [[k \in Jobs |-> Result(k)] EXCEPT ![j] = "completed"]
        \/ /\ ~(faults = 0 /\ j \in published)
           /\ [k \in Jobs |-> Result(k)]' = [[k \in Jobs |-> Result(k)] EXCEPT ![j] = "failed"]
    BY <2>3 DEF Result, TypeInv, TypeOK
  <2>5. Registry!Report(j) BY <2>2, <2>4 DEF Registry!Report
  <2>6. QED BY <2>5 DEF Registry!Next
<1>3. QED BY <1>1, <1>2

\* Requests: a created job is submitted, a cancelled one was not published, and a
\* status request that found the manifest active reports the job.
LEMMA RequestsImplement ==
    ASSUME TypeInv, PubInv, StraightToRecord, [Next]_vars, NEW j \in Jobs,
           \/ \E r \in Replicas : AdmitTrain(r, j)
           \/ \E r \in Replicas, o \in Outcomes : CreateJob(r, j, o)
           \/ CancelJob(j) \/ PollActive(j) \/ PollRecord(j)
    PROVE  Registry!Next
<1> USE DEF TypeInv
<1>1. UNCHANGED <<published, active, loaded>>
  BY DEF AdmitTrain, CreateJob, CancelJob, PollActive, PollRecord, store, replica, history
<1>2. (faults' = 0) \in {faults = 0, FALSE}
  BY CalmEnds DEF AdmitTrain, CreateJob, CancelJob, PollActive, PollRecord, bounds
<1>3. CASE (\E r \in Replicas : AdmitTrain(r, j)) \/ PollActive(j)
  BY <1>1, <1>2, <1>3, Unseen DEF AdmitTrain, PollActive, store, Result
<1>4. ASSUME NEW r \in Replicas, NEW o \in Outcomes, CreateJob(r, j, o) PROVE Registry!Next
  <2>1. CASE job' = job BY <1>1, <1>2, <2>1, Unseen DEF Result
  <2>2. CASE job' # job
    <3>1. job[j] = "none" /\ job' = [job EXCEPT ![j] = "running"]
      BY <1>4, <2>2 DEF CreateJob, StepsInOrder
    <3>2. Result(j) = "none"
          /\ [k \in Jobs |-> Result(k)]' = [[k \in Jobs |-> Result(k)] EXCEPT ![j] = "open"]
      BY <3>1 DEF Result, TypeOK
    <3>3. Registry!Submit(j) BY <1>1, <3>2 DEF Registry!Submit
    <3>4. QED BY <1>2, <3>3 DEF Registry!Next
  <2>3. QED BY <2>1, <2>2
<1>5. CASE CancelJob(j)
  <2>1. /\ Result(j) \in {"none", "open"} /\ j \notin published
        /\ [k \in Jobs |-> Result(k)]' = [[k \in Jobs |-> Result(k)] EXCEPT ![j] = "cancelled"]
    BY <1>5 DEF CancelJob, Result, PubInv, PublishedIsClaimed, TypeOK
  <2>2. Registry!Cancel(j) BY <1>1, <2>1 DEF Registry!Cancel
  <2>3. QED BY <1>2, <2>2 DEF Registry!Next
<1>6. CASE PollRecord(j)
  <2>1. RecordJob(j, "completed") /\ j \in published /\ job[j] # "none"
    BY <1>6 DEF PollRecord, PubInv, ReportsArePublished, StepsInOrder
  <2>2. faults = 0 => job[j] \notin {"completed", "failed"} \/ job' = job
    <3>1. ASSUME faults = 0, job[j] \in {"completed", "failed"} PROVE job'[j] = job[j]
      BY <3>1, FinalRecords DEF Final
    <3>2. job' = [job EXCEPT ![j] = job'[j]] BY <2>1 DEF RecordJob, TypeOK
    <3>3. QED BY <3>1, <3>2 DEF TypeOK
  <2>3. QED BY <1>1, <1>2, <2>1, <2>2, Reported
<1>7. QED BY <1>3, <1>4, <1>5, <1>6

\* The work of a job: active.json is written of an open job, once, and what is
\* recorded at the end is a report.
LEMMA WorkImplements ==
    ASSUME TypeInv, PubInv, StraightToRecord, [Next]_vars, NEW j \in Jobs, Work(j)
    PROVE  Registry!Next
<1> USE DEF TypeInv
<1>1. (faults' = 0) \in {faults = 0, FALSE}
  BY CalmEnds DEF Work, Serve, StartTraining, AcquireLease, BuildAndRenew, BeginPublication,
     WriteActive, Release, RecordCompleted, RecordFailed, Reconcile, bounds
<1>2. ASSUME NEW o \in Outcomes,
             \/ StartTraining(j, o) \/ AcquireLease(j, o) \/ Release(j, o) \/ Reconcile(j, o)
             \/ BeginPublication(j, o) \/ \E built \in BOOLEAN : BuildAndRenew(j, built, o)
      PROVE  Registry!Next
  <2>1. UNCHANGED <<published, active, loaded>>
    BY <1>2 DEF StartTraining, AcquireLease, Release, Reconcile, BeginPublication, BuildAndRenew,
       store, replica, history
  <2>2. job' = job \/ (job[j] = "running" /\ job' = [job EXCEPT ![j] = "publishing"])
    BY <1>2 DEF StartTraining, AcquireLease, Release, Reconcile, BeginPublication, BuildAndRenew,
       store
  <2>3. \A k \in Jobs : Result(k)' = Result(k) BY <2>2 DEF Result, TypeOK
  <2>4. QED BY <1>1, <2>1, <2>3, Unseen
<1>3. ASSUME NEW o \in Outcomes, WriteActive(j, o) PROVE Registry!Next
  <2>1. UNCHANGED <<job, loaded>> /\ task[j].pc = "activate" BY <1>3 DEF WriteActive, replica
  <2>2. job[j] = "publishing" /\ j \notin published
    BY <2>1 DEF PubInv, ClaimedBeforeActive
  <2>3. CASE Applied(o)
    <3>1. active' = j /\ published' = published \cup {j} BY <1>3, <2>3 DEF WriteActive
    <3>2. Registry!Publish(j) BY <2>1, <2>2, <3>1 DEF Registry!Publish, Result
    <3>3. QED BY <1>1, <3>2 DEF Registry!Next
  <2>4. CASE ~Applied(o)
    <3>1. UNCHANGED <<active, published>> BY <1>3, <2>4 DEF WriteActive
    <3>2. QED BY <1>1, <2>1, <3>1, Unseen DEF Result
  <2>5. QED BY <2>3, <2>4
<1>4. CASE Serve(j)
  <2>1. UNCHANGED <<job, active, published>> /\ task[j].pc = "serve"
        /\ loaded' = [loaded EXCEPT ![task[j].at] = j]
    BY <1>4 DEF Serve, store, history
  <2>2. j \in published BY <2>1 DEF PubInv, ReportsArePublished
  <2>3. CASE task[j].at \in Replicas
    <3>1. Registry!Serve(task[j].at) BY <2>1, <2>2 DEF Registry!Serve, Result
    <3>2. QED BY <1>1, <2>3, <3>1 DEF Registry!Next
  <2>4. CASE task[j].at \notin Replicas
    <3>1. loaded' = loaded BY <2>1, <2>4 DEF TypeOK
    <3>2. QED BY <1>1, <2>1, <3>1, Unseen DEF Result
  <2>5. QED BY <2>3, <2>4
<1>5. ASSUME NEW o \in Outcomes, RecordCompleted(j, o) \/ RecordFailed(j, o)
      PROVE  Registry!Next
  <2>1. UNCHANGED <<published, active, loaded>>
    BY <1>5 DEF RecordCompleted, RecordFailed, replica, history
  <2>2. job[j] # "none" BY <1>5 DEF RecordCompleted, RecordFailed, StepsInOrder
  <2>3. \/ job' = job
        \/ RecordJob(j, "completed") /\ j \in published
        \/ RecordJob(j, "failed") /\ ~(faults = 0 /\ j \in published)
    BY <1>5 DEF RecordCompleted, RecordFailed, PubInv, ReportsArePublished, StraightToRecord
  <2>4. faults = 0 => job[j] \notin {"completed", "failed"} \/ job' = job
    <3>1. ASSUME faults = 0, job[j] \in {"completed", "failed"} PROVE job'[j] = job[j]
      BY <3>1, FinalRecords DEF Final
    <3>2. job' = job \/ job' = [job EXCEPT ![j] = job'[j]] BY <2>3 DEF RecordJob, TypeOK
    <3>3. QED BY <3>1, <3>2 DEF TypeOK
  <2>5. CASE job' = job BY <1>1, <2>1, <2>5, Unseen DEF Result
  <2>6. QED BY <1>1, <2>1, <2>2, <2>3, <2>4, <2>5, Reported
<1>6. ReadOutcomes \subseteq Outcomes BY DEF ReadOutcomes, Outcomes
<1>7. QED BY <1>2, <1>3, <1>4, <1>5, <1>6 DEF Work

\* Refreshes and crashes: a replica comes to serve what was published, or nothing.
LEMMA ReplicasImplement ==
    ASSUME TypeInv, PubInv,
           \/ \E r \in Replicas :
                 \/ Crash(r) \/ Restart(r)
                 \/ \E o \in ReadOutcomes : RefreshRead(r, o) \/ RefreshLoad(r, o)
           \/ LeaseExpires
    PROVE  Registry!Next
<1> USE DEF TypeInv
<1>1. UNCHANGED <<job, active, published>>
  BY DEF Crash, Restart, RefreshRead, RefreshLoad, LeaseExpires, store, history
<1>2. (faults' = 0) \in {faults = 0, FALSE}
  BY CalmEnds DEF Crash, Restart, RefreshRead, RefreshLoad, LeaseExpires, bounds
<1>3. CASE loaded' = loaded BY <1>1, <1>2, <1>3, Unseen DEF Result
<1>4. ASSUME NEW r \in Replicas,
             Crash(r) \/ \E o \in ReadOutcomes : RefreshLoad(r, o)
      PROVE  Registry!Next
  <2>1. loaded' = loaded \/ \E m \in published \cup {NoJob} : loaded' = [loaded EXCEPT ![r] = m]
    BY <1>4 DEF Crash, RefreshLoad, PubInv, ServedWasPublished
  <2>2. CASE \E m \in published \cup {NoJob} : loaded' = [loaded EXCEPT ![r] = m]
    <3>1. Registry!Serve(r) BY <1>1, <2>2 DEF Registry!Serve, Result
    <3>2. QED BY <1>2, <3>1 DEF Registry!Next
  <2>3. QED BY <1>3, <2>1, <2>2
<1>5. QED BY <1>3, <1>4 DEF Restart, RefreshRead, LeaseExpires, replica

\* The registry implements TrainingRegistry: nothing that raises, crashes or stalls
\* between its objects is seen but as a publication, a report, a cancellation or a
\* change of the served model.
THEOREM RegistryImplemented == Spec => ImplementsRegistry
<1>1. Init => Registry!Init BY DEF Init, Registry!Init, Result
<1>2. TypeInv /\ PubInv /\ StraightToRecord /\ [Next]_vars
        => [Registry!Next]_(Registry!registryVars)
  <2> SUFFICES ASSUME TypeInv, PubInv, StraightToRecord, [Next]_vars
               PROVE  Registry!Next \/ UNCHANGED Registry!registryVars
    OBVIOUS
  <2>1. CASE UNCHANGED vars
    <3>1. UNCHANGED <<job, published, active, loaded, faults>>
      BY <2>1 DEF vars, store, replica, bounds, history
    <3>2. QED BY <3>1 DEF Registry!registryVars, Result
  <2>2. CASE Next
    BY <2>2, RequestsImplement, WorkImplements, ReplicasImplement DEF Next
  <2>3. QED BY <2>1, <2>2
<1>3. QED BY <1>1, <1>2, StraightAlways, PTL DEF Spec, ImplementsRegistry, Registry!Spec

=============================================================================
