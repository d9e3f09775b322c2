------------------------------ MODULE ModelUsage ------------------------------
(***************************************************************************)
(* When was a model last used?  Every replica of the recommendation        *)
(* service notes the use of a model in memory (ModelStatistics.pending);   *)
(* its refresh loop, and its shutdown, flush what is pending to one object *)
(* per model on R2, and the model catalogue of the administration reads    *)
(* both.  Replicas share the objects and nothing else.                     *)
(*                                                                         *)
(* A time is a natural number and 0 is none: no object, nothing pending.   *)
(* The clock of a replica does not run backwards, and the clocks of two    *)
(* replicas need not agree.  An ETag on R2 is a digest of the content, so  *)
(* a write is conditional on the value that was read.                      *)
(***************************************************************************)
EXTENDS Naturals, FiniteSets

CONSTANTS Replicas,    \* the processes running the service
          Models,      \* model versions
          None,        \* no model
          MaxTime,     \* bound on the clocks
          MaxFaults    \* bound on store calls that go wrong

ASSUME UsageAssumption ==
    /\ None \notin Models
    /\ MaxTime \in Nat /\ MaxFaults \in Nat

VARIABLES
    saved,    \* usage/<model>.json: lastUsedAt
    life,     \* a replica is up, stopping (its lifespan has ended) or down
    clock,    \* the last time a replica has read from its clock
    pending,  \* the uses a replica has not flushed
    flush,    \* the flush under way on a replica
    catalog,  \* the catalogue request under way on a replica
    faults,   \* counter: store calls that went wrong
    used,     \* history: the last use of each model by the running process
    skipped   \* history: replicas whose shutdown flush was skipped or failed

vars == <<saved, life, clock, pending, flush, catalog, faults, used, skipped>>

Times == 0..MaxTime
Later(a, b) == IF a > b THEN a ELSE b
Nothing == [m \in Models |-> 0]

\* compare_write_json is tried three times for a model.
Tries == 3

\* No flush: flush_lock is free.
Idle == [pc |-> "idle", todo |-> {}, copy |-> Nothing, model |-> None,
         seen |-> 0, tries |-> 0]

NoRequest == [pc |-> "none", todo |-> {}, answer |-> Nothing, floor |-> Nothing]

TypeOK ==
    /\ saved \in [Models -> Times]
    /\ life \in [Replicas -> {"up", "stopping", "down"}]
    /\ clock \in [Replicas -> Times]
    /\ pending \in [Replicas -> [Models -> Times]]
    /\ flush \in [Replicas -> [pc : {"idle", "next", "write", "pop"}, todo : SUBSET Models,
                               copy : [Models -> Times], model : Models \cup {None},
                               seen : Times, tries : 0..Tries]]
    /\ \A r \in Replicas : flush[r].pc \in {"write", "pop"} =>
            flush[r].model # None /\ flush[r].copy[flush[r].model] > 0
    /\ catalog \in [Replicas -> [pc : {"none", "read"}, todo : SUBSET Models,
                                 answer : [Models -> Times], floor : [Models -> Times]]]
    /\ used \in [Replicas -> [Models -> Times]]
    /\ faults \in 0..MaxFaults
    /\ skipped \subseteq Replicas

Init ==
    /\ saved = Nothing
    /\ life = [r \in Replicas |-> "up"]
    /\ clock = [r \in Replicas |-> 0]
    /\ pending = [r \in Replicas |-> Nothing]
    /\ flush = [r \in Replicas |-> Idle]
    /\ catalog = [r \in Replicas |-> NoRequest]
    /\ faults = 0
    /\ used = [r \in Replicas |-> Nothing]
    /\ skipped = {}

Fault == faults < MaxFaults /\ faults' = faults + 1

-----------------------------------------------------------------------------
(* Uses *)

\* record_use, after a ranking was computed or found in the cache: the clock is
\* read under the lock that guards pending.
RecordUse(r, m, t) ==
    /\ life[r] = "up"
    /\ t > 0 /\ t >= clock[r]
    /\ clock' = [clock EXCEPT ![r] = t]
    /\ pending' = [pending EXCEPT ![r][m] = t]
    /\ used' = [used EXCEPT ![r][m] = t]
    /\ UNCHANGED <<saved, life, flush, catalog, faults, skipped>>

-----------------------------------------------------------------------------
(* flush *)

Pending(r) == {m \in Models : pending[r][m] > 0}

BeginFlush(r) ==
    /\ flush[r].pc = "idle"
    /\ Pending(r) # {}
    /\ flush' = [flush EXCEPT ![r] = [Idle EXCEPT !.pc = "next", !.todo = Pending(r),
                                                  !.copy = pending[r]]]

\* The refresh loop: refresh begins with a flush, which returns at once when
\* another one runs or nothing is pending.
StartFlush(r) ==
    /\ life[r] = "up"
    /\ BeginFlush(r)
    /\ UNCHANGED <<saved, life, clock, pending, catalog, faults, used, skipped>>

\* Mutant: flush_lock is not released at the end.
LeaveLocked(r, m) ==
    flush' = [flush EXCEPT ![r] = [@ EXCEPT !.pc = "next", !.todo = @ \ {m},
                                            !.model = None, !.seen = 0, !.tries = 0]]

\* Go on to the next model of the copy, or release flush_lock.
Leave(r, m) ==
    LET rest == flush[r].todo \ {m}
    IN flush' = [flush EXCEPT ![r] = IF rest = {} THEN Idle
                                     ELSE [@ EXCEPT !.pc = "next", !.todo = rest,
                                                    !.model = None, !.seen = 0, !.tries = 0]]

\* An exception is logged: the model stays pending, the others are tried.
Fails(r, m) ==
    /\ Fault
    /\ skipped' = IF life[r] = "stopping" THEN skipped \cup {r} ELSE skipped
    /\ Leave(r, m)

\* read_versioned_json, for the first try at a model or the next one.
ReadUsage(r, m) ==
    /\ flush[r].pc = "next"
    /\ m \in flush[r].todo /\ flush[r].model \in {None, m}
    /\ \/ /\ flush' = [flush EXCEPT ![r].pc = "write", ![r].model = m,
                           ![r].seen = saved[m], ![r].tries = @ + 1]
          /\ UNCHANGED <<faults, skipped>>
       \/ Fails(r, m)
    /\ UNCHANGED <<saved, life, clock, pending, catalog, used>>

\* A conflict: read again, unless this was the third try.
Conflict(r, m) ==
    IF flush[r].tries < Tries
    THEN flush' = [flush EXCEPT ![r].pc = "next", ![r].seen = 0] /\ UNCHANGED skipped
    ELSE /\ Leave(r, m)
         /\ skipped' = IF life[r] = "stopping" THEN skipped \cup {r} ELSE skipped

Put(r, m) == saved' = [saved EXCEPT ![m] = Later(flush[r].seen, flush[r].copy[m])]

\* compare_write_json of the later time.  It may raise without effect; when its
\* answer is lost, the client's second attempt meets its own write: a conflict.
WriteUsage(r) ==
    LET m == flush[r].model IN
    /\ flush[r].pc = "write"
    /\ \/ /\ saved[m] = flush[r].seen
          /\ Put(r, m)
          /\ flush' = [flush EXCEPT ![r].pc = "pop"]
          /\ UNCHANGED <<faults, skipped>>
       \/ /\ saved[m] = flush[r].seen
          /\ Fault
          /\ Put(r, m)
          /\ Conflict(r, m)
       \/ /\ saved[m] # flush[r].seen
          /\ Conflict(r, m)
          /\ UNCHANGED <<saved, faults>>
       \/ /\ Fails(r, m)
          /\ UNCHANGED saved
    /\ UNCHANGED <<life, clock, pending, catalog, used>>

\* Mutant: whatever is pending by now counts as saved.
PopUsageAlways(r) ==
    LET m == flush[r].model IN
    /\ flush[r].pc = "pop"
    /\ pending' = [pending EXCEPT ![r][m] = 0]
    /\ Leave(r, m)
    /\ UNCHANGED <<saved, life, clock, catalog, faults, used, skipped>>

\* Under the lock again: a use that came after the copy stays pending.
PopUsage(r) ==
    LET m == flush[r].model IN
    /\ flush[r].pc = "pop"
    /\ pending' = [pending EXCEPT ![r][m] = IF @ <= flush[r].copy[m] THEN 0 ELSE @]
    /\ Leave(r, m)
    /\ UNCHANGED <<saved, life, clock, catalog, faults, used, skipped>>

FlushStep(r) == (\E m \in Models : ReadUsage(r, m)) \/ WriteUsage(r) \/ PopUsage(r)

-----------------------------------------------------------------------------
(* catalog: GET /internal/models *)

\* What is pending is copied under the lock, before the objects are read.
AskCatalog(r) ==
    /\ life[r] = "up" /\ catalog[r].pc = "none"
    /\ catalog' = [catalog EXCEPT ![r] = [pc |-> "read", todo |-> Models,
                        answer |-> pending[r], floor |-> used[r]]]
    /\ UNCHANGED <<saved, life, clock, pending, flush, faults, used, skipped>>

\* A thread of the pool reads the object of one model; the last read ends the
\* request.
ReadCatalog(r, m) ==
    /\ m \in catalog[r].todo
    /\ LET c == catalog[r]
           later == [c.answer EXCEPT ![m] = Later(@, saved[m])]
       IN catalog' = [catalog EXCEPT ![r] =
              IF c.todo = {m} THEN NoRequest
              ELSE [c EXCEPT !.answer = later, !.todo = @ \ {m}]]
    /\ UNCHANGED <<saved, life, clock, pending, flush, faults, used, skipped>>

\* A read that raises is the end of the request.
FailCatalog(r) ==
    /\ catalog[r].pc = "read"
    /\ Fault
    /\ catalog' = [catalog EXCEPT ![r] = NoRequest]
    /\ UNCHANGED <<saved, life, clock, pending, flush, used, skipped>>

-----------------------------------------------------------------------------
(* The process *)

\* Shutdown: requests have ended.  The thread of a refresh is not interrupted;
\* a flush it is in makes the shutdown's own flush return at once.
Stop(r) ==
    /\ life[r] = "up" /\ catalog[r].pc = "none"
    /\ life' = [life EXCEPT ![r] = "stopping"]
    /\ IF flush[r].pc = "idle" /\ Pending(r) # {}
       THEN BeginFlush(r) /\ UNCHANGED skipped
       ELSE /\ skipped' = IF flush[r].pc = "idle" THEN skipped ELSE skipped \cup {r}
            /\ UNCHANGED flush
    /\ UNCHANGED <<saved, clock, pending, catalog, faults, used>>

\* Mutant: the process does not wait for its last flush.
ExitAtOnce(r) ==
    /\ life[r] = "stopping"
    /\ life' = [life EXCEPT ![r] = "down"]
    /\ flush' = [flush EXCEPT ![r] = Idle]
    /\ UNCHANGED <<saved, clock, pending, catalog, faults, used, skipped>>

\* The process ends when its threads have.
Exit(r) ==
    /\ life[r] = "stopping" /\ flush[r].pc = "idle"
    /\ life' = [life EXCEPT ![r] = "down"]
    /\ UNCHANGED <<saved, clock, pending, flush, catalog, faults, used, skipped>>

\* The process is killed, in whatever it was doing.
Kill(r) ==
    /\ life[r] \in {"up", "stopping"}
    /\ life' = [life EXCEPT ![r] = "down"]
    /\ flush' = [flush EXCEPT ![r] = Idle]
    /\ catalog' = [catalog EXCEPT ![r] = NoRequest]
    /\ skipped' = skipped \cup {r}
    /\ UNCHANGED <<saved, clock, pending, faults, used>>

\* A new process has nothing pending.
Restart(r) ==
    /\ life[r] = "down"
    /\ life' = [life EXCEPT ![r] = "up"]
    /\ pending' = [pending EXCEPT ![r] = Nothing]
    /\ used' = [used EXCEPT ![r] = Nothing]
    /\ catalog' = [catalog EXCEPT ![r] = NoRequest]
    /\ skipped' = skipped \ {r}
    /\ UNCHANGED <<saved, clock, flush, faults>>

Next ==
    \E r \in Replicas :
        \/ \E m \in Models, t \in Times : RecordUse(r, m, t)
        \/ StartFlush(r) \/ FlushStep(r)
        \/ AskCatalog(r) \/ FailCatalog(r)
        \/ \E m \in Models : ReadCatalog(r, m)
        \/ Stop(r) \/ Exit(r) \/ Kill(r) \/ Restart(r)

\* The loop refreshes, threads run on, and an ended process is started again.
Fairness ==
    \A r \in Replicas : WF_vars(StartFlush(r)) /\ WF_vars(FlushStep(r))
                        /\ WF_vars(Exit(r)) /\ WF_vars(Restart(r))

Spec == Init /\ [][Next]_vars /\ Fairness

-----------------------------------------------------------------------------
(* What the statistics promise *)

\* No use of a living process is lost: it is pending there, or a time at least
\* as late is saved, also while a flush and further uses interleave.
UsesKept ==
    \A r \in Replicas, m \in Models :
        life[r] = "up" => used[r][m] <= Later(saved[m], pending[r][m])

\* "Compare-and-swap keeps the latest time with several replicas": whichever
\* order they flush in, a saved time is never replaced by an earlier one.
SavedNeverBack == [][\A m \in Models : saved'[m] >= saved[m]]_vars

\* A catalogue answer is never behind the uses its replica had made when it was
\* asked, although a flush moves them from memory to R2 meanwhile: what was
\* pending, or the object whenever it is read, is late enough.
CatalogComplete ==
    \A r \in Replicas, m \in Models :
        LET c == catalog[r]
        IN c.pc = "read" =>
            c.floor[m] <= IF m \in c.todo THEN Later(c.answer[m], saved[m]) ELSE c.answer[m]

\* A normal shutdown saves every use, unless a flush was under way when it
\* began or the store failed its own flush.
ShutdownSaves ==
    \A r \in Replicas, m \in Models :
        life[r] = "down" /\ r \notin skipped => used[r][m] <= saved[m]

\* A use is saved in the end if its process lives: conflicts with other
\* replicas and failed calls only delay it.
UsesSaved ==
    \A r \in Replicas, m \in Models, t \in Times \ {0} :
        used[r][m] = t ~> saved[m] >= t \/ life[r] # "up"
=============================================================================
