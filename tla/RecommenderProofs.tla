--------------------------- MODULE RecommenderProofs ---------------------------
(***************************************************************************)
(* The recommendation service, for all constants.                          *)
(*                                                                         *)
(* Usage statistics (ModelUsage): no use of a living process is lost, a    *)
(* saved time never goes back, a catalogue is not behind its own replica,  *)
(* and a clean shutdown saves every use.                                   *)
(*                                                                         *)
(* Item-based models (IncrementalSimilarity): whatever ratings arrive, the *)
(* incremental updates leave the statistics, similarities and means that a *)
(* fit of all ratings would give, and the partial selection of neighbours  *)
(* is the one that sorting makes.                                          *)
(***************************************************************************)
EXTENDS ModelUsage, IncrementalSimilarity, FiniteSetTheorems, WellFoundedInduction, TLAPS

\* What a flush holds: nothing when it is idle, only models that were pending,
\* and a further try of a model only after fewer than three.
FlushSound ==
    \A r \in Replicas :
        /\ flush[r].pc = "idle" => flush[r].todo = {}
        /\ \A m \in flush[r].todo : flush[r].copy[m] > 0
        /\ flush[r].pc = "next" => flush[r].tries < Tries

\* A time that is about to be popped has been saved.
PoppedIsSaved ==
    \A r \in Replicas :
        flush[r].pc = "pop" => flush[r].copy[flush[r].model] <= saved[flush[r].model]

\* As UsesKept, until the process has ended.
KeptWhileRunning ==
    \A r \in Replicas, m \in Models :
        life[r] # "down" => used[r][m] <= saved[m] \/ used[r][m] <= pending[r][m]

\* During a shutdown that goes well every use is saved, or its flush will.
ShutdownOnItsWay ==
    \A r \in Replicas, m \in Models :
        life[r] = "stopping" /\ r \notin skipped =>
            \/ used[r][m] <= saved[m]
            \/ m \in flush[r].todo /\ used[r][m] <= flush[r].copy[m]

Safe == /\ PoppedIsSaved /\ KeptWhileRunning /\ ShutdownOnItsWay
        /\ ShutdownSaves /\ CatalogComplete

-----------------------------------------------------------------------------
(* Types *)

FlushRecords == [pc : {"idle", "next", "write", "pop"}, todo : SUBSET Models,
                 copy : [Models -> Times], model : Models \cup {None},
                 seen : Times, tries : 0..Tries]

CatalogRecords == [pc : {"none", "read"}, todo : SUBSET Models,
                   answer : [Models -> Times], floor : [Models -> Times]]

TypeInv == TypeOK /\ FlushSound

LEMMA Constants ==
    /\ Idle \in FlushRecords /\ NoRequest \in CatalogRecords
    /\ Nothing \in [Models -> Times] /\ Times \subseteq Nat
BY UsageAssumption DEF Idle, NoRequest, Nothing, Times, FlushRecords, CatalogRecords, Tries

LEMMA LaterType ==
    ASSUME NEW a \in Times, NEW b \in Times
    PROVE  Later(a, b) \in Times /\ Later(a, b) >= a /\ Later(a, b) >= b
BY UsageAssumption DEF Later, Times

\* Leaving a model keeps the flush sound.
LEMMA LeaveTypes ==
    ASSUME TypeInv, NEW r \in Replicas, NEW m \in Models, Leave(r, m),
           flush[r].pc # "idle"
    PROVE  /\ flush' \in [Replicas -> FlushRecords]
           /\ \A q \in Replicas \ {r} : flush'[q] = flush[q]
           /\ flush'[r].pc \in {"idle", "next"}
           /\ flush'[r].todo = flush[r].todo \ {m}
           /\ flush'[r].pc = "next" => flush'[r].copy = flush[r].copy /\ flush'[r].tries = 0
<1> DEFINE rest == flush[r].todo \ {m}
           f == IF rest = {} THEN Idle
                ELSE [flush[r] EXCEPT !.pc = "next", !.todo = rest,
                                      !.model = None, !.seen = 0, !.tries = 0]
<1>1. flush \in [Replicas -> FlushRecords] BY DEF TypeInv, TypeOK, FlushRecords
<1>2. flush' = [flush EXCEPT ![r] = f] BY DEF Leave
<1>3. 0 \in Times /\ 0 \in 0..Tries BY UsageAssumption DEF Times, Tries
<1>4. f \in FlushRecords BY <1>1, <1>3, Constants DEF FlushRecords
<1>5. f.todo = rest /\ f.pc \in {"idle", "next"}
  BY <1>1 DEF FlushRecords, Idle
<1>6. f.pc = "next" => f.copy = flush[r].copy /\ f.tries = 0
  BY <1>1 DEF FlushRecords, Idle
<1>7. flush'[r] = f /\ \A q \in Replicas \ {r} : flush'[q] = flush[q]
  BY <1>1, <1>2
<1>8. flush' \in [Replicas -> FlushRecords] BY <1>1, <1>2, <1>4
<1> HIDE DEF f
<1>9. QED BY <1>5, <1>6, <1>7, <1>8

LEMMA InitTypes == Init => TypeInv
BY Constants, UsageAssumption DEF Init, TypeInv, TypeOK, FlushSound, Idle, FlushRecords,
       CatalogRecords, Times

\* The steps of a flush.
LEMMA FlushTypes ==
    ASSUME TypeInv, NEW r \in Replicas, FlushStep(r) PROVE TypeInv'
<1>1. flush \in [Replicas -> FlushRecords] BY DEF TypeInv, TypeOK, FlushRecords
<1>2. faults \in Nat /\ faults <= MaxFaults BY UsageAssumption DEF TypeInv, TypeOK
<1>3. ASSUME Fault PROVE faults' \in 0..MaxFaults
  BY <1>2, <1>3, UsageAssumption DEF Fault
<1>4. ASSUME NEW m \in Models, Leave(r, m), flush[r].pc # "idle"
      PROVE  /\ flush' \in [Replicas -> FlushRecords]
             /\ FlushSound'
             /\ \A q \in Replicas : flush'[q].pc \in {"write", "pop"} =>
                    flush'[q].model # None /\ flush'[q].copy[flush'[q].model] > 0
  <2>1. /\ flush' \in [Replicas -> FlushRecords]
        /\ \A q \in Replicas \ {r} : flush'[q] = flush[q]
        /\ flush'[r].pc \in {"idle", "next"}
        /\ flush'[r].todo = flush[r].todo \ {m}
        /\ flush'[r].pc = "next" => flush'[r].copy = flush[r].copy /\ flush'[r].tries = 0
    BY <1>4, LeaveTypes
  <2>2. flush'[r].pc = "idle" => flush'[r].todo = {}
    BY <1>1, <1>4 DEF Leave, Idle, FlushRecords
  <2>3. 0 < Tries BY DEF Tries
  <2>4. \A k \in flush'[r].todo : flush'[r].copy[k] > 0
    BY <2>1, <2>2 DEF TypeInv, FlushSound
  <2>5. FlushSound' BY <2>1, <2>2, <2>3, <2>4 DEF FlushSound, TypeInv
  <2>6. QED BY <2>1, <2>5 DEF TypeInv, TypeOK
<1>5. ASSUME NEW m \in Models, ReadUsage(r, m) PROVE TypeInv'
  <2>1. CASE Fails(r, m)
    <3>1. flush[r].pc # "idle" BY <1>5 DEF ReadUsage
    <3>2. Leave(r, m) /\ Fault /\ skipped' \subseteq Replicas
      BY <2>1 DEF Fails, TypeInv, TypeOK
    <3>3. QED BY <1>3, <1>4, <1>5, <3>1, <3>2 DEF ReadUsage, TypeInv, TypeOK, FlushRecords
  <2>2. CASE /\ flush' = [flush EXCEPT ![r].pc = "write", ![r].model = m,
                              ![r].seen = saved[m], ![r].tries = @ + 1]
             /\ UNCHANGED <<faults, skipped>>
    <3>1. flush[r].tries + 1 \in 0..Tries
      BY <1>1, <1>5 DEF ReadUsage, TypeInv, FlushSound, FlushRecords, Tries
    <3>2. saved[m] \in Times BY DEF TypeInv, TypeOK
    <3>3. flush' \in [Replicas -> FlushRecords] BY <1>1, <2>2, <3>1, <3>2 DEF FlushRecords
    <3>4. flush[r].copy[m] > 0 /\ m # None
      BY <1>5, UsageAssumption DEF ReadUsage, TypeInv, FlushSound
    <3>5. /\ \A q \in Replicas \ {r} : flush'[q] = flush[q]
          /\ flush'[r].pc = "write" /\ flush'[r].model = m
          /\ flush'[r].todo = flush[r].todo /\ flush'[r].copy = flush[r].copy
      BY <1>1, <2>2 DEF FlushRecords
    <3>6. FlushSound' BY <3>5 DEF FlushSound, TypeInv
    <3>7. \A q \in Replicas : flush'[q].pc \in {"write", "pop"} =>
                flush'[q].model # None /\ flush'[q].copy[flush'[q].model] > 0
      BY <3>4, <3>5 DEF TypeInv, TypeOK
    <3>8. QED BY <1>5, <2>2, <3>3, <3>6, <3>7 DEF ReadUsage, TypeInv, TypeOK, FlushRecords
  <2>3. QED BY <1>5, <2>1, <2>2 DEF ReadUsage
<1>6. CASE WriteUsage(r) \/ PopUsage(r)
  <2> DEFINE m == flush[r].model
  <2>1. m \in Models /\ flush[r].pc # "idle" /\ flush[r].copy[m] > 0
    BY <1>1, <1>6 DEF WriteUsage, PopUsage, TypeInv, TypeOK, FlushRecords
  <2>2. Later(flush[r].seen, flush[r].copy[m]) \in Times
    BY <1>1, <2>1, LaterType DEF FlushRecords
  <2>3. ASSUME Put(r, m) PROVE saved' \in [Models -> Times]
    BY <2>1, <2>2, <2>3 DEF Put, TypeInv, TypeOK
  <2>4. ASSUME flush[r].pc = "write", Conflict(r, m)
        PROVE  /\ flush' \in [Replicas -> FlushRecords]
               /\ FlushSound' /\ skipped' \subseteq Replicas
               /\ \A q \in Replicas : flush'[q].pc \in {"write", "pop"} =>
                      flush'[q].model # None /\ flush'[q].copy[flush'[q].model] > 0
    <3>1. CASE flush[r].tries < Tries
      <4>1. 0 \in Times BY UsageAssumption DEF Times
      <4>2. /\ flush' = [flush EXCEPT ![r].pc = "next", ![r].seen = 0]
            /\ skipped' = skipped
        BY <2>4, <3>1 DEF Conflict
      <4>3. flush' \in [Replicas -> FlushRecords] BY <1>1, <4>1, <4>2 DEF FlushRecords
      <4>4. /\ \A q \in Replicas \ {r} : flush'[q] = flush[q]
            /\ flush'[r].pc = "next" /\ flush'[r].todo = flush[r].todo
            /\ flush'[r].copy = flush[r].copy /\ flush'[r].tries = flush[r].tries
        BY <1>1, <4>2 DEF FlushRecords
      <4>5. QED BY <3>1, <4>2, <4>3, <4>4 DEF FlushSound, TypeInv, TypeOK
    <3>2. CASE ~(flush[r].tries < Tries)
      <4>1. Leave(r, m) /\ skipped' \subseteq Replicas
        BY <2>4, <3>2 DEF Conflict, TypeInv, TypeOK
      <4>2. QED BY <1>4, <2>1, <4>1
    <3>3. QED BY <3>1, <3>2
  <2>5. CASE PopUsage(r)
    <3>1. Leave(r, m) BY <2>5 DEF PopUsage
    <3>2. pending' \in [Replicas -> [Models -> Times]]
      BY <2>1, <2>5, UsageAssumption DEF PopUsage, TypeInv, TypeOK, Times
    <3>3. QED BY <1>4, <2>1, <2>5, <3>1, <3>2 DEF PopUsage, TypeInv, TypeOK, FlushRecords
  <2>6. CASE /\ WriteUsage(r) /\ saved[m] = flush[r].seen /\ Put(r, m)
             /\ flush' = [flush EXCEPT ![r].pc = "pop"] /\ UNCHANGED <<faults, skipped>>
    <3>1. flush' \in [Replicas -> FlushRecords] BY <1>1, <2>6 DEF FlushRecords
    <3>2. /\ \A q \in Replicas \ {r} : flush'[q] = flush[q]
          /\ flush'[r].pc = "pop" /\ flush'[r].model = m
          /\ flush'[r].todo = flush[r].todo /\ flush'[r].copy = flush[r].copy
      BY <1>1, <2>6 DEF FlushRecords
    <3>3. FlushSound' BY <3>2 DEF FlushSound, TypeInv
    <3>4. m # None BY <2>1, UsageAssumption
    <3>5. \A q \in Replicas : flush'[q].pc \in {"write", "pop"} =>
                flush'[q].model # None /\ flush'[q].copy[flush'[q].model] > 0
      BY <2>1, <3>2, <3>4 DEF TypeInv, TypeOK
    <3>6. QED
      BY <2>3, <2>6, <3>1, <3>3, <3>5 DEF WriteUsage, TypeInv, TypeOK, FlushRecords
  <2>7. CASE WriteUsage(r) /\ Conflict(r, m) /\ saved' \in [Models -> Times]
             /\ faults' \in 0..MaxFaults
    BY <2>4, <2>7 DEF WriteUsage, TypeInv, TypeOK, FlushRecords
  <2>8. CASE WriteUsage(r) /\ Fails(r, m) /\ UNCHANGED saved
    <3>1. Leave(r, m) /\ Fault /\ skipped' \subseteq Replicas
      BY <2>8 DEF Fails, TypeInv, TypeOK
    <3>2. QED BY <1>3, <1>4, <2>1, <2>8, <3>1 DEF WriteUsage, TypeInv, TypeOK, FlushRecords
  <2>9. ASSUME WriteUsage(r), Put(r, m), Fault, Conflict(r, m) PROVE TypeInv'
    BY <1>3, <2>3, <2>7, <2>9
  <2>10. ASSUME WriteUsage(r), Conflict(r, m), UNCHANGED <<saved, faults>> PROVE TypeInv'
    <3>1. saved' \in [Models -> Times] /\ faults' \in 0..MaxFaults
      BY <2>10 DEF TypeInv, TypeOK
    <3>2. QED BY <2>7, <2>10, <3>1
  <2>11. QED BY <1>6, <2>5, <2>6, <2>8, <2>9, <2>10 DEF WriteUsage
<1>7. QED BY <1>5, <1>6 DEF FlushStep

\* A flush that begins holds what was pending.
LEMMA BeginTypes ==
    ASSUME TypeInv, NEW r \in Replicas, BeginFlush(r)
    PROVE  /\ flush' \in [Replicas -> FlushRecords]
           /\ FlushSound'
           /\ \A q \in Replicas : flush'[q].pc \in {"write", "pop"} =>
                  flush'[q].model # None /\ flush'[q].copy[flush'[q].model] > 0
           /\ \A q \in Replicas \ {r} : flush'[q] = flush[q]
           /\ flush'[r].pc = "next"
           /\ flush'[r].todo = Pending(r) /\ flush'[r].copy = pending[r]
<1> DEFINE f == [Idle EXCEPT !.pc = "next", !.todo = Pending(r), !.copy = pending[r]]
<1>1. flush \in [Replicas -> FlushRecords] BY DEF TypeInv, TypeOK, FlushRecords
<1>2. flush' = [flush EXCEPT ![r] = f] BY DEF BeginFlush
<1>3. pending[r] \in [Models -> Times] /\ Pending(r) \subseteq Models
  BY DEF TypeInv, TypeOK, Pending
<1>4. f \in FlushRecords BY <1>3, Constants DEF FlushRecords
<1>5. f.pc = "next" /\ f.todo = Pending(r) /\ f.copy = pending[r] /\ f.tries = 0
  BY DEF Idle
<1> HIDE DEF f
<1>6. flush'[r] = f /\ \A q \in Replicas \ {r} : flush'[q] = flush[q] BY <1>1, <1>2
<1>7. flush' \in [Replicas -> FlushRecords] BY <1>1, <1>2, <1>4
<1>8. FlushSound' BY <1>5, <1>6 DEF FlushSound, TypeInv, Pending, Tries
<1>9. QED BY <1>5, <1>6, <1>7, <1>8 DEF TypeInv, TypeOK

\* A process that ends has no flush.
LEMMA EndTypes ==
    ASSUME TypeInv, NEW r \in Replicas, flush' = [flush EXCEPT ![r] = Idle]
    PROVE  /\ flush' \in [Replicas -> FlushRecords]
           /\ FlushSound'
           /\ \A q \in Replicas : flush'[q].pc \in {"write", "pop"} =>
                  flush'[q].model # None /\ flush'[q].copy[flush'[q].model] > 0
<1>1. flush \in [Replicas -> FlushRecords] BY DEF TypeInv, TypeOK, FlushRecords
<1>2. flush'[r] = Idle /\ \A q \in Replicas \ {r} : flush'[q] = flush[q] BY <1>1
<1>3. Idle.pc = "idle" /\ Idle.todo = {} BY DEF Idle
<1>4. QED BY <1>1, <1>2, <1>3, Constants DEF TypeInv, TypeOK, FlushSound

LEMMA CatalogTypes ==
    ASSUME TypeInv, NEW r \in Replicas,
           \/ AskCatalog(r) \/ FailCatalog(r) \/ \E m \in Models : ReadCatalog(r, m)
    PROVE  TypeInv'
<1> USE DEF TypeInv, TypeOK, FlushSound
<1>1. catalog \in [Replicas -> CatalogRecords] BY DEF CatalogRecords
<1>2. CASE AskCatalog(r)
  <2>1. catalog' \in [Replicas -> CatalogRecords] BY <1>1, <1>2 DEF AskCatalog, CatalogRecords
  <2>2. QED BY <1>2, <2>1 DEF AskCatalog, CatalogRecords
<1>3. CASE FailCatalog(r)
  <2>1. catalog' \in [Replicas -> CatalogRecords] BY <1>1, <1>3, Constants DEF FailCatalog
  <2>2. faults' \in 0..MaxFaults BY <1>3, UsageAssumption DEF FailCatalog, Fault
  <2>3. QED BY <1>3, <2>1, <2>2 DEF FailCatalog, CatalogRecords
<1>4. ASSUME NEW m \in Models, ReadCatalog(r, m) PROVE TypeInv'
  <2>1. Later(catalog[r].answer[m], saved[m]) \in Times
    BY <1>1, LaterType DEF CatalogRecords
  <2> DEFINE c == catalog[r]
             answer == [c.answer EXCEPT ![m] = Later(@, saved[m])]
             d == [c EXCEPT !.answer = answer, !.todo = @ \ {m}]
  <2>2. answer \in [Models -> Times] BY <1>1, <2>1 DEF CatalogRecords
  <2> HIDE DEF answer
  <2>3. d \in CatalogRecords
    <3>1. c \in CatalogRecords BY <1>1
    <3> HIDE DEF c
    <3>2. QED BY <2>2, <3>1 DEF CatalogRecords
  <2> USE DEF answer
  <2>4. catalog' = [catalog EXCEPT ![r] = IF c.todo = {m} THEN NoRequest ELSE d]
    BY <1>4 DEF ReadCatalog
  <2> HIDE DEF d, answer
  <2>5. catalog' \in [Replicas -> CatalogRecords] BY <1>1, <2>3, <2>4, Constants
  <2>6. QED BY <1>4, <2>5 DEF ReadCatalog, CatalogRecords
<1>5. QED BY <1>2, <1>3, <1>4

LEMMA ProcessTypes ==
    ASSUME TypeInv, NEW r \in Replicas,
           Stop(r) \/ Exit(r) \/ Kill(r) \/ Restart(r) \/ StartFlush(r)
    PROVE  TypeInv'
<1> USE DEF TypeInv, TypeOK
<1>1. catalog \in [Replicas -> CatalogRecords] BY DEF CatalogRecords
<1>2. CASE Stop(r)
  <2>1. CASE BeginFlush(r)
    BY <1>2, <2>1, BeginTypes DEF Stop, FlushRecords
  <2>2. CASE UNCHANGED flush
    BY <1>2, <2>2 DEF Stop, FlushSound
  <2>3. QED BY <1>2, <2>1, <2>2 DEF Stop
<1>3. CASE Exit(r) BY <1>3 DEF Exit, FlushSound
<1>4. CASE Kill(r)
  <2>1. catalog' \in [Replicas -> CatalogRecords] BY <1>1, <1>4, Constants DEF Kill
  <2>2. flush' = [flush EXCEPT ![r] = Idle] BY <1>4 DEF Kill
  <2>3. /\ flush' \in [Replicas -> FlushRecords] /\ FlushSound'
        /\ \A q \in Replicas : flush'[q].pc \in {"write", "pop"} =>
               flush'[q].model # None /\ flush'[q].copy[flush'[q].model] > 0
    BY <2>2, EndTypes
  <2>4. QED BY <1>4, <2>1, <2>3 DEF Kill, FlushRecords, CatalogRecords
<1>5. CASE Restart(r)
  <2>1. catalog' \in [Replicas -> CatalogRecords] BY <1>1, <1>5, Constants DEF Restart
  <2>2. pending' \in [Replicas -> [Models -> Times]] /\ used' \in [Replicas -> [Models -> Times]]
    BY <1>5, Constants DEF Restart
  <2>3. QED BY <1>5, <2>1, <2>2 DEF Restart, CatalogRecords, FlushSound
<1>6. CASE StartFlush(r) BY <1>6, BeginTypes DEF StartFlush, FlushRecords
<1>7. QED BY <1>2, <1>3, <1>4, <1>5, <1>6

LEMMA TypesKept == TypeInv /\ [Next]_vars => TypeInv'
<1> SUFFICES ASSUME TypeInv, [Next]_vars PROVE TypeInv' OBVIOUS
<1>1. ASSUME NEW r \in Replicas, NEW m \in Models, NEW t \in Times, RecordUse(r, m, t)
      PROVE  TypeInv'
  BY <1>1 DEF RecordUse, TypeInv, TypeOK, FlushSound
<1>2. CASE UNCHANGED vars BY <1>2 DEF vars, TypeInv, TypeOK, FlushSound
<1>3. QED
  BY <1>1, <1>2, FlushTypes, CatalogTypes, ProcessTypes DEF Next

\* Every variable keeps its type: the three tries of a flush included.
THEOREM TypeCorrect == Spec => []TypeOK
<1>1. TypeInv => TypeOK BY DEF TypeInv
<1>2. QED BY <1>1, InitTypes, TypesKept, PTL DEF Spec

-----------------------------------------------------------------------------
(* Saved times *)

\* The conditional write replaces what was read, by the later time.
LEMMA SavedGrows ==
    ASSUME TypeInv, [Next]_vars, NEW m \in Models PROVE saved'[m] >= saved[m]
<1>1. saved[m] \in Nat /\ saved[m] >= saved[m]
  BY UsageAssumption DEF TypeInv, TypeOK, Times
<1>2. ASSUME NEW r \in Replicas, WriteUsage(r) PROVE saved'[m] >= saved[m]
  <2> DEFINE k == flush[r].model
  <2>1. flush[r] \in FlushRecords /\ k \in Models
    BY <1>2 DEF WriteUsage, TypeInv, TypeOK, FlushRecords
  <2>2. Later(flush[r].seen, flush[r].copy[k]) >= flush[r].seen
    BY <2>1, LaterType DEF FlushRecords
  <2>3. ASSUME saved[k] = flush[r].seen, Put(r, k) PROVE saved'[m] >= saved[m]
    BY <1>1, <2>1, <2>2, <2>3 DEF Put, TypeInv, TypeOK
  <2>4. QED BY <1>1, <1>2, <2>3 DEF WriteUsage
<1>3. CASE UNCHANGED vars BY <1>1, <1>3 DEF vars
<1>4. QED
  BY <1>1, <1>2, <1>3 DEF Next, RecordUse, StartFlush, FlushStep, ReadUsage, PopUsage,
     AskCatalog, FailCatalog, ReadCatalog, Stop, Exit, Kill, Restart

THEOREM SavedTimesGrow == Spec => SavedNeverBack
<1>1. TypeInv /\ [Next]_vars => \A m \in Models : saved'[m] >= saved[m] BY SavedGrows
<1>2. QED BY <1>1, InitTypes, TypesKept, PTL DEF Spec, SavedNeverBack

-----------------------------------------------------------------------------
(* Uses are kept *)

\* A flush that leaves a model changes nothing else, and a shutdown that drops
\* one without having saved it counts as failed.
LEMMA FlushEffect ==
    ASSUME TypeInv, NEW r \in Replicas, FlushStep(r)
    PROVE  /\ UNCHANGED <<life, catalog, used>>
           /\ \A q \in Replicas \ {r} : flush'[q] = flush[q] /\ pending'[q] = pending[q]
           /\ skipped \subseteq skipped' /\ skipped' \subseteq skipped \cup {r}
           /\ flush[r].pc # "idle"
<1>1. flush \in [Replicas -> FlushRecords] BY DEF TypeInv, TypeOK, FlushRecords
<1>2. CASE PopUsage(r) BY <1>1, <1>2 DEF PopUsage, Leave, TypeInv, TypeOK
<1>3. CASE WriteUsage(r) BY <1>1, <1>3 DEF WriteUsage, Fails, Conflict, Leave
<1>4. CASE \E m \in Models : ReadUsage(r, m) BY <1>1, <1>4 DEF ReadUsage, Fails, Leave
<1>5. QED BY <1>2, <1>3, <1>4 DEF FlushStep

\* What the flush of r itself does to a model k: saved or kept for later.
LEMMA FlushOwnEffect ==
    ASSUME TypeInv, PoppedIsSaved, NEW r \in Replicas, FlushStep(r), NEW k \in Models
    PROVE  /\ \/ pending'[r][k] = pending[r][k]
              \/ pending[r][k] <= saved[k] /\ saved' = saved
           /\ \/ k \in flush'[r].todo /\ flush'[r].copy = flush[r].copy
              \/ k \notin flush[r].todo
              \/ flush[r].copy[k] <= saved'[k]
              \/ life[r] = "stopping" => r \in skipped'
           /\ flush'[r].pc = "pop" =>
                 flush'[r].copy[flush'[r].model] <= saved'[flush'[r].model]
<1>1. flush \in [Replicas -> FlushRecords] BY DEF TypeInv, TypeOK, FlushRecords
<1>2. saved \in [Models -> Times] /\ pending \in [Replicas -> [Models -> Times]]
  BY DEF TypeInv, TypeOK
<1>3. flush[r].pc # "idle" BY FlushEffect
<1>4. ASSUME NEW m \in Models, Leave(r, m)
      PROVE  /\ flush'[r].pc \in {"idle", "next"}
             /\ flush'[r].todo = flush[r].todo \ {m}
             /\ flush'[r].pc = "next" => flush'[r].copy = flush[r].copy
             /\ flush'[r].pc = "idle" => flush'[r].todo = {}
  <2>1. flush'[r].pc = "idle" => flush'[r].todo = {}
    BY <1>1, <1>4 DEF Leave, Idle, FlushRecords
  <2>2. QED BY <1>3, <1>4, <2>1, LeaveTypes
<1>5. CASE PopUsage(r)
  <2> DEFINE m == flush[r].model
  <2>1. m \in Models /\ Leave(r, m) /\ saved' = saved
    BY <1>1, <1>5 DEF PopUsage, TypeInv, TypeOK, FlushRecords
  <2>2. flush[r].copy[m] <= saved[m] BY <1>5 DEF PopUsage, PoppedIsSaved
  <2>3. flush[r].copy[m] \in Nat /\ saved[m] \in Nat /\ pending[r][m] \in Nat
    <3>1. flush[r].copy \in [Models -> Times] BY <1>1 DEF FlushRecords
    <3>2. QED BY <1>2, <2>1, <3>1, Constants
  <2>4. \/ pending'[r][k] = pending[r][k]
        \/ pending[r][k] <= saved[k] /\ saved' = saved
    BY <1>2, <1>5, <2>1, <2>2, <2>3 DEF PopUsage
  <2>5. QED BY <1>4, <2>1, <2>2, <2>4
<1>6. ASSUME NEW m \in Models, Fails(r, m), UNCHANGED <<pending>>
      PROVE  /\ pending'[r][k] = pending[r][k]
             /\ \/ k \in flush'[r].todo /\ flush'[r].copy = flush[r].copy
                \/ k \notin flush[r].todo
                \/ life[r] = "stopping" => r \in skipped'
             /\ flush'[r].pc # "pop"
  BY <1>4, <1>6 DEF Fails
<1>7. ASSUME NEW m \in Models, ReadUsage(r, m)
      PROVE  /\ pending'[r][k] = pending[r][k]
             /\ \/ k \in flush'[r].todo /\ flush'[r].copy = flush[r].copy
                \/ k \notin flush[r].todo
                \/ life[r] = "stopping" => r \in skipped'
             /\ flush'[r].pc # "pop"
  BY <1>1, <1>6, <1>7 DEF ReadUsage, FlushRecords
<1>8. CASE WriteUsage(r)
  <2> DEFINE m == flush[r].model
  <2>1. m \in Models /\ pending' = pending
    BY <1>1, <1>8 DEF WriteUsage, TypeInv, TypeOK, FlushRecords
  <2>2. ASSUME Conflict(r, m)
        PROVE  /\ \/ k \in flush'[r].todo /\ flush'[r].copy = flush[r].copy
                  \/ k \notin flush[r].todo
                  \/ life[r] = "stopping" => r \in skipped'
               /\ flush'[r].pc # "pop"
    <3>1. CASE Leave(r, m) /\ skipped' = IF life[r] = "stopping" THEN skipped \cup {r}
                                         ELSE skipped
      BY <1>4, <2>1, <3>1
    <3>2. CASE flush' = [flush EXCEPT ![r].pc = "next", ![r].seen = 0]
      BY <1>1, <3>2 DEF FlushRecords
    <3>3. QED BY <2>2, <3>1, <3>2 DEF Conflict
  <2>3. CASE /\ saved[m] = flush[r].seen /\ Put(r, m)
             /\ flush' = [flush EXCEPT ![r].pc = "pop"]
    <3>1. /\ flush'[r].pc = "pop" /\ flush'[r].model = m
          /\ flush'[r].todo = flush[r].todo /\ flush'[r].copy = flush[r].copy
      BY <1>1, <2>3 DEF FlushRecords
    <3>2. saved'[m] >= flush[r].copy[m]
      BY <1>1, <1>2, <2>1, <2>3, LaterType DEF Put, FlushRecords
    <3>3. saved'[m] \in Nat /\ flush[r].copy[m] \in Nat
      BY <1>1, <1>2, <2>1, <2>3, LaterType, Constants DEF Put, FlushRecords
    <3>4. QED BY <2>1, <3>1, <3>2, <3>3
  <2>4. QED BY <1>6, <1>8, <2>1, <2>2, <2>3 DEF WriteUsage
<1>9. QED BY <1>5, <1>7, <1>8 DEF FlushStep

LEMMA TimesAreNumbers ==
    ASSUME TypeInv, NEW r \in Replicas, NEW k \in Models
    PROVE  /\ saved[k] \in Nat /\ pending[r][k] \in Nat /\ used[r][k] \in Nat
           /\ flush[r].copy[k] \in Nat
           /\ catalog[r].answer[k] \in Nat /\ catalog[r].floor[k] \in Nat
<1>1. flush[r].copy \in [Models -> Times] /\ catalog[r] \in CatalogRecords
  BY DEF TypeInv, TypeOK, CatalogRecords
<1>2. catalog[r].answer \in [Models -> Times] /\ catalog[r].floor \in [Models -> Times]
  BY <1>1 DEF CatalogRecords
<1>3. /\ saved \in [Models -> Times] /\ pending[r] \in [Models -> Times]
      /\ used[r] \in [Models -> Times]
  BY DEF TypeInv, TypeOK
<1>4. QED BY <1>1, <1>2, <1>3, Constants

LEMMA LaterMeans ==
    ASSUME NEW a \in Nat, NEW b \in Nat, NEW c \in Nat
    PROVE  a <= Later(b, c) <=> a <= b \/ a <= c
BY DEF Later

LEMMA InitSafe == Init => Safe
BY Constants, UsageAssumption DEF Init, Safe, PoppedIsSaved, KeptWhileRunning,
   ShutdownOnItsWay, ShutdownSaves, CatalogComplete, Idle, NoRequest, Nothing

LEMMA FlushSafe ==
    ASSUME TypeInv, TypeInv', Safe, NEW r \in Replicas, FlushStep(r) PROVE Safe'
<1> USE DEF Safe
<1>1. \A k \in Models : saved'[k] >= saved[k]
  <2>1. [Next]_vars BY DEF Next
  <2>2. QED BY <2>1, SavedGrows
<1>2. /\ UNCHANGED <<life, catalog, used>>
      /\ \A q \in Replicas \ {r} : flush'[q] = flush[q] /\ pending'[q] = pending[q]
      /\ skipped \subseteq skipped' /\ skipped' \subseteq skipped \cup {r}
      /\ flush[r].pc # "idle"
  BY FlushEffect
<1>3. \A q \in Replicas, k \in Models :
        /\ saved[k] \in Nat /\ saved'[k] \in Nat /\ pending[q][k] \in Nat
        /\ used[q][k] \in Nat /\ flush[q].copy[k] \in Nat
        /\ catalog[q].answer[k] \in Nat /\ catalog[q].floor[k] \in Nat
  BY TimesAreNumbers DEF TypeInv, TypeOK, Times
<1>4. PoppedIsSaved'
  <2> SUFFICES ASSUME NEW q \in Replicas, flush'[q].pc = "pop"
               PROVE  flush'[q].copy[flush'[q].model] <= saved'[flush'[q].model]
    BY DEF PoppedIsSaved
  <2>1. CASE q = r
    <3>1. PICK k \in Models : TRUE
      BY <2>1 DEF TypeInv, TypeOK
    <3>2. QED BY <2>1, <3>1, FlushOwnEffect
  <2>2. CASE q # r
    <3>1. flush'[q] = flush[q] /\ flush[q].model \in Models
      BY <1>2, <2>2 DEF TypeInv, TypeOK
    <3>2. flush[q].copy[flush[q].model] <= saved[flush[q].model]
      BY <3>1 DEF PoppedIsSaved
    <3>3. QED BY <1>1, <1>3, <3>1, <3>2
  <2>3. QED BY <2>1, <2>2
<1>5. ASSUME NEW q \in Replicas, NEW k \in Models, life'[q] # "down"
      PROVE  used'[q][k] <= saved'[k] \/ used'[q][k] <= pending'[q][k]
  <2>1. used[q][k] <= saved[k] \/ used[q][k] <= pending[q][k]
    BY <1>2, <1>5 DEF KeptWhileRunning
  <2>2. pending'[q][k] = pending[q][k] \/ pending[q][k] <= saved[k]
    BY <1>2, FlushOwnEffect
  <2>3. QED BY <1>1, <1>2, <1>3, <2>1, <2>2
<1>6. ASSUME NEW q \in Replicas, NEW k \in Models, life'[q] = "stopping", q \notin skipped'
      PROVE  \/ used'[q][k] <= saved'[k]
             \/ k \in flush'[q].todo /\ used'[q][k] <= flush'[q].copy[k]
  <2>1. \/ used[q][k] <= saved[k]
        \/ k \in flush[q].todo /\ used[q][k] <= flush[q].copy[k]
    BY <1>2, <1>6 DEF ShutdownOnItsWay
  <2>2. \/ flush'[q] = flush[q]
        \/ k \in flush'[q].todo /\ flush'[q].copy = flush[q].copy
        \/ k \notin flush[q].todo
        \/ flush[q].copy[k] <= saved'[k]
    BY <1>2, <1>6, FlushOwnEffect
  <2>3. QED BY <1>1, <1>2, <1>3, <2>1, <2>2
<1>7. ShutdownSaves' BY <1>1, <1>2, <1>3 DEF ShutdownSaves
<1>8. CatalogComplete'
  <2> SUFFICES ASSUME NEW q \in Replicas, NEW k \in Models, catalog[q].pc = "read"
               PROVE  catalog[q].floor[k] <= IF k \in catalog[q].todo
                          THEN Later(catalog[q].answer[k], saved'[k])
                          ELSE catalog[q].answer[k]
    BY <1>2 DEF CatalogComplete
  <2>1. CASE k \in catalog[q].todo
    <3>1. catalog[q].floor[k] <= Later(catalog[q].answer[k], saved[k])
      BY <2>1 DEF CatalogComplete
    <3>2. catalog[q].floor[k] <= catalog[q].answer[k] \/ catalog[q].floor[k] <= saved[k]
      BY <1>3, <3>1, LaterMeans
    <3>3. catalog[q].floor[k] <= catalog[q].answer[k] \/ catalog[q].floor[k] <= saved'[k]
      BY <1>1, <1>3, <3>2
    <3>4. QED BY <1>3, <2>1, <3>3, LaterMeans
  <2>2. CASE k \notin catalog[q].todo BY <2>2 DEF CatalogComplete
  <2>3. QED BY <2>1, <2>2
<1>9. QED BY <1>4, <1>5, <1>6, <1>7, <1>8 DEF KeptWhileRunning, ShutdownOnItsWay

LEMMA UseSafe ==
    ASSUME TypeInv, Safe, NEW r \in Replicas, NEW m \in Models, NEW t \in Times,
           RecordUse(r, m, t)
    PROVE  Safe'
<1> USE DEF Safe
<1>1. pending \in [Replicas -> [Models -> Times]] /\ used \in [Replicas -> [Models -> Times]]
  BY DEF TypeInv, TypeOK
<1>2. /\ life[r] = "up" /\ UNCHANGED <<saved, life, flush, catalog, skipped>>
      /\ pending'[r] = [pending[r] EXCEPT ![m] = t] /\ used'[r] = [used[r] EXCEPT ![m] = t]
      /\ \A q \in Replicas \ {r} : pending'[q] = pending[q] /\ used'[q] = used[q]
  BY <1>1 DEF RecordUse
<1>3. t <= t BY Constants
<1>4. KeptWhileRunning' BY <1>1, <1>2, <1>3 DEF KeptWhileRunning
<1>5. ShutdownOnItsWay' /\ ShutdownSaves' BY <1>2 DEF ShutdownOnItsWay, ShutdownSaves
<1>6. QED BY <1>2, <1>4, <1>5 DEF PoppedIsSaved, CatalogComplete

LEMMA CatalogSafe ==
    ASSUME TypeInv, Safe, NEW r \in Replicas,
           \/ AskCatalog(r) \/ FailCatalog(r) \/ \E m \in Models : ReadCatalog(r, m)
    PROVE  Safe'
<1> USE DEF Safe
<1>1. catalog \in [Replicas -> CatalogRecords] BY DEF TypeInv, TypeOK, CatalogRecords
<1>2. /\ UNCHANGED <<saved, life, pending, flush, used, skipped>>
      /\ \A q \in Replicas \ {r} : catalog'[q] = catalog[q]
  BY <1>1 DEF AskCatalog, FailCatalog, ReadCatalog
<1>3. SUFFICES ASSUME NEW k \in Models, catalog'[r].pc = "read"
               PROVE  catalog'[r].floor[k] <= IF k \in catalog'[r].todo
                          THEN Later(catalog'[r].answer[k], saved[k])
                          ELSE catalog'[r].answer[k]
  BY <1>2 DEF PoppedIsSaved, KeptWhileRunning, ShutdownOnItsWay, ShutdownSaves, CatalogComplete
<1>4. CASE AskCatalog(r)
  <2>1. life[r] = "up" /\ catalog'[r].todo = Models
        /\ catalog'[r].answer = pending[r] /\ catalog'[r].floor = used[r]
    BY <1>1, <1>4 DEF AskCatalog
  <2>2. used[r][k] <= saved[k] \/ used[r][k] <= pending[r][k]
    BY <2>1 DEF KeptWhileRunning
  <2>3. QED BY <2>1, <2>2, TimesAreNumbers, LaterMeans
<1>5. CASE FailCatalog(r) BY <1>1, <1>3, <1>5 DEF FailCatalog, NoRequest
<1>6. ASSUME NEW m \in Models, ReadCatalog(r, m)
      PROVE  catalog'[r].floor[k] <= IF k \in catalog'[r].todo
                          THEN Later(catalog'[r].answer[k], saved[k])
                          ELSE catalog'[r].answer[k]
  <2> DEFINE c == catalog[r]
             later == [c.answer EXCEPT ![m] = Later(@, saved[m])]
  <2>1. catalog'[r] = IF c.todo = {m} THEN NoRequest
                      ELSE [c EXCEPT !.answer = later, !.todo = @ \ {m}]
    BY <1>1, <1>6 DEF ReadCatalog
  <2>2. c \in CatalogRecords BY <1>1
  <2>3. catalog'[r] = [c EXCEPT !.answer = later, !.todo = @ \ {m}]
    BY <1>3, <2>1 DEF NoRequest
  <2> HIDE DEF c, later
  <2>4. /\ catalog'[r].floor = c.floor /\ catalog'[r].answer = later
        /\ catalog'[r].todo = c.todo \ {m} /\ c.pc = "read"
    BY <1>3, <2>2, <2>3 DEF CatalogRecords
  <2>5. later[m] = Later(c.answer[m], saved[m]) /\ (k # m => later[k] = c.answer[k])
    BY <2>2 DEF CatalogRecords, later
  <2>6. c.floor[k] <= IF k \in c.todo THEN Later(c.answer[k], saved[k]) ELSE c.answer[k]
    BY <2>4 DEF CatalogComplete, c
  <2>7. m \in c.todo BY <1>6 DEF ReadCatalog, c
  <2>8. QED BY <2>4, <2>5, <2>6, <2>7
<1>7. QED BY <1>4, <1>5, <1>6

LEMMA ProcessSafe ==
    ASSUME TypeInv, Safe, NEW r \in Replicas,
           Stop(r) \/ Exit(r) \/ Kill(r) \/ Restart(r) \/ StartFlush(r)
    PROVE  Safe'
<1> USE DEF Safe
<1>1. /\ catalog \in [Replicas -> CatalogRecords] /\ flush \in [Replicas -> FlushRecords]
      /\ pending \in [Replicas -> [Models -> Times]]
      /\ used \in [Replicas -> [Models -> Times]]
      /\ life \in [Replicas -> {"up", "stopping", "down"}]
  BY DEF TypeInv, TypeOK, CatalogRecords, FlushRecords
<1>2. ASSUME NEW k \in Models, pending[r][k] = 0, life[r] # "down"
      PROVE  used[r][k] <= saved[k]
  BY <1>2, TimesAreNumbers DEF KeptWhileRunning
<1>3. CASE Stop(r)
  <2>1. /\ UNCHANGED <<saved, pending, catalog, used>> /\ life[r] = "up"
        /\ life'[r] = "stopping" /\ \A q \in Replicas \ {r} : life'[q] = life[q]
        /\ skipped \subseteq skipped' /\ skipped' \subseteq skipped \cup {r}
    BY <1>1, <1>3 DEF Stop
  <2>2. KeptWhileRunning' /\ ShutdownSaves' /\ CatalogComplete'
    BY <2>1 DEF KeptWhileRunning, ShutdownSaves, CatalogComplete
  <2>3. CASE flush[r].pc = "idle" /\ Pending(r) # {}
    <3>1. BeginFlush(r) BY <1>3, <2>3 DEF Stop
    <3>2. /\ \A q \in Replicas \ {r} : flush'[q] = flush[q]
          /\ flush'[r].pc = "next"
          /\ flush'[r].todo = Pending(r) /\ flush'[r].copy = pending[r]
      BY <3>1, BeginTypes
    <3>3. PoppedIsSaved' BY <2>1, <3>2 DEF PoppedIsSaved
    <3>4. \A k \in Models : k \in Pending(r) \/ pending[r][k] = 0
      BY TimesAreNumbers DEF Pending
    <3>5. \A k \in Models : \/ used[r][k] <= saved[k]
                            \/ k \in flush'[r].todo /\ used[r][k] <= flush'[r].copy[k]
      BY <1>2, <2>1, <3>2, <3>4 DEF KeptWhileRunning
    <3>6. ShutdownOnItsWay' BY <2>1, <3>2, <3>5 DEF ShutdownOnItsWay
    <3>7. QED BY <2>2, <3>3, <3>6
  <2>4. CASE flush[r].pc = "idle" /\ Pending(r) = {}
    <3>1. flush' = flush BY <1>3, <2>4 DEF Stop
    <3>2. \A k \in Models : pending[r][k] = 0
      BY <2>4, TimesAreNumbers DEF Pending
    <3>3. \A k \in Models : used[r][k] <= saved[k] BY <1>2, <2>1, <3>2
    <3>4. QED BY <2>1, <2>2, <3>1, <3>3 DEF PoppedIsSaved, ShutdownOnItsWay
  <2>5. CASE flush[r].pc # "idle"
    <3>1. flush' = flush /\ r \in skipped' BY <1>3, <2>5 DEF Stop
    <3>2. QED BY <2>1, <2>2, <3>1 DEF PoppedIsSaved, ShutdownOnItsWay
  <2>6. QED BY <2>3, <2>4, <2>5
<1>4. CASE Exit(r)
  <2>1. /\ UNCHANGED <<saved, pending, flush, catalog, used, skipped>>
        /\ life[r] = "stopping" /\ life'[r] = "down" /\ flush[r].todo = {}
        /\ \A q \in Replicas \ {r} : life'[q] = life[q]
    BY <1>1, <1>4 DEF Exit, TypeInv, FlushSound
  <2>2. r \notin skipped => \A k \in Models : used[r][k] <= saved[k]
    BY <2>1 DEF ShutdownOnItsWay
  <2>3. QED BY <2>1, <2>2 DEF PoppedIsSaved, KeptWhileRunning, ShutdownOnItsWay,
               ShutdownSaves, CatalogComplete
<1>5. CASE Kill(r)
  <2>1. /\ UNCHANGED <<saved, pending, used>> /\ life'[r] = "down"
        /\ flush'[r] = Idle /\ catalog'[r] = NoRequest /\ skipped' = skipped \cup {r}
        /\ \A q \in Replicas \ {r} : /\ life'[q] = life[q] /\ flush'[q] = flush[q]
                                    /\ catalog'[q] = catalog[q]
    BY <1>1, <1>5 DEF Kill
  <2>2. Idle.pc = "idle" /\ NoRequest.pc = "none" BY DEF Idle, NoRequest
  <2>3. QED BY <2>1, <2>2 DEF PoppedIsSaved, KeptWhileRunning, ShutdownOnItsWay,
               ShutdownSaves, CatalogComplete
<1>6. CASE Restart(r)
  <2>1. /\ UNCHANGED <<saved, flush>> /\ life'[r] = "up"
        /\ pending'[r] = Nothing /\ used'[r] = Nothing /\ catalog'[r] = NoRequest
        /\ skipped' = skipped \ {r}
        /\ \A q \in Replicas \ {r} : /\ life'[q] = life[q] /\ pending'[q] = pending[q]
                                    /\ used'[q] = used[q] /\ catalog'[q] = catalog[q]
    BY <1>1, <1>6 DEF Restart
  <2>2. NoRequest.pc = "none" /\ \A k \in Models : Nothing[k] = 0 BY DEF NoRequest, Nothing
  <2>3. QED BY <2>1, <2>2 DEF PoppedIsSaved, KeptWhileRunning, ShutdownOnItsWay,
               ShutdownSaves, CatalogComplete
<1>7. CASE StartFlush(r)
  <2>1. /\ UNCHANGED <<saved, life, pending, catalog, used, skipped>>
        /\ life[r] = "up" /\ BeginFlush(r)
    BY <1>7 DEF StartFlush
  <2>2. /\ \A q \in Replicas \ {r} : flush'[q] = flush[q]
        /\ flush'[r].pc = "next"
    BY <2>1, BeginTypes
  <2>3. QED BY <2>1, <2>2 DEF PoppedIsSaved, KeptWhileRunning, ShutdownOnItsWay,
               ShutdownSaves, CatalogComplete
<1>8. QED BY <1>3, <1>4, <1>5, <1>6, <1>7

LEMMA SafeKept == TypeInv /\ Safe /\ [Next]_vars => Safe'
<1> SUFFICES ASSUME TypeInv, Safe, [Next]_vars PROVE Safe' OBVIOUS
<1>1. TypeInv' BY TypesKept
<1>2. CASE UNCHANGED vars
  BY <1>2 DEF vars, Safe, PoppedIsSaved, KeptWhileRunning, ShutdownOnItsWay, ShutdownSaves,
              CatalogComplete
<1>3. QED BY <1>1, <1>2, FlushSafe, UseSafe, CatalogSafe, ProcessSafe DEF Next

\* Under the locks and the conditional writes no interleaving of uses, flushes
\* and other replicas loses a use of a living process.
THEOREM NoUseLost == Spec => []UsesKept
<1>1. TypeInv /\ Safe => UsesKept
  <2> SUFFICES ASSUME TypeInv, Safe, NEW r \in Replicas, NEW m \in Models, life[r] = "up"
               PROVE  used[r][m] <= Later(saved[m], pending[r][m])
    BY DEF UsesKept
  <2>1. used[r][m] <= saved[m] \/ used[r][m] <= pending[r][m]
    BY DEF Safe, KeptWhileRunning
  <2>2. QED BY <2>1, TimesAreNumbers, LaterMeans
<1>2. QED BY <1>1, InitTypes, TypesKept, InitSafe, SafeKept, PTL DEF Spec

\* The catalogue copies what is pending before it reads the objects, which is
\* why it never falls between the two.
THEOREM CatalogNeverBehind == Spec => []CatalogComplete
<1>1. Safe => CatalogComplete BY DEF Safe
<1>2. QED BY <1>1, InitTypes, TypesKept, InitSafe, SafeKept, PTL DEF Spec

\* A shutdown whose own flush ran and met no error saves every use.
THEOREM CleanShutdownSaves == Spec => []ShutdownSaves
<1>1. Safe => ShutdownSaves BY DEF Safe
<1>2. QED BY <1>1, InitTypes, TypesKept, InitSafe, SafeKept, PTL DEF Spec

-----------------------------------------------------------------------------
(* Recursion over finite sets: minimal counterexamples stand for induction *)

\* A family of finite sets that is not empty has a least member.
LEMMA SmallestSet ==
    ASSUME NEW S, IsFiniteSet(S), NEW T \in SUBSET (SUBSET S), T # {}
    PROVE  \E s \in T : \A t \in T : t \subseteq s => t = s
<1> DEFINE R == StrictSubsetOrdering(S)
<1>1. IsWellFoundedOn(R, FiniteSubsetsOf(S))
  BY FS_StrictSubsetOrderingWellFounded
<1>2. T \subseteq FiniteSubsetsOf(S)
  BY FS_FiniteSubsetsOfFinite
<1>3. PICK s \in T : \A t \in T : ~ (<<t, s>> \in R)
  <2> HIDE DEF R
  <2> QED BY ONLY <1>1, <1>2, T # {}, WFMin
<1>4. ASSUME NEW t \in T, t \subseteq s, t # s PROVE FALSE
  <2>1. <<t, s>> \in (SUBSET S) \X (SUBSET S) OBVIOUS
  <2>2. <<t, s>> \in R BY <2>1, <1>4 DEF StrictSubsetOrdering
  <2>3. QED BY <2>2, <1>3
<1>5. QED BY <1>4

\* Induction over the naturals, for a set.
LEMMA Climb ==
    ASSUME NEW S, 0 \in S, \A n \in Nat : n \in S => n + 1 \in S
    PROVE  \A n \in Nat : n \in S
<1> SUFFICES ASSUME NEW n \in Nat, n \notin S PROVE FALSE
  OBVIOUS
<1> DEFINE Gap(k) == 0..(k - 1)
           T == {Gap(k) : k \in {j \in 0..n : j \notin S}}
<1>1. IsFiniteSet(0..n) BY FS_Interval
<1>2. T \in SUBSET (SUBSET (0..n)) OBVIOUS
<1>3. T # {} OBVIOUS
<1>4. PICK s \in T : \A t \in T : t \subseteq s => t = s
  <2> DEFINE U == 0..n
  <2>1. IsFiniteSet(U) /\ T \in SUBSET (SUBSET U) BY <1>1, <1>2
  <2> HIDE DEF T, U
  <2> QED BY ONLY <2>1, <1>3, SmallestSet
<1>5. PICK k \in 0..n : k \notin S /\ s = Gap(k) OBVIOUS
<1>6. k # 0 BY <1>5
<1>7. k - 1 \in 0..n /\ k - 1 \notin S
  BY <1>5, <1>6
<1>8. Gap(k - 1) \in T BY <1>7
<1>9. Gap(k - 1) \subseteq s /\ k - 1 \in s /\ k - 1 \notin Gap(k - 1)
  BY <1>5, <1>6
<1>10. QED BY <1>4, <1>8, <1>9

\* The recursion of a fold has a solution: op takes the value so far and an
\* element, pick the element of a set that is taken last.
Picks(pick, D) == \A s \in SUBSET D : s # {} => pick[s] \in s

Folds(g, D, base, op, pick) ==
    \A s \in SUBSET D :
        g[s] = IF s = {} THEN base ELSE op[<<g[s \ {pick[s]}], pick[s]>>]

\* A fold over a finite set exists, whatever element it picks first.
LEMMA FoldExists ==
    ASSUME NEW D, IsFiniteSet(D), NEW V, NEW base \in V,
           NEW op \in [V \X D -> V], NEW pick, Picks(pick, D)
    PROVE  \E g \in [SUBSET D -> V] : Folds(g, D, base, op, pick)
<1> USE DEF Picks, Folds
<1> DEFINE Small(n) == {s \in SUBSET D : Cardinality(s) <= n}
           Rest(s) == s \ {pick[s]}
           Solves(g, n) == \A s \in Small(n) :
               g[s] = IF s = {} THEN base ELSE op[<<g[Rest(s)], pick[s]>>]
           N == {n \in Nat : \E g \in [Small(n) -> V] : Solves(g, n)}
<1>1. \A s \in SUBSET D : IsFiniteSet(s) /\ Cardinality(s) \in Nat
  BY FS_Subset, FS_CardinalityType
<1>2. \A s \in SUBSET D : s # {} =>
          Rest(s) \in SUBSET D /\ Cardinality(Rest(s)) = Cardinality(s) - 1 /\ pick[s] \in D
  BY <1>1, FS_RemoveElement
<1>3. {} \in SUBSET D /\ Cardinality({}) = 0 /\ \A s \in SUBSET D : Cardinality(s) = 0 => s = {}
  BY <1>1, FS_EmptySet
<1>4. 0 \in N
  <2> DEFINE g == [s \in Small(0) |-> base]
  <2>1. \A s \in Small(0) : s = {} BY <1>1, <1>3
  <2>2. g \in [Small(0) -> V] OBVIOUS
  <2>3. Solves(g, 0) BY <2>1
  <2> HIDE DEF g, Solves, Small
  <2>4. QED BY <2>2, <2>3
<1>5. ASSUME NEW n \in Nat, n \in N PROVE n + 1 \in N
  <2>1. PICK h \in [Small(n) -> V] : Solves(h, n) BY <1>5
  <2> DEFINE g == [s \in Small(n + 1) |->
                      IF s = {} THEN base ELSE op[<<h[Rest(s)], pick[s]>>]]
  <2>2. \A s \in Small(n + 1) : s # {} => Rest(s) \in Small(n) /\ Rest(s) \in Small(n + 1)
    <3> TAKE s \in Small(n + 1)
    <3>1. s \in SUBSET D /\ Cardinality(s) <= n + 1 OBVIOUS
    <3>2. s # {} => Cardinality(Rest(s)) = Cardinality(s) - 1 /\ Cardinality(s) \in Nat
                    /\ Rest(s) \in SUBSET D
      BY <1>1, <1>2, <3>1
    <3> HIDE DEF Rest
    <3>3. s # {} => Cardinality(Rest(s)) <= n /\ Cardinality(Rest(s)) <= n + 1 BY <3>1, <3>2
    <3> QED BY <3>2, <3>3
  <2>3. g \in [Small(n + 1) -> V]
    <3> SUFFICES ASSUME NEW s \in Small(n + 1), s # {}
                 PROVE  op[<<h[Rest(s)], pick[s]>>] \in V
      OBVIOUS
    <3>1. h[Rest(s)] \in V BY <2>1, <2>2
    <3>2. pick[s] \in D OBVIOUS
    <3> HIDE DEF Rest, Small, N
    <3> QED BY <3>1, <3>2
  <2>4. \A s \in Small(n) : s \in Small(n + 1) /\ g[s] = h[s]
    <3> TAKE s \in Small(n)
    <3>1. Cardinality(s) \in Nat /\ Cardinality(s) <= n /\ s \in SUBSET D BY <1>1
    <3>2. s \in Small(n + 1) BY <3>1
    <3>3. g[s] = IF s = {} THEN base ELSE op[<<h[Rest(s)], pick[s]>>] BY <3>2
    <3> HIDE DEF Small, g
    <3> QED BY <2>1, <3>2, <3>3
  <2>5. Solves(g, n + 1)
    <3> SUFFICES ASSUME NEW s \in Small(n + 1)
                 PROVE  g[s] = IF s = {} THEN base ELSE op[<<g[Rest(s)], pick[s]>>]
      OBVIOUS
    <3>1. s # {} => g[Rest(s)] = h[Rest(s)]
      <4> HIDE DEF g, Small, Rest
      <4> QED BY <2>2, <2>4
    <3>2. g[s] = IF s = {} THEN base ELSE op[<<h[Rest(s)], pick[s]>>] OBVIOUS
    <3> HIDE DEF g, Small, Rest
    <3> QED BY <3>1, <3>2
  <2> HIDE DEF g, Solves, Small
  <2>6. QED BY <2>3, <2>5
<1> DEFINE c == Cardinality(D)
<1>6. c \in Nat /\ c \in N
  <2>1. c \in Nat BY FS_CardinalityType
  <2> HIDE DEF N, c
  <2>2. QED BY <2>1, <1>4, <1>5, Climb
<1>7. Small(c) = SUBSET D
  <2>1. \A s \in SUBSET D : Cardinality(s) <= c BY FS_Subset
  <2>2. QED BY <2>1
<1>8. PICK g \in [Small(c) -> V] : Solves(g, c) BY <1>6
<1>9. QED BY <1>7, <1>8

\* A total is the value of a recursion over the sets of users.
Pick(s) == CHOOSE x \in s : TRUE

\* A total over the users is a fold of that kind.
LEMMA TotalFolds ==
    ASSUME NEW f \in [Users -> Int]
    PROVE  \E h \in [SUBSET Users -> Int] :
               /\ \A s \in SUBSET Users :
                      h[s] = IF s = {} THEN 0 ELSE f[Pick(s)] + h[s \ {Pick(s)}]
               /\ Total(f) = h[Users]
<1> DEFINE Body(g) == [s \in SUBSET Users |->
                          IF s = {} THEN 0 ELSE f[Pick(s)] + g[s \ {Pick(s)}]]
           op == [p \in Int \X Users |-> f[p[2]] + p[1]]
           pick == [s \in SUBSET Users |-> Pick(s)]
<1>1. Total(f) = (CHOOSE g : g = Body(g))[Users]
  BY Zenon DEF Total, MapThenSumSet, MapThenFoldSet, Pick
<1>2. \A s \in SUBSET Users : s # {} => Pick(s) \in s /\ pick[s] = Pick(s) BY DEF Pick
<1>3. op \in [Int \X Users -> Int]
  <2> SUFFICES ASSUME NEW p \in Int \X Users PROVE f[p[2]] + p[1] \in Int
    OBVIOUS
  <2>1. p[1] \in Int /\ p[2] \in Users OBVIOUS
  <2> QED BY <2>1
<1>4. IsFiniteSet(Users) BY SimilarityAssumption
<1>5. PICK h \in [SUBSET Users -> Int] : \A s \in SUBSET Users :
          h[s] = IF s = {} THEN 0 ELSE op[<<h[s \ {pick[s]}], pick[s]>>]
  <2> DEFINE V == Int
             zero == 0
  <2>1. Picks(pick, Users) BY <1>2 DEF Picks
  <2>2. zero \in V OBVIOUS
  <2>3. op \in [V \X Users -> V] BY <1>3
  <2> HIDE DEF op, pick, V, zero
  <2>4. \E h \in [SUBSET Users -> V] : Folds(h, Users, zero, op, pick)
    BY ONLY <1>4, <2>1, <2>2, <2>3, FoldExists
  <2> USE DEF V, zero
  <2> QED BY <2>4, Zenon DEF Folds
<1>6. \A s \in SUBSET Users :
          s # {} => op[<<h[s \ {pick[s]}], pick[s]>>] = f[Pick(s)] + h[s \ {Pick(s)}]
  <2> TAKE s \in SUBSET Users
  <2> SUFFICES ASSUME s # {} PROVE op[<<h[s \ {pick[s]}], pick[s]>>] = f[Pick(s)] + h[s \ {Pick(s)}]
    OBVIOUS
  <2>1. pick[s] = Pick(s) /\ Pick(s) \in Users BY <1>2
  <2>2. h[s \ {Pick(s)}] \in Int OBVIOUS
  <2> HIDE DEF pick
  <2> QED BY <2>1, <2>2
<1>7. h = Body(h)
  <2> HIDE DEF op, pick
  <2> QED BY <1>5, <1>6
<1> DEFINE g == CHOOSE g : g = Body(g)
<1>8. g = Body(g) BY <1>7, Zenon
<1>10. Total(f) = g[Users] BY <1>1
<1> HIDE DEF g
<1>9. g = h
  <2> DEFINE T == {s \in SUBSET Users : g[s] # h[s]}
  <2>1. ASSUME T # {} PROVE FALSE
    <3>1. PICK s \in T : \A t \in T : t \subseteq s => t = s
      <4>1. T \in SUBSET (SUBSET Users) OBVIOUS
      <4> HIDE DEF T
      <4> QED BY ONLY <4>1, <1>4, <2>1, SmallestSet
    <3>2. g[s] = IF s = {} THEN 0 ELSE f[Pick(s)] + g[s \ {Pick(s)}] BY <1>8
    <3>3. h[s] = IF s = {} THEN 0 ELSE f[Pick(s)] + h[s \ {Pick(s)}] BY <1>7
    <3>4. s # {} BY <3>2, <3>3
    <3>5. s \ {Pick(s)} \notin T BY <3>1, <3>4, <1>2
    <3>6. g[s \ {Pick(s)}] = h[s \ {Pick(s)}] BY <3>5
    <3>7. QED BY <3>2, <3>3, <3>6
  <2>2. QED BY <2>1, <1>8
<1>11. QED BY <1>7, <1>9, <1>10

LEMMA TotalType ==
    ASSUME NEW f \in [Users -> Int] PROVE Total(f) \in Int
<1>1. PICK h \in [SUBSET Users -> Int] : Total(f) = h[Users] BY TotalFolds
<1>2. QED BY <1>1

\* Totals add up term by term.
LEMMA TotalAdd ==
    ASSUME NEW f \in [Users -> Int], NEW g \in [Users -> Int]
    PROVE  Total([u \in Users |-> f[u] + g[u]]) = Total(f) + Total(g)
<1> DEFINE e == [u \in Users |-> f[u] + g[u]]
<1>1. PICK hf \in [SUBSET Users -> Int] :
          /\ \A s \in SUBSET Users :
                 hf[s] = IF s = {} THEN 0 ELSE f[Pick(s)] + hf[s \ {Pick(s)}]
          /\ Total(f) = hf[Users]
  BY TotalFolds
<1>2. PICK hg \in [SUBSET Users -> Int] :
          /\ \A s \in SUBSET Users :
                 hg[s] = IF s = {} THEN 0 ELSE g[Pick(s)] + hg[s \ {Pick(s)}]
          /\ Total(g) = hg[Users]
  BY TotalFolds
<1>3. e \in [Users -> Int] OBVIOUS
<1>4. PICK he \in [SUBSET Users -> Int] :
          /\ \A s \in SUBSET Users :
                 he[s] = IF s = {} THEN 0 ELSE e[Pick(s)] + he[s \ {Pick(s)}]
          /\ Total(e) = he[Users]
  <2> HIDE DEF e
  <2> QED BY <1>3, TotalFolds
<1> DEFINE T == {s \in SUBSET Users : he[s] # hf[s] + hg[s]}
<1>5. ASSUME T # {} PROVE FALSE
  <2>1. PICK s \in T : \A t \in T : t \subseteq s => t = s
    <3>1. T \in SUBSET (SUBSET Users) /\ IsFiniteSet(Users) BY SimilarityAssumption
    <3> HIDE DEF T
    <3> QED BY ONLY <3>1, <1>5, SmallestSet
  <2>2. s # {}
    <3>1. {} \in SUBSET Users OBVIOUS
    <3> HIDE DEF T, e
    <3>2. hf[{}] = 0 BY <1>1, <3>1
    <3>3. hg[{}] = 0 BY <1>2, <3>1
    <3>4. he[{}] = 0 BY <1>4, <3>1
    <3>5. he[s] # hf[s] + hg[s] BY DEF T
    <3> SUFFICES ASSUME s = {} PROVE FALSE OBVIOUS
    <3>6. he[{}] # hf[{}] + hg[{}] BY <3>5
    <3> QED BY ONLY <3>2, <3>3, <3>4, <3>6
  <2>3. Pick(s) \in s BY <2>2 DEF Pick
  <2>4. s \ {Pick(s)} \notin T BY <2>1, <2>3
  <2>5. he[s \ {Pick(s)}] = hf[s \ {Pick(s)}] + hg[s \ {Pick(s)}] BY <2>4
  <2>6. e[Pick(s)] = f[Pick(s)] + g[Pick(s)] BY <2>3
  <2>7. he[s] = e[Pick(s)] + he[s \ {Pick(s)}] BY <1>4, <2>2
  <2>8. hf[s] = f[Pick(s)] + hf[s \ {Pick(s)}] BY <1>1, <2>2
  <2>9. hg[s] = g[Pick(s)] + hg[s \ {Pick(s)}] BY <1>2, <2>2
  <2>10. /\ f[Pick(s)] \in Int /\ g[Pick(s)] \in Int
         /\ hf[s \ {Pick(s)}] \in Int /\ hg[s \ {Pick(s)}] \in Int
    BY <2>3
  <2> HIDE DEF e
  <2>11. he[s] = hf[s] + hg[s] BY <2>5, <2>6, <2>7, <2>8, <2>9, <2>10
  <2>12. QED BY <2>11
<1>6. he[Users] = hf[Users] + hg[Users] BY <1>5
<1>7. QED BY <1>1, <1>2, <1>4, <1>6

\* A total of which only one term is not zero.
LEMMA TotalSpike ==
    ASSUME NEW f \in [Users -> Int], NEW w \in Users, \A u \in Users : u # w => f[u] = 0
    PROVE  Total(f) = f[w]
<1>1. PICK h \in [SUBSET Users -> Int] :
          /\ \A s \in SUBSET Users :
                 h[s] = IF s = {} THEN 0 ELSE f[Pick(s)] + h[s \ {Pick(s)}]
          /\ Total(f) = h[Users]
  BY TotalFolds
<1> DEFINE T == {s \in SUBSET Users : h[s] # IF w \in s THEN f[w] ELSE 0}
<1>2. ASSUME T # {} PROVE FALSE
  <2>1. PICK s \in T : \A t \in T : t \subseteq s => t = s
    <3>1. T \in SUBSET (SUBSET Users) /\ IsFiniteSet(Users) BY SimilarityAssumption
    <3> HIDE DEF T
    <3> QED BY ONLY <3>1, <1>2, SmallestSet
  <2>2. s # {} BY <1>1
  <2>3. Pick(s) \in s BY <2>2 DEF Pick
  <2>4. s \ {Pick(s)} \notin T BY <2>1, <2>3
  <2>5. h[s \ {Pick(s)}] = IF w \in s \ {Pick(s)} THEN f[w] ELSE 0 BY <2>4
  <2>6. h[s] = f[Pick(s)] + h[s \ {Pick(s)}] BY <1>1, <2>2
  <2>7. f[Pick(s)] \in Int /\ f[w] \in Int BY <2>3
  <2>8. h[s] = IF w \in s THEN f[w] ELSE 0
    <3>1. CASE Pick(s) = w BY <2>3, <2>5, <2>6, <2>7, <3>1
    <3>2. CASE Pick(s) # w
      <4>1. f[Pick(s)] = 0 BY <3>2, <2>3
      <4> QED BY <4>1, <2>5, <2>6, <2>7, <3>2
    <3> QED BY <3>1, <3>2
  <2>9. QED BY <2>8
<1>3. h[Users] = f[w] BY <1>2
<1>4. QED BY <1>1, <1>3

\* A total after one of its terms has changed.
LEMMA TotalStep ==
    ASSUME NEW f \in [Users -> Int], NEW g \in [Users -> Int], NEW w \in Users,
           \A u \in Users : u # w => g[u] = f[u]
    PROVE  Total(g) = Total(f) + g[w] - f[w]
<1> DEFINE e == [u \in Users |-> g[u] - f[u]]
<1>1. e \in [Users -> Int] /\ e[w] = g[w] - f[w] /\ \A u \in Users : u # w => e[u] = 0
  OBVIOUS
<1>2. [u \in Users |-> f[u] + e[u]] = g
  <2>1. \A u \in Users : f[u] + e[u] = g[u] OBVIOUS
  <2> HIDE DEF e
  <2> QED BY <2>1
<1> HIDE DEF e
<1>3. Total(e) = e[w] BY <1>1, TotalSpike
<1>4. Total(g) = Total(f) + Total(e) BY <1>1, <1>2, TotalAdd
<1>5. Total(f) \in Int BY TotalType
<1>6. QED BY <1>1, <1>3, <1>4, <1>5

-----------------------------------------------------------------------------
(* Pair statistics *)

\* Ratings by cell, and statistics by pair of items.
Interactions == [Cells -> Ratings]
Matrices == [Items -> [Items -> Int]]

\* The products a pair statistic adds up.
Products(x, i, j) == [u \in Users |-> x[<<u, i>>] * x[<<u, j>>]]

LEMMA NaturalProduct ==
    \A a, b \in Nat : a * b \in Nat
OBVIOUS

LEMMA RatingType ==
    ASSUME NEW x \in Interactions, NEW u \in Users, NEW i \in Items
    PROVE  x[<<u, i>>] \in Nat /\ x[<<u, i>>] \in Ratings
<1>1. <<u, i>> \in Cells BY DEF Cells
<1>2. x[<<u, i>>] \in Ratings BY <1>1 DEF Interactions
<1>3. QED BY <1>2, SimilarityAssumption DEF Ratings

LEMMA ProductsType ==
    ASSUME NEW x \in Interactions, NEW i \in Items, NEW j \in Items
    PROVE  /\ Products(x, i, j) \in [Users -> Int]
           /\ \A u \in Users : x[<<u, i>>] * x[<<u, j>>] \in Int
<1>1. ASSUME NEW u \in Users PROVE x[<<u, i>>] * x[<<u, j>>] \in Int
  <2>1. x[<<u, i>>] \in Nat /\ x[<<u, j>>] \in Nat BY RatingType
  <2>2. x[<<u, i>>] * x[<<u, j>>] \in Nat BY <2>1, NaturalProduct
  <2> QED BY <2>2
<1>2. QED BY <1>1 DEF Products

LEMMA GramAt ==
    ASSUME NEW x, NEW i \in Items, NEW j \in Items
    PROVE  Gram(x)[i][j] = Total(Products(x, i, j))
BY DEF Gram, Products

LEMMA GramType ==
    ASSUME NEW x \in Interactions
    PROVE  /\ Gram(x) \in Matrices
           /\ \A i, j \in Items : Gram(x)[i][j] \in Int
<1>1. \A i, j \in Items : Gram(x)[i][j] \in Int
  <2> TAKE i, j \in Items
  <2> QED BY ProductsType, TotalType, GramAt
<1>2. Gram(x) = [i \in Items |-> [j \in Items |-> Gram(x)[i][j]]] BY DEF Gram
<1>3. QED BY <1>1, <1>2 DEF Matrices

\* The pair statistics are symmetric, and so are the similarities.
LEMMA GramSymmetric ==
    ASSUME NEW x \in Interactions, NEW i \in Items, NEW j \in Items
    PROVE  Gram(x)[i][j] = Gram(x)[j][i]
<1>1. ASSUME NEW u \in Users PROVE x[<<u, i>>] * x[<<u, j>>] = x[<<u, j>>] * x[<<u, i>>]
  <2>1. x[<<u, i>>] \in Nat /\ x[<<u, j>>] \in Nat BY RatingType
  <2> QED BY <2>1
<1>2. Products(x, i, j) = Products(x, j, i) BY <1>1 DEF Products
<1>3. QED BY <1>2, GramAt

\* A pair statistic depends on the columns of its two items only.
LEMMA GramSame ==
    ASSUME NEW x \in Interactions, NEW y \in Interactions, NEW i \in Items, NEW j \in Items,
           \A u \in Users : x[<<u, i>>] = y[<<u, i>>] /\ x[<<u, j>>] = y[<<u, j>>]
    PROVE  Gram(x)[i][j] = Gram(y)[i][j]
<1>1. Products(x, i, j) = Products(y, i, j) BY DEF Products
<1>2. QED BY <1>1, GramAt

\* What the ratings of one user contribute can be replaced on its own.
LEMMA GramStep ==
    ASSUME NEW x \in Interactions, NEW y \in Interactions, NEW w \in Users,
           NEW i \in Items, NEW j \in Items,
           \A u \in Users : u # w => x[<<u, i>>] = y[<<u, i>>] /\ x[<<u, j>>] = y[<<u, j>>]
    PROVE  Gram(y)[i][j] =
               Gram(x)[i][j] + y[<<w, i>>] * y[<<w, j>>] - x[<<w, i>>] * x[<<w, j>>]
<1> DEFINE f == Products(x, i, j)
           g == Products(y, i, j)
<1>1. f \in [Users -> Int] /\ g \in [Users -> Int] BY ProductsType
<1>2. /\ f[w] = x[<<w, i>>] * x[<<w, j>>]
      /\ g[w] = y[<<w, i>>] * y[<<w, j>>]
      /\ \A u \in Users : u # w => g[u] = f[u]
  BY DEF Products
<1> HIDE DEF f, g
<1>3. Total(g) = Total(f) + g[w] - f[w] BY <1>1, <1>2, TotalStep
<1>4. Gram(x)[i][j] = Total(f) /\ Gram(y)[i][j] = Total(g) BY GramAt DEF f, g
<1>5. QED BY <1>2, <1>3, <1>4

\* So can what the ratings of a set of users contribute.
LEMMA GramReplace ==
    ASSUME NEW x \in Interactions, NEW y \in Interactions, NEW users \in SUBSET Users,
           \A u \in Users \ users, i \in Items : x[<<u, i>>] = y[<<u, i>>],
           NEW i \in Items, NEW j \in Items
    PROVE  Gram(x)[i][j] + Contribution(y, users)[i][j] - Contribution(x, users)[i][j]
               = Gram(y)[i][j]
<1> DEFINE Part(z) == [c \in Cells |-> IF c[1] \in users THEN z[c] ELSE 0]
           f == Products(x, i, j)
           g == Products(y, i, j)
           pf == Products(Part(x), i, j)
           pg == Products(Part(y), i, j)
<1>1. 0 \in Ratings BY SimilarityAssumption DEF Ratings
<1>2. \A z \in Interactions : Part(z) \in Interactions BY <1>1 DEF Interactions
<1>3. /\ f \in [Users -> Int] /\ g \in [Users -> Int]
      /\ pf \in [Users -> Int] /\ pg \in [Users -> Int]
  <2> HIDE DEF Part
  <2> QED BY <1>2, ProductsType
<1>4. \A z \in Interactions, u \in Users, k \in Items :
          Part(z)[<<u, k>>] = IF u \in users THEN z[<<u, k>>] ELSE 0
  BY DEF Cells
<1>5. \A u \in Users : /\ pf[u] = IF u \in users THEN f[u] ELSE 0
                       /\ pg[u] = IF u \in users THEN g[u] ELSE 0
  <2> HIDE DEF Part
  <2> QED BY <1>4 DEF Products
<1>6. \A u \in Users : u \notin users => f[u] = g[u] BY DEF Products
<1> HIDE DEF f, g, pf, pg
<1>7. [u \in Users |-> f[u] + pg[u]] = [u \in Users |-> g[u] + pf[u]]
  <2>1. \A u \in Users : f[u] + pg[u] = g[u] + pf[u]
    <3> TAKE u \in Users
    <3>1. f[u] \in Int /\ g[u] \in Int BY <1>3
    <3> QED BY <3>1, <1>5, <1>6
  <2> QED BY <2>1
<1>8. Total(f) + Total(pg) = Total(g) + Total(pf)
  <2>1. Total([u \in Users |-> f[u] + pg[u]]) = Total(f) + Total(pg) BY <1>3, TotalAdd
  <2>2. Total([u \in Users |-> g[u] + pf[u]]) = Total(g) + Total(pf) BY <1>3, TotalAdd
  <2> QED BY <1>7, <2>1, <2>2
<1>9. PICK tf \in Int, tg \in Int, tpf \in Int, tpg \in Int :
          tf = Total(f) /\ tg = Total(g) /\ tpf = Total(pf) /\ tpg = Total(pg)
  BY <1>3, TotalType
<1>10. /\ Gram(x)[i][j] = Total(f) /\ Gram(y)[i][j] = Total(g)
       /\ Contribution(x, users)[i][j] = Total(pf)
       /\ Contribution(y, users)[i][j] = Total(pg)
  BY GramAt, Zenon DEF Contribution, f, g, pf, pg
<1>11. tf + tpg = tg + tpf BY <1>8, <1>9, Zenon
<1>12. tf + tpg - tpf = tg BY ONLY <1>11
<1>13. QED BY <1>9, <1>10, <1>12, Zenon

-----------------------------------------------------------------------------
(* What a refresh makes of similarities and means *)

\* Similarities are squared cosines, as fractions.
Fractions == Nat \X (Nat \ {0})

ModelStates ==
    [x : Interactions, observed : SUBSET Cells, dots : Matrices, norm2 : [Items -> Int],
     sims : [Items -> [Items -> Fractions]], near : [Items -> SUBSET Items],
     means : [Items -> Int \X Nat]]

\* What a fit makes of the ratings.
Norms(x) == [i \in Items |-> Gram(x)[i][i]]
\* The similarities and the means of a fit.
Cosines(x) == [i \in Items |-> SimilarityRow(Gram(x), Norms(x), i)]
Averages(x, observed) == [i \in Items |-> Mean(x, observed, i)]

LEMMA SimilarityType ==
    ASSUME NEW dot \in Int, NEW norms \in Int
    PROVE  Similarity(dot, norms) \in Fractions
<1>1. CASE norms <= 0 \/ dot <= 0 BY <1>1 DEF Similarity, Fractions
<1>2. CASE norms > 0 /\ dot > 0
  <2>1. dot \in Nat /\ norms \in Nat \ {0} BY <1>2
  <2>2. dot * dot \in Nat BY <2>1, NaturalProduct
  <2>3. QED BY <1>2, <2>1, <2>2 DEF Similarity, Fractions
<1>3. QED BY <1>1, <1>2

LEMMA CosinesAt ==
    ASSUME NEW x, NEW i \in Items, NEW j \in Items
    PROVE  Cosines(x)[i][j] =
               IF i = j THEN <<0, 1>>
               ELSE Similarity(Gram(x)[i][j], Gram(x)[i][i] * Gram(x)[j][j])
BY DEF Cosines, SimilarityRow, Norms

LEMMA CosinesType ==
    ASSUME NEW x \in Interactions
    PROVE  Cosines(x) \in [Items -> [Items -> Fractions]]
<1>1. ASSUME NEW i \in Items, NEW j \in Items PROVE Cosines(x)[i][j] \in Fractions
  <2>1. Gram(x)[i][j] \in Int /\ Gram(x)[i][i] \in Int /\ Gram(x)[j][j] \in Int
    BY GramType
  <2>2. Gram(x)[i][i] * Gram(x)[j][j] \in Int BY <2>1
  <2>3. Similarity(Gram(x)[i][j], Gram(x)[i][i] * Gram(x)[j][j]) \in Fractions
    BY <2>1, <2>2, SimilarityType
  <2>4. <<0, 1>> \in Fractions BY DEF Fractions
  <2>5. QED BY <2>3, <2>4, CosinesAt
<1>2. Cosines(x) = [i \in Items |-> [j \in Items |-> Cosines(x)[i][j]]]
  BY DEF Cosines, SimilarityRow
<1>3. QED BY <1>1, <1>2

LEMMA CosinesSymmetric ==
    ASSUME NEW x \in Interactions, NEW i \in Items, NEW j \in Items
    PROVE  Cosines(x)[i][j] = Cosines(x)[j][i]
<1>1. Gram(x)[i][i] \in Int /\ Gram(x)[j][j] \in Int BY GramType
<1>2. Gram(x)[i][i] * Gram(x)[j][j] = Gram(x)[j][j] * Gram(x)[i][i] BY <1>1
<1>3. Gram(x)[i][j] = Gram(x)[j][i] BY GramSymmetric
<1>4. QED BY <1>2, <1>3, CosinesAt

\* A similarity depends on the columns of its two items only.
LEMMA CosinesSame ==
    ASSUME NEW x \in Interactions, NEW y \in Interactions, NEW i \in Items, NEW j \in Items,
           \A u \in Users : x[<<u, i>>] = y[<<u, i>>] /\ x[<<u, j>>] = y[<<u, j>>]
    PROVE  Cosines(x)[i][j] = Cosines(y)[i][j]
<1>1. Gram(x)[i][j] = Gram(y)[i][j] BY GramSame
<1>2. Gram(x)[i][i] = Gram(y)[i][i] BY GramSame
<1>3. Gram(x)[j][j] = Gram(y)[j][j] BY GramSame
<1>4. QED BY <1>1, <1>2, <1>3, CosinesAt

LEMMA MeanType ==
    ASSUME NEW x \in Interactions, NEW observed, NEW i \in Items
    PROVE  Mean(x, observed, i) \in Int \X Nat
<1> DEFINE raters == {u \in Users : <<u, i>> \in observed}
           f == [u \in Users |-> x[<<u, i>>]]
<1>1. Cardinality(raters) \in Nat
  <2>1. IsFiniteSet(raters) BY SimilarityAssumption, FS_Subset
  <2> QED BY <2>1, FS_CardinalityType
<1>2. f \in [Users -> Int]
  <2>1. \A u \in Users : x[<<u, i>>] \in Int BY RatingType
  <2> QED BY <2>1
<1> HIDE DEF raters, f
<1>3. Total(f) \in Int BY <1>2, TotalType
<1>4. <<Total(f), Cardinality(raters)>> \in Int \X Nat BY <1>1, <1>3
<1>5. QED BY <1>4 DEF Mean, raters, f

LEMMA MeanSame ==
    ASSUME NEW x, NEW y, NEW a, NEW b, NEW i,
           \A u \in Users : x[<<u, i>>] = y[<<u, i>>] /\ (<<u, i>> \in a <=> <<u, i>> \in b)
    PROVE  Mean(x, a, i) = Mean(y, b, i)
<1>1. [u \in Users |-> x[<<u, i>>]] = [u \in Users |-> y[<<u, i>>]] OBVIOUS
<1>2. {u \in Users : <<u, i>> \in a} = {u \in Users : <<u, i>> \in b} OBVIOUS
<1>3. QED BY <1>1, <1>2 DEF Mean

LEMMA SelectType ==
    ASSUME NEW v, NEW row, NEW i, NEW width
    PROVE  SelectNeighbors(v, row, i, width) \in SUBSET Items
<1>1. Candidates(row, i) \subseteq Items BY DEF Candidates
<1>2. Nearest(row, i, width) \subseteq Items BY <1>1 DEF Nearest
<1>3. PartialNearest(row, i, width) \subseteq Items BY <1>1, Zenon DEF PartialNearest
<1>4. QED BY <1>2, <1>3 DEF SelectNeighbors

\* The pair statistics of m are those of its ratings.
Stats(m) == /\ \A i \in Items : m.norm2[i] = Gram(m.x)[i][i]
            /\ \A i, j \in Items : i # j => m.dots[i][j] = Gram(m.x)[i][j]

\* Recomputing a row from fitting statistics gives the row of a fit.
LEMMA FreshRow ==
    ASSUME NEW m, Stats(m), NEW i \in Items, NEW j \in Items
    PROVE  SimilarityRow(m.dots, m.norm2, i)[j] = Cosines(m.x)[i][j]
<1>1. SimilarityRow(m.dots, m.norm2, i)[j] =
          IF i = j THEN <<0, 1>> ELSE Similarity(m.dots[i][j], m.norm2[i] * m.norm2[j])
  BY DEF SimilarityRow
<1>2. m.norm2[i] = Gram(m.x)[i][i] /\ m.norm2[j] = Gram(m.x)[j][j] BY DEF Stats
<1>3. i # j => m.dots[i][j] = Gram(m.x)[i][j] BY DEF Stats
<1>4. QED BY <1>1, <1>2, <1>3, CosinesAt

\* A refresh leaves every similarity as a fit would compute it, if it takes in
\* every item whose ratings are no longer those of the similarities.
LEMMA RefreshedRows ==
    ASSUME NEW v, NEW m \in ModelStates, Stats(m), NEW affected \in SUBSET Items,
           NEW x \in Interactions, m.sims = Cosines(x),
           \A i \in Items \ affected, u \in Users : x[<<u, i>>] = m.x[<<u, i>>]
    PROVE  LET n == RefreshRows(v, m, affected)
           IN /\ n \in ModelStates
              /\ n.x = m.x /\ n.observed = m.observed /\ n.means = m.means
              /\ n.dots = m.dots /\ n.norm2 = m.norm2
              /\ n.sims = Cosines(m.x)
              /\ \A i \in affected : n.near[i] = SelectNeighbors(v, n.sims[i], i, Width)
<1> DEFINE fresh == [i \in affected |-> SimilarityRow(m.dots, m.norm2, i)]
           sims == [i \in Items |-> [j \in Items |->
                       IF j \in affected THEN fresh[j][i]
                       ELSE IF i \in affected THEN fresh[i][j] ELSE m.sims[i][j]]]
           near == [i \in Items |-> IF i \in affected
                       THEN SelectNeighbors(v, sims[i], i, Width) ELSE m.near[i]]
           n == [m EXCEPT !.sims = sims, !.near = near]
<1>1. m.x \in Interactions BY DEF ModelStates
<1>2. ASSUME NEW i \in Items, NEW j \in Items PROVE sims[i][j] = Cosines(m.x)[i][j]
  <2>1. CASE j \in affected
    <3>1. sims[i][j] = SimilarityRow(m.dots, m.norm2, j)[i] BY <2>1
    <3>2. QED BY <3>1, <1>1, FreshRow, CosinesSymmetric
  <2>2. CASE j \notin affected /\ i \in affected
    <3>1. sims[i][j] = SimilarityRow(m.dots, m.norm2, i)[j] BY <2>2
    <3>2. QED BY <3>1, FreshRow
  <2>3. CASE j \notin affected /\ i \notin affected
    <3>1. sims[i][j] = Cosines(x)[i][j] BY <2>3
    <3>2. \A u \in Users : x[<<u, i>>] = m.x[<<u, i>>] /\ x[<<u, j>>] = m.x[<<u, j>>]
      BY <2>3
    <3>3. Cosines(x)[i][j] = Cosines(m.x)[i][j] BY <1>1, <3>2, CosinesSame
    <3>4. QED BY <3>1, <3>3
  <2>4. QED BY <2>1, <2>2, <2>3
<1>3. Cosines(m.x) = [i \in Items |-> [j \in Items |-> Cosines(m.x)[i][j]]]
  BY DEF Cosines, SimilarityRow
<1>4. sims = Cosines(m.x)
  <2>1. sims = [i \in Items |-> [j \in Items |-> sims[i][j]]] OBVIOUS
  <2> HIDE DEF sims
  <2> QED BY <1>2, <1>3, <2>1
<1>5. RefreshRows(v, m, affected) = n
  BY DEF RefreshRows, ModelStates
<1>6. sims \in [Items -> [Items -> Fractions]] BY <1>1, <1>4, CosinesType
<1> HIDE DEF sims
<1>7. near \in [Items -> SUBSET Items]
  <2>1. m.near \in [Items -> SUBSET Items] BY DEF ModelStates
  <2>2. \A i \in Items : SelectNeighbors(v, sims[i], i, Width) \in SUBSET Items
    BY SelectType
  <2> QED BY <2>1, <2>2
<1>8. \A i \in affected : near[i] = SelectNeighbors(v, sims[i], i, Width) OBVIOUS
<1> HIDE DEF near
<1>9. n \in ModelStates BY <1>6, <1>7 DEF ModelStates
<1>10. /\ n.x = m.x /\ n.observed = m.observed /\ n.means = m.means
       /\ n.dots = m.dots /\ n.norm2 = m.norm2 /\ n.sims = sims /\ n.near = near
  BY DEF ModelStates
<1> HIDE DEF n
<1>11. QED BY <1>4, <1>5, <1>8, <1>9, <1>10, Zenon

\* Recomputing the means of the touched items leaves every mean as a fit would,
\* when the means of the others depend on nothing that changed.
LEMMA RefreshedMeans ==
    ASSUME NEW m \in ModelStates, NEW affected \in SUBSET Items, NEW x, NEW observed,
           m.means = Averages(x, observed),
           \A i \in Items \ affected, u \in Users :
               x[<<u, i>>] = m.x[<<u, i>>] /\ (<<u, i>> \in observed <=> <<u, i>> \in m.observed)
    PROVE  LET n == RefreshMeans(m, affected)
           IN /\ n \in ModelStates
              /\ n.x = m.x /\ n.observed = m.observed /\ n.sims = m.sims /\ n.near = m.near
              /\ n.dots = m.dots /\ n.norm2 = m.norm2
              /\ n.means = Averages(m.x, m.observed)
<1> DEFINE means == [i \in Items |-> IF i \in affected THEN Mean(m.x, m.observed, i)
                                     ELSE m.means[i]]
           n == [m EXCEPT !.means = means]
<1>1. m.x \in Interactions BY DEF ModelStates
<1>2. \A i \in Items : means[i] = Mean(m.x, m.observed, i)
  <2> TAKE i \in Items
  <2>1. i \notin affected => Mean(x, observed, i) = Mean(m.x, m.observed, i)
    BY MeanSame
  <2>2. i \notin affected => means[i] = Mean(x, observed, i) BY DEF Averages
  <2>3. QED BY <2>1, <2>2
<1>3. means = Averages(m.x, m.observed) BY <1>2 DEF Averages
<1>4. means \in [Items -> Int \X Nat] BY <1>1, <1>2, MeanType
<1>5. RefreshMeans(m, affected) = n BY DEF RefreshMeans
<1> HIDE DEF means
<1>6. n \in ModelStates BY <1>4 DEF ModelStates
<1>7. /\ n.x = m.x /\ n.observed = m.observed /\ n.sims = m.sims /\ n.near = m.near
      /\ n.dots = m.dots /\ n.norm2 = m.norm2 /\ n.means = means
  BY DEF ModelStates
<1> HIDE DEF n
<1>8. QED BY <1>3, <1>5, <1>6, <1>7, Zenon

-----------------------------------------------------------------------------
(* One rating of the itemwise form *)

\* Only an observed cell holds a rating above zero.
Recorded(m) == \A c \in Cells : m.x[c] # 0 => c \in m.observed

LEMMA BadRowInvalid ==
    ~Valid(BadRow) /\ \A row \in Row : Valid(row)
BY SimilarityAssumption DEF Valid, BadRow, Row

LEMMA Distribute ==
    \A r, o, z \in Int : /\ (r - o) * z = r * z - o * z
                         /\ (r - o) * z = z * r - z * o
                         /\ (r - o) * z \in Int
OBVIOUS

LEMMA RateAt ==
    ASSUME NEW x \in Interactions, NEW row \in Row
    PROVE  /\ Rate(x, row) \in Interactions
           /\ \A c \in Cells :
                  Rate(x, row)[c] = IF c = <<row.user, row.item>> THEN row.rating ELSE x[c]
           /\ \A u \in Users, i \in Items :
                  Rate(x, row)[<<u, i>>] =
                      IF u = row.user /\ i = row.item THEN row.rating ELSE x[<<u, i>>]
<1>1. row.rating \in Ratings /\ <<row.user, row.item>> \in Cells BY DEF Row, Cells
<1>2. Rate(x, row) \in Interactions BY <1>1 DEF Rate, Interactions
<1>3. \A c \in Cells :
          Rate(x, row)[c] = IF c = <<row.user, row.item>> THEN row.rating ELSE x[c]
  BY <1>1 DEF Rate, Interactions
<1>4. \A u \in Users, i \in Items : <<u, i>> \in Cells
          /\ (<<u, i>> = <<row.user, row.item>> <=> u = row.user /\ i = row.item)
  BY DEF Cells
<1>5. QED BY <1>2, <1>3, <1>4

\* What one rating does to the statistics that the itemwise form keeps.
LEMMA AppliedRow ==
    ASSUME NEW m \in ModelStates, NEW row \in Row, Stats(m), Recorded(m)
    PROVE  LET n == ApplyRow(m, row)
           IN /\ n \in ModelStates /\ Stats(n) /\ Recorded(n)
              /\ n.x = Rate(m.x, row)
              /\ n.observed = m.observed \cup {<<row.user, row.item>>}
              /\ n.sims = m.sims /\ n.near = m.near /\ n.means = m.means
<1> DEFINE w == row.user
           a == row.item
           r == row.rating
           cell == <<w, a>>
           old == m.x[cell]
           delta == r - old
           others == {j \in Items \ {a} : <<w, j>> \in m.observed}
           norm2 == [m.norm2 EXCEPT ![a] = @ + r * r - old * old]
           Change(i, j) == CASE i = a /\ j \in others -> delta * m.x[<<w, j>>]
                             [] j = a /\ i \in others -> delta * m.x[<<w, i>>]
                             [] OTHER -> 0
           dots == [i \in Items |-> [j \in Items |-> m.dots[i][j] + Change(i, j)]]
           y == Rate(m.x, row)
           observed == m.observed \cup {cell}
           n == ApplyRow(m, row)
<1>1. /\ m.x \in Interactions /\ w \in Users /\ a \in Items /\ r \in Ratings
      /\ cell \in Cells /\ old \in Nat /\ r \in Nat /\ observed \in SUBSET Cells
  <2>1. m.x \in Interactions /\ w \in Users /\ a \in Items /\ r \in Ratings
        /\ m.observed \in SUBSET Cells
    BY DEF ModelStates, Row
  <2>2. cell \in Cells BY <2>1 DEF Cells
  <2>3. old \in Nat BY <2>1, RatingType
  <2>4. r \in Nat BY <2>1, SimilarityAssumption DEF Ratings
  <2>5. QED BY <2>1, <2>2, <2>3, <2>4
<1>2. y \in Interactions /\ \A u \in Users, i \in Items :
          y[<<u, i>>] = IF u = w /\ i = a THEN r ELSE m.x[<<u, i>>]
  BY <1>1, RateAt
<1>3. \A c \in Cells : y[c] # 0 => c \in observed
  <2> TAKE c \in Cells
  <2>1. c # cell => y[c] = m.x[c] BY <1>1, RateAt
  <2>2. m.x[c] # 0 => c \in m.observed BY DEF Recorded
  <2> HIDE DEF y
  <2>3. QED BY <2>1, <2>2
<1>4. CASE r = old
  <2>1. n = [m EXCEPT !.observed = observed]
    BY <1>1, <1>4 DEF ApplyRow
  <2>2. n \in ModelStates /\ n.x = m.x /\ n.observed = observed /\ n.dots = m.dots
        /\ n.norm2 = m.norm2 /\ n.sims = m.sims /\ n.near = m.near /\ n.means = m.means
    <3> HIDE DEF n, observed
    <3> QED BY <2>1, <1>1 DEF ModelStates
  <2>3. y = m.x
    <3>1. \A c \in Cells : y[c] = m.x[c] BY <1>1, <1>4, RateAt
    <3>2. y = [c \in Cells |-> y[c]] /\ m.x = [c \in Cells |-> m.x[c]]
      <4> HIDE DEF y
      <4> QED BY <1>1, <1>2 DEF Interactions
    <3> HIDE DEF y
    <3> QED BY <3>1, <3>2
  <2> HIDE DEF n, y, observed
  <2>4. Stats(n) BY <2>2 DEF Stats
  <2>5. Recorded(n) BY <2>2, <2>3, <1>3 DEF Recorded
  <2>6. QED BY <2>2, <2>3, <2>4, <2>5 DEF observed, n, y
<1>5. CASE r # old
  <2>1. n = [m EXCEPT !.norm2 = norm2, !.dots = dots, !.x = y, !.observed = observed]
    <3>1. delta # 0 BY <1>1, <1>5
    <3>2. n = [m EXCEPT !.norm2[a] = @ + r * r - old * old, !.dots = dots,
                        !.x[cell] = r, !.observed = observed]
      BY <3>1, Zenon DEF ApplyRow
    <3> HIDE DEF n, dots, observed, old
    <3> QED BY <3>2 DEF Rate, ModelStates
  <2>2. \A i, j \in Items : m.dots[i][j] \in Int /\ m.norm2[i] \in Int
        /\ m.x[<<w, i>>] \in Nat /\ m.x[<<w, i>>] \in Int
    BY <1>1, RatingType DEF ModelStates, Matrices
  <2>3. old \in Int /\ r \in Int /\ r * r \in Int /\ old * old \in Int BY <1>1
  <2>4. \A i, j \in Items : Change(i, j) \in Int
    <3> TAKE i, j \in Items
    <3>1. delta * m.x[<<w, i>>] \in Int /\ delta * m.x[<<w, j>>] \in Int
      BY <2>2, <2>3, Distribute
    <3> HIDE DEF delta, others
    <3> QED BY <3>1
  <2>5. norm2 \in [Items -> Int] /\ \A i \in Items :
            norm2[i] = IF i = a THEN m.norm2[a] + r * r - old * old ELSE m.norm2[i]
    <3>1. m.norm2 \in [Items -> Int] BY DEF ModelStates
    <3>2. m.norm2[a] + r * r - old * old \in Int BY <1>1, <2>2, <2>3
    <3> HIDE DEF old, a, r
    <3> QED BY <3>1, <3>2
  <2>6. dots \in Matrices /\ \A i, j \in Items : dots[i][j] = m.dots[i][j] + Change(i, j)
    <3> HIDE DEF Change
    <3>1. \A i, j \in Items : m.dots[i][j] + Change(i, j) \in Int
      <4>1. \A p, q \in Int : p + q \in Int OBVIOUS
      <4> QED BY <2>2, <2>4, <4>1, Zenon
    <3> QED BY <3>1 DEF Matrices
  <2> HIDE DEF norm2, dots, observed, y, n
  <2>7. n \in ModelStates /\ n.x = y /\ n.observed = observed /\ n.dots = dots
        /\ n.norm2 = norm2 /\ n.sims = m.sims /\ n.near = m.near /\ n.means = m.means
    BY <2>1, <1>1, <1>2, <2>5, <2>6 DEF ModelStates
  <2>8. y[cell] = r /\ \A i \in Items : i # a => y[<<w, i>>] = m.x[<<w, i>>]
    BY <1>1, <1>2
  <2>9. \A i \in Items, u \in Users : i # a \/ u # w => y[<<u, i>>] = m.x[<<u, i>>]
    BY <1>2
  <2>10. ASSUME NEW i \in Items PROVE norm2[i] = Gram(y)[i][i]
    <3>1. m.norm2[i] = Gram(m.x)[i][i] BY DEF Stats
    <3>2. CASE i # a
      <4>1. Gram(m.x)[i][i] = Gram(y)[i][i] BY <1>1, <1>2, <2>9, <3>2, GramSame
      <4> QED BY <3>1, <3>2, <4>1, <2>5
    <3>3. CASE i = a
      <4>1. Gram(y)[i][i] = Gram(m.x)[i][i] + y[<<w, i>>] * y[<<w, i>>]
                            - m.x[<<w, i>>] * m.x[<<w, i>>]
        BY <1>1, <1>2, <2>9, GramStep
      <4>2. y[<<w, i>>] = r /\ m.x[<<w, i>>] = old BY <3>3, <2>8
      <4>3. norm2[i] = m.norm2[i] + r * r - old * old BY <2>5, <3>3
      <4> HIDE DEF old, r, w
      <4> QED BY <3>1, <4>1, <4>2, <4>3
    <3> QED BY <3>2, <3>3
  <2>11. ASSUME NEW i \in Items, NEW j \in Items, i # j PROVE dots[i][j] = Gram(y)[i][j]
    <3>1. m.dots[i][j] = Gram(m.x)[i][j] BY <2>11 DEF Stats
    <3>2. dots[i][j] = m.dots[i][j] + Change(i, j) BY <2>6
    <3>3. CASE i # a /\ j # a
      <4>1. Gram(m.x)[i][j] = Gram(y)[i][j] BY <1>1, <1>2, <2>9, <3>3, GramSame
      <4>2. Change(i, j) = 0 BY <3>3
      <4> QED BY <3>1, <3>2, <4>1, <4>2, <2>2
    <3>4. Gram(y)[i][j] = Gram(m.x)[i][j] + y[<<w, i>>] * y[<<w, j>>]
                          - m.x[<<w, i>>] * m.x[<<w, j>>]
      <4>1. \A u \in Users : u # w => m.x[<<u, i>>] = y[<<u, i>>]
                                    /\ m.x[<<u, j>>] = y[<<u, j>>]
        BY <2>9
      <4>2. m.x \in Interactions /\ y \in Interactions /\ w \in Users BY <1>1, <1>2
      <4> QED BY <4>1, <4>2, GramStep
    <3>5. \A k \in Items : k # a /\ k \notin others => m.x[<<w, k>>] = 0
      <4> TAKE k \in Items
      <4>1. <<w, k>> \in Cells BY <1>1 DEF Cells
      <4> QED BY <4>1 DEF Recorded
    <3>6. CASE i = a /\ j # a
      <4> DEFINE z == m.x[<<w, j>>]
      <4>1. z \in Int /\ Gram(m.x)[i][j] \in Int BY <2>2, <1>1, GramType
      <4>2. Gram(y)[i][j] = Gram(m.x)[i][j] + r * z - old * z BY <3>4, <3>6, <2>8
      <4>3. Change(i, j) = delta * z
        <5>1. j \in others => Change(i, j) = delta * z BY <3>6
        <5>2. j \notin others => z = 0 /\ Change(i, j) = 0 BY <3>5, <3>6
        <5>3. delta \in Int BY <1>1
        <5>4. delta * 0 = 0 BY <5>3
        <5> HIDE DEF Change, z, delta, others
        <5> QED BY <5>1, <5>2, <5>4
      <4>4. delta * z = r * z - old * z BY <2>3, <4>1, Distribute
      <4>5. r * z \in Int /\ old * z \in Int BY <2>3, <4>1
      <4> HIDE DEF z, r, old, delta, Change
      <4> QED BY <3>1, <3>2, <4>1, <4>2, <4>3, <4>4, <4>5
    <3>7. CASE i # a /\ j = a
      <4> DEFINE z == m.x[<<w, i>>]
      <4>1. z \in Int /\ Gram(m.x)[i][j] \in Int BY <2>2, <1>1, GramType
      <4>2. Gram(y)[i][j] = Gram(m.x)[i][j] + z * r - z * old BY <3>4, <3>7, <2>8
      <4>3. Change(i, j) = delta * z
        <5>1. i \in others => Change(i, j) = delta * z BY <3>7
        <5>2. i \notin others => z = 0 /\ Change(i, j) = 0 BY <3>5, <3>7
        <5>3. delta \in Int BY <1>1
        <5>4. delta * 0 = 0 BY <5>3
        <5> HIDE DEF Change, z, delta, others
        <5> QED BY <5>1, <5>2, <5>4
      <4>4. delta * z = z * r - z * old BY <2>3, <4>1, Distribute
      <4>5. z * r \in Int /\ z * old \in Int BY <2>3, <4>1
      <4> HIDE DEF z, r, old, delta, Change
      <4> QED BY <3>1, <3>2, <4>1, <4>2, <4>3, <4>4, <4>5
    <3> QED BY <3>3, <3>6, <3>7, <2>11
  <2>12. Stats(n) BY <2>7, <2>10, <2>11 DEF Stats
  <2>13. Recorded(n) BY <2>7, <1>3 DEF Recorded
  <2>14. QED BY <2>7, <2>12, <2>13 DEF observed, n, y
<1>6. QED BY <1>4, <1>5

-----------------------------------------------------------------------------
(* Folds over the rows of a batch *)

\* A set of numbers below a bound has a largest one.
LEMMA MaxIn ==
    ASSUME NEW n \in Nat, NEW s \in SUBSET (1..n), s # {}
    PROVE  Max(s) \in s /\ Max(s) \in 1..n /\ \A y \in s : Max(s) >= y
<1> DEFINE T == {j..n : j \in s}
           U == 1..n
<1>1. IsFiniteSet(U) BY FS_Interval
<1>2. T \in SUBSET (SUBSET U) /\ T # {}
  <2>1. \A j \in s : j..n \in SUBSET U OBVIOUS
  <2> HIDE DEF U
  <2>2. QED BY <2>1
<1>3. PICK t \in T : \A r \in T : r \subseteq t => r = t
  <2> HIDE DEF T, U
  <2> QED BY ONLY <1>1, <1>2, SmallestSet
<1>4. PICK j \in s : t = j..n OBVIOUS
<1>5. \A y \in s : j >= y
  <2> SUFFICES ASSUME NEW y \in s, j < y PROVE FALSE OBVIOUS
  <2>1. y..n \in T /\ y..n \subseteq t /\ j \in t /\ j \notin y..n BY <1>4
  <2>2. QED BY <1>3, <2>1
<1>6. Max(s) \in s /\ \A y \in s : Max(s) >= y
  BY <1>5, Zenon DEF Max
<1>7. QED BY <1>6

LEMMA Segment ==
    ASSUME NEW n \in Nat, NEW k \in 1..n
    PROVE  /\ 1..k \in SUBSET (1..n) /\ 1..(k - 1) \in SUBSET (1..n) /\ 1..k # {}
           /\ Max(1..k) = k /\ (1..k) \ {k} = 1..(k - 1)
<1>1. 1..k \in SUBSET (1..n) /\ 1..k # {} /\ k \in 1..k OBVIOUS
<1>2. Max(1..k) \in 1..k /\ Max(1..k) >= k BY <1>1, MaxIn
<1>3. Max(1..k) = k BY <1>2
<1>4. QED BY <1>1, <1>3

\* The recursion of a fold over a batch, and what it is after every row.
FoldsBatch(h, n, base, op, batch) ==
    \A s \in SUBSET (1..n) :
        h[s] = IF s = {} THEN base ELSE op[<<h[s \ {Max(s)}], batch[Max(s)]>>]

\* The fold over a batch is a recursion along its rows.
LEMMA BatchFold ==
    ASSUME NEW n \in Nat, NEW R, NEW batch \in [1..n -> R], NEW V, NEW base \in V,
           NEW op \in [V \X R -> V]
    PROVE  \E h \in [SUBSET (1..n) -> V] : FoldsBatch(h, n, base, op, batch)
<1> DEFINE D == 1..n
           pick == [s \in SUBSET D |-> Max(s)]
           step == [p \in V \X D |-> op[<<p[1], batch[p[2]]>>]]
<1>1. \A s \in SUBSET D : s # {} => Max(s) \in s /\ Max(s) \in D /\ pick[s] = Max(s)
  BY MaxIn
<1>2. step \in [V \X D -> V]
  <2> SUFFICES ASSUME NEW p \in V \X D PROVE op[<<p[1], batch[p[2]]>>] \in V
    OBVIOUS
  <2>1. p[1] \in V /\ batch[p[2]] \in R OBVIOUS
  <2>2. <<p[1], batch[p[2]]>> \in V \X R BY <2>1
  <2>3. QED BY <2>2
<1>3. Picks(pick, D)
  <2> HIDE DEF pick, D
  <2> QED BY <1>1 DEF Picks
<1>4. IsFiniteSet(D) BY FS_Interval
<1>5. PICK h \in [SUBSET D -> V] : Folds(h, D, base, step, pick)
  <2> HIDE DEF pick, step, D
  <2> QED BY ONLY <1>2, <1>3, <1>4, base \in V, FoldExists
<1>6. ASSUME NEW s \in SUBSET D
      PROVE  h[s] = IF s = {} THEN base ELSE op[<<h[s \ {Max(s)}], batch[Max(s)]>>]
  <2>1. h[s] = IF s = {} THEN base ELSE step[<<h[s \ {pick[s]}], pick[s]>>]
    <3> HIDE DEF pick, step, D
    <3> QED BY <1>5 DEF Folds
  <2>2. s # {} => h[s \ {Max(s)}] \in V /\ Max(s) \in D /\ pick[s] = Max(s)
    <3>1. s \ {Max(s)} \in SUBSET D OBVIOUS
    <3> HIDE DEF pick, step, D
    <3> QED BY <1>1, <3>1
  <2>3. s # {} => step[<<h[s \ {Max(s)}], Max(s)>>] = op[<<h[s \ {Max(s)}], batch[Max(s)]>>]
    <3> HIDE DEF pick, D
    <3> QED BY <2>2
  <2> HIDE DEF pick, step, D
  <2>4. QED BY <2>1, <2>2, <2>3
<1>7. QED BY <1>6, Zenon DEF FoldsBatch

Traces(t, h, n, V, base, op, batch) ==
    /\ t \in [0..n -> V]
    /\ t[0] = base
    /\ \A k \in 1..n : t[k] = op[<<t[k - 1], batch[k]>>]
    /\ t[n] = h[1..n]

\* The states that such a fold passes through, one for each row of the batch.
LEMMA FoldTrace ==
    ASSUME NEW n \in Nat, NEW V, NEW h \in [SUBSET (1..n) -> V],
           NEW base, NEW op, NEW batch, FoldsBatch(h, n, base, op, batch)
    PROVE  \E t : Traces(t, h, n, V, base, op, batch)
<1> DEFINE t == [k \in 0..n |-> h[1..k]]
<1>1. \A k \in 0..n : 1..k \in SUBSET (1..n) OBVIOUS
<1>2. t \in [0..n -> V] BY <1>1
<1>3. t[0] = base
  <2>1. 1..0 = {} /\ {} \in SUBSET (1..n) OBVIOUS
  <2>2. t[0] = h[{}] BY <2>1
  <2> HIDE DEF t
  <2>3. QED BY <2>1, <2>2 DEF FoldsBatch
<1>4. ASSUME NEW k \in 1..n PROVE t[k] = op[<<t[k - 1], batch[k]>>]
  <2>1. t[k] = h[1..k] /\ t[k - 1] = h[1..(k - 1)] OBVIOUS
  <2>2. h[1..k] = op[<<h[(1..k) \ {Max(1..k)}], batch[Max(1..k)]>>]
    BY Segment DEF FoldsBatch
  <2> HIDE DEF t
  <2>3. QED BY <2>1, <2>2, Segment
<1>5. t[n] = h[1..n] OBVIOUS
<1> HIDE DEF t
<1>6. QED BY <1>2, <1>3, <1>4, <1>5 DEF Traces

\* The ratings that a batch leaves: those of the rows read so far, the rest unchanged.
LEMMA RateTrace ==
    ASSUME NEW n \in Nat, NEW batch \in [1..n -> Row], NEW x \in Interactions
    PROVE  \E p \in [0..n -> Interactions] :
               /\ p[0] = x
               /\ \A k \in 1..n : p[k] = Rate(p[k - 1], batch[k])
               /\ FoldLeft(Rate, x, batch) = p[n]
<1> DEFINE Body(g) == [s \in SUBSET (1..n) |->
                IF s = {} THEN x ELSE Rate(g[s \ {Max(s)}], batch[Max(s)])]
           op == [q \in Interactions \X Row |-> Rate(q[1], q[2])]
           g == CHOOSE g : g = Body(g)
<1>1. FoldLeft(Rate, x, batch) = g[1..n]
  <2>1. DOMAIN batch = 1..n OBVIOUS
  <2>2. FoldLeft(Rate, x, batch) =
            (CHOOSE f : f = [s \in SUBSET (DOMAIN batch) |->
                IF s = {} THEN x ELSE Rate(f[s \ {Max(s)}], batch[Max(s)])])[DOMAIN batch]
    BY Zenon DEF FoldLeft, MapThenFoldSet
  <2>3. QED BY <2>1, <2>2, Zenon
<1>2. op \in [Interactions \X Row -> Interactions]
  <2> SUFFICES ASSUME NEW q \in Interactions \X Row PROVE Rate(q[1], q[2]) \in Interactions
    OBVIOUS
  <2>1. q[1] \in Interactions /\ q[2] \in Row OBVIOUS
  <2>2. QED BY <2>1, RateAt
<1>3. \A z \in Interactions, row \in Row : op[<<z, row>>] = Rate(z, row)
  <2> TAKE z \in Interactions, row \in Row
  <2>1. <<z, row>> \in Interactions \X Row OBVIOUS
  <2>2. QED BY <2>1
<1>4. PICK h \in [SUBSET (1..n) -> Interactions] : FoldsBatch(h, n, x, op, batch)
  <2> HIDE DEF op
  <2> QED BY <1>2, BatchFold
<1>5. \A s \in SUBSET (1..n) :
          h[s] = IF s = {} THEN x ELSE Rate(h[s \ {Max(s)}], batch[Max(s)])
  <2> TAKE s \in SUBSET (1..n)
  <2>1. h[s] = IF s = {} THEN x ELSE op[<<h[s \ {Max(s)}], batch[Max(s)]>>]
    <3> HIDE DEF op
    <3> QED BY <1>4 DEF FoldsBatch
  <2>2. s # {} => h[s \ {Max(s)}] \in Interactions /\ batch[Max(s)] \in Row
    BY MaxIn
  <2> HIDE DEF op
  <2>3. QED BY <1>3, <2>1, <2>2
<1>6. h = Body(h) BY <1>5
<1>7. g = Body(g) BY <1>6, Zenon
<1> HIDE DEF g
<1>8. g = h
  <2> DEFINE T == {s \in SUBSET (1..n) : g[s] # h[s]}
             U == 1..n
  <2>1. ASSUME T # {} PROVE FALSE
    <3>1. PICK s \in T : \A r \in T : r \subseteq s => r = s
      <4>1. T \in SUBSET (SUBSET U) /\ IsFiniteSet(U) BY FS_Interval
      <4> HIDE DEF T, U
      <4> QED BY ONLY <4>1, <2>1, SmallestSet
    <3>2. g[s] = IF s = {} THEN x ELSE Rate(g[s \ {Max(s)}], batch[Max(s)]) BY <1>7
    <3>3. h[s] = IF s = {} THEN x ELSE Rate(h[s \ {Max(s)}], batch[Max(s)]) BY <1>5
    <3>4. s # {} BY <3>2, <3>3
    <3>5. Max(s) \in s BY <3>4, MaxIn
    <3>6. s \ {Max(s)} \notin T BY <3>1, <3>5
    <3>7. g[s \ {Max(s)}] = h[s \ {Max(s)}] BY <3>6
    <3>8. QED BY <3>2, <3>3, <3>7
  <2>2. QED BY <2>1, <1>7
<1>9. PICK p : Traces(p, h, n, Interactions, x, op, batch)
  <2> HIDE DEF op
  <2> QED BY <1>4, FoldTrace
<1>10. \A k \in 1..n : p[k] = Rate(p[k - 1], batch[k])
  <2> TAKE k \in 1..n
  <2>1. p[k] = op[<<p[k - 1], batch[k]>>]
    <3> HIDE DEF op
    <3> QED BY <1>9 DEF Traces
  <2>2. p[k - 1] \in Interactions /\ batch[k] \in Row BY <1>9 DEF Traces
  <2> HIDE DEF op
  <2>3. QED BY <1>3, <2>1, <2>2
<1>11. QED BY <1>1, <1>8, <1>9, <1>10 DEF Traces

\* The state of the itemwise loop.
Taking == {s \in [ok : BOOLEAN, m : ModelStates, touched : SUBSET Items] :
               Stats(s.m) /\ Recorded(s.m)}

LEMMA TakeType ==
    ASSUME NEW s \in Taking, NEW row \in Row \cup {BadRow}
    PROVE  Take(s, row) \in Taking
<1>1. s.m \in ModelStates /\ Stats(s.m) /\ Recorded(s.m) /\ s.touched \in SUBSET Items
      /\ s.ok \in BOOLEAN
  BY DEF Taking
<1>2. CASE s.ok /\ Valid(row)
  <2> DEFINE n == ApplyRow(s.m, row)
             touched == s.touched \cup Touched(s.m, row)
  <2>1. row \in Row BY <1>2, BadRowInvalid
  <2>2. n \in ModelStates /\ Stats(n) /\ Recorded(n) BY <1>1, <2>1, AppliedRow, Zenon
  <2>3. touched \in SUBSET Items
    <3>1. Touched(s.m, row) \subseteq Items BY <2>1 DEF Touched, Row
    <3> QED BY <1>1, <3>1
  <2>4. Take(s, row) = [ok |-> TRUE, m |-> n, touched |-> touched]
    BY <1>2 DEF Take
  <2> HIDE DEF n, touched
  <2>5. QED BY <2>2, <2>3, <2>4 DEF Taking
<1>3. CASE ~(s.ok /\ Valid(row))
  <2>1. Take(s, row) = [s EXCEPT !.ok = FALSE] BY <1>3 DEF Take
  <2>2. QED BY <2>1 DEF Taking
<1>4. QED BY <1>2, <1>3

\* The states the itemwise update passes through, up to the first invalid row.
LEMMA TakeTrace ==
    ASSUME NEW n \in Nat, NEW batch \in [1..n -> Row \cup {BadRow}],
           NEW m \in ModelStates, Stats(m), Recorded(m)
    PROVE  \E t \in [0..n -> Taking] :
               /\ t[0] = [ok |-> TRUE, m |-> m, touched |-> {}]
               /\ \A k \in 1..n : t[k] = Take(t[k - 1], batch[k])
               /\ Taken(m, batch) = t[n]
<1> DEFINE R == Row \cup {BadRow}
           base == [ok |-> TRUE, m |-> m, touched |-> {}]
           Body(g) == [s \in SUBSET (1..n) |->
                IF s = {} THEN base ELSE Take(g[s \ {Max(s)}], batch[Max(s)])]
           op == [q \in Taking \X R |-> Take(q[1], q[2])]
           g == CHOOSE g : g = Body(g)
<1>1. Taken(m, batch) = g[1..n]
  <2>1. DOMAIN batch = 1..n OBVIOUS
  <2>2. FoldLeft(Take, base, batch) =
            (CHOOSE f : f = [s \in SUBSET (DOMAIN batch) |->
                IF s = {} THEN base ELSE Take(f[s \ {Max(s)}], batch[Max(s)])])[DOMAIN batch]
    BY Zenon DEF FoldLeft, MapThenFoldSet
  <2>3. QED BY <2>1, <2>2, Zenon DEF Taken
<1>2. base \in Taking BY DEF Taking
<1> HIDE DEF base
<1>3. op \in [Taking \X R -> Taking]
  <2> SUFFICES ASSUME NEW q \in Taking \X R PROVE Take(q[1], q[2]) \in Taking
    OBVIOUS
  <2>1. q[1] \in Taking /\ q[2] \in R
    <3> HIDE DEF R
    <3> QED OBVIOUS
  <2>2. QED BY <2>1, TakeType
<1>4. \A z \in Taking, row \in R : op[<<z, row>>] = Take(z, row)
  <2> TAKE z \in Taking, row \in R
  <2> HIDE DEF R
  <2>1. <<z, row>> \in Taking \X R OBVIOUS
  <2>2. QED BY <2>1
<1>5. PICK h \in [SUBSET (1..n) -> Taking] : FoldsBatch(h, n, base, op, batch)
  <2>1. batch \in [1..n -> R] OBVIOUS
  <2> HIDE DEF op, R
  <2> QED BY <1>2, <1>3, <2>1, BatchFold
<1>6. \A s \in SUBSET (1..n) :
          h[s] = IF s = {} THEN base ELSE Take(h[s \ {Max(s)}], batch[Max(s)])
  <2> TAKE s \in SUBSET (1..n)
  <2>1. h[s] = IF s = {} THEN base ELSE op[<<h[s \ {Max(s)}], batch[Max(s)]>>]
    <3> HIDE DEF op
    <3> QED BY <1>5 DEF FoldsBatch
  <2>2. s # {} => h[s \ {Max(s)}] \in Taking /\ batch[Max(s)] \in R
    <3>1. batch \in [1..n -> R] OBVIOUS
    <3> HIDE DEF R
    <3> QED BY <3>1, MaxIn
  <2> HIDE DEF op, R
  <2>3. QED BY <1>4, <2>1, <2>2
<1>7. h = Body(h) BY <1>6
<1>8. g = Body(g) BY <1>7, Zenon
<1> HIDE DEF g
<1>9. g = h
  <2> DEFINE T == {s \in SUBSET (1..n) : g[s] # h[s]}
             U == 1..n
  <2>1. ASSUME T # {} PROVE FALSE
    <3>1. PICK s \in T : \A r \in T : r \subseteq s => r = s
      <4>1. T \in SUBSET (SUBSET U) /\ IsFiniteSet(U) BY FS_Interval
      <4> HIDE DEF T, U
      <4> QED BY ONLY <4>1, <2>1, SmallestSet
    <3>2. g[s] = IF s = {} THEN base ELSE Take(g[s \ {Max(s)}], batch[Max(s)]) BY <1>8
    <3>3. h[s] = IF s = {} THEN base ELSE Take(h[s \ {Max(s)}], batch[Max(s)]) BY <1>6
    <3>4. s # {} BY <3>2, <3>3
    <3>5. Max(s) \in s BY <3>4, MaxIn
    <3>6. s \ {Max(s)} \notin T BY <3>1, <3>5
    <3>7. g[s \ {Max(s)}] = h[s \ {Max(s)}] BY <3>6
    <3>8. QED BY <3>2, <3>3, <3>7
  <2>2. QED BY <2>1, <1>8
<1>10. PICK t : Traces(t, h, n, Taking, base, op, batch)
  <2> HIDE DEF op
  <2> QED BY <1>5, FoldTrace
<1>11. \A k \in 1..n : t[k] = Take(t[k - 1], batch[k])
  <2> TAKE k \in 1..n
  <2>1. t[k] = op[<<t[k - 1], batch[k]>>]
    <3> HIDE DEF op
    <3> QED BY <1>10 DEF Traces
  <2>2. t[k - 1] \in Taking /\ batch[k] \in R
    <3>1. batch \in [1..n -> R] OBVIOUS
    <3> HIDE DEF R
    <3> QED BY <1>10, <3>1 DEF Traces
  <2> HIDE DEF op, R
  <2>3. QED BY <1>4, <2>1, <2>2
<1>12. QED BY <1>1, <1>9, <1>10, <1>11 DEF Traces, base

-----------------------------------------------------------------------------
(* The itemwise loop *)

\* What the itemwise loop has done to the state m it began with.
Loop(s, m) ==
    /\ s \in Taking
    /\ s.m.sims = m.sims /\ s.m.near = m.near /\ s.m.means = m.means
    /\ m.observed \subseteq s.m.observed
    /\ \A i \in Items \ s.touched, u \in Users :
           /\ m.x[<<u, i>>] = s.m.x[<<u, i>>]
           /\ <<u, i>> \in m.observed <=> <<u, i>> \in s.m.observed
    /\ \A u \in Users, j \in Items : m.x[<<u, j>>] # s.m.x[<<u, j>>] =>
           \A i \in Items : <<u, i>> \in m.observed => i \in s.touched

\* One row of the itemwise update keeps the statistics fitting the ratings and
\* marks every item whose similarities or mean it makes stale.
LEMMA LoopStep ==
    ASSUME NEW m, NEW s, Loop(s, m), NEW row \in Row \cup {BadRow}
    PROVE  Loop(Take(s, row), m)
<1>1. s \in Taking BY DEF Loop
<1>2. s.m \in ModelStates /\ Stats(s.m) /\ Recorded(s.m) /\ s.touched \in SUBSET Items
  BY <1>1 DEF Taking
<1>3. Take(s, row) \in Taking BY <1>1, TakeType
<1>4. CASE ~(s.ok /\ Valid(row))
  <2>1. Take(s, row) = [s EXCEPT !.ok = FALSE] BY <1>4 DEF Take
  <2>2. Take(s, row).m = s.m /\ Take(s, row).touched = s.touched
    BY <1>1, <2>1 DEF Taking
  <2>3. QED BY <1>3, <2>2 DEF Loop
<1>5. CASE s.ok /\ Valid(row)
  <2> DEFINE e == Take(s, row)
             n == ApplyRow(s.m, row)
             cell == <<row.user, row.item>>
             y == Rate(s.m.x, row)
  <2>1. row \in Row BY <1>5, BadRowInvalid
  <2>2. e.m = n /\ e.touched = s.touched \cup Touched(s.m, row) BY <1>5 DEF Take
  <2>3. /\ n.x = y /\ n.observed = s.m.observed \cup {cell}
        /\ n.sims = s.m.sims /\ n.near = s.m.near /\ n.means = s.m.means
    BY <1>2, <2>1, AppliedRow, Zenon
  <2> HIDE DEF e, n
  <2>4. row.user \in Users /\ row.item \in Items BY <2>1 DEF Row
  <2>5. \A u \in Users, i \in Items :
            y[<<u, i>>] = IF u = row.user /\ i = row.item THEN row.rating ELSE s.m.x[<<u, i>>]
    <3>1. s.m.x \in Interactions BY <1>2 DEF ModelStates
    <3> QED BY <2>1, <3>1, RateAt
  <2>6. \A u \in Users, i \in Items : <<u, i>> \in n.observed <=>
            (u = row.user /\ i = row.item) \/ <<u, i>> \in s.m.observed
    BY <2>3
  <2> HIDE DEF y
  <2>7. ASSUME NEW i \in Items \ e.touched, NEW u \in Users
        PROVE  /\ m.x[<<u, i>>] = n.x[<<u, i>>]
               /\ <<u, i>> \in m.observed <=> <<u, i>> \in n.observed
    <3>1. i \notin s.touched /\ i \notin Touched(s.m, row) BY <2>2
    <3>2. m.x[<<u, i>>] = s.m.x[<<u, i>>] /\ (<<u, i>> \in m.observed <=> <<u, i>> \in s.m.observed)
      BY <3>1 DEF Loop
    <3>3. i = row.item => s.m.x[cell] = row.rating /\ cell \in s.m.observed
      BY <3>1 DEF Touched
    <3>4. QED BY <2>3, <2>5, <2>6, <3>2, <3>3
  <2>8. ASSUME NEW u \in Users, NEW j \in Items, m.x[<<u, j>>] # n.x[<<u, j>>],
               NEW i \in Items, <<u, i>> \in m.observed
        PROVE  i \in e.touched
    <3>1. CASE m.x[<<u, j>>] # s.m.x[<<u, j>>]
      BY <2>2, <2>8, <3>1 DEF Loop
    <3>2. CASE m.x[<<u, j>>] = s.m.x[<<u, j>>]
      <4>1. u = row.user /\ j = row.item /\ s.m.x[cell] # row.rating
        BY <2>3, <2>5, <2>8, <3>2
      <4>2. <<u, i>> \in s.m.observed BY <2>8 DEF Loop
      <4>3. i \in Touched(s.m, row) BY <4>1, <4>2 DEF Touched
      <4>4. QED BY <2>2, <4>3
    <3>3. QED BY <3>1, <3>2
  <2>9. m.observed \subseteq n.observed BY <2>3 DEF Loop
  <2>10. s.m.sims = m.sims /\ s.m.near = m.near /\ s.m.means = m.means BY DEF Loop
  <2>11. QED BY <1>3, <2>2, <2>3, <2>7, <2>8, <2>9, <2>10 DEF Loop, e
<1>6. QED BY <1>4, <1>5

\* What the loop makes of a batch.
LEMMA LoopEnd ==
    ASSUME NEW n \in Nat, NEW batch \in [1..n -> Row \cup {BadRow}],
           NEW m \in ModelStates, Stats(m), Recorded(m)
    PROVE  /\ Loop(Taken(m, batch), m)
           /\ Taken(m, batch).ok => \A k \in 1..n : Valid(batch[k])
           /\ (\A k \in 1..n : Valid(batch[k])) =>
                  /\ Taken(m, batch).ok
                  /\ Taken(m, batch).m.x = FoldLeft(Rate, m.x, batch)
                  /\ Taken(m, batch).m.observed =
                         m.observed \cup {<<batch[k].user, batch[k].item>> : k \in 1..n}
<1> DEFINE base == [ok |-> TRUE, m |-> m, touched |-> {}]
           R == Row \cup {BadRow}
<1>1. PICK t \in [0..n -> Taking] :
          /\ t[0] = base
          /\ \A k \in 1..n : t[k] = Take(t[k - 1], batch[k])
          /\ Taken(m, batch) = t[n]
  BY TakeTrace
<1>2. batch \in [1..n -> R] OBVIOUS
<1>3. \A k \in 1..n : batch[k] \in R
  <2> HIDE DEF R
  <2> QED BY <1>2
<1>4. base \in Taking BY DEF Taking
<1>5. Loop(base, m)
  <2>1. base.m = m /\ base.touched = {} OBVIOUS
  <2> HIDE DEF base
  <2>2. QED BY <1>4, <2>1 DEF Loop
<1> HIDE DEF base
<1>6. Loop(t[n], m)
  <2> DEFINE S == {k \in Nat : k <= n => Loop(t[k], m)}
  <2>1. 0 \in S BY <1>1, <1>5
  <2>2. ASSUME NEW k \in Nat, k \in S PROVE k + 1 \in S
    <3> SUFFICES ASSUME k + 1 <= n PROVE Loop(t[k + 1], m) OBVIOUS
    <3>1. Loop(t[k], m) BY <2>2
    <3>2. k + 1 \in 1..n /\ (k + 1) - 1 = k OBVIOUS
    <3>3. t[k + 1] = Take(t[k], batch[k + 1]) BY <1>1, <3>2
    <3>4. batch[k + 1] \in R BY <1>3, <3>2
    <3>5. QED BY <3>1, <3>3, <3>4, LoopStep
  <2> HIDE DEF S
  <2>3. n \in S BY <2>1, <2>2, Climb
  <2>4. QED BY <2>3 DEF S
<1>7. t[n].ok => \A k \in 1..n : Valid(batch[k])
  <2> DEFINE S == {k \in Nat : k <= n => (t[k].ok => \A l \in 1..k : Valid(batch[l]))}
  <2>1. 0 \in S OBVIOUS
  <2>2. ASSUME NEW k \in Nat, k \in S PROVE k + 1 \in S
    <3> SUFFICES ASSUME k + 1 <= n, t[k + 1].ok PROVE \A l \in 1..(k + 1) : Valid(batch[l])
      OBVIOUS
    <3>1. t[k].ok => \A l \in 1..k : Valid(batch[l]) BY <2>2
    <3>2. k + 1 \in 1..n /\ (k + 1) - 1 = k /\ k \in 0..n OBVIOUS
    <3>3. t[k + 1] = Take(t[k], batch[k + 1]) /\ t[k] \in Taking BY <1>1, <3>2
    <3>4. t[k].ok /\ Valid(batch[k + 1])
      <4> SUFFICES ASSUME ~(t[k].ok /\ Valid(batch[k + 1])) PROVE FALSE OBVIOUS
      <4>1. t[k + 1] = [t[k] EXCEPT !.ok = FALSE] BY <3>3 DEF Take
      <4>2. t[k + 1].ok = FALSE BY <3>3, <4>1 DEF Taking
      <4>3. QED BY <4>2
    <3>5. \A l \in 1..(k + 1) : l \in 1..k \/ l = k + 1 OBVIOUS
    <3>6. QED BY <3>1, <3>4, <3>5
  <2> HIDE DEF S
  <2>3. n \in S BY <2>1, <2>2, Climb
  <2>4. QED BY <2>3 DEF S
<1>8. ASSUME \A k \in 1..n : Valid(batch[k])
      PROVE  /\ t[n].ok /\ t[n].m.x = FoldLeft(Rate, m.x, batch)
             /\ t[n].m.observed =
                    m.observed \cup {<<batch[k].user, batch[k].item>> : k \in 1..n}
  <2>1. batch \in [1..n -> Row] /\ \A k \in 1..n : batch[k] \in Row
    <3>1. \A k \in 1..n : batch[k] \in Row BY <1>3, <1>8, BadRowInvalid
    <3> QED BY <3>1
  <2>2. m.x \in Interactions BY DEF ModelStates
  <2>3. PICK p \in [0..n -> Interactions] :
            /\ p[0] = m.x
            /\ \A k \in 1..n : p[k] = Rate(p[k - 1], batch[k])
            /\ FoldLeft(Rate, m.x, batch) = p[n]
    BY <2>1, <2>2, RateTrace
  <2> DEFINE Rated(k) == {<<batch[l].user, batch[l].item>> : l \in 1..k}
             Good(k) == t[k].ok /\ t[k].m.x = p[k] /\ t[k].m.observed = m.observed \cup Rated(k)
             S == {k \in Nat : k <= n => Good(k)}
  <2>4. 0 \in S
    <3>1. t[0].ok /\ t[0].m = m BY <1>1 DEF base
    <3>2. Rated(0) = {} OBVIOUS
    <3>3. QED BY <2>3, <3>1, <3>2
  <2>5. ASSUME NEW k \in Nat, k \in S PROVE k + 1 \in S
    <3> SUFFICES ASSUME k + 1 <= n PROVE Good(k + 1) OBVIOUS
    <3>1. Good(k) BY <2>5
    <3>2. k + 1 \in 1..n /\ (k + 1) - 1 = k /\ k \in 0..n OBVIOUS
    <3>3. t[k + 1] = Take(t[k], batch[k + 1]) /\ t[k] \in Taking BY <1>1, <3>2
    <3>4. batch[k + 1] \in Row /\ Valid(batch[k + 1]) BY <1>8, <2>1, <3>2
    <3>5. p[k + 1] = Rate(p[k], batch[k + 1]) BY <2>3, <3>2
    <3>6. t[k + 1].ok /\ t[k + 1].m = ApplyRow(t[k].m, batch[k + 1])
      BY <3>1, <3>3, <3>4 DEF Take
    <3>7. t[k].m \in ModelStates /\ Stats(t[k].m) /\ Recorded(t[k].m) BY <3>3 DEF Taking
    <3>8. /\ t[k + 1].m.x = Rate(t[k].m.x, batch[k + 1])
          /\ t[k + 1].m.observed =
                 t[k].m.observed \cup {<<batch[k + 1].user, batch[k + 1].item>>}
      <4> DEFINE z == t[k].m
                 row == batch[k + 1]
      <4>1. z \in ModelStates /\ Stats(z) /\ Recorded(z) /\ row \in Row BY <3>4, <3>7
      <4> HIDE DEF z, row
      <4>2. /\ ApplyRow(z, row).x = Rate(z.x, row)
            /\ ApplyRow(z, row).observed = z.observed \cup {<<row.user, row.item>>}
        BY <4>1, AppliedRow, Zenon
      <4>3. QED BY <3>6, <4>2 DEF z, row
    <3>9. Rated(k + 1) = Rated(k) \cup {<<batch[k + 1].user, batch[k + 1].item>>}
      <4>1. \A l : l \in 1..(k + 1) <=> l \in 1..k \/ l = k + 1 OBVIOUS
      <4> QED BY <4>1
    <3>10. t[k].m.x = p[k] /\ t[k].m.observed = m.observed \cup Rated(k) BY <3>1
    <3> HIDE DEF Rated
    <3>11. t[k + 1].m.observed = m.observed \cup Rated(k + 1) BY <3>8, <3>9, <3>10
    <3>12. t[k + 1].m.x = p[k + 1] BY <3>5, <3>8, <3>10
    <3>13. QED BY <3>6, <3>11, <3>12
  <2> HIDE DEF S
  <2>6. n \in S BY <2>4, <2>5, Climb
  <2>7. Good(n) BY <2>6 DEF S
  <2>8. QED BY <2>3, <2>7
<1>9. QED BY <1>1, <1>6, <1>7, <1>8

-----------------------------------------------------------------------------
(* What a batch does to each form *)

\* The similarities and means of m are those of a fit.
Fresh(m) == m.sims = Cosines(m.x) /\ m.means = Averages(m.x, m.observed)

\* RatedHaveNearest for a model that an update takes from m to n.
RatedNear(m, n) ==
    \A i \in Items :
        (\E u \in Users : /\ \E j \in Items : m.x[<<u, j>>] # n.x[<<u, j>>]
                          /\ m.x[<<u, i>>] > 0 \/ n.x[<<u, i>>] > 0)
        => n.near[i] = Nearest(n.sims[i], i, Width)

\* The cells a batch rates.
RowCells(batch) == {<<r.user, r.item>> : r \in ToSet(batch)}

\* What the itemwise update promises: fitting statistics in any case and, for a
\* batch without an invalid row, a model with exact similarities and means and with the
\* ratings of the batch.
LEMMA ItemwiseResult ==
    ASSUME NEW n \in Nat, NEW batch \in [1..n -> Row \cup {BadRow}],
           NEW m \in ModelStates, Stats(m), Recorded(m), Fresh(m)
    PROVE  LET e == Itemwise(m, batch)
           IN /\ e \in ModelStates /\ Stats(e) /\ Recorded(e)
              /\ (\A r \in ToSet(batch) : Valid(r)) =>
                     /\ Fresh(e) /\ RatedNear(m, e)
                     /\ e.x = FoldLeft(Rate, m.x, batch)
                     /\ e.observed = m.observed \cup RowCells(batch)
<1> DEFINE end == Taken(m, batch)
           rested == RefreshMeans(end.m, end.touched)
           e == Itemwise(m, batch)
<1>1. /\ Loop(end, m)
      /\ end.ok => \A k \in 1..n : Valid(batch[k])
      /\ (\A k \in 1..n : Valid(batch[k])) =>
             /\ end.ok /\ end.m.x = FoldLeft(Rate, m.x, batch)
             /\ end.m.observed = m.observed \cup {<<batch[k].user, batch[k].item>> : k \in 1..n}
  BY LoopEnd
<1>2. e = IF end.ok THEN RefreshRows("itemwise", rested, end.touched) ELSE end.m
  BY DEF Itemwise
<1>3. ToSet(batch) = {batch[k] : k \in 1..n} BY DEF ToSet
<1>4. /\ (\A r \in ToSet(batch) : Valid(r)) <=> (\A k \in 1..n : Valid(batch[k]))
      /\ RowCells(batch) = {<<batch[k].user, batch[k].item>> : k \in 1..n}
  BY <1>3 DEF RowCells
<1> HIDE DEF end, e, rested
<1>5. end.m \in ModelStates /\ Stats(end.m) /\ Recorded(end.m) /\ end.touched \in SUBSET Items
      /\ end.ok \in BOOLEAN
  BY <1>1 DEF Loop, Taking
<1>6. CASE ~end.ok
  <2>1. e = end.m BY <1>2, <1>6
  <2>2. ~ \A r \in ToSet(batch) : Valid(r) BY <1>1, <1>4, <1>6
  <2>3. QED BY <1>5, <2>1, <2>2 DEF e
<1>7. CASE end.ok
  <2>1. e = RefreshRows("itemwise", rested, end.touched) BY <1>2, <1>7
  <2>2. \A i \in Items \ end.touched, u \in Users :
            /\ m.x[<<u, i>>] = end.m.x[<<u, i>>]
            /\ <<u, i>> \in m.observed <=> <<u, i>> \in end.m.observed
    BY <1>1 DEF Loop
  <2>3. end.m.means = Averages(m.x, m.observed) /\ end.m.sims = Cosines(m.x)
        /\ m.x \in Interactions
    BY <1>1 DEF Loop, Fresh, ModelStates
  <2>4. /\ rested \in ModelStates
        /\ rested.x = end.m.x /\ rested.observed = end.m.observed
        /\ rested.sims = end.m.sims /\ rested.near = end.m.near
        /\ rested.dots = end.m.dots /\ rested.norm2 = end.m.norm2
        /\ rested.means = Averages(end.m.x, end.m.observed)
    BY <1>5, <2>2, <2>3, RefreshedMeans DEF rested
  <2>5. Stats(rested) BY <1>5, <2>4 DEF Stats
  <2>6. \A i \in Items \ end.touched, u \in Users : m.x[<<u, i>>] = rested.x[<<u, i>>]
    BY <2>2, <2>4
  <2>7. rested.sims = Cosines(m.x) BY <2>3, <2>4
  <2>8. /\ e \in ModelStates
        /\ e.x = rested.x /\ e.observed = rested.observed /\ e.means = rested.means
        /\ e.dots = rested.dots /\ e.norm2 = rested.norm2
        /\ e.sims = Cosines(rested.x)
        /\ \A i \in end.touched :
               e.near[i] = SelectNeighbors("itemwise", e.sims[i], i, Width)
    <3> DEFINE f == RefreshRows("itemwise", rested, end.touched)
    <3>1. /\ f \in ModelStates
          /\ f.x = rested.x /\ f.observed = rested.observed /\ f.means = rested.means
          /\ f.dots = rested.dots /\ f.norm2 = rested.norm2
          /\ f.sims = Cosines(rested.x)
          /\ \A i \in end.touched : f.near[i] = SelectNeighbors("itemwise", f.sims[i], i, Width)
      BY <1>5, <2>3, <2>4, <2>5, <2>6, <2>7, RefreshedRows
    <3>2. QED BY <2>1, <3>1, Zenon
  <2>9. Stats(e) BY <2>5, <2>8 DEF Stats
  <2>10. Recorded(e) BY <1>5, <2>4, <2>8 DEF Recorded
  <2>11. Fresh(e) BY <2>4, <2>8 DEF Fresh
  <2>12. RatedNear(m, e)
    <3> SUFFICES ASSUME NEW i \in Items, NEW u \in Users, NEW j \in Items,
                        m.x[<<u, j>>] # e.x[<<u, j>>],
                        m.x[<<u, i>>] > 0 \/ e.x[<<u, i>>] > 0
                 PROVE  e.near[i] = Nearest(e.sims[i], i, Width)
      BY DEF RatedNear
    <3>1. e.x = end.m.x BY <2>4, <2>8
    <3>2. i \in end.touched
      <4>1. CASE m.x[<<u, i>>] # end.m.x[<<u, i>>] BY <2>2, <4>1
      <4>2. CASE m.x[<<u, i>>] = end.m.x[<<u, i>>]
        <5>1. <<u, i>> \in Cells /\ m.x[<<u, i>>] # 0 BY <3>1, <4>2 DEF Cells
        <5>2. <<u, i>> \in m.observed BY <5>1 DEF Recorded
        <5>3. QED BY <1>1, <3>1, <5>2 DEF Loop
      <4>3. QED BY <4>1, <4>2
    <3>3. QED BY <2>8, <3>2 DEF SelectNeighbors
  <2>13. (\A r \in ToSet(batch) : Valid(r)) =>
             /\ e.x = FoldLeft(Rate, m.x, batch)
             /\ e.observed = m.observed \cup RowCells(batch)
    BY <1>1, <1>4, <2>4, <2>8
  <2>14. QED BY <2>8, <2>9, <2>10, <2>11, <2>12, <2>13 DEF e
<1>8. QED BY <1>5, <1>6, <1>7

\* Which cells the rows of a batch change.
LEMMA RateChanges ==
    ASSUME NEW n \in Nat, NEW batch \in [1..n -> Row], NEW x \in Interactions
    PROVE  /\ FoldLeft(Rate, x, batch) \in Interactions
           /\ \A c \in Cells : FoldLeft(Rate, x, batch)[c] # x[c] =>
                  \E r \in ToSet(batch) : <<r.user, r.item>> = c /\ r.rating # x[c]
<1>1. PICK p \in [0..n -> Interactions] :
          /\ p[0] = x
          /\ \A k \in 1..n : p[k] = Rate(p[k - 1], batch[k])
          /\ FoldLeft(Rate, x, batch) = p[n]
  BY RateTrace
<1>2. \A k \in 1..n : batch[k] \in ToSet(batch) /\ batch[k] \in Row BY DEF ToSet
<1> DEFINE From(k) == \A c \in Cells : p[k][c] = x[c] \/ \E r \in ToSet(batch) :
                          <<r.user, r.item>> = c /\ r.rating = p[k][c]
           S == {k \in Nat : k <= n => From(k)}
<1>3. 0 \in S BY <1>1
<1>4. ASSUME NEW k \in Nat, k \in S PROVE k + 1 \in S
  <2> SUFFICES ASSUME k + 1 <= n PROVE From(k + 1) OBVIOUS
  <2>1. From(k) BY <1>4
  <2>2. k + 1 \in 1..n /\ (k + 1) - 1 = k /\ k \in 0..n OBVIOUS
  <2>3. p[k + 1] = Rate(p[k], batch[k + 1]) /\ p[k] \in Interactions BY <1>1, <2>2
  <2>4. batch[k + 1] \in ToSet(batch) /\ batch[k + 1] \in Row BY <1>2, <2>2
  <2> SUFFICES ASSUME NEW c \in Cells
               PROVE  p[k + 1][c] = x[c] \/ \E r \in ToSet(batch) :
                          <<r.user, r.item>> = c /\ r.rating = p[k + 1][c]
    OBVIOUS
  <2>5. p[k + 1][c] = IF c = <<batch[k + 1].user, batch[k + 1].item>>
                      THEN batch[k + 1].rating ELSE p[k][c]
    BY <2>3, <2>4, RateAt
  <2>6. QED BY <2>1, <2>4, <2>5
<1> HIDE DEF S
<1>5. n \in S BY <1>3, <1>4, Climb
<1>6. From(n) BY <1>5 DEF S
<1>7. QED BY <1>1, <1>6

\* The forms of a batch differ in the refresh only.
EndsInRefresh(m, batch) ==
    \E state \in ModelStates, affected \in SUBSET Items : \A v :
        Batch(v, m, batch) = RefreshRows(v, state, affected)

\* What the batch update promises: a batch with an invalid row changes nothing, any
\* other leaves exactly what a fit of the new ratings would give.
LEMMA BatchResult ==
    ASSUME NEW n \in Nat, NEW batch \in [1..n -> Row], NEW v,
           NEW m \in ModelStates, m.dots = Gram(m.x), m.norm2 = Norms(m.x),
           Recorded(m), Fresh(m)
    PROVE  LET e == Batch(v, m, batch)
           IN /\ e \in ModelStates /\ e.dots = Gram(e.x) /\ e.norm2 = Norms(e.x)
              /\ Recorded(e) /\ Fresh(e)
              /\ e.x = FoldLeft(Rate, m.x, batch)
              /\ e.observed = m.observed \cup RowCells(batch)
              /\ v # "partial" => RatedNear(m, e)
              /\ EndsInRefresh(m, batch)
<1> DEFINE x == FoldLeft(Rate, m.x, batch)
           rows == ToSet(batch)
           changed == {r.user : r \in {q \in rows : Revises(m, q)}}
           before == Contribution(m.x, changed)
           after == Contribution(x, changed)
           dots == [i \in Items |-> [j \in Items |->
                       m.dots[i][j] + after[i][j] - before[i][j]]]
           dirty == {i \in Items : \E u \in changed : m.x[<<u, i>>] # 0 \/ x[<<u, i>>] # 0}
           stale == {r.item : r \in {q \in rows : Counts(m, q)}}
           observed == m.observed \cup RowCells(batch)
           norm2 == [i \in Items |-> dots[i][i]]
           new == [m EXCEPT !.x = x, !.observed = observed, !.dots = dots, !.norm2 = norm2]
           rested == RefreshMeans(new, stale)
           e == Batch(v, m, batch)
<1>1. \A r \in rows : r \in Row /\ Valid(r)
  <2>1. \A r \in rows : r \in Row BY DEF ToSet
  <2>2. QED BY <2>1, BadRowInvalid
<1>2. \A z : Batch(z, m, batch) = RefreshRows(z, rested, dirty)
  <2> TAKE z
  <2>1. m.observed \cup {<<r.user, r.item>> : r \in rows} = observed BY DEF RowCells
  <2>2. ~ \E r \in rows : ~Valid(r) BY <1>1
  <2>3. Batch(z, m, batch) =
            IF \E r \in rows : ~Valid(r) THEN m
            ELSE RefreshRows(z, RefreshMeans([m EXCEPT !.x = x,
                   !.observed = @ \cup {<<r.user, r.item>> : r \in rows},
                   !.dots = dots, !.norm2 = norm2], stale), dirty)
    BY Zenon DEF Batch
  <2>4. QED BY <2>1, <2>2, <2>3
<1>3. m.x \in Interactions /\ m.observed \subseteq Cells BY DEF ModelStates
<1>4. x \in Interactions /\ \A c \in Cells : x[c] # m.x[c] =>
          \E r \in rows : <<r.user, r.item>> = c /\ r.rating # m.x[c]
  BY <1>3, RateChanges
<1>5. \A r \in rows : r.user \in Users /\ r.item \in Items /\ <<r.user, r.item>> \in Cells
  BY <1>1 DEF Row, Cells
<1>6. changed \in SUBSET Users /\ stale \in SUBSET Items /\ dirty \in SUBSET Items
  BY <1>5
<1> HIDE DEF x, rows, e
<1>7. \A u \in Users \ changed, i \in Items : m.x[<<u, i>>] = x[<<u, i>>]
  <2> SUFFICES ASSUME NEW u \in Users, NEW i \in Items, x[<<u, i>>] # m.x[<<u, i>>]
               PROVE  u \in changed
    OBVIOUS
  <2>1. <<u, i>> \in Cells BY DEF Cells
  <2>2. PICK r \in rows : <<r.user, r.item>> = <<u, i>> /\ r.rating # m.x[<<u, i>>]
    BY <1>4, <2>1
  <2>3. Revises(m, r) /\ r.user = u BY <2>2 DEF Revises
  <2>4. QED BY <2>3
<1>8. \A i, j \in Items : dots[i][j] = Gram(x)[i][j]
  <2> TAKE i, j \in Items
  <2>1. Gram(m.x)[i][j] + after[i][j] - before[i][j] = Gram(x)[i][j]
    <3> HIDE DEF changed
    <3> QED BY <1>3, <1>4, <1>6, <1>7, GramReplace
  <2> HIDE DEF before, after
  <2>2. QED BY <2>1
<1>9. dots = Gram(x)
  <2>1. Gram(x) = [i \in Items |-> [j \in Items |-> Gram(x)[i][j]]] BY DEF Gram
  <2>2. dots = [i \in Items |-> [j \in Items |-> dots[i][j]]] OBVIOUS
  <2> HIDE DEF dots
  <2>3. QED BY <1>8, <2>1, <2>2
<1>10. dots \in Matrices /\ dots = Gram(x) BY <1>4, <1>9, GramType
<1> HIDE DEF dots
<1>11. norm2 = Norms(x) /\ norm2 \in [Items -> Int]
  <2>1. norm2 = Norms(x) BY <1>10 DEF Norms
  <2>2. \A i \in Items : Gram(x)[i][i] \in Int BY <1>4, GramType
  <2>3. QED BY <2>1, <2>2 DEF Norms
<1>12. observed \in SUBSET Cells BY <1>3, <1>5 DEF RowCells, rows
<1>13. \A i \in Items \ stale, u \in Users :
           m.x[<<u, i>>] = x[<<u, i>>] /\ (<<u, i>> \in m.observed <=> <<u, i>> \in observed)
  <2> SUFFICES ASSUME NEW i \in Items, NEW u \in Users, i \notin stale
               PROVE  /\ m.x[<<u, i>>] = x[<<u, i>>]
                      /\ <<u, i>> \in observed => <<u, i>> \in m.observed
    OBVIOUS
  <2>1. <<u, i>> \in Cells BY DEF Cells
  <2>2. m.x[<<u, i>>] = x[<<u, i>>]
    <3> SUFFICES ASSUME x[<<u, i>>] # m.x[<<u, i>>] PROVE FALSE OBVIOUS
    <3>1. PICK r \in rows : <<r.user, r.item>> = <<u, i>> /\ r.rating # m.x[<<u, i>>]
      BY <1>4, <2>1
    <3>2. Counts(m, r) /\ r.item = i BY <3>1 DEF Counts, Revises
    <3>3. QED BY <3>2
  <2>3. ASSUME <<u, i>> \in observed, <<u, i>> \notin m.observed PROVE FALSE
    <3>1. PICK r \in rows : <<r.user, r.item>> = <<u, i>> BY <2>3 DEF RowCells, rows
    <3>2. Counts(m, r) /\ r.item = i BY <2>3, <3>1 DEF Counts
    <3>3. QED BY <3>2
  <2>4. QED BY <2>2, <2>3
<1>14. \A c \in Cells : x[c] # 0 => c \in observed
  <2> TAKE c \in Cells
  <2>1. m.x[c] # 0 => c \in m.observed BY DEF Recorded
  <2>2. x[c] # m.x[c] => c \in RowCells(batch) BY <1>4 DEF RowCells, rows
  <2>3. QED BY <2>1, <2>2
<1>15. \A i \in Items \ dirty, u \in Users : m.x[<<u, i>>] = x[<<u, i>>]
  <2> SUFFICES ASSUME NEW i \in Items, NEW u \in Users, i \notin dirty
               PROVE  m.x[<<u, i>>] = x[<<u, i>>]
    OBVIOUS
  <2>1. CASE u \notin changed BY <1>7, <2>1
  <2>2. CASE u \in changed BY <2>2
  <2>3. QED BY <2>1, <2>2
<1> HIDE DEF changed, before, after, stale, observed, norm2
<1>16. /\ new \in ModelStates /\ new.x = x /\ new.observed = observed
       /\ new.dots = dots /\ new.norm2 = norm2 /\ new.sims = m.sims /\ new.near = m.near
       /\ new.means = m.means
  BY <1>4, <1>10, <1>11, <1>12 DEF ModelStates
<1> HIDE DEF new
<1>17. new.means = Averages(m.x, m.observed) /\ new.sims = Cosines(m.x)
  BY <1>16 DEF Fresh
<1>18. /\ rested \in ModelStates
       /\ rested.x = new.x /\ rested.observed = new.observed
       /\ rested.sims = new.sims /\ rested.near = new.near
       /\ rested.dots = new.dots /\ rested.norm2 = new.norm2
       /\ rested.means = Averages(new.x, new.observed)
  <2>1. \A i \in Items \ stale, u \in Users :
            /\ m.x[<<u, i>>] = new.x[<<u, i>>]
            /\ <<u, i>> \in m.observed <=> <<u, i>> \in new.observed
    BY <1>13, <1>16
  <2> HIDE DEF dirty
  <2>2. QED BY <1>6, <1>16, <1>17, <2>1, RefreshedMeans
<1> HIDE DEF rested
<1>19. Stats(rested)
  <2>1. rested.x = x /\ rested.dots = Gram(x) /\ rested.norm2 = Norms(x)
    BY <1>10, <1>11, <1>16, <1>18
  <2>2. QED BY <2>1 DEF Stats, Norms
<1>20. \A i \in Items \ dirty, u \in Users : m.x[<<u, i>>] = rested.x[<<u, i>>]
  BY <1>15, <1>16, <1>18
<1>21. dirty \in SUBSET Items /\ rested.sims = Cosines(m.x) BY <1>6, <1>17, <1>18
<1>22. \A i \in Items : i \in dirty <=> \E u \in changed : m.x[<<u, i>>] # 0 \/ x[<<u, i>>] # 0
  OBVIOUS
<1> HIDE DEF dirty
<1>23. /\ e \in ModelStates
       /\ e.x = rested.x /\ e.observed = rested.observed /\ e.means = rested.means
       /\ e.dots = rested.dots /\ e.norm2 = rested.norm2
       /\ e.sims = Cosines(rested.x)
       /\ \A i \in dirty : e.near[i] = SelectNeighbors(v, e.sims[i], i, Width)
  <2> DEFINE f == RefreshRows(v, rested, dirty)
  <2>1. /\ f \in ModelStates
        /\ f.x = rested.x /\ f.observed = rested.observed /\ f.means = rested.means
        /\ f.dots = rested.dots /\ f.norm2 = rested.norm2
        /\ f.sims = Cosines(rested.x)
        /\ \A i \in dirty : f.near[i] = SelectNeighbors(v, f.sims[i], i, Width)
    BY <1>3, <1>18, <1>19, <1>20, <1>21, RefreshedRows
  <2>2. e = f BY <1>2 DEF e
  <2> HIDE DEF f
  <2>3. QED BY <2>1, <2>2
<1>24. e.x = x /\ e.observed = observed /\ e.dots = Gram(e.x) /\ e.norm2 = Norms(e.x)
  BY <1>10, <1>11, <1>16, <1>18, <1>23
<1>25. Recorded(e) BY <1>14, <1>24 DEF Recorded
<1>26. Fresh(e) BY <1>16, <1>18, <1>23 DEF Fresh
<1>27. ASSUME v # "partial" PROVE RatedNear(m, e)
  <2> SUFFICES ASSUME NEW i \in Items, NEW u \in Users, NEW j \in Items,
                      m.x[<<u, j>>] # e.x[<<u, j>>],
                      m.x[<<u, i>>] > 0 \/ e.x[<<u, i>>] > 0
               PROVE  e.near[i] = Nearest(e.sims[i], i, Width)
    BY DEF RatedNear
  <2>1. u \in changed BY <1>7, <1>24
  <2>2. m.x[<<u, i>>] # 0 \/ x[<<u, i>>] # 0 BY <1>24
  <2>3. i \in dirty BY <1>22, <2>1, <2>2
  <2>4. QED BY <1>23, <1>27, <2>3 DEF SelectNeighbors
<1>28. EndsInRefresh(m, batch) BY <1>2, <1>18, <1>21 DEF EndsInRefresh
<1>29. QED BY <1>23, <1>24, <1>25, <1>26, <1>27, <1>28 DEF e, x, observed

-----------------------------------------------------------------------------
(* The order of the neighbours *)

\* Fractions by cross multiplication.
AtLeast(a, b) == a[1] * b[2] >= b[1] * a[2]

LEMMA Multiply ==
    \A p, q, n \in Nat : p >= q => p * n >= q * n
OBVIOUS

LEMMA Cancel ==
    \A p, q \in Nat, n \in Nat \ {0} : p * n >= q * n => p >= q
<1> SUFFICES ASSUME NEW p \in Nat, NEW q \in Nat, NEW n \in Nat \ {0}, q >= p + 1
             PROVE  q * n > p * n
  OBVIOUS
<1>1. q * n >= (p + 1) * n BY Multiply
<1>2. (p + 1) * n = p * n + n OBVIOUS
<1>3. p * n \in Nat /\ q * n \in Nat OBVIOUS
<1>4. QED BY <1>1, <1>2, <1>3

\* Fractions are compared by cross-multiplication; this is a total preorder.
LEMMA CrossMultiply ==
    ASSUME NEW a1 \in Nat, NEW b1 \in Nat, NEW c1 \in Nat,
           NEW a2 \in Nat \ {0}, NEW b2 \in Nat \ {0}, NEW c2 \in Nat \ {0},
           a1 * b2 >= b1 * a2, b1 * c2 >= c1 * b2
    PROVE  a1 * c2 >= c1 * a2
<1>1. a1 * b2 \in Nat /\ b1 * a2 \in Nat /\ b1 * c2 \in Nat /\ c1 * b2 \in Nat
      /\ a1 * c2 \in Nat /\ c1 * a2 \in Nat
  OBVIOUS
<1>2. (a1 * b2) * c2 >= (b1 * a2) * c2 BY <1>1, Multiply
<1>3. (b1 * c2) * a2 >= (c1 * b2) * a2 BY <1>1, Multiply
<1>4. (b1 * a2) * c2 = (b1 * c2) * a2 OBVIOUS
<1>5. (a1 * b2) * c2 = (a1 * c2) * b2 OBVIOUS
<1>6. (c1 * b2) * a2 = (c1 * a2) * b2 OBVIOUS
<1>7. (a1 * c2) * b2 \in Nat /\ (b1 * c2) * a2 \in Nat /\ (c1 * a2) * b2 \in Nat BY <1>1
<1>8. (a1 * c2) * b2 >= (c1 * a2) * b2 BY <1>2, <1>3, <1>4, <1>5, <1>6, <1>7
<1>9. QED BY <1>1, <1>8, Cancel

\* The order of fractions by cross multiplication is transitive.
LEMMA FractionOrder ==
    ASSUME NEW a \in Fractions, NEW b \in Fractions, NEW c \in Fractions
    PROVE  /\ AtLeast(a, b) \/ AtLeast(b, a)
           /\ AtLeast(a, b) /\ AtLeast(b, c) => AtLeast(a, c)
           /\ Greater(a, b) <=> ~AtLeast(b, a)
           /\ Same(a, b) <=> AtLeast(a, b) /\ AtLeast(b, a)
<1>1. /\ a[1] \in Nat /\ b[1] \in Nat /\ c[1] \in Nat
      /\ a[2] \in Nat \ {0} /\ b[2] \in Nat \ {0} /\ c[2] \in Nat \ {0}
  BY DEF Fractions
<1>2. a[1] * b[2] \in Nat /\ b[1] * a[2] \in Nat BY <1>1
<1>3. AtLeast(a, b) /\ AtLeast(b, c) => AtLeast(a, c)
  <2>1. PICK a1 \in Nat, b1 \in Nat, c1 \in Nat : a1 = a[1] /\ b1 = b[1] /\ c1 = c[1] BY <1>1
  <2>2. PICK a2 \in Nat \ {0}, b2 \in Nat \ {0}, c2 \in Nat \ {0} :
            a2 = a[2] /\ b2 = b[2] /\ c2 = c[2]
    BY <1>1
  <2>3. a1 * b2 >= b1 * a2 /\ b1 * c2 >= c1 * b2 => a1 * c2 >= c1 * a2 BY CrossMultiply
  <2>4. QED BY <2>1, <2>2, <2>3, Zenon DEF AtLeast
<1>4. AtLeast(a, b) \/ AtLeast(b, a) BY <1>2 DEF AtLeast
<1>5. Greater(a, b) <=> ~AtLeast(b, a) BY <1>2 DEF AtLeast, Greater
<1>6. Same(a, b) <=> AtLeast(a, b) /\ AtLeast(b, a) BY <1>2 DEF AtLeast, Same
<1>7. QED BY <1>3, <1>4, <1>5, <1>6

\* The candidates above c, those equal to it, and those that sorting puts first.
Above(row, i, c) == {d \in Candidates(row, i) : Greater(row[d], row[c])}
\* The candidates as near as c, and those that come before it.
Equal(row, i, c) == {d \in Candidates(row, i) : Same(row[d], row[c])}
Before(row, i, c) ==
    {d \in Candidates(row, i) : Greater(row[d], row[c]) \/ (Same(row[d], row[c]) /\ d < c)}

\* The candidates of a row are finitely many items.
LEMMA CandidateSets ==
    ASSUME NEW row, NEW i
    PROVE  /\ Candidates(row, i) \subseteq Items
           /\ Candidates(row, i) \subseteq Nat /\ IsFiniteSet(Candidates(row, i))
           /\ Cardinality(Candidates(row, i)) \in Nat
           /\ \A T \in SUBSET Candidates(row, i) : IsFiniteSet(T) /\ Cardinality(T) \in Nat
<1>1. Candidates(row, i) \subseteq Items BY DEF Candidates
<1>2. IsFiniteSet(Candidates(row, i)) BY <1>1, SimilarityAssumption, FS_Subset
<1>3. \A T \in SUBSET Candidates(row, i) : IsFiniteSet(T) /\ Cardinality(T) \in Nat
  BY <1>2, FS_Subset, FS_CardinalityType
<1>4. QED BY <1>1, <1>2, <1>3, SimilarityAssumption

\* Before is a strict total order of the candidates.
LEMMA BeforeOrder ==
    ASSUME NEW row \in [Items -> Fractions], NEW i,
           NEW c \in Candidates(row, i), NEW d \in Candidates(row, i),
           NEW e \in Candidates(row, i)
    PROVE  /\ c \notin Before(row, i, c)
           /\ c # d => c \in Before(row, i, d) \/ d \in Before(row, i, c)
           /\ c \in Before(row, i, d) => d \notin Before(row, i, c)
           /\ c \in Before(row, i, d) /\ d \in Before(row, i, e) => c \in Before(row, i, e)
<1>1. row[c] \in Fractions /\ row[d] \in Fractions /\ row[e] \in Fractions
      /\ c \in Nat /\ d \in Nat /\ e \in Nat
  BY CandidateSets
<1> DEFINE Ge(x, y) == AtLeast(row[x], row[y])
<1>2. /\ Ge(c, d) \/ Ge(d, c)
      /\ Ge(c, d) /\ Ge(d, e) => Ge(c, e)
      /\ Ge(e, c) /\ Ge(c, d) => Ge(e, d)
      /\ Ge(d, e) /\ Ge(e, c) => Ge(d, c)
      /\ Ge(d, e) \/ Ge(e, d)
      /\ Ge(c, e) \/ Ge(e, c)
  BY <1>1, FractionOrder
<1>3. /\ Greater(row[c], row[d]) <=> ~Ge(d, c)
      /\ Greater(row[d], row[c]) <=> ~Ge(c, d)
      /\ Greater(row[d], row[e]) <=> ~Ge(e, d)
      /\ Greater(row[c], row[e]) <=> ~Ge(e, c)
      /\ Greater(row[c], row[c]) <=> ~Ge(c, c)
      /\ Ge(c, c)
  BY <1>1, FractionOrder
<1>4. /\ Same(row[c], row[d]) <=> Ge(c, d) /\ Ge(d, c)
      /\ Same(row[d], row[c]) <=> Ge(c, d) /\ Ge(d, c)
      /\ Same(row[d], row[e]) <=> Ge(d, e) /\ Ge(e, d)
      /\ Same(row[c], row[e]) <=> Ge(c, e) /\ Ge(e, c)
  BY <1>1, FractionOrder
<1>5. /\ ~(c < c) /\ (c # d => c < d \/ d < c) /\ (c < d => ~(d < c))
      /\ (c < d /\ d < e => c < e)
  BY <1>1
<1> HIDE DEF Ge
<1>6. c \notin Before(row, i, c) BY <1>3, <1>5 DEF Before
<1>7. c # d => c \in Before(row, i, d) \/ d \in Before(row, i, c)
  BY <1>2, <1>3, <1>4, <1>5 DEF Before
<1>8. c \in Before(row, i, d) => d \notin Before(row, i, c)
  BY <1>2, <1>3, <1>4, <1>5 DEF Before
<1>9. c \in Before(row, i, d) /\ d \in Before(row, i, e) => c \in Before(row, i, e)
  BY <1>2, <1>3, <1>4, <1>5 DEF Before
<1>10. QED BY <1>6, <1>7, <1>8, <1>9

\* Of some candidates one comes first and one comes last.
LEMMA FirstAndLast ==
    ASSUME NEW row \in [Items -> Fractions], NEW i,
           NEW T \in SUBSET Candidates(row, i), T # {}
    PROVE  /\ \E b \in T : \A e \in T : e \notin Before(row, i, b)
           /\ \E b \in T : \A e \in T : e = b \/ e \in Before(row, i, b)
<1> DEFINE C == Candidates(row, i)
           After(c) == {d \in C : c \in Before(row, i, d)}
           Firsts == {Before(row, i, c) : c \in T}
           Lasts == {After(c) : c \in T}
<1>1. IsFiniteSet(C) BY CandidateSets
<1>2. Firsts \in SUBSET (SUBSET C) /\ Firsts # {} /\ Lasts \in SUBSET (SUBSET C) /\ Lasts # {}
  <2>1. \A c : Before(row, i, c) \in SUBSET C BY DEF Before
  <2>2. \A c : After(c) \in SUBSET C OBVIOUS
  <2> HIDE DEF C, After
  <2> QED BY <2>1, <2>2
<1>3. \E b \in T : \A e \in T : e \notin Before(row, i, b)
  <2>1. PICK s \in Firsts : \A t \in Firsts : t \subseteq s => t = s
    <3> HIDE DEF Firsts, C
    <3> QED BY ONLY <1>1, <1>2, SmallestSet
  <2>2. PICK b \in T : s = Before(row, i, b) OBVIOUS
  <2>3. ASSUME NEW e \in T, e \in Before(row, i, b) PROVE FALSE
    <3>1. \A d \in C : d \in Before(row, i, e) => d \in Before(row, i, b)
      BY <2>3, BeforeOrder
    <3>2. Before(row, i, e) \subseteq Before(row, i, b) BY <3>1 DEF Before
    <3>3. e \notin Before(row, i, e) BY BeforeOrder
    <3>4. Before(row, i, e) \in Firsts OBVIOUS
    <3>5. QED BY <2>1, <2>2, <2>3, <3>2, <3>3, <3>4
  <2>4. QED BY <2>3
<1>4. \E b \in T : \A e \in T : e = b \/ e \in Before(row, i, b)
  <2>1. PICK s \in Lasts : \A t \in Lasts : t \subseteq s => t = s
    <3> HIDE DEF Lasts, C
    <3> QED BY ONLY <1>1, <1>2, SmallestSet
  <2>2. PICK b \in T : s = After(b) OBVIOUS
  <2>3. ASSUME NEW e \in T, e # b, e \notin Before(row, i, b) PROVE FALSE
    <3>1. b \in Before(row, i, e) BY <2>3, BeforeOrder
    <3>2. \A d \in C : e \in Before(row, i, d) => b \in Before(row, i, d)
      BY <3>1, BeforeOrder
    <3>3. After(e) \subseteq After(b) BY <3>2
    <3>4. e \notin Before(row, i, e) BY BeforeOrder
    <3>5. After(e) \in Lasts OBVIOUS
    <3>6. e \in After(b) /\ e \notin After(e) BY <3>1, <3>4
    <3>7. QED BY <2>1, <2>2, <3>3, <3>5, <3>6
  <2>4. QED BY <2>3
<1>5. QED BY <1>3, <1>4

\* Fewer members in a part that leaves one out.
LEMMA ProperPart ==
    ASSUME NEW S, IsFiniteSet(S), NEW T \in SUBSET S, NEW x \in S, x \notin T
    PROVE  Cardinality(T) < Cardinality(S)
<1>1. Cardinality(T) <= Cardinality(S) /\ (Cardinality(S) = Cardinality(T) => S = T)
      /\ IsFiniteSet(T)
  BY FS_Subset
<1>2. Cardinality(T) \in Nat /\ Cardinality(S) \in Nat BY <1>1, FS_CardinalityType
<1>3. S # T OBVIOUS
<1>4. QED BY <1>1, <1>2, <1>3

-----------------------------------------------------------------------------
(* Selecting the nearest without sorting *)

\* The neighbours that sorting selects, as a set: the candidates with fewer than k
\* others before them.
LEMMA NearestSet ==
    ASSUME NEW row, NEW i, NEW w
    PROVE  Nearest(row, i, w) =
               {c \in Candidates(row, i) : Cardinality(Before(row, i, c)) < w}
BY DEF Nearest, Before

\* How the candidates before t relate to a candidate c.
LEMMA BeforeSets ==
    ASSUME NEW row \in [Items -> Fractions], NEW i,
           NEW c \in Candidates(row, i), NEW t \in Candidates(row, i)
    PROVE  /\ c \in Equal(row, i, c)
           /\ t \in Above(row, i, c) => Before(row, i, t) \subseteq Above(row, i, c)
           /\ t \in Equal(row, i, c) => Before(row, i, t) =
                  Above(row, i, c) \cup {d \in Equal(row, i, c) : d < t}
           /\ t \notin Above(row, i, c) /\ t \notin Equal(row, i, c) =>
                  Above(row, i, c) \cup Equal(row, i, c) \subseteq Before(row, i, t)
           /\ t \in Above(row, i, c) => t \notin Equal(row, i, c)
<1> DEFINE C == Candidates(row, i)
           Ge(x, y) == AtLeast(row[x], row[y])
<1>1. \A d \in C : row[d] \in Fractions BY CandidateSets
<1>2. \A d \in C, e \in C, f \in C : /\ Ge(d, e) \/ Ge(e, d)
                                     /\ Ge(d, e) /\ Ge(e, f) => Ge(d, f)
  BY <1>1, FractionOrder
<1>3. \A d \in C, e \in C : /\ Greater(row[d], row[e]) <=> ~Ge(e, d)
                            /\ Same(row[d], row[e]) <=> Ge(d, e) /\ Ge(e, d)
  BY <1>1, FractionOrder
<1>4. \A d \in C : /\ d \in Above(row, i, c) <=> ~Ge(c, d)
                   /\ d \in Equal(row, i, c) <=> Ge(d, c) /\ Ge(c, d)
                   /\ d \in Before(row, i, t) <=> ~Ge(t, d) \/ (Ge(d, t) /\ Ge(t, d) /\ d < t)
  BY <1>3 DEF Above, Equal, Before
<1>5. Above(row, i, c) \subseteq C /\ Equal(row, i, c) \subseteq C /\ Before(row, i, t) \subseteq C
  BY DEF Above, Equal, Before
<1> HIDE DEF C, Ge
<1>6. c \in C /\ t \in C BY DEF C
<1>7. c \in Equal(row, i, c) BY <1>2, <1>4, <1>6
<1>8. ASSUME t \in Above(row, i, c) PROVE Before(row, i, t) \subseteq Above(row, i, c)
  <2>1. ~Ge(c, t) /\ Ge(t, c) BY <1>2, <1>4, <1>6, <1>8
  <2>2. ASSUME NEW d \in C, d \in Before(row, i, t) PROVE d \in Above(row, i, c)
    <3>1. Ge(d, t) BY <1>2, <1>4, <1>6, <2>2
    <3>2. ~Ge(c, d) BY <1>2, <1>6, <2>1, <3>1
    <3>3. QED BY <1>4, <3>2
  <2>3. QED BY <1>5, <2>2
<1>9. ASSUME t \in Equal(row, i, c)
      PROVE  Before(row, i, t) = Above(row, i, c) \cup {d \in Equal(row, i, c) : d < t}
  <2>1. Ge(c, t) /\ Ge(t, c) BY <1>4, <1>6, <1>9
  <2>2. ASSUME NEW d \in C
        PROVE  d \in Before(row, i, t) <=>
                   d \in Above(row, i, c) \/ (d \in Equal(row, i, c) /\ d < t)
    <3>1. Ge(t, d) <=> Ge(c, d) BY <1>2, <1>6, <2>1
    <3>2. Ge(d, t) <=> Ge(d, c) BY <1>2, <1>6, <2>1
    <3>3. QED BY <1>4, <3>1, <3>2
  <2>3. QED BY <1>5, <2>2
<1>10. ASSUME t \notin Above(row, i, c), t \notin Equal(row, i, c)
       PROVE  Above(row, i, c) \cup Equal(row, i, c) \subseteq Before(row, i, t)
  <2>1. Ge(c, t) /\ ~Ge(t, c) BY <1>4, <1>6, <1>10
  <2>2. ASSUME NEW d \in C, d \in Above(row, i, c) \/ d \in Equal(row, i, c)
        PROVE  d \in Before(row, i, t)
    <3>1. Ge(d, c) BY <1>2, <1>4, <1>6, <2>2
    <3>2. ~Ge(t, d) BY <1>2, <1>6, <2>1, <3>1
    <3>3. QED BY <1>4, <3>2
  <2>3. QED BY <1>5, <2>2
<1>11. t \in Above(row, i, c) => t \notin Equal(row, i, c) BY <1>4, <1>6
<1>12. QED BY <1>7, <1>8, <1>9, <1>10, <1>11

\* If there are more candidates than fit, one of them is at the cut.
LEMMA CutExists ==
    ASSUME NEW row \in [Items -> Fractions], NEW i, NEW w \in Nat \ {0},
           Cardinality(Candidates(row, i)) > w
    PROVE  \E c \in Candidates(row, i) :
               /\ Cardinality(Above(row, i, c)) < w
               /\ Cardinality(Above(row, i, c) \cup Equal(row, i, c)) >= w
<1> DEFINE C == Candidates(row, i)
           N == {c \in C : Cardinality(Before(row, i, c)) < w}
<1>1. IsFiniteSet(C) /\ Cardinality(C) \in Nat
      /\ \A T \in SUBSET C : IsFiniteSet(T) /\ Cardinality(T) \in Nat
  BY CandidateSets
<1>2. \A c : /\ Before(row, i, c) \in SUBSET C
             /\ Above(row, i, c) \in SUBSET C /\ Equal(row, i, c) \in SUBSET C
             /\ Above(row, i, c) \subseteq Before(row, i, c)
             /\ Before(row, i, c) \subseteq Above(row, i, c) \cup Equal(row, i, c)
  BY DEF Before, Above, Equal
<1>3. \A S, T \in SUBSET C : S \subseteq T => Cardinality(S) <= Cardinality(T)
  BY <1>1, FS_Subset
<1>4. N \in SUBSET C /\ Cardinality(N) \in Nat BY <1>1
<1>5. Cardinality(N) >= w
  <2> SUFFICES ASSUME Cardinality(N) < w PROVE FALSE BY <1>4
  <2>1. C \ N # {}
    <3> SUFFICES ASSUME C \subseteq N PROVE FALSE OBVIOUS
    <3>1. C = N BY <1>4
    <3> HIDE DEF N
    <3>2. QED BY <3>1, <1>1
  <2>2. PICK b \in C \ N : \A e \in C \ N : e \notin Before(row, i, b)
    <3> DEFINE T == C \ N
    <3>1. T \in SUBSET C /\ T # {} BY <2>1
    <3> HIDE DEF T
    <3>2. \E b \in T : \A e \in T : e \notin Before(row, i, b) BY <3>1, FirstAndLast
    <3>3. QED BY <3>2 DEF T
  <2>3. Before(row, i, b) \subseteq N
    <3> HIDE DEF N
    <3> QED BY <1>2, <2>2
  <2>4. Cardinality(Before(row, i, b)) <= Cardinality(N)
    <3> HIDE DEF N
    <3> QED BY <1>2, <1>3, <1>4, <2>3
  <2>5. Cardinality(Before(row, i, b)) \in Nat BY <1>1, <1>2
  <2>6. Cardinality(Before(row, i, b)) < w
    <3> HIDE DEF N
    <3> QED BY <1>4, <2>4, <2>5
  <2>7. QED BY <2>2, <2>6
<1>6. N # {}
  <2> SUFFICES ASSUME N = {} PROVE FALSE OBVIOUS
  <2> HIDE DEF N
  <2> QED BY <1>5, FS_EmptySet
<1>7. PICK c \in N : \A e \in N : e = c \/ e \in Before(row, i, c)
  <2> HIDE DEF N
  <2> QED BY <1>4, <1>6, FirstAndLast
<1>8. c \in C /\ Cardinality(Before(row, i, c)) < w OBVIOUS
<1> HIDE DEF N
<1>9. Cardinality(Above(row, i, c)) < w
  <2>1. Cardinality(Above(row, i, c)) <= Cardinality(Before(row, i, c)) BY <1>2, <1>3
  <2>2. Cardinality(Above(row, i, c)) \in Nat /\ Cardinality(Before(row, i, c)) \in Nat
    BY <1>1, <1>2
  <2>3. QED BY <1>8, <2>1, <2>2
<1>10. Cardinality(Above(row, i, c) \cup Equal(row, i, c)) >= w
  <2> DEFINE U == Above(row, i, c) \cup Equal(row, i, c)
  <2>1. c \in Equal(row, i, c) BY <1>8, BeforeSets
  <2>2. N \subseteq U BY <1>2, <1>7, <2>1
  <2>3. U \in SUBSET C BY <1>2
  <2> HIDE DEF U
  <2>4. Cardinality(N) <= Cardinality(U) BY <1>3, <1>4, <2>2, <2>3
  <2>5. Cardinality(U) \in Nat BY <1>1, <2>3
  <2>6. Cardinality(U) >= w BY <1>4, <1>5, <2>4, <2>5
  <2>7. QED BY <2>6 DEF U
<1>11. QED BY <1>8, <1>9, <1>10

\* Selecting at the cut is what sorting selects.
LEMMA CutSelects ==
    ASSUME NEW row \in [Items -> Fractions], NEW i, NEW w \in Nat \ {0},
           NEW c \in Candidates(row, i), Cardinality(Above(row, i, c)) < w,
           Cardinality(Above(row, i, c) \cup Equal(row, i, c)) >= w
    PROVE  Nearest(row, i, w) = Above(row, i, c) \cup
               {t \in Equal(row, i, c) :
                   Cardinality({d \in Equal(row, i, c) : d < t})
                       < w - Cardinality(Above(row, i, c))}
<1> DEFINE C == Candidates(row, i)
           A == Above(row, i, c)
           E == Equal(row, i, c)
           Less(t) == {d \in E : d < t}
<1>1. IsFiniteSet(C)
      /\ \A T \in SUBSET C : IsFiniteSet(T) /\ Cardinality(T) \in Nat
  BY CandidateSets
<1>2. A \in SUBSET C /\ E \in SUBSET C /\ \A t : Before(row, i, t) \in SUBSET C
  BY DEF Above, Equal, Before
<1>3. IsFiniteSet(A) /\ Cardinality(A) \in Nat /\ Cardinality(A) < w BY <1>1, <1>2
<1>4. A \cap E = {} BY <1>2, BeforeSets
<1>5. ASSUME NEW t \in C
      PROVE  Cardinality(Before(row, i, t)) < w <=>
                 t \in A \/ (t \in E /\ Cardinality(Less(t)) < w - Cardinality(A))
  <2>1. Cardinality(Before(row, i, t)) \in Nat /\ IsFiniteSet(Before(row, i, t)) BY <1>1, <1>2
  <2>2. CASE t \in A
    <3>1. Before(row, i, t) \subseteq A BY <2>2, BeforeSets
    <3>2. Cardinality(Before(row, i, t)) <= Cardinality(A)
      <4> HIDE DEF A
      <4> QED BY <1>3, <3>1, FS_Subset
    <3>3. QED BY <1>3, <2>1, <2>2, <3>2
  <2>3. CASE t \in E
    <3>1. Before(row, i, t) = A \cup Less(t) BY <2>3, BeforeSets
    <3>2. Less(t) \in SUBSET C /\ A \cap Less(t) = {} BY <1>2, <1>4
    <3>3. IsFiniteSet(Less(t)) /\ Cardinality(Less(t)) \in Nat
      <4> HIDE DEF Less, C
      <4> QED BY <1>1, <3>2
    <3>4. t \notin A BY <1>4, <2>3
    <3> HIDE DEF A, Less, E
    <3>5. Cardinality(A \cup Less(t)) = Cardinality(A) + Cardinality(Less(t))
      <4>1. Cardinality(A \cup Less(t)) =
                Cardinality(A) + Cardinality(Less(t)) - Cardinality(A \cap Less(t))
        BY <1>3, <3>3, FS_Union
      <4>2. Cardinality(A \cap Less(t)) = 0 BY <3>2, FS_EmptySet
      <4>3. QED BY <1>3, <3>3, <4>1, <4>2
    <3>6. QED BY <1>3, <2>3, <3>1, <3>3, <3>4, <3>5
  <2>4. CASE t \notin A /\ t \notin E
    <3>1. A \cup E \subseteq Before(row, i, t) BY <2>4, BeforeSets
    <3>2. Cardinality(A \cup E) <= Cardinality(Before(row, i, t))
      <4> HIDE DEF A, E
      <4> QED BY <2>1, <3>1, FS_Subset
    <3>3. Cardinality(A \cup E) \in Nat BY <1>1, <1>2
    <3>4. Cardinality(A \cup E) >= w OBVIOUS
    <3> HIDE DEF A, E
    <3>5. ~(Cardinality(Before(row, i, t)) < w) BY <2>1, <3>2, <3>3, <3>4
    <3>6. QED BY <2>4, <3>5
  <2>5. QED BY <2>2, <2>3, <2>4
<1>6. Nearest(row, i, w) = {t \in C : Cardinality(Before(row, i, t)) < w} BY NearestSet
<1> HIDE DEF A, E, Less, C
<1>7. Nearest(row, i, w) = A \cup {t \in E : Cardinality(Less(t)) < w - Cardinality(A)}
  BY <1>2, <1>5, <1>6
<1>8. QED BY <1>7 DEF A, E, Less

\* The partial selection chooses the neighbours that sorting chooses.
LEMMA SelectionAgrees ==
    ASSUME NEW row \in [Items -> Fractions], NEW i,
           NEW w \in Nat, w # 0 \/ Candidates(row, i) = {}
    PROVE  PartialNearest(row, i, w) = Nearest(row, i, w)
<1> DEFINE C == Candidates(row, i)
           AtCut(c) == /\ Cardinality(Above(row, i, c)) < w
                       /\ Cardinality(Above(row, i, c) \cup Equal(row, i, c)) >= w
           cut == CHOOSE c \in C : AtCut(c)
<1>1. PartialNearest(row, i, w) =
          IF Cardinality(C) <= w THEN C
          ELSE Above(row, i, cut) \cup
                   {t \in Equal(row, i, cut) :
                       Cardinality({d \in Equal(row, i, cut) : d < t})
                           < w - Cardinality(Above(row, i, cut))}
  BY Zenon DEF PartialNearest, Above, Equal
<1>2. IsFiniteSet(C) /\ Cardinality(C) \in Nat BY CandidateSets
<1>3. CASE Cardinality(C) <= w
  <2>1. ASSUME NEW c \in C PROVE Cardinality(Before(row, i, c)) < w
    <3>1. c \notin Before(row, i, c) BY BeforeOrder
    <3>2. Before(row, i, c) \in SUBSET C BY DEF Before
    <3>3. Cardinality(Before(row, i, c)) < Cardinality(C)
      <4> HIDE DEF C
      <4> QED BY <1>2, <3>1, <3>2, ProperPart
    <3>4. Cardinality(Before(row, i, c)) \in Nat
      <4> HIDE DEF C
      <4> QED BY <1>2, <3>2, FS_Subset, FS_CardinalityType
    <3>5. QED BY <1>2, <1>3, <3>3, <3>4
  <2>2. Nearest(row, i, w) = C BY <2>1, NearestSet
  <2>3. QED BY <1>1, <1>3, <2>2
<1>4. CASE Cardinality(C) > w
  <2>1. w \in Nat \ {0}
    <3> SUFFICES ASSUME w = 0 PROVE FALSE OBVIOUS
    <3>1. Cardinality(C) = 0 BY FS_EmptySet
    <3>2. QED BY <1>4, <3>1
  <2>2. \E c \in C : AtCut(c) BY <1>4, <2>1, CutExists
  <2>3. cut \in C /\ AtCut(cut)
    <3> HIDE DEF AtCut, C
    <3> QED BY <2>2, Zenon
  <2> HIDE DEF cut
  <2>4. Nearest(row, i, w) = Above(row, i, cut) \cup
            {t \in Equal(row, i, cut) :
                Cardinality({d \in Equal(row, i, cut) : d < t})
                    < w - Cardinality(Above(row, i, cut))}
    BY <2>1, <2>3, CutSelects
  <2>5. QED BY <1>1, <1>2, <1>4, <2>4
<1>5. QED BY <1>2, <1>3, <1>4

-----------------------------------------------------------------------------
(* The three implementations beside each other *)

\* The number of neighbours kept, zero only where there is no other item.
LEMMA WidthType ==
    ASSUME NEW i \in Items
    PROVE  Width \in Nat /\ \A row : Width # 0 \/ Candidates(row, i) = {}
<1> DEFINE b == Cardinality(Items) - 1
<1>1. IsFiniteSet(Items) /\ NeighborCount \in Nat \ {0} BY SimilarityAssumption
<1>2. Cardinality(Items) \in Nat BY <1>1, FS_CardinalityType
<1>3. IsFiniteSet(Items \ {i}) /\ Cardinality(Items \ {i}) = b
  BY <1>1, FS_RemoveElement
<1>4. b \in Nat BY <1>3, FS_CardinalityType
<1> HIDE DEF b
<1>5. Width = IF NeighborCount <= b THEN NeighborCount ELSE b
  <2>1. Width = Min({NeighborCount, b}) BY DEF Width, b
  <2>2. Min({NeighborCount, b}) \in {NeighborCount, b}
        /\ \A y \in {NeighborCount, b} : Min({NeighborCount, b}) <= y
    <3>1. \E x \in {NeighborCount, b} : \A y \in {NeighborCount, b} : x <= y BY <1>1, <1>4
    <3>2. QED BY <3>1, Zenon DEF Min
  <2>3. QED BY <1>1, <1>4, <2>1, <2>2
<1>6. Width = 0 => Items \ {i} = {} BY <1>1, <1>3, <1>4, <1>5, FS_EmptySet
<1>7. Items \ {i} = {} => \A row : Candidates(row, i) = {} BY DEF Candidates
<1>8. QED BY <1>1, <1>4, <1>5, <1>6, <1>7

\* The two ways of selecting neighbours give the same ones, and so the same refresh.
LEMMA SameSelection ==
    ASSUME NEW row \in [Items -> Fractions], NEW i \in Items
    PROVE  SelectNeighbors("partial", row, i, Width) = SelectNeighbors("batch", row, i, Width)
<1>1. PartialNearest(row, i, Width) = Nearest(row, i, Width) BY WidthType, SelectionAgrees
<1>2. QED BY <1>1 DEF SelectNeighbors

LEMMA SameRefresh ==
    ASSUME NEW m \in ModelStates, NEW affected \in SUBSET Items
    PROVE  RefreshRows("partial", m, affected) = RefreshRows("batch", m, affected)
<1> DEFINE fresh == [i \in affected |-> SimilarityRow(m.dots, m.norm2, i)]
           sims == [i \in Items |-> [j \in Items |->
                       IF j \in affected THEN fresh[j][i]
                       ELSE IF i \in affected THEN fresh[i][j] ELSE m.sims[i][j]]]
           near(v) == [i \in Items |-> IF i \in affected
                          THEN SelectNeighbors(v, sims[i], i, Width) ELSE m.near[i]]
<1>1. \A i \in affected, j \in Items : fresh[i][j] \in Fractions
  <2> TAKE i \in affected, j \in Items
  <2>1. m.dots[i][j] \in Int /\ m.norm2[i] \in Int /\ m.norm2[j] \in Int
    BY DEF ModelStates, Matrices
  <2>2. m.norm2[i] * m.norm2[j] \in Int BY <2>1
  <2>3. Similarity(m.dots[i][j], m.norm2[i] * m.norm2[j]) \in Fractions
    BY <2>1, <2>2, SimilarityType
  <2>4. <<0, 1>> \in Fractions BY DEF Fractions
  <2>5. fresh[i][j] = IF i = j THEN <<0, 1>>
                      ELSE Similarity(m.dots[i][j], m.norm2[i] * m.norm2[j])
    BY DEF SimilarityRow
  <2> HIDE DEF fresh
  <2>6. QED BY <2>3, <2>4, <2>5
<1> HIDE DEF fresh
<1>2. \A i \in Items : sims[i] \in [Items -> Fractions]
  <2>1. \A i, j \in Items : m.sims[i][j] \in Fractions BY DEF ModelStates
  <2>2. QED BY <1>1, <2>1
<1>3. \A v : RefreshRows(v, m, affected) = [m EXCEPT !.sims = sims, !.near = near(v)]
  BY Zenon DEF RefreshRows, fresh
<1> HIDE DEF sims
<1>4. near("partial") = near("batch")
  <2>1. \A i \in Items : SelectNeighbors("partial", sims[i], i, Width)
                         = SelectNeighbors("batch", sims[i], i, Width)
    BY <1>2, SameSelection
  <2>2. QED BY <2>1
<1> HIDE DEF near
<1>5. QED BY <1>3, <1>4

\* What a fit consists of.
LEMMA FitTypes ==
    ASSUME NEW v, NEW x \in Interactions, NEW observed \in SUBSET Cells
    PROVE  LET m == Fit(v, x, observed)
           IN /\ m \in ModelStates /\ m.x = x /\ m.observed = observed
              /\ m.dots = Gram(x) /\ m.norm2 = Norms(x)
              /\ m.sims = Cosines(x) /\ m.means = Averages(x, observed)
<1> DEFINE near == [i \in Items |-> SelectNeighbors(v, Cosines(x)[i], i, Width)]
           m == [x |-> x, observed |-> observed, dots |-> Gram(x), norm2 |-> Norms(x),
                 sims |-> Cosines(x), near |-> near, means |-> Averages(x, observed)]
<1>1. Fit(v, x, observed) = m BY Zenon DEF Fit, Norms, Cosines, Averages
<1>2. near \in [Items -> SUBSET Items] BY SelectType
<1>3. Norms(x) \in [Items -> Int]
  <2>1. \A i \in Items : Gram(x)[i][i] \in Int BY GramType
  <2>2. QED BY <2>1 DEF Norms
<1>4. Averages(x, observed) \in [Items -> Int \X Nat] BY MeanType DEF Averages
<1>5. Cosines(x) \in [Items -> [Items -> Fractions]] /\ Gram(x) \in Matrices
  BY CosinesType, GramType
<1> HIDE DEF near
<1>6. m \in ModelStates BY <1>2, <1>3, <1>4, <1>5 DEF ModelStates
<1>7. QED BY <1>1, <1>6 DEF near

-----------------------------------------------------------------------------
(* The invariant *)

\* The itemwise form: what holds even after an error.
ItemwiseSound == Stats(model["itemwise"]) /\ Recorded(model["itemwise"])

\* The batch form is always what a fit would make of its ratings.
BatchSound ==
    /\ model["batch"].dots = Gram(model["batch"].x)
    /\ model["batch"].norm2 = Norms(model["batch"].x)
    /\ Recorded(model["batch"]) /\ Fresh(model["batch"])

\* Without an error the itemwise form is too, and of the same ratings.
ItemwiseAgrees ==
    ~torn => /\ Fresh(model["itemwise"])
             /\ model["itemwise"].x = model["batch"].x
             /\ model["itemwise"].observed = model["batch"].observed

\* The invariant: types, the three forms, and the partial form equal to the batch form.
SimilarityInv ==
    /\ torn \in BOOLEAN /\ model \in [Variants -> ModelStates]
    /\ ItemwiseSound /\ BatchSound /\ ItemwiseAgrees
    /\ model["partial"] = model["batch"]

\* The first fit satisfies the invariant.
LEMMA SimilarityInit ==
    FirstFit => SimilarityInv
<1> SUFFICES ASSUME FirstFit PROVE SimilarityInv OBVIOUS
<1>1. PICK cell \in Cells, rating \in Ratings \ {0} :
          model = [v \in Variants |->
                      Fit(v, [c \in Cells |-> IF c = cell THEN rating ELSE 0], {cell})]
  BY Zenon DEF FirstFit
<1> DEFINE x == [c \in Cells |-> IF c = cell THEN rating ELSE 0]
           observed == {cell}
<1>2. x \in Interactions
  <2>1. 0 \in Ratings BY SimilarityAssumption DEF Ratings
  <2>2. QED BY <2>1 DEF Interactions
<1>3. observed \in SUBSET Cells /\ \A c \in Cells : x[c] # 0 => c \in observed OBVIOUS
<1> HIDE DEF x, observed
<1>4. \A v \in Variants : model[v] = Fit(v, x, observed) BY <1>1 DEF x, observed
<1>5. ASSUME NEW v \in Variants
      PROVE  /\ model[v] \in ModelStates /\ model[v].x = x /\ model[v].observed = observed
             /\ model[v].dots = Gram(x) /\ model[v].norm2 = Norms(x)
             /\ model[v].sims = Cosines(x) /\ model[v].means = Averages(x, observed)
             /\ Stats(model[v]) /\ Recorded(model[v]) /\ Fresh(model[v])
  <2>1. /\ model[v] \in ModelStates /\ model[v].x = x /\ model[v].observed = observed
        /\ model[v].dots = Gram(x) /\ model[v].norm2 = Norms(x)
        /\ model[v].sims = Cosines(x) /\ model[v].means = Averages(x, observed)
    <3>1. model[v] = Fit(v, x, observed) BY <1>4
    <3> DEFINE m == Fit(v, x, observed)
    <3>2. /\ m \in ModelStates /\ m.x = x /\ m.observed = observed
          /\ m.dots = Gram(x) /\ m.norm2 = Norms(x)
          /\ m.sims = Cosines(x) /\ m.means = Averages(x, observed)
      BY <1>2, <1>3, FitTypes
    <3> HIDE DEF m
    <3>3. model[v] = m BY <3>1 DEF m
    <3>4. QED BY <3>2, <3>3
  <2>2. Stats(model[v]) BY <2>1 DEF Stats, Norms
  <2>3. Recorded(model[v]) BY <1>3, <2>1 DEF Recorded
  <2>4. Fresh(model[v]) BY <2>1 DEF Fresh
  <2>5. QED BY <2>1, <2>2, <2>3, <2>4
<1>6. "itemwise" \in Variants /\ "batch" \in Variants /\ "partial" \in Variants BY DEF Variants
<1>7. model["partial"] = model["batch"]
  <2>1. \A i \in Items : SelectNeighbors("partial", Cosines(x)[i], i, Width)
                         = SelectNeighbors("batch", Cosines(x)[i], i, Width)
    BY <1>2, CosinesType, SameSelection
  <2>2. Fit("partial", x, observed) = Fit("batch", x, observed)
    <3>1. \A v : Fit(v, x, observed) =
              [x |-> x, observed |-> observed, dots |-> Gram(x), norm2 |-> Norms(x),
               sims |-> Cosines(x), means |-> Averages(x, observed),
               near |-> [i \in Items |-> SelectNeighbors(v, Cosines(x)[i], i, Width)]]
      BY DEF Fit, Norms, Cosines, Averages
    <3>2. [i \in Items |-> SelectNeighbors("partial", Cosines(x)[i], i, Width)]
          = [i \in Items |-> SelectNeighbors("batch", Cosines(x)[i], i, Width)]
      BY <2>1
    <3>3. QED BY <3>1, <3>2
  <2>3. QED BY <1>4, <1>6, <2>2
<1>8. model \in [Variants -> ModelStates]
  <2>1. model = [v \in Variants |-> model[v]] BY <1>1
  <2>2. QED BY <1>5, <2>1
<1>9. torn = FALSE BY DEF FirstFit
<1>10. ItemwiseSound BY <1>5, <1>6 DEF ItemwiseSound
<1>11. BatchSound BY <1>5, <1>6 DEF BatchSound
<1>12. ItemwiseAgrees BY <1>5, <1>6 DEF ItemwiseAgrees
<1>13. QED BY <1>7, <1>8, <1>9, <1>10, <1>11, <1>12 DEF SimilarityInv

\* A batch keeps the invariant, and the lists of the users it concerns are new.
NearAfter ==
    ~torn' => \A v \in Variants : RatedNear(model[v], model'[v])

\* An update keeps it: each form by its own result, and the two agree because a batch
\* without an invalid row records the same ratings in both.
LEMMA UpdateKeeps ==
    ASSUME SimilarityInv, NEW batch \in Batches, Update(batch)
    PROVE  SimilarityInv' /\ NearAfter
<1> DEFINE mi == model["itemwise"]
           mb == model["batch"]
           ei == Itemwise(mi, batch)
           eb == Batch("batch", mb, batch)
<1>1. PICK n \in Nat : batch \in [1..n -> Row \cup {BadRow}]
  <2>1. 1..MaxRows \subseteq Nat BY SimilarityAssumption
  <2>2. QED BY <2>1 DEF Batches
<1>2. "itemwise" \in Variants /\ "batch" \in Variants /\ "partial" \in Variants
      /\ \A v \in Variants : v = "itemwise" \/ v = "batch" \/ v = "partial"
  BY DEF Variants
<1>3. /\ mi \in ModelStates /\ Stats(mi) /\ Recorded(mi) /\ Fresh(mi)
      /\ mb \in ModelStates /\ mb.dots = Gram(mb.x) /\ mb.norm2 = Norms(mb.x)
      /\ Recorded(mb) /\ Fresh(mb)
      /\ mi.x = mb.x /\ mi.observed = mb.observed /\ model["partial"] = mb
      /\ torn = FALSE
  BY <1>2 DEF SimilarityInv, ItemwiseSound, BatchSound, ItemwiseAgrees, Update
<1>4. /\ model' = [v \in Variants |-> IF v = "itemwise" THEN Itemwise(model[v], batch)
                                      ELSE Batch(v, model[v], batch)]
      /\ torn' = ((\E r \in ToSet(batch) : ~Valid(r)) /\ model'["itemwise"] # model["itemwise"])
  BY DEF Update
<1>5. /\ model'["itemwise"] = ei /\ model'["batch"] = eb
      /\ model'["partial"] = Batch("partial", mb, batch)
  BY <1>2, <1>3, <1>4
<1>6. torn' \in BOOLEAN BY <1>4
<1>7. /\ ei \in ModelStates /\ Stats(ei) /\ Recorded(ei)
      /\ (\A r \in ToSet(batch) : Valid(r)) =>
             /\ Fresh(ei) /\ RatedNear(mi, ei)
             /\ ei.x = FoldLeft(Rate, mi.x, batch)
             /\ ei.observed = mi.observed \cup RowCells(batch)
  <2> HIDE DEF mi
  <2> QED BY <1>1, <1>3, ItemwiseResult
<1>8. ASSUME \A r \in ToSet(batch) : Valid(r)
      PROVE  /\ eb \in ModelStates /\ eb.dots = Gram(eb.x) /\ eb.norm2 = Norms(eb.x)
             /\ Recorded(eb) /\ Fresh(eb) /\ RatedNear(mb, eb)
             /\ eb.x = FoldLeft(Rate, mb.x, batch)
             /\ eb.observed = mb.observed \cup RowCells(batch)
             /\ Batch("partial", mb, batch) = eb
  <2>1. batch \in [1..n -> Row]
    <3> DEFINE R == Row \cup {BadRow}
    <3>1. batch \in [1..n -> R] BY <1>1
    <3>2. \A k \in 1..n : batch[k] \in R /\ Valid(batch[k])
      <4>1. \A k \in 1..n : batch[k] \in ToSet(batch) BY <1>1 DEF ToSet
      <4> HIDE DEF R
      <4>2. QED BY <1>8, <3>1, <4>1
    <3>3. \A k \in 1..n : batch[k] \in Row BY <3>2, BadRowInvalid
    <3> HIDE DEF R
    <3>4. QED BY <3>1, <3>3
  <2> HIDE DEF mb
  <2>2. /\ eb \in ModelStates /\ eb.dots = Gram(eb.x) /\ eb.norm2 = Norms(eb.x)
        /\ Recorded(eb) /\ Fresh(eb) /\ RatedNear(mb, eb)
        /\ eb.x = FoldLeft(Rate, mb.x, batch)
        /\ eb.observed = mb.observed \cup RowCells(batch)
        /\ EndsInRefresh(mb, batch)
    <3> DEFINE z == "batch"
               e == Batch(z, mb, batch)
    <3>1. z # "partial" OBVIOUS
    <3> HIDE DEF z
    <3>2. /\ e \in ModelStates /\ e.dots = Gram(e.x) /\ e.norm2 = Norms(e.x)
          /\ Recorded(e) /\ Fresh(e)
          /\ e.x = FoldLeft(Rate, mb.x, batch)
          /\ e.observed = mb.observed \cup RowCells(batch)
          /\ z # "partial" => RatedNear(mb, e)
          /\ EndsInRefresh(mb, batch)
      BY <1>3, <2>1, BatchResult
    <3>3. eb = e BY DEF z
    <3> HIDE DEF e, eb
    <3>4. QED BY <3>1, <3>2, <3>3
  <2>3. Batch("partial", mb, batch) = eb
    <3>1. PICK state \in ModelStates, affected \in SUBSET Items : \A z :
              Batch(z, mb, batch) = RefreshRows(z, state, affected)
      BY <2>2 DEF EndsInRefresh
    <3>2. RefreshRows("partial", state, affected) = RefreshRows("batch", state, affected)
      BY SameRefresh
    <3>3. QED BY <3>1, <3>2
  <2>4. QED BY <2>2, <2>3
<1>9. ASSUME \E r \in ToSet(batch) : ~Valid(r)
      PROVE  eb = mb /\ Batch("partial", mb, batch) = mb
  BY <1>9, Zenon DEF Batch
<1> HIDE DEF mi, mb, ei, eb
<1>10. eb \in ModelStates /\ eb.dots = Gram(eb.x) /\ eb.norm2 = Norms(eb.x)
       /\ Recorded(eb) /\ Fresh(eb) /\ Batch("partial", mb, batch) = eb
  BY <1>3, <1>8, <1>9
<1>11. model' \in [Variants -> ModelStates]
  <2>1. \A v \in Variants : model'[v] \in ModelStates BY <1>2, <1>5, <1>7, <1>10
  <2>2. model' = [v \in Variants |-> model'[v]] BY <1>4
  <2>3. QED BY <2>1, <2>2
<1>12. ~torn' => Fresh(ei) /\ ei.x = eb.x /\ ei.observed = eb.observed
  <2> SUFFICES ASSUME ~torn' PROVE Fresh(ei) /\ ei.x = eb.x /\ ei.observed = eb.observed
    OBVIOUS
  <2>1. CASE \A r \in ToSet(batch) : Valid(r) BY <1>3, <1>7, <1>8, <2>1
  <2>2. CASE \E r \in ToSet(batch) : ~Valid(r)
    <3>1. ei = mi BY <1>4, <1>5, <2>2 DEF mi
    <3>2. QED BY <1>3, <1>9, <2>2, <3>1
  <2>3. QED BY <2>1, <2>2
<1>13. ItemwiseSound' BY <1>5, <1>7 DEF ItemwiseSound
<1>14. BatchSound' BY <1>5, <1>10 DEF BatchSound
<1>15. ItemwiseAgrees' BY <1>5, <1>12 DEF ItemwiseAgrees
<1>16. NearAfter
  <2> SUFFICES ASSUME ~torn', NEW v \in Variants PROVE RatedNear(model[v], model'[v])
    BY DEF NearAfter
  <2>1. CASE \A r \in ToSet(batch) : Valid(r)
    BY <1>2, <1>3, <1>5, <1>7, <1>8, <2>1 DEF mi, mb
  <2>2. CASE \E r \in ToSet(batch) : ~Valid(r)
    <3>1. ei = mi BY <1>4, <1>5, <2>2 DEF mi
    <3>2. model'[v] = model[v] BY <1>2, <1>3, <1>5, <1>9, <2>2, <3>1 DEF mi, mb
    <3>3. QED BY <3>2 DEF RatedNear
  <2>3. QED BY <2>1, <2>2
<1>17. QED BY <1>5, <1>6, <1>10, <1>11, <1>13, <1>14, <1>15, <1>16 DEF SimilarityInv

\* So does every step, stuttering included.
LEMMA SimilarityNext ==
    SimilarityInv /\ [AnyUpdate]_modelVars => SimilarityInv' /\ NearAfter
<1> SUFFICES ASSUME SimilarityInv, [AnyUpdate]_modelVars PROVE SimilarityInv' /\ NearAfter
  OBVIOUS
<1>1. CASE AnyUpdate BY <1>1, UpdateKeeps DEF AnyUpdate
<1>2. CASE UNCHANGED modelVars
  <2>1. model' = model /\ torn' = torn BY <1>2 DEF modelVars
  <2>2. SimilarityInv' BY <2>1 DEF SimilarityInv, ItemwiseSound, BatchSound, ItemwiseAgrees
  <2>3. NearAfter BY <2>1 DEF NearAfter, RatedNear
  <2>4. QED BY <2>2, <2>3
<1>3. QED BY <1>1, <1>2

\* Whatever batches of ratings arrive, valid or not, the statistics of every form fit its
\* ratings; similarities and means of the batch forms are exact, and so are those of the
\* itemwise form unless an invalid row stopped an update half-way.
THEOREM SimilarityInvariant == SimilaritySpec => []SimilarityInv
<1>1. SimilarityInv /\ [AnyUpdate]_modelVars => SimilarityInv' BY SimilarityNext
<1>2. QED BY <1>1, SimilarityInit, PTL DEF SimilaritySpec

\* StatsFitRatings: the pair statistics of each of the three implementations are
\* those of the ratings it holds, after any batches and in the middle of one that
\* raised.
THEOREM StatisticsFit == SimilaritySpec => []StatsFitRatings
<1>1. SimilarityInv => StatsFitRatings
  <2> SUFFICES ASSUME SimilarityInv, NEW v \in Variants PROVE Stats(model[v])
    BY DEF StatsFitRatings, Stats
  <2>1. Stats(model["itemwise"]) BY DEF SimilarityInv, ItemwiseSound
  <2>2. Stats(model["batch"]) BY DEF SimilarityInv, BatchSound, Stats, Norms
  <2>3. QED BY <2>1, <2>2 DEF SimilarityInv, Variants
<1>2. QED BY <1>1, SimilarityInvariant, PTL

\* AgreesWithRefit: similarities and means that were updated piece by piece are
\* those of a new fit of all ratings, as long as no invalid row stopped the itemwise
\* form half-way.  It says nothing of the neighbour lists.
THEOREM SimilaritiesExact == SimilaritySpec => []AgreesWithRefit
<1>1. SimilarityInv => AgreesWithRefit
  <2> SUFFICES ASSUME SimilarityInv, ~torn, NEW v \in Variants
               PROVE  /\ \A i, j \in Items :
                            Same(model[v].sims[i][j],
                                 Fit(v, model[v].x, model[v].observed).sims[i][j])
                      /\ model[v].means = Fit(v, model[v].x, model[v].observed).means
    BY DEF AgreesWithRefit
  <2>1. Fresh(model[v]) BY DEF SimilarityInv, BatchSound, ItemwiseAgrees, Variants
  <2>2. model[v] \in ModelStates BY DEF SimilarityInv
  <2>3. model[v].x \in Interactions /\ model[v].observed \in SUBSET Cells
    BY <2>2 DEF ModelStates
  <2>4. /\ Fit(v, model[v].x, model[v].observed).sims = Cosines(model[v].x)
        /\ Fit(v, model[v].x, model[v].observed).means =
               Averages(model[v].x, model[v].observed)
    <3> DEFINE x == model[v].x
               observed == model[v].observed
    <3>1. x \in Interactions /\ observed \in SUBSET Cells BY <2>3
    <3> HIDE DEF x, observed
    <3>2. /\ Fit(v, x, observed).sims = Cosines(x)
          /\ Fit(v, x, observed).means = Averages(x, observed)
      BY <3>1, FitTypes
    <3>3. QED BY <3>2 DEF x, observed
  <2>5. \A a : Same(a, a) BY DEF Same
  <2>6. QED BY <2>1, <2>4, <2>5 DEF Fresh
<1>2. QED BY <1>1, SimilarityInvariant, PTL

\* VariantsAgree: the implementations hold the same ratings, and the partial
\* selection of the one batch form chooses the neighbours that the sorting of the
\* other chooses.
THEOREM SelectionsAgree == SimilaritySpec => []VariantsAgree
<1>1. SimilarityInv => VariantsAgree
  BY DEF SimilarityInv, ItemwiseAgrees, VariantsAgree, Variants
<1>2. QED BY <1>1, SimilarityInvariant, PTL

\* RatedHaveNearest: after an update every item of a user whose ratings it changed
\* has its nearest neighbours.  (The lists of other items may be stale.)
THEOREM RatedRefreshed == SimilaritySpec => RatedHaveNearest
<1>1. NearAfter => (~torn' => \A v \in Variants, i \in Items :
        LET m == model'[v]
        IN (\E u \in Users :
                /\ \E j \in Items : model[v].x[<<u, j>>] # m.x[<<u, j>>]
                /\ model[v].x[<<u, i>>] > 0 \/ m.x[<<u, i>>] > 0)
           => m.near[i] = Nearest(m.sims[i], i, Width))
  BY DEF NearAfter, RatedNear
<1>2. QED BY <1>1, SimilarityNext, SimilarityInvariant, PTL
        DEF SimilaritySpec, RatedHaveNearest
=============================================================================
