---------------------- MODULE NotificationDeliveryProofs ----------------------
(***************************************************************************)
(* For any number of rows, workers, devices, faults and changes: what is   *)
(* sent more than once is explained by a failure, a death or a refused     *)
(* commit, and a completed row was handed over or switched off.            *)
(***************************************************************************)
EXTENDS NotificationDelivery, TLAPS

Counted == {"realtime", "email"}

\* FOR UPDATE SKIP LOCKED: two workers never hold one row.
OneHolder == \A w, x \in Workers : w # x /\ row[w] = row[x] => row[w] = NoRow

\* An attempt takes the channels one after the other.
InTurn ==
    \A w \in Workers :
        /\ step[w] \in {"idle", "realtime"} => pending[w] = {}
        /\ step[w] = "email" => "email" \notin pending[w]

\* A channel counts as handled once its flag is committed or about to be.
Handled(d, ch) == d \in done[ch] \/ \E w \in Workers : row[w] = d /\ ch \in pending[w]

\* Every send but the one that is kept is paid for by something that went wrong.
SendsExplained ==
    \A d \in Deliveries, ch \in Counted :
        /\ sent[d][ch] <= 1 + failed[d][ch] + deaths[d] + conflicts[d]
        /\ ~Handled(d, ch) => sent[d][ch] <= failed[d][ch] + deaths[d] + conflicts[d]

\* A channel is handled because it was sent or switched off.
HandledForAReason ==
    \A d \in Deliveries, ch \in Counted :
        Handled(d, ch) => sent[d][ch] > 0 \/ ch \in silenced[d]

CompletedIsDone == \A d \in completed : \A ch \in Channels : d \in done[ch]

DeliveryInv ==
    TypeOK /\ OneHolder /\ InTurn /\ SendsExplained /\ HandledForAReason /\ CompletedIsDone

-----------------------------------------------------------------------------
(* Types *)

\* One more of a counter kept by row and channel.
LEMMA Counts ==
    ASSUME NEW f \in [Deliveries -> [Channels -> Nat]], NEW d \in Deliveries,
           NEW ch \in Channels, NEW g, g = [f EXCEPT ![d][ch] = @ + 1]
    PROVE  /\ g \in [Deliveries -> [Channels -> Nat]]
           /\ g[d][ch] = f[d][ch] + 1
           /\ \A e \in Deliveries, c \in Channels : e # d \/ c # ch => g[e][c] = f[e][c]
<1>1. f[d][ch] + 1 \in Nat OBVIOUS
<1>2. QED BY <1>1

LEMMA CounterTypes ==
    ASSUME TypeOK, NEW d \in Deliveries, NEW ch \in Channels
    PROVE  /\ sent \in [Deliveries -> [Channels -> Nat]]
           /\ failed \in [Deliveries -> [Channels -> Nat]]
           /\ [sent EXCEPT ![d][ch] = @ + 1] \in [Deliveries -> [Channels -> Nat]]
           /\ [failed EXCEPT ![d][ch] = @ + 1] \in [Deliveries -> [Channels -> Nat]]
<1>1. /\ sent \in [Deliveries -> [Channels -> Nat]]
      /\ failed \in [Deliveries -> [Channels -> Nat]]
  BY DEF TypeOK
<1>2. QED BY <1>1, Counts

LEMMA InitInv == Init => DeliveryInv
<1> SUFFICES ASSUME Init PROVE DeliveryInv
  OBVIOUS
<1>1. TypeOK
  BY DeliveryAssumption DEF Init, TypeOK, Channels, Rows
<1>2. OneHolder /\ InTurn /\ CompletedIsDone BY DEF Init, OneHolder, InTurn, CompletedIsDone
<1>3. \A d \in Deliveries, ch \in Counted :
         sent[d][ch] = 0 /\ failed[d][ch] = 0 /\ deaths[d] = 0 /\ conflicts[d] = 0
  BY DEF Init, Counted, Channels
<1>4. SendsExplained BY <1>3 DEF SendsExplained
<1>5. \A d \in Deliveries, ch \in Counted : Handled(d, ch) => ch \in silenced[d]
  BY DEF Init, Counted, Channels, Handled
<1>6. HandledForAReason BY <1>5 DEF HandledForAReason
<1>7. QED BY <1>1, <1>2, <1>4, <1>6 DEF DeliveryInv

\* The worker of a step that is not idle holds a row.
LEMMA Holds ==
    ASSUME TypeOK, NEW w \in Workers, step[w] # "idle" PROVE row[w] \in Deliveries
BY DEF TypeOK

LEMMA FaultTypes ==
    ASSUME TypeOK, faults < MaxFaults, faults' = faults + 1 PROVE faults' \in 0..MaxFaults
BY DeliveryAssumption DEF TypeOK

LEMMA ClaimTypes ==
    ASSUME TypeOK, NEW w \in Workers, NEW d \in Deliveries, Claim(w, d) PROVE TypeOK'
<1> USE RowAssumption DEF TypeOK
<1>1. Enabled \subseteq Channels BY DEF Enabled, Channels
<1>2. step' \in [Workers -> {"idle", "realtime", "email", "push", "devices", "commit"}]
  BY DEF Claim, Take
<1>3. pending' \in [Workers -> SUBSET Channels] /\ silenced' \in [Deliveries -> SUBSET Channels]
  <2>1. CASE active
    <3>1. pending' = pending /\ silenced' = silenced BY <2>1 DEF Claim, Take
    <3>2. QED BY <3>1
  <2>2. CASE ~active
    <3>1. /\ pending' = [pending EXCEPT ![w] = Channels]
          /\ silenced' = [silenced EXCEPT ![d] = Channels]
      BY <2>2 DEF Claim, Take
    <3>2. QED BY <3>1
  <2>3. QED BY <2>1, <2>2
<1>4. row' \in [Workers -> Deliveries \cup {NoRow}] /\ saw' \in [Workers -> SUBSET Channels]
  BY <1>1 DEF Claim, Take
<1>5. \A x \in Workers : step'[x] = "idle" <=> row'[x] = NoRow
  BY DEF Claim, Take
<1>6. QED
  BY <1>2, <1>3, <1>4, <1>5 DEF Claim, Take, tableVars, userVars

LEMMA SendTypes ==
    ASSUME TypeOK, NEW w \in Workers, NEW ch \in Channels, Send(w, ch) PROVE TypeOK'
<1>1. row[w] \in Deliveries BY Holds DEF Send, Counted
<1>2. /\ pending' = pending \/ pending' = [pending EXCEPT ![w] = @ \cup {ch}]
      /\ silenced' = silenced \/ silenced' = [silenced EXCEPT ![row[w]] = @ \cup {ch}]
      /\ faults' = faults \/ (faults < MaxFaults /\ faults' = faults + 1)
  BY DEF Send, Skip, Silence, Succeed, Fail
<1>3. sent' = sent \/ sent' = [sent EXCEPT ![row[w]][ch] = @ + 1]
  BY DEF Send, Skip, Silence, Succeed, Fail
<1>4. failed' = failed \/ failed' = [failed EXCEPT ![row[w]][ch] = @ + 1]
  BY DEF Send, Skip, Silence, Succeed, Fail
<1>5. /\ sent' \in [Deliveries -> [Channels -> Nat]]
      /\ failed' \in [Deliveries -> [Channels -> Nat]]
  <2>1. /\ [sent EXCEPT ![row[w]][ch] = @ + 1] \in [Deliveries -> [Channels -> Nat]]
        /\ [failed EXCEPT ![row[w]][ch] = @ + 1] \in [Deliveries -> [Channels -> Nat]]
    BY <1>1, CounterTypes
  <2>2. QED BY <1>3, <1>4, <2>1 DEF TypeOK
<1>6. /\ step' \in [Workers -> {"idle", "realtime", "email", "push", "devices", "commit"}]
      /\ \A x \in Workers : step'[x] = "idle" <=> row'[x] = NoRow
  BY <1>1, RowAssumption DEF Send, After, TypeOK
<1>7. /\ pending' \in [Workers -> SUBSET Channels]
      /\ silenced' \in [Deliveries -> SUBSET Channels]
  <2>1. /\ pending \in [Workers -> SUBSET Channels]
        /\ silenced \in [Deliveries -> SUBSET Channels]
    BY DEF TypeOK
  <2>2. QED BY <1>1, <1>2, <2>1
<1>8. faults' \in 0..MaxFaults BY <1>2, FaultTypes DEF TypeOK
<1>9. QED
  BY <1>5, <1>6, <1>7, <1>8 DEF Send, TypeOK, tableVars, userVars

LEMMA PushTypes ==
    ASSUME TypeOK, NEW w \in Workers,
           \/ ReadDevices(w) \/ PushEnds(w)
           \/ \E r \in queue[w] : PushDevice(w, r) \/ PushThrows(w, r)
    PROVE  TypeOK'
<1>1. row[w] \in Deliveries BY Holds DEF ReadDevices, PushEnds, PushDevice, PushThrows
<1>2. "push" \in Channels BY DEF Channels
<1>3. CASE ReadDevices(w)
  <2>1. {r \in {<<v, rowId[v]>> : v \in Devices} : r[2] # 0} \in SUBSET Rows
    BY DEF Rows, TypeOK
  <2>2. queue' \in [Workers -> SUBSET Rows] BY <1>3, <2>1 DEF ReadDevices, TypeOK
  <2>3. /\ step' \in [Workers -> {"idle", "realtime", "email", "push", "devices", "commit"}]
        /\ \A x \in Workers : step'[x] = "idle" <=> row'[x] = NoRow
    BY <1>3 DEF ReadDevices, TypeOK
  <2>4. /\ pending' \in [Workers -> SUBSET Channels]
        /\ silenced' \in [Deliveries -> SUBSET Channels]
        /\ UNCHANGED <<sent, failed, faults>>
    <3>1. /\ pending' = pending \/ pending' = [pending EXCEPT ![w] = @ \cup {"push"}]
          /\ silenced' = silenced \/ silenced' = [silenced EXCEPT ![row[w]] = @ \cup {"push"}]
          /\ UNCHANGED <<sent, failed, faults>>
      BY <1>3 DEF ReadDevices, Skip, Silence
    <3>2. /\ pending \in [Workers -> SUBSET Channels]
          /\ silenced \in [Deliveries -> SUBSET Channels]
      BY DEF TypeOK
    <3>3. QED BY <1>1, <1>2, <3>1, <3>2
  <2>5. QED BY <1>3, <2>2, <2>3, <2>4 DEF ReadDevices, TypeOK, tableVars, userVars
<1>4. ASSUME NEW r \in queue[w], PushDevice(w, r) PROVE TypeOK'
  <2>1. queue' \in [Workers -> SUBSET Rows] /\ forget' \in [Workers -> SUBSET Rows]
    <3>1. /\ queue' = [queue EXCEPT ![w] = @ \ {r}]
          /\ forget' = forget \/ forget' = [forget EXCEPT ![w] = @ \cup {r}]
      BY <1>4 DEF PushDevice
    <3>2. /\ queue \in [Workers -> SUBSET Rows] /\ forget \in [Workers -> SUBSET Rows]
          /\ r \in queue[w]
      BY DEF TypeOK
    <3>3. QED BY <3>1, <3>2
  <2>2. sent' = sent \/ sent' = [sent EXCEPT ![row[w]]["push"] = @ + 1]
    BY <1>4 DEF PushDevice
  <2>3. sent' \in [Deliveries -> [Channels -> Nat]]
    <3>1. [sent EXCEPT ![row[w]]["push"] = @ + 1] \in [Deliveries -> [Channels -> Nat]]
      BY <1>1, <1>2, CounterTypes
    <3>2. QED BY <2>2, <3>1 DEF TypeOK
  <2>4. QED BY <1>4, <2>1, <2>3 DEF PushDevice, TypeOK, tableVars, userVars
<1>5. ASSUME NEW r \in queue[w], PushThrows(w, r) PROVE TypeOK'
  <2>1. queue' \in [Workers -> SUBSET Rows] /\ faults' \in 0..MaxFaults
    BY <1>5, FaultTypes DEF PushThrows, Fail, TypeOK
  <2>2. /\ sent' = sent \/ sent' = [sent EXCEPT ![row[w]]["push"] = @ + 1]
        /\ failed' = [failed EXCEPT ![row[w]]["push"] = @ + 1]
    BY <1>5 DEF PushThrows, Fail
  <2>3. /\ sent' \in [Deliveries -> [Channels -> Nat]]
        /\ failed' \in [Deliveries -> [Channels -> Nat]]
    <3>1. /\ [sent EXCEPT ![row[w]]["push"] = @ + 1] \in [Deliveries -> [Channels -> Nat]]
          /\ [failed EXCEPT ![row[w]]["push"] = @ + 1] \in [Deliveries -> [Channels -> Nat]]
      BY <1>1, <1>2, CounterTypes
    <3>2. QED BY <2>2, <3>1 DEF TypeOK
  <2>4. /\ step' \in [Workers -> {"idle", "realtime", "email", "push", "devices", "commit"}]
        /\ \A x \in Workers : step'[x] = "idle" <=> row'[x] = NoRow
    BY <1>5 DEF PushThrows, TypeOK
  <2>5. QED
    BY <1>5, <2>1, <2>3, <2>4 DEF PushThrows, Fail, TypeOK, tableVars, userVars
<1>6. CASE PushEnds(w)
  BY <1>2, <1>6 DEF PushEnds, TypeOK, tableVars, userVars, historyVars
<1>7. QED BY <1>3, <1>4, <1>5, <1>6

LEMMA EndTypes ==
    ASSUME TypeOK, NEW w \in Workers, Commit(w) \/ CommitRefused(w) \/ Die(w)
    PROVE  TypeOK'
<1>1. row[w] \in Deliveries BY Holds DEF Commit, CommitRefused, Die
<1>2. EndTransaction(w) BY DEF Commit, CommitRefused, Die
<1>3. /\ row' \in [Workers -> Deliveries \cup {NoRow}]
      /\ step' \in [Workers -> {"idle", "realtime", "email", "push", "devices", "commit"}]
      /\ saw' \in [Workers -> SUBSET Channels] /\ pending' \in [Workers -> SUBSET Channels]
      /\ queue' \in [Workers -> SUBSET Rows] /\ forget' \in [Workers -> SUBSET Rows]
      /\ \A x \in Workers : step'[x] = "idle" <=> row'[x] = NoRow
  BY <1>2 DEF EndTransaction, TypeOK
<1>4. CASE Commit(w)
  <2>1. Written(w) \in [Channels -> SUBSET Deliveries] BY <1>1 DEF Written, TypeOK
  <2>2. rowId' \in [Devices -> Nat] BY <1>4 DEF Commit, Save, TypeOK
  <2>3. completed' \subseteq Deliveries BY <1>1, <1>4 DEF Commit, Save, TypeOK
  <2>4. QED
    BY <1>3, <1>4, <2>1, <2>2, <2>3 DEF Commit, Save, TypeOK, userVars, historyVars
<1>5. CASE CommitRefused(w)
  BY <1>1, <1>3, <1>5 DEF CommitRefused, TypeOK, tableVars, userVars
<1>6. CASE Die(w)
  BY <1>1, <1>3, <1>6, FaultTypes DEF Die, TypeOK, tableVars, userVars
<1>7. QED BY <1>4, <1>5, <1>6

LEMMA UserTypes ==
    ASSUME TypeOK, ChangeSettings \/ \E v \in Devices : Register(v) \/ Remove(v)
    PROVE  TypeOK'
<1>1. Change BY DEF ChangeSettings, Register, Remove
<1>2. churn' \in 0..MaxChurn BY <1>1, DeliveryAssumption DEF Change, TypeOK
<1>3. rowId' \in [Devices -> Nat]
  <2>1. churn + 2 \in Nat BY DeliveryAssumption DEF TypeOK
  <2>2. QED BY <2>1 DEF ChangeSettings, Register, Remove, TypeOK
<1>4. active' \in BOOLEAN /\ inApp' \in BOOLEAN /\ email' \in BOOLEAN
  BY DEF ChangeSettings, Register, Remove, userVars, TypeOK
<1>5. QED
  BY <1>1, <1>2, <1>3, <1>4 DEF Change, TypeOK, workerVars, historyVars

-----------------------------------------------------------------------------
(* The parts of the invariant *)

Pushes(w) ==
    \/ ReadDevices(w) \/ PushEnds(w)
    \/ \E r \in queue[w] : PushDevice(w, r) \/ PushThrows(w, r)
Ending(w) == Commit(w) \/ CommitRefused(w) \/ Die(w)
UserStep == ChangeSettings \/ \E v \in Devices : Register(v) \/ Remove(v)

\* The kinds of steps the proofs below distinguish.
LEMMA Kinds ==
    [Next]_vars =>
        \/ \E w \in Workers :
             \/ \E d \in Deliveries : Claim(w, d)
             \/ \E ch \in Channels : Send(w, ch)
             \/ Pushes(w) \/ Ending(w)
        \/ UserStep \/ UNCHANGED vars
BY DEF Next, Deliver, Pushes, Ending, UserStep

LEMMA UserKeeps ==
    ASSUME UserStep \/ UNCHANGED vars
    PROVE  UNCHANGED <<done, completed, workerVars, historyVars>>
BY DEF UserStep, ChangeSettings, Register, Remove, Change, vars, tableVars

\* Push leaves the other channels alone.
LEMMA PushKeeps ==
    ASSUME TypeOK, NEW w \in Workers, Pushes(w)
    PROVE  /\ UNCHANGED <<done, completed, row, deaths, conflicts>>
           /\ step[w] \in {"push", "devices"}
           /\ \A x \in Workers : x # w => step'[x] = step[x] /\ pending'[x] = pending[x]
           /\ step'[w] \in {"devices", "commit"}
           /\ pending'[w] \cap Counted = pending[w] \cap Counted
           /\ \A d \in Deliveries : silenced[d] \subseteq silenced'[d]
           /\ \A d \in Deliveries, ch \in Counted :
                 sent'[d][ch] = sent[d][ch] /\ failed'[d][ch] = failed[d][ch]
<1>1. row[w] \in Deliveries
  BY Holds DEF Pushes, ReadDevices, PushEnds, PushDevice, PushThrows
<1>2. "push" \in Channels /\ "push" \notin Counted /\ Counted \subseteq Channels
  BY DEF Channels, Counted
<1>3. /\ UNCHANGED <<done, completed, row, deaths, conflicts>>
      /\ step[w] \in {"push", "devices"}
  BY DEF Pushes, ReadDevices, PushEnds, PushDevice, PushThrows, tableVars, historyVars
<1>4. step' = step \/ \E s \in {"devices", "commit"} : step' = [step EXCEPT ![w] = s]
  BY DEF Pushes, ReadDevices, PushEnds, PushDevice, PushThrows
<1>5. pending' = pending \/ pending' = [pending EXCEPT ![w] = @ \cup {"push"}]
  BY DEF Pushes, ReadDevices, PushEnds, PushDevice, PushThrows, Skip, Silence, Fail
<1>6. silenced' = silenced \/ silenced' = [silenced EXCEPT ![row[w]] = @ \cup {"push"}]
  BY DEF Pushes, ReadDevices, PushEnds, PushDevice, PushThrows, Skip, Silence, Fail,
         historyVars
<1>7. sent' = sent \/ sent' = [sent EXCEPT ![row[w]]["push"] = @ + 1]
  BY DEF Pushes, ReadDevices, PushEnds, PushDevice, PushThrows, Skip, Silence, Fail,
         historyVars
<1>8. failed' = failed \/ failed' = [failed EXCEPT ![row[w]]["push"] = @ + 1]
  BY DEF Pushes, ReadDevices, PushEnds, PushDevice, PushThrows, Skip, Silence, Fail,
         historyVars
<1>9. \A d \in Deliveries, ch \in Counted :
         sent'[d][ch] = sent[d][ch] /\ failed'[d][ch] = failed[d][ch]
  BY <1>1, <1>2, <1>7, <1>8 DEF TypeOK
<1>10. \A d \in Deliveries : silenced[d] \subseteq silenced'[d]
  <2>1. silenced \in [Deliveries -> SUBSET Channels] BY DEF TypeOK
  <2>2. QED BY <1>1, <1>6, <2>1
<1>11. \A x \in Workers : x # w => step'[x] = step[x]
  BY <1>4 DEF TypeOK
<1>12. step'[w] \in {"devices", "commit"}
  BY <1>3 DEF TypeOK, Pushes, ReadDevices, PushEnds, PushDevice, PushThrows
<1>13. /\ \A x \in Workers : x # w => pending'[x] = pending[x]
       /\ pending'[w] \cap Counted = pending[w] \cap Counted
  BY <1>2, <1>5 DEF TypeOK
<1>14. QED BY <1>3, <1>9, <1>10, <1>11, <1>12, <1>13

\* The end of a transaction, committed or not.
LEMMA EndKeeps ==
    ASSUME TypeOK, NEW w \in Workers, Ending(w)
    PROVE  /\ row[w] \in Deliveries
           /\ UNCHANGED <<sent, failed, silenced>>
           /\ row' = [row EXCEPT ![w] = NoRow]
           /\ step' = [step EXCEPT ![w] = "idle"]
           /\ pending' = [pending EXCEPT ![w] = {}]
BY Holds DEF Ending, Commit, CommitRefused, Die, EndTransaction, historyVars

LEMMA StepHolders ==
    ASSUME DeliveryInv, [Next]_vars PROVE OneHolder'
<1> USE RowAssumption DEF DeliveryInv
<1>1. ASSUME NEW w \in Workers, NEW d \in Deliveries, Claim(w, d) PROVE OneHolder'
  BY <1>1 DEF Claim, Take, OneHolder, TypeOK
<1>2. ASSUME NEW w \in Workers, Ending(w) PROVE OneHolder'
  <2>1. row' = [row EXCEPT ![w] = NoRow] BY <1>2, EndKeeps
  <2>2. QED BY <2>1 DEF OneHolder, TypeOK
<1>3. ASSUME NEW w \in Workers, (\E ch \in Channels : Send(w, ch)) \/ Pushes(w)
      PROVE OneHolder'
  <2>1. row' = row BY <1>3, PushKeeps DEF Send
  <2>2. QED BY <2>1 DEF OneHolder
<1>4. CASE UserStep \/ UNCHANGED vars
  BY <1>4, UserKeeps DEF OneHolder, workerVars
<1>5. QED BY <1>1, <1>2, <1>3, <1>4, Kinds

LEMMA StepTurns ==
    ASSUME DeliveryInv, [Next]_vars PROVE InTurn'
<1> USE DEF DeliveryInv
<1>1. ASSUME NEW w \in Workers, NEW d \in Deliveries, Claim(w, d) PROVE InTurn'
  BY <1>1 DEF Claim, Take, InTurn, TypeOK
<1>2. ASSUME NEW w \in Workers, Ending(w) PROVE InTurn'
  <2>1. step' = [step EXCEPT ![w] = "idle"] /\ pending' = [pending EXCEPT ![w] = {}]
    BY <1>2, EndKeeps
  <2>2. QED BY <2>1 DEF InTurn, TypeOK
<1>3. ASSUME NEW w \in Workers, NEW ch \in Channels, Send(w, ch) PROVE InTurn'
  <2>1. ch \in {"realtime", "email"} /\ step[w] = ch BY <1>3 DEF Send
  <2>2. step' = [step EXCEPT ![w] = After(ch)] BY <1>3 DEF Send
  <2>3. pending' = pending \/ pending' = [pending EXCEPT ![w] = @ \cup {ch}]
    BY <1>3 DEF Send, Skip, Silence, Succeed, Fail
  <2>4. \A x \in Workers : x # w => step'[x] = step[x] /\ pending'[x] = pending[x]
    BY <2>2, <2>3 DEF TypeOK
  <2>5. CASE ch = "realtime"
    <3>1. step'[w] = "email" BY <2>2, <2>5 DEF After, TypeOK
    <3>2. "email" \notin pending'[w] BY <2>1, <2>3, <2>5 DEF InTurn, TypeOK
    <3>3. QED BY <2>4, <3>1, <3>2 DEF InTurn
  <2>6. CASE ch = "email"
    <3>1. step'[w] = "push" BY <2>2, <2>6 DEF After, TypeOK
    <3>2. QED BY <2>4, <3>1 DEF InTurn
  <2>7. QED BY <2>1, <2>5, <2>6
<1>4. ASSUME NEW w \in Workers, Pushes(w) PROVE InTurn'
  BY <1>4, PushKeeps DEF InTurn
<1>5. CASE UserStep \/ UNCHANGED vars
  BY <1>5, UserKeeps DEF InTurn, workerVars
<1>6. QED BY <1>1, <1>2, <1>3, <1>4, <1>5, Kinds

LEMMA StepCompleted ==
    ASSUME DeliveryInv, [Next]_vars PROVE CompletedIsDone'
<1> USE DEF DeliveryInv
<1>1. ASSUME NEW w \in Workers, Commit(w) PROVE CompletedIsDone'
  <2>1. done' = Written(w) BY <1>1 DEF Commit, Save
  <2>2. \A ch \in Channels : done[ch] \subseteq done'[ch] BY <2>1 DEF Written
  <2>3. completed' = completed \/ (/\ completed' = completed \cup {row[w]}
                                   /\ \A ch \in Channels : row[w] \in done'[ch])
    BY <1>1, <2>1 DEF Commit, Save
  <2>4. QED BY <2>2, <2>3 DEF CompletedIsDone
<1>2. CASE UNCHANGED <<done, completed>> BY <1>2 DEF CompletedIsDone
<1>3. ASSUME NEW w \in Workers, ~Commit(w),
             \/ \E d \in Deliveries : Claim(w, d)
             \/ \E ch \in Channels : Send(w, ch)
             \/ Pushes(w) \/ Ending(w)
      PROVE  UNCHANGED <<done, completed>>
  BY <1>3, PushKeeps DEF Claim, Take, Send, Ending, CommitRefused, Die, tableVars
<1>4. QED BY <1>1, <1>2, <1>3, UserKeeps, Kinds

\* Where nothing is sent and nothing goes wrong, what is handled decides.
LEMMA Carried ==
    ASSUME DeliveryInv,
           \A d \in Deliveries, ch \in Counted :
               /\ sent'[d][ch] = sent[d][ch] /\ failed'[d][ch] = failed[d][ch]
               /\ deaths'[d] = deaths[d] /\ conflicts'[d] = conflicts[d]
               /\ silenced[d] \subseteq silenced'[d]
               /\ Handled(d, ch) => Handled(d, ch)'
               /\ Handled(d, ch)' => Handled(d, ch) \/ ch \in silenced'[d]
    PROVE  SendsExplained' /\ HandledForAReason'
BY DEF DeliveryInv, SendsExplained, HandledForAReason

LEMMA ClaimExplained ==
    ASSUME DeliveryInv, NEW w \in Workers, NEW d \in Deliveries, Claim(w, d)
    PROVE  SendsExplained' /\ HandledForAReason'
<1> USE DEF DeliveryInv
<1>1. /\ UNCHANGED <<done, sent, failed, deaths, conflicts>>
      /\ row' = [row EXCEPT ![w] = d] /\ step[w] = "idle"
  BY DEF Claim, Take, tableVars
<1>2. row[w] = NoRow /\ pending[w] = {} BY <1>1 DEF TypeOK, InTurn
<1>3. /\ \A x \in Workers : x # w => row'[x] = row[x] /\ pending'[x] = pending[x]
      /\ row'[w] = d
  BY <1>1 DEF Claim, Take, TypeOK
<1>4. /\ \A e \in Deliveries : silenced[e] \subseteq silenced'[e]
      /\ pending'[w] = {} \/ Channels = silenced'[d]
  <2>1. CASE active
    <3>1. pending' = pending /\ silenced' = silenced BY <2>1 DEF Claim, Take
    <3>2. QED BY <1>2, <3>1
  <2>2. CASE ~active
    <3>1. silenced' = [silenced EXCEPT ![d] = Channels] BY <2>2 DEF Claim, Take
    <3>2. silenced \in [Deliveries -> SUBSET Channels] BY DEF TypeOK
    <3>3. QED BY <3>1, <3>2
  <2>3. QED BY <2>1, <2>2
<1>5. Counted \subseteq Channels BY DEF Counted, Channels
<1>6. ASSUME NEW e \in Deliveries, NEW ch \in Counted, Handled(e, ch) PROVE Handled(e, ch)'
  BY <1>1, <1>2, <1>3, <1>6 DEF Handled
<1>7. ASSUME NEW e \in Deliveries, NEW ch \in Counted, Handled(e, ch)'
      PROVE  Handled(e, ch) \/ ch \in silenced'[e]
  BY <1>1, <1>3, <1>4, <1>5, <1>7 DEF Handled
<1>8. QED BY <1>1, <1>4, <1>6, <1>7, Carried

\* SignalR and email: a send is paid for by a failure, or the channel is handled.
LEMMA SendExplained ==
    ASSUME DeliveryInv, NEW w \in Workers, NEW ch \in Channels, Send(w, ch)
    PROVE  SendsExplained' /\ HandledForAReason'
<1> USE DEF DeliveryInv
<1>1. /\ ch \in Counted /\ step[w] = ch
      /\ UNCHANGED <<done, row, deaths, conflicts>>
  BY DEF Send, Counted, tableVars
<1>2. row[w] \in Deliveries BY <1>1, Holds DEF Counted
<1>3. \A x \in Workers : x # w => row[x] # row[w]
  BY <1>2, RowAssumption DEF OneHolder
<1>4. ch \notin pending[w] BY <1>1 DEF InTurn, Counted
<1>5. sent \in [Deliveries -> [Channels -> Nat]] /\ failed \in [Deliveries -> [Channels -> Nat]]
      /\ silenced \in [Deliveries -> SUBSET Channels] /\ pending \in [Workers -> SUBSET Channels]
      /\ deaths \in [Deliveries -> Nat] /\ conflicts \in [Deliveries -> Nat]
  BY DEF TypeOK
<1>6. Counted \subseteq Channels BY DEF Counted, Channels
<1>7. ASSUME pending' = pending \/ pending' = [pending EXCEPT ![w] = @ \cup {ch}],
             NEW d \in Deliveries, NEW c \in Counted
      PROVE  /\ Handled(d, c) => Handled(d, c)'
             /\ d # row[w] \/ c # ch => (Handled(d, c)' => Handled(d, c))
  BY <1>1, <1>5, <1>7 DEF Handled
<1>8. CASE row[w] \in done[ch] /\ Skip(w, ch)
  <2>1. UNCHANGED <<pending, sent, failed, silenced>> BY <1>8 DEF Skip
  <2>2. \A d \in Deliveries, c \in Counted : Handled(d, c)' <=> Handled(d, c)
    BY <1>1, <2>1 DEF Handled
  <2>3. QED BY <1>1, <2>1, <2>2, Carried
<1>9. CASE Silence(w, ch)
  <2>1. /\ pending' = [pending EXCEPT ![w] = @ \cup {ch}]
        /\ silenced' = [silenced EXCEPT ![row[w]] = @ \cup {ch}]
        /\ UNCHANGED <<sent, failed>>
    BY <1>9 DEF Silence
  <2>2. /\ \A d \in Deliveries : silenced[d] \subseteq silenced'[d]
        /\ ch \in silenced'[row[w]]
    BY <1>2, <1>5, <2>1
  <2>3. \A d \in Deliveries, c \in Counted :
           /\ Handled(d, c) => Handled(d, c)'
           /\ Handled(d, c)' => Handled(d, c) \/ c \in silenced'[d]
    BY <1>7, <2>1, <2>2
  <2>4. QED BY <1>1, <2>1, <2>2, <2>3, Carried
<1>10. CASE row[w] \notin done[ch] /\ Succeed(w, ch)
  <2>1. /\ pending' = [pending EXCEPT ![w] = @ \cup {ch}]
        /\ sent' = [sent EXCEPT ![row[w]][ch] = @ + 1]
        /\ UNCHANGED <<failed, silenced>>
    BY <1>10 DEF Succeed
  <2>2. ~Handled(row[w], ch) BY <1>3, <1>4, <1>10 DEF Handled
  <2>3. /\ sent'[row[w]][ch] = sent[row[w]][ch] + 1
        /\ \A d \in Deliveries, c \in Counted :
              d # row[w] \/ c # ch => sent'[d][c] = sent[d][c]
    BY <1>2, <1>5, <1>6, <2>1
  <2>4. ASSUME NEW d \in Deliveries, NEW c \in Counted
        PROVE  /\ sent'[d][c] <= 1 + failed'[d][c] + deaths'[d] + conflicts'[d]
               /\ ~Handled(d, c)' => sent'[d][c] <= failed'[d][c] + deaths'[d] + conflicts'[d]
               /\ Handled(d, c)' => sent'[d][c] > 0 \/ c \in silenced'[d]
    <3>1. CASE d = row[w] /\ c = ch
      <4>1. sent[d][c] <= failed[d][c] + deaths[d] + conflicts[d]
        BY <2>2, <3>1 DEF SendsExplained
      <4>2. sent[d][c] \in Nat /\ failed[d][c] \in Nat /\ deaths[d] \in Nat /\ conflicts[d] \in Nat
        BY <1>5, <1>6
      <4>3. failed'[d][c] = failed[d][c] /\ deaths'[d] = deaths[d] /\ conflicts'[d] = conflicts[d]
        BY <1>1, <2>1
      <4>4. sent'[d][c] = sent[d][c] + 1 BY <2>3, <3>1
      <4>5. Handled(d, c)' BY <1>1, <1>5, <2>1, <3>1 DEF Handled
      <4>6. QED BY <4>1, <4>2, <4>3, <4>4, <4>5
    <3>2. CASE d # row[w] \/ c # ch
      <4>1. Handled(d, c)' <=> Handled(d, c) BY <1>7, <2>1, <3>2
      <4>2. QED BY <1>1, <2>1, <2>3, <3>2, <4>1 DEF SendsExplained, HandledForAReason
    <3>3. QED BY <3>1, <3>2
  <2>5. QED BY <2>4 DEF SendsExplained, HandledForAReason
<1>11. CASE Fail(w, ch)
  <2>1. /\ sent' = sent \/ sent' = [sent EXCEPT ![row[w]][ch] = @ + 1]
        /\ failed' = [failed EXCEPT ![row[w]][ch] = @ + 1]
        /\ UNCHANGED <<pending, silenced>>
    BY <1>11 DEF Fail
  <2>2. \A d \in Deliveries, c \in Counted : Handled(d, c)' <=> Handled(d, c)
    BY <1>1, <2>1 DEF Handled
  <2>3. /\ sent'[row[w]][ch] = sent[row[w]][ch] \/ sent'[row[w]][ch] = sent[row[w]][ch] + 1
        /\ failed'[row[w]][ch] = failed[row[w]][ch] + 1
        /\ \A d \in Deliveries, c \in Counted : d # row[w] \/ c # ch =>
              sent'[d][c] = sent[d][c] /\ failed'[d][c] = failed[d][c]
    BY <1>2, <1>5, <1>6, <2>1
  <2>4. ASSUME NEW d \in Deliveries, NEW c \in Counted
        PROVE  /\ sent'[d][c] <= 1 + failed'[d][c] + deaths'[d] + conflicts'[d]
               /\ ~Handled(d, c)' => sent'[d][c] <= failed'[d][c] + deaths'[d] + conflicts'[d]
               /\ Handled(d, c)' => sent'[d][c] > 0 \/ c \in silenced'[d]
    <3>1. sent[d][c] \in Nat /\ failed[d][c] \in Nat /\ deaths[d] \in Nat /\ conflicts[d] \in Nat
      BY <1>5, <1>6
    <3>2. UNCHANGED <<silenced, deaths, conflicts>> BY <1>1, <2>1
    <3>3. Handled(d, c)' <=> Handled(d, c) BY <2>2
    <3>4. /\ sent[d][c] <= 1 + failed[d][c] + deaths[d] + conflicts[d]
          /\ ~Handled(d, c) => sent[d][c] <= failed[d][c] + deaths[d] + conflicts[d]
      BY DEF SendsExplained
    <3>5. Handled(d, c) => sent[d][c] > 0 \/ c \in silenced[d]
      BY DEF HandledForAReason
    <3>6. deaths'[d] = deaths[d] /\ conflicts'[d] = conflicts[d] /\ silenced'[d] = silenced[d]
      BY <3>2
    <3>7. \/ sent'[d][c] = sent[d][c] /\ failed'[d][c] = failed[d][c]
          \/ sent'[d][c] = sent[d][c] /\ failed'[d][c] = failed[d][c] + 1
          \/ sent'[d][c] = sent[d][c] + 1 /\ failed'[d][c] = failed[d][c] + 1
      <4>1. CASE d = row[w] /\ c = ch BY <2>3, <4>1
      <4>2. CASE d # row[w] \/ c # ch BY <2>3, <4>2
      <4>3. QED BY <4>1, <4>2
    <3>8. QED BY <3>1, <3>3, <3>4, <3>5, <3>6, <3>7
  <2>5. QED BY <2>4 DEF SendsExplained, HandledForAReason
<1>12. QED BY <1>8, <1>9, <1>10, <1>11 DEF Send

\* A commit keeps what is handled; a refused one, or a death, pays for the next send.
LEMMA EndExplained ==
    ASSUME DeliveryInv, NEW w \in Workers, Ending(w)
    PROVE  SendsExplained' /\ HandledForAReason'
<1> USE DEF DeliveryInv
<1>1. /\ row[w] \in Deliveries /\ UNCHANGED <<sent, failed, silenced>>
      /\ row' = [row EXCEPT ![w] = NoRow] /\ pending' = [pending EXCEPT ![w] = {}]
  BY EndKeeps
<1>2. /\ \A x \in Workers : x # w => row'[x] = row[x] /\ pending'[x] = pending[x]
      /\ row'[w] = NoRow /\ pending'[w] = {}
  BY <1>1 DEF TypeOK
<1>3. Counted \subseteq Channels BY DEF Counted, Channels
<1>4. CASE Commit(w)
  <2>1. done' = Written(w) /\ UNCHANGED <<deaths, conflicts>>
    BY <1>4 DEF Commit, Save, historyVars
  <2>2. \A ch \in Counted :
           done'[ch] = IF ch \in pending[w] THEN done[ch] \cup {row[w]} ELSE done[ch]
    BY <1>3, <2>1 DEF Written
  <2>3. \A d \in Deliveries, ch \in Counted : Handled(d, ch) => Handled(d, ch)'
    BY <1>2, <2>2 DEF Handled
  <2>4. \A d \in Deliveries, ch \in Counted : Handled(d, ch)' => Handled(d, ch)
    BY <1>2, <2>2 DEF Handled
  <2>5. QED BY <1>1, <2>1, <2>3, <2>4, Carried
<1>5. CASE CommitRefused(w) \/ Die(w)
  <2>1. done' = done BY <1>5 DEF CommitRefused, Die, tableVars
  <2>2. \A d \in Deliveries, ch \in Counted : Handled(d, ch)' => Handled(d, ch)
    BY <1>2, <2>1 DEF Handled
  <2>3. \A d \in Deliveries, ch \in Counted : d # row[w] => (Handled(d, ch) => Handled(d, ch)')
    BY <1>2, <2>1 DEF Handled
  <2>4. \/ deaths' = [deaths EXCEPT ![row[w]] = @ + 1] /\ UNCHANGED conflicts
        \/ conflicts' = [conflicts EXCEPT ![row[w]] = @ + 1] /\ UNCHANGED deaths
    BY <1>5 DEF CommitRefused, Die
  <2>5. ASSUME NEW d \in Deliveries, NEW ch \in Counted
        PROVE  /\ sent[d][ch] \in Nat /\ failed[d][ch] \in Nat
               /\ deaths[d] \in Nat /\ conflicts[d] \in Nat
    BY <1>3 DEF TypeOK
  <2>6. ASSUME NEW d \in Deliveries
        PROVE  /\ deaths'[d] \in Nat /\ conflicts'[d] \in Nat
               /\ deaths'[d] + conflicts'[d] =
                      deaths[d] + conflicts[d] + (IF d = row[w] THEN 1 ELSE 0)
    <3>1. /\ deaths \in [Deliveries -> Nat] /\ conflicts \in [Deliveries -> Nat]
          /\ deaths[d] \in Nat /\ conflicts[d] \in Nat
      BY DEF TypeOK
    <3>2. CASE deaths' = [deaths EXCEPT ![row[w]] = @ + 1] /\ UNCHANGED conflicts
      <4>1. deaths'[d] = deaths[d] + (IF d = row[w] THEN 1 ELSE 0) BY <3>1, <3>2
      <4>2. conflicts'[d] = conflicts[d] BY <3>2
      <4>3. QED BY <3>1, <4>1, <4>2
    <3>3. CASE conflicts' = [conflicts EXCEPT ![row[w]] = @ + 1] /\ UNCHANGED deaths
      <4>1. conflicts'[d] = conflicts[d] + (IF d = row[w] THEN 1 ELSE 0) BY <3>1, <3>3
      <4>2. deaths'[d] = deaths[d] BY <3>3
      <4>3. QED BY <3>1, <4>1, <4>2
    <3>4. QED BY <2>4, <3>2, <3>3
  <2>7. ASSUME NEW d \in Deliveries, NEW ch \in Counted
        PROVE  /\ sent'[d][ch] <= 1 + failed'[d][ch] + deaths'[d] + conflicts'[d]
               /\ ~Handled(d, ch)' =>
                      sent'[d][ch] <= failed'[d][ch] + deaths'[d] + conflicts'[d]
    <3>1. sent'[d][ch] = sent[d][ch] /\ failed'[d][ch] = failed[d][ch] BY <1>1
    <3>2. sent[d][ch] <= 1 + failed[d][ch] + deaths[d] + conflicts[d]
      BY DEF SendsExplained
    <3>3. d # row[w] /\ ~Handled(d, ch)' =>
             sent[d][ch] <= failed[d][ch] + deaths[d] + conflicts[d]
      BY <2>3 DEF SendsExplained
    <3>4. QED BY <2>5, <2>6, <3>1, <3>2, <3>3
  <2>8. HandledForAReason' BY <1>1, <2>2 DEF HandledForAReason
  <2>9. QED BY <2>7, <2>8 DEF SendsExplained
<1>6. QED BY <1>4, <1>5 DEF Ending

LEMMA StepExplained ==
    ASSUME DeliveryInv, [Next]_vars PROVE SendsExplained' /\ HandledForAReason'
<1> USE DEF DeliveryInv
<1>1. ASSUME NEW w \in Workers, Pushes(w) PROVE SendsExplained' /\ HandledForAReason'
  <2>1. /\ UNCHANGED <<done, row, deaths, conflicts>>
        /\ \A x \in Workers : pending'[x] \cap Counted = pending[x] \cap Counted
    BY <1>1, PushKeeps
  <2>2. \A d \in Deliveries, ch \in Counted : Handled(d, ch)' <=> Handled(d, ch)
    BY <2>1 DEF Handled
  <2>3. QED BY <1>1, <2>1, <2>2, PushKeeps, Carried
<1>2. CASE UserStep \/ UNCHANGED vars
  <2>1. UNCHANGED <<done, row, pending, sent, failed, deaths, conflicts, silenced>>
    BY <1>2, UserKeeps DEF workerVars, historyVars
  <2>2. \A d \in Deliveries, ch \in Counted : Handled(d, ch)' <=> Handled(d, ch)
    BY <2>1 DEF Handled
  <2>3. QED BY <2>1, <2>2, Carried
<1>3. QED BY <1>1, <1>2, ClaimExplained, SendExplained, EndExplained, Kinds

LEMMA StepTypes == ASSUME TypeOK, [Next]_vars PROVE TypeOK'
<1>1. CASE UNCHANGED vars
  BY <1>1 DEF vars, tableVars, userVars, workerVars, historyVars, TypeOK
<1>2. QED
  BY <1>1, Kinds, ClaimTypes, SendTypes, PushTypes, EndTypes, UserTypes
     DEF Pushes, Ending, UserStep

LEMMA InvHolds == Spec => []DeliveryInv
<1>1. DeliveryInv /\ [Next]_vars => DeliveryInv'
  BY StepTypes, StepHolders, StepTurns, StepCompleted, StepExplained DEF DeliveryInv
<1>2. QED BY <1>1, InitInv, PTL DEF Spec

-----------------------------------------------------------------------------
(* What follows *)

\* Types, for any number of rows, workers, devices and faults.
THEOREM TypeCorrect == Spec => []TypeOK
<1>1. DeliveryInv => TypeOK BY DEF DeliveryInv
<1>2. QED BY <1>1, InvHolds, PTL

\* A repeated send is explained by a failure, a death or a refused commit.
THEOREM ResendsHaveReasons == Spec => []ResendsExplained
<1>1. DeliveryInv => ResendsExplained
  BY DEF DeliveryInv, SendsExplained, ResendsExplained, Counted
<1>2. QED BY <1>1, InvHolds, PTL

\* What is completed was handed over, or switched off.
THEOREM CompletedHonest == Spec => []CompletedWasSent
<1>1. DeliveryInv => CompletedWasSent
  <2> SUFFICES ASSUME DeliveryInv, NEW d \in completed, NEW ch \in Counted
               PROVE  sent[d][ch] > 0 \/ ch \in silenced[d]
    BY DEF CompletedWasSent, Counted
  <2>1. d \in Deliveries /\ ch \in Channels
    BY DEF DeliveryInv, TypeOK, Counted, Channels
  <2>2. Handled(d, ch) BY <2>1 DEF DeliveryInv, CompletedIsDone, Handled
  <2>3. QED BY <2>1, <2>2 DEF DeliveryInv, HandledForAReason
<1>2. QED BY <1>1, InvHolds, PTL

=============================================================================
