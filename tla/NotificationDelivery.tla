------------------------ MODULE NotificationDelivery ------------------------
(***************************************************************************)
(* NotificationDeliveryProcessor and the loops of NotificationDelivery-    *)
(* Worker that run it: each takes one incomplete delivery row (FOR UPDATE  *)
(* SKIP LOCKED), tries SignalR, email and push in turn, and saves what is  *)
(* done, and the push tokens to forget, in one commit at the end.          *)
(*                                                                         *)
(* All rows belong to one user, whose devices they share.  A device is a   *)
(* push_devices row per token; its number is the row's identity, so that a *)
(* token that was removed and registered again is another row.             *)
(***************************************************************************)
EXTENDS Naturals, FiniteSets

CONSTANTS
    Deliveries,     \* notification_deliveries rows of the user
    Workers,        \* the delivery loops (four per API instance)
    Devices,        \* push tokens
    Unregistered,   \* tokens the push provider reports as permanently invalid
    MaxFaults,      \* bound: failed sends and process deaths
    MaxChurn        \* bound: changes of settings, devices and account

ASSUME DeliveryAssumption ==
    /\ IsFiniteSet(Deliveries) /\ IsFiniteSet(Devices)
    /\ Unregistered \subseteq Devices
    /\ MaxFaults \in Nat /\ MaxChurn \in Nat

Channels == {"realtime", "email", "push"}
NoRow    == "none"

ASSUME RowAssumption == NoRow \notin Deliveries

VARIABLES
    done,       \* channel -> rows whose flag for it is committed
    completed,  \* rows with completed_at
    rowId,      \* device -> identity of its row, 0 when there is none
    active,     \* the user is active and the category enabled
    inApp,      \* setting InAppEnabled
    email,      \* setting EmailEnabled
    row,        \* worker -> the row its transaction holds
    step,       \* worker -> what it does next
    saw,        \* worker -> the channels enabled in the settings it read
    pending,    \* worker -> channels done in this attempt, not yet committed
    queue,      \* worker -> devices it has still to push to
    forget,     \* worker -> devices to remove at commit, with the row it read
    faults,     \* faults so far
    churn,      \* environment changes so far
    sent,       \* history: row -> channel -> times handed to the provider
    failed,     \* history: row -> channel -> failed attempts
    deaths,     \* history: row -> process deaths while it was being delivered
    conflicts,  \* history: row -> commits refused
    silenced    \* history: row -> channels a setting or the account switched off

tableVars   == <<done, completed, rowId>>
userVars    == <<active, inApp, email>>
workerVars  == <<row, step, saw, pending, queue, forget>>
historyVars == <<sent, failed, deaths, conflicts, silenced>>
vars == <<tableVars, userVars, workerVars, faults, churn, historyVars>>

Rows == Devices \X Nat      \* a device together with the row identity that was read

TypeOK ==
    /\ done \in [Channels -> SUBSET Deliveries]
    /\ completed \in SUBSET Deliveries
    /\ rowId \in [Devices -> Nat]
    /\ active \in BOOLEAN /\ inApp \in BOOLEAN /\ email \in BOOLEAN
    /\ row \in [Workers -> Deliveries \cup {NoRow}]
    /\ step \in [Workers -> {"idle", "realtime", "email", "push", "devices", "commit"}]
    /\ saw \in [Workers -> SUBSET Channels]
    /\ pending \in [Workers -> SUBSET Channels]
    /\ queue \in [Workers -> SUBSET Rows]
    /\ forget \in [Workers -> SUBSET Rows]
    /\ \A w \in Workers : step[w] = "idle" <=> row[w] = NoRow
    /\ faults \in 0..MaxFaults
    /\ churn \in 0..MaxChurn
    /\ sent \in [Deliveries -> [Channels -> Nat]]
    /\ failed \in [Deliveries -> [Channels -> Nat]]
    /\ deaths \in [Deliveries -> Nat]
    /\ conflicts \in [Deliveries -> Nat]
    /\ silenced \in [Deliveries -> SUBSET Channels]

(* A fresh row: NotificationFanout writes it while in-app notifications are *)
(* enabled, with an email to send or not.                                   *)
Init ==
    /\ \E mailed \in SUBSET Deliveries :
         /\ done = [ch \in Channels |-> IF ch = "email" THEN Deliveries \ mailed ELSE {}]
         /\ silenced = [d \in Deliveries |-> IF d \in mailed THEN {} ELSE {"email"}]
    /\ completed = {}
    /\ rowId = [v \in Devices |-> 1]
    /\ active = TRUE /\ inApp = TRUE /\ email = TRUE
    /\ row = [w \in Workers |-> NoRow]
    /\ step = [w \in Workers |-> "idle"]
    /\ saw = [w \in Workers |-> {}]
    /\ pending = [w \in Workers |-> {}]
    /\ queue = [w \in Workers |-> {}]
    /\ forget = [w \in Workers |-> {}]
    /\ faults = 0
    /\ churn = 0
    /\ sent = [d \in Deliveries |-> [ch \in Channels |-> 0]]
    /\ failed = [d \in Deliveries |-> [ch \in Channels |-> 0]]
    /\ deaths = [d \in Deliveries |-> 0]
    /\ conflicts = [d \in Deliveries |-> 0]

-----------------------------------------------------------------------------
(* DeliverNextAsync                                                        *)

Enabled == (IF inApp THEN {"realtime", "push"} ELSE {}) \cup (IF email THEN {"email"} ELSE {})

Take(w, d) ==               \* the row is locked, account and settings are read once
    /\ step[w] = "idle"
    /\ d \notin completed
    /\ row' = [row EXCEPT ![w] = d]
    /\ saw' = [saw EXCEPT ![w] = Enabled]
    /\ IF active
       THEN /\ step' = [step EXCEPT ![w] = "realtime"]
            /\ UNCHANGED <<pending, silenced>>
       ELSE /\ step' = [step EXCEPT ![w] = "commit"]
            /\ pending' = [pending EXCEPT ![w] = Channels]
            /\ silenced' = [silenced EXCEPT ![d] = Channels]
    /\ UNCHANGED <<tableVars, userVars, queue, forget, faults, churn,
                   sent, failed, deaths, conflicts>>

(* Mutant: a plain SELECT, without FOR UPDATE SKIP LOCKED.                  *)
ClaimUnlocked(w, d) == Take(w, d)

Claim(w, d) ==
    /\ \A other \in Workers : row[other] # d
    /\ Take(w, d)

After(ch) == IF ch = "realtime" THEN "email" ELSE "push"

Succeed(w, ch) ==           \* the provider took it
    /\ sent' = [sent EXCEPT ![row[w]][ch] = @ + 1]
    /\ pending' = [pending EXCEPT ![w] = @ \cup {ch}]
    /\ UNCHANGED <<faults, failed, silenced>>

Skip(w, ch) ==              \* done already
    UNCHANGED <<pending, faults, sent, failed, silenced>>

(* Mutant: a channel that is switched off is not flagged as done.           *)
SilenceUnflagged(w, ch) ==
    /\ silenced' = [silenced EXCEPT ![row[w]] = @ \cup {ch}]
    /\ UNCHANGED <<pending, faults, sent, failed>>

Silence(w, ch) ==           \* switched off in the settings that were read
    /\ pending' = [pending EXCEPT ![w] = @ \cup {ch}]
    /\ silenced' = [silenced EXCEPT ![row[w]] = @ \cup {ch}]
    /\ UNCHANGED <<faults, sent, failed>>

Fail(w, ch) ==              \* an exception; the provider may have taken it all the same
    /\ faults < MaxFaults
    /\ faults' = faults + 1
    /\ failed' = [failed EXCEPT ![row[w]][ch] = @ + 1]
    /\ sent' \in {sent, [sent EXCEPT ![row[w]][ch] = @ + 1]}
    /\ UNCHANGED <<pending, silenced>>

(* SignalR, then email: each in a try of its own.                           *)
Send(w, ch) ==
    /\ ch \in {"realtime", "email"}
    /\ step[w] = ch
    /\ \/ row[w] \in done[ch] /\ Skip(w, ch)
       \/ row[w] \notin done[ch] /\ ch \notin saw[w] /\ Silence(w, ch)
       \/ row[w] \notin done[ch] /\ ch \in saw[w] /\ (Succeed(w, ch) \/ Fail(w, ch))
    /\ step' = [step EXCEPT ![w] = After(ch)]
    /\ UNCHANGED <<tableVars, userVars, row, saw, queue, forget, churn, deaths, conflicts>>

(* Push: the devices are read, and tried one after the other.               *)
ReadDevices(w) ==
    /\ step[w] = "push"
    /\ \/ /\ row[w] \in done["push"]
          /\ Skip(w, "push")
          /\ step' = [step EXCEPT ![w] = "commit"]
          /\ UNCHANGED queue
       \/ /\ row[w] \notin done["push"] /\ "push" \notin saw[w]
          /\ Silence(w, "push")
          /\ step' = [step EXCEPT ![w] = "commit"]
          /\ UNCHANGED queue
       \/ /\ row[w] \notin done["push"] /\ "push" \in saw[w]
          /\ queue' = [queue EXCEPT ![w] = {r \in {<<v, rowId[v]>> : v \in Devices} : r[2] # 0}]
          /\ step' = [step EXCEPT ![w] = "devices"]
          /\ UNCHANGED <<pending, faults, sent, failed, silenced>>
    /\ UNCHANGED <<tableVars, userVars, row, saw, forget, churn, deaths, conflicts>>

PushDevice(w, r) ==         \* false from the provider: forget the device
    /\ step[w] = "devices"
    /\ r \in queue[w]
    /\ queue' = [queue EXCEPT ![w] = @ \ {r}]
    /\ IF r[1] \in Unregistered
       THEN forget' = [forget EXCEPT ![w] = @ \cup {r}] /\ UNCHANGED sent
       ELSE sent' = [sent EXCEPT ![row[w]]["push"] = @ + 1] /\ UNCHANGED forget
    /\ UNCHANGED <<tableVars, userVars, row, step, saw, pending, faults, churn,
                   failed, deaths, conflicts, silenced>>

PushThrows(w, r) ==         \* the rest of the devices is not tried in this attempt
    /\ step[w] = "devices"
    /\ r \in queue[w]
    /\ Fail(w, "push")
    /\ queue' = [queue EXCEPT ![w] = {}]
    /\ step' = [step EXCEPT ![w] = "commit"]
    /\ UNCHANGED <<tableVars, userVars, row, saw, forget, churn, deaths, conflicts>>

PushEnds(w) ==
    /\ step[w] = "devices"
    /\ queue[w] = {}
    /\ pending' = [pending EXCEPT ![w] = @ \cup {"push"}]
    /\ step' = [step EXCEPT ![w] = "commit"]
    /\ UNCHANGED <<tableVars, userVars, row, saw, queue, forget, faults, churn, historyVars>>

EndTransaction(w) ==
    /\ row' = [row EXCEPT ![w] = NoRow]
    /\ step' = [step EXCEPT ![w] = "idle"]
    /\ saw' = [saw EXCEPT ![w] = {}]
    /\ pending' = [pending EXCEPT ![w] = {}]
    /\ queue' = [queue EXCEPT ![w] = {}]
    /\ forget' = [forget EXCEPT ![w] = {}]

Written(w) == [ch \in Channels |->
                 IF ch \in pending[w] THEN done[ch] \cup {row[w]} ELSE done[ch]]

(* Mutant: CompletedAt as soon as one channel is done.                      *)
SaveAny(w) ==
    /\ done' = Written(w)
    /\ completed' = IF \E ch \in Channels : row[w] \in Written(w)[ch]
                    THEN completed \cup {row[w]} ELSE completed
    /\ rowId' = [v \in Devices |-> IF <<v, rowId[v]>> \in forget[w] THEN 0 ELSE rowId[v]]

Save(w) ==
    /\ done' = Written(w)
    /\ completed' = IF \A ch \in Channels : row[w] \in Written(w)[ch]
                    THEN completed \cup {row[w]} ELSE completed
    /\ rowId' = [v \in Devices |-> IF <<v, rowId[v]>> \in forget[w] THEN 0 ELSE rowId[v]]

StillThere(w) == \A r \in forget[w] : rowId[r[1]] = r[2]

Commit(w) ==
    /\ step[w] = "commit"
    /\ StillThere(w)
    /\ Save(w)
    /\ EndTransaction(w)
    /\ UNCHANGED <<userVars, faults, churn, historyVars>>

(* A device row to delete is gone: SaveChangesAsync throws, and the flags of *)
(* this attempt roll back with the deletion.                                 *)
CommitRefused(w) ==
    /\ step[w] = "commit"
    /\ ~StillThere(w)
    /\ conflicts' = [conflicts EXCEPT ![row[w]] = @ + 1]
    /\ EndTransaction(w)
    /\ UNCHANGED <<tableVars, userVars, faults, churn, sent, failed, deaths, silenced>>

Die(w) ==                   \* the process dies or is stopped: the transaction rolls back
    /\ step[w] # "idle"
    /\ faults < MaxFaults
    /\ faults' = faults + 1
    /\ deaths' = [deaths EXCEPT ![row[w]] = @ + 1]
    /\ EndTransaction(w)
    /\ UNCHANGED <<tableVars, userVars, churn, sent, failed, conflicts, silenced>>

-----------------------------------------------------------------------------
(* The user: PushDeviceService, settings, account                          *)

Change ==
    /\ churn < MaxChurn
    /\ churn' = churn + 1
    /\ UNCHANGED <<done, completed, workerVars, faults, historyVars>>

Register(v) ==              \* an upsert on the token hash keeps the row
    /\ rowId[v] = 0
    /\ rowId' = [rowId EXCEPT ![v] = churn + 2]
    /\ UNCHANGED userVars
    /\ Change

Remove(v) ==                \* or the session row goes, and the device with it
    /\ rowId[v] # 0
    /\ rowId' = [rowId EXCEPT ![v] = 0]
    /\ UNCHANGED userVars
    /\ Change

ChangeSettings ==
    /\ \/ inApp' = ~inApp /\ UNCHANGED <<email, active>>
       \/ email' = ~email /\ UNCHANGED <<inApp, active>>
       \/ active' = ~active /\ UNCHANGED <<inApp, email>>
    /\ UNCHANGED rowId
    /\ Change

Deliver(w) ==
    \/ \E d \in Deliveries : Claim(w, d)
    \/ \E ch \in Channels : Send(w, ch)
    \/ ReadDevices(w)
    \/ \E r \in queue[w] : PushDevice(w, r) \/ PushThrows(w, r)
    \/ PushEnds(w)
    \/ Commit(w)
    \/ CommitRefused(w)

Next ==
    \/ \E w \in Workers : Deliver(w) \/ Die(w)
    \/ \E v \in Devices : Register(v) \/ Remove(v)
    \/ ChangeSettings

Spec == Init /\ [][Next]_vars

(* The loops catch every exception and poll for ever, and SKIP LOCKED       *)
(* takes the oldest free row first, so that no row is passed over for good. *)
Fairness == \A w \in Workers : WF_vars(Deliver(w))

FairSpec == Spec /\ Fairness

-----------------------------------------------------------------------------
(* Properties                                                              *)

\* A second send of the same notification on the same channel is always explained: that
\* channel failed before, the process died, or the commit was refused; two workers never
\* both deliver a row.
ResendsExplained ==
    \A d \in Deliveries, ch \in {"realtime", "email"} :
        sent[d][ch] <= 1 + failed[d][ch] + deaths[d] + conflicts[d]

\* A completed row was handed to SignalR and to the mail server at least once, unless the
\* account or a setting switched the channel off at some attempt.
CompletedWasSent ==
    \A d \in completed, ch \in {"realtime", "email"} :
        sent[d][ch] > 0 \/ ch \in silenced[d]

\* Every delivery row is completed in the end, however often its channels fail, workers die
\* or commits are refused.
EveryRowCompleted == \A d \in Deliveries : <>(d \in completed)

=============================================================================
