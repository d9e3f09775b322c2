------------------------- MODULE ModerationMessaging -------------------------
(***************************************************************************)
(* From a moderation decision to the notifications of its recipients:      *)
(*                                                                         *)
(*   decision transaction -> moderation_outbox_events                      *)
(*     -> ModerationOutboxPublisher -> RabbitMQ (main, .retry, .dead)      *)
(*       -> ModerationNotificationWorker -> NotificationFanout             *)
(*         -> notification_inbox_events + notifications + deliveries       *)
(*                                                                         *)
(* All events belong to one channel.  A subscription is a natural number,  *)
(* its subscription_id, and stands for its user; Owner is the channel      *)
(* owner, who cannot subscribe to the channel.  Time is logical: a decision*)
(* is a tick, and a subscription made after a decision is dated after it.  *)
(*                                                                         *)
(* Each API instance runs one publisher loop and one consumer with         *)
(* prefetch 1.  Any of them may die between two of its steps; the database *)
(* then rolls its transaction back and the broker requeues what it held.   *)
(***************************************************************************)
EXTENDS Naturals, FiniteSets, FiniteSetsExt

CONSTANTS
    Events,              \* moderation events, one per decision
    Subs,                \* subscription ids of the channel
    Owner,               \* the channel owner, recipient of the decision itself
    Publishers,          \* ModerationOutboxWorker loops, one per API instance
    Consumers,           \* ModerationNotificationWorker consumers
    BatchSize,           \* RabbitMqOptions.FanoutBatchSize, clamped to at least 1
    MaxConsumerRetries,  \* RabbitMqOptions.MaxConsumerRetries
    MaxFaults,           \* bound: crashes, lost confirms and fan-out exceptions
    MaxChurn             \* bound: subscription, preference and video changes

ASSUME SubsAssumption == Subs \subseteq Nat \ {0} /\ IsFiniteSet(Subs) /\ Owner \notin Subs
ASSUME BoundsAssumption ==
    /\ BatchSize \in Nat \ {0}
    /\ MaxConsumerRetries \in Nat
    /\ MaxFaults \in Nat
    /\ MaxChurn \in Nat

Recipients == Subs \cup {Owner}
Messages   == [event : Events, retries : 0..MaxConsumerRetries]
NoMessage  == [event |-> "none", retries |-> 0]
NoEvent    == "none"
NoBatch    == [page |-> {}, new |-> {}]

VARIABLES
    outbox,     \* state of the event's outbox row: "none", "pending", "published"
    notify,     \* the event's NotifySubscribers flag
    occurred,   \* the event's OccurredAt
    garbled,    \* events whose payload the consumer cannot read as a valid event
    clock,      \* number of decisions taken so far
    locked,     \* publisher -> the outbox row its open transaction holds
    sending,    \* publisher -> how far it is with that row
    ready,      \* message -> copies in the main queue
    retry,      \* message -> copies in the .retry queue
    dead,       \* message -> copies in the .dead queue
    phase,      \* consumer -> where its handler is
    held,       \* consumer -> the unacknowledged delivery
    batch,      \* consumer -> what its open fan-out transaction read
    inbox,      \* event -> notification_inbox_events row
    rows,       \* event -> recipients that have an inbox notification / delivery
    following,  \* subscriptions with status active
    listening,  \* subscriptions with notifications_enabled
    since,      \* subscription -> subscribed_at
    onAir,      \* event -> its video is published, approved, public; channel active
    wanting,    \* recipients whose user is active with the category enabled
    faults,     \* faults so far
    churn,      \* environment changes so far
    failures,   \* history: event -> fan-out exceptions its copies met
    audience,   \* history: event -> subscriptions active when it was decided
    steady      \* history: event -> recipients eligible from decision to completion

outboxVars   == <<outbox, notify, occurred, garbled, clock>>
publisherVars == <<locked, sending>>
brokerVars   == <<ready, retry, dead>>
consumerVars == <<phase, held, batch>>
fanoutVars   == <<inbox, rows>>
subVars      == <<following, listening, since>>
worldVars    == <<subVars, onAir, wanting, churn>>
historyVars  == <<failures, audience, steady>>
vars == <<outboxVars, publisherVars, brokerVars, consumerVars, fanoutVars, worldVars,
          faults, historyVars>>

Bump(queue, m) == [queue EXCEPT ![m] = @ + 1]
Drop(queue, m) == [queue EXCEPT ![m] = @ - 1]

TypeOK ==
    /\ outbox \in [Events -> {"none", "pending", "published"}]
    /\ notify \in [Events -> BOOLEAN]
    /\ occurred \in [Events -> Nat]
    /\ garbled \in SUBSET Events
    /\ clock \in Nat
    /\ locked \in [Publishers -> Events \cup {NoEvent}]
    /\ sending \in [Publishers -> {"idle", "selected", "confirmed", "failed"}]
    /\ ready \in [Messages -> Nat]
    /\ retry \in [Messages -> Nat]
    /\ dead \in [Messages -> Nat]
    /\ phase \in [Consumers -> {"idle", "holding", "batch", "finished", "retrying", "copied"}]
    /\ held \in [Consumers -> Messages \cup {NoMessage}]
    /\ batch \in [Consumers -> [page : SUBSET Subs, new : SUBSET Recipients]]
    /\ inbox \in [Events -> [owner : BOOLEAN, cursor : Nat, done : BOOLEAN]]
    /\ rows \in [Events -> SUBSET Recipients]
    /\ following \in SUBSET Subs
    /\ listening \in SUBSET Subs
    /\ since \in [Subs -> Nat]
    /\ onAir \in [Events -> BOOLEAN]
    /\ wanting \in SUBSET Recipients
    /\ faults \in 0..MaxFaults
    /\ churn \in 0..MaxChurn
    /\ failures \in [Events -> Nat]
    /\ audience \in [Events -> SUBSET Subs]
    /\ steady \in [Events -> SUBSET Recipients]

Init ==
    /\ outbox = [e \in Events |-> "none"]
    /\ notify = [e \in Events |-> FALSE]
    /\ occurred = [e \in Events |-> 0]
    /\ garbled = {}
    /\ clock = 0
    /\ locked = [p \in Publishers |-> NoEvent]
    /\ sending = [p \in Publishers |-> "idle"]
    /\ ready = [m \in Messages |-> 0]
    /\ retry = [m \in Messages |-> 0]
    /\ dead = [m \in Messages |-> 0]
    /\ phase = [c \in Consumers |-> "idle"]
    /\ held = [c \in Consumers |-> NoMessage]
    /\ batch = [c \in Consumers |-> NoBatch]
    /\ inbox = [e \in Events |-> [owner |-> FALSE, cursor |-> 0, done |-> FALSE]]
    /\ rows = [e \in Events |-> {}]
    /\ following = Subs
    /\ listening = Subs
    /\ since = [s \in Subs |-> 0]
    /\ onAir = [e \in Events |-> FALSE]
    /\ wanting = Recipients
    /\ faults = 0
    /\ churn = 0
    /\ failures = [e \in Events |-> 0]
    /\ audience = [e \in Events |-> {}]
    /\ steady = [e \in Events |-> {}]

-----------------------------------------------------------------------------
(* The decision.  Video, case, audit and outbox row commit together; a      *)
(* first publication of a public video is announced to subscribers.  The    *)
(* payload may be one the consumer cannot read: the instances of a rolling  *)
(* deployment are of two versions.                                          *)

Decide(e, announce) ==
    /\ outbox[e] = "none"
    /\ outbox' = [outbox EXCEPT ![e] = "pending"]
    /\ notify' = [notify EXCEPT ![e] = announce]
    /\ occurred' = [occurred EXCEPT ![e] = clock + 1]
    /\ garbled' \in {garbled, garbled \cup {e}}
    /\ clock' = clock + 1
    /\ onAir' = [onAir EXCEPT ![e] = announce]
    /\ audience' = [audience EXCEPT ![e] = IF announce THEN following ELSE {}]
    /\ steady' = [steady EXCEPT ![e] =
                    wanting \cap ({Owner} \cup
                        IF announce THEN following \cap listening ELSE {})]
    /\ UNCHANGED <<publisherVars, brokerVars, consumerVars, fanoutVars, subVars, wanting, churn,
                   faults, failures>>

-----------------------------------------------------------------------------
(* ModerationOutboxPublisher.PublishNextAsync                               *)

RowLocked(e) == \E q \in Publishers : locked[q] = e

SelectRow(p, e) ==          \* FOR UPDATE SKIP LOCKED
    /\ sending[p] = "idle"
    /\ outbox[e] = "pending"
    /\ ~RowLocked(e)
    /\ locked' = [locked EXCEPT ![p] = e]
    /\ sending' = [sending EXCEPT ![p] = "selected"]
    /\ UNCHANGED <<outboxVars, brokerVars, consumerVars, fanoutVars, worldVars,
                   faults, historyVars>>

Unlock(p) ==                \* the transaction ends
    /\ locked' = [locked EXCEPT ![p] = NoEvent]
    /\ sending' = [sending EXCEPT ![p] = "idle"]

FirstCopy(e) == [event |-> e, retries |-> 0]

PublishConfirmed(p) ==
    /\ sending[p] = "selected"
    /\ ready' = Bump(ready, FirstCopy(locked[p]))
    /\ sending' = [sending EXCEPT ![p] = "confirmed"]
    /\ UNCHANGED <<outboxVars, locked, retry, dead, consumerVars, fanoutVars, worldVars,
                   faults, historyVars>>

(* Broker down, nack, unroutable, or the 15 second timeout: in the last     *)
(* case the broker may have stored the message all the same.                *)
PublishFails(p) ==
    /\ sending[p] = "selected"
    /\ faults < MaxFaults
    /\ faults' = faults + 1
    /\ ready' \in {ready, Bump(ready, FirstCopy(locked[p]))}
    /\ sending' = [sending EXCEPT ![p] = "failed"]
    /\ UNCHANGED <<outboxVars, locked, retry, dead, consumerVars, fanoutVars, worldVars,
                   historyVars>>

(* Mutant: the row is marked published although the publish failed.         *)
CommitPublishAnyway(p) ==
    /\ sending[p] \in {"confirmed", "failed"}
    /\ outbox' = [outbox EXCEPT ![locked[p]] = "published"]
    /\ Unlock(p)
    /\ UNCHANGED <<notify, occurred, garbled, clock, brokerVars, consumerVars, fanoutVars,
                   worldVars, faults, historyVars>>

CommitPublish(p) ==         \* a failed row stays pending, to be retried after a delay
    /\ sending[p] \in {"confirmed", "failed"}
    /\ outbox' = IF sending[p] = "confirmed"
                 THEN [outbox EXCEPT ![locked[p]] = "published"]
                 ELSE outbox
    /\ Unlock(p)
    /\ UNCHANGED <<notify, occurred, garbled, clock, brokerVars, consumerVars, fanoutVars,
                   worldVars, faults, historyVars>>

PublisherDies(p) ==         \* process death, or the commit itself fails
    /\ sending[p] # "idle"
    /\ faults < MaxFaults
    /\ faults' = faults + 1
    /\ Unlock(p)
    /\ UNCHANGED <<outboxVars, brokerVars, consumerVars, fanoutVars, worldVars,
                   historyVars>>

-----------------------------------------------------------------------------
(* ModerationNotificationWorker and NotificationFanout                      *)

Receive(c, m) ==
    /\ phase[c] = "idle"
    /\ ready[m] > 0
    /\ ready' = Drop(ready, m)
    /\ held' = [held EXCEPT ![c] = m]
    /\ phase' = [phase EXCEPT ![c] = "holding"]
    /\ UNCHANGED <<outboxVars, publisherVars, retry, dead, batch, fanoutVars, worldVars,
                   faults, historyVars>>

InboxLocked(e) == \E d \in Consumers : phase[d] = "batch" /\ held[d].event = e

(* Mutant: subscribed_at is not compared with the decision.                 *)
EligibleAnyDate(e) ==
    IF notify[e] /\ onAir[e]
    THEN {s \in following \cap listening : s > inbox[e].cursor}
    ELSE {}

Eligible(e) ==
    IF notify[e] /\ onAir[e]
    THEN {s \in following \cap listening :
            since[s] <= occurred[e] /\ s > inbox[e].cursor}
    ELSE {}

FirstBy(n, S) == {s \in S : Cardinality({t \in S : t < s}) < n}

Readable(m) == m.event \notin garbled

(* The rows a batch reads once its transaction holds the inbox row.         *)
Stage(c) ==
    LET e    == held[c].event
        page == FirstBy(BatchSize, Eligible(e))
        to   == page \cup (IF inbox[e].owner THEN {} ELSE {Owner})
    IN /\ batch' = [batch EXCEPT ![c] = [page |-> page, new |-> (to \cap wanting) \ rows[e]]]
       /\ phase' = [phase EXCEPT ![c] = "batch"]
       /\ UNCHANGED <<outboxVars, publisherVars, brokerVars, held, fanoutVars, worldVars,
                      faults, historyVars>>

(* Mutant: no FOR UPDATE on the inbox row.                                  *)
ReadBatchUnlocked(c) ==
    phase[c] = "holding" /\ Readable(held[c]) /\ ~inbox[held[c].event].done /\ Stage(c)

(* Open the batch transaction: lock the inbox row and read everything the   *)
(* batch needs.  Whatever changes before the commit is not seen.            *)
ReadBatch(c) ==
    /\ phase[c] = "holding"
    /\ Readable(held[c])
    /\ ~inbox[held[c].event].done
    /\ ~InboxLocked(held[c].event)
    /\ Stage(c)

AlreadyComplete(c) ==
    /\ phase[c] = "holding"
    /\ Readable(held[c])
    /\ inbox[held[c].event].done
    /\ ~InboxLocked(held[c].event)
    /\ phase' = [phase EXCEPT ![c] = "finished"]
    /\ UNCHANGED <<outboxVars, publisherVars, brokerVars, held, batch, fanoutVars, worldVars,
                   faults, historyVars>>

WriteBatch(c, last) ==
    LET e    == held[c].event
        page == batch[c].page
    IN /\ phase[c] = "batch"
       /\ rows' = [rows EXCEPT ![e] = @ \cup batch[c].new]
       /\ inbox' = [inbox EXCEPT ![e] =
                      [owner  |-> TRUE,
                       cursor |-> IF page = {} THEN @.cursor ELSE Max(page),
                       done   |-> last]]
       /\ batch' = [batch EXCEPT ![c] = NoBatch]
       /\ phase' = [phase EXCEPT ![c] = IF last THEN "finished" ELSE "holding"]
       /\ UNCHANGED <<outboxVars, publisherVars, brokerVars, held, worldVars, faults, historyVars>>

(* Mutant: a full page is taken for the last one.                           *)
CommitBatchEarly(c) == WriteBatch(c, Cardinality(batch[c].page) <= BatchSize)

CommitBatch(c) == WriteBatch(c, Cardinality(batch[c].page) < BatchSize)

Release(c) ==               \* the handler returns: nothing is held any more
    /\ phase' = [phase EXCEPT ![c] = "idle"]
    /\ held' = [held EXCEPT ![c] = NoMessage]
    /\ batch' = [batch EXCEPT ![c] = NoBatch]

Ack(c) ==                   \* after completion, or after the retry copy is confirmed
    /\ phase[c] \in {"finished", "copied"}
    /\ Release(c)
    /\ UNCHANGED <<outboxVars, publisherVars, brokerVars, fanoutVars, worldVars, faults, historyVars>>

(* JsonException: the body is no event, or not the one its MessageId names. *)
(* It goes to the dead-letter queue at once, without a retry.               *)
RejectInvalid(c) ==
    /\ phase[c] = "holding"
    /\ ~Readable(held[c])
    /\ dead' = Bump(dead, held[c])
    /\ Release(c)
    /\ UNCHANGED <<outboxVars, publisherVars, ready, retry, fanoutVars, worldVars, faults,
                   historyVars>>

(* Any other exception in the fan-out: its transaction rolls back; the      *)
(* message goes to the retry queue, or to the dead-letter queue when its    *)
(* retries are used up.                                                     *)
FailFanout(c, exhausted) ==
    /\ phase[c] \in {"holding", "batch"}
    /\ Readable(held[c])
    /\ faults < MaxFaults
    /\ faults' = faults + 1
    /\ failures' = [failures EXCEPT ![held[c].event] = @ + 1]
    /\ IF exhausted
       THEN dead' = Bump(dead, held[c]) /\ Release(c)
       ELSE /\ phase' = [phase EXCEPT ![c] = "retrying"]
            /\ batch' = [batch EXCEPT ![c] = NoBatch]
            /\ UNCHANGED <<dead, held>>
    /\ UNCHANGED <<outboxVars, publisherVars, ready, retry, fanoutVars, worldVars,
                   audience, steady>>

(* Mutant: one retry too few.                                               *)
FanoutFailsShort(c) == FailFanout(c, held[c].retries + 1 >= MaxConsumerRetries)

FanoutFails(c) == FailFanout(c, held[c].retries >= MaxConsumerRetries)

RetryCopy(m) == [event |-> m.event, retries |-> m.retries + 1]

CopyConfirmed(c) ==
    /\ phase[c] = "retrying"
    /\ retry' = Bump(retry, RetryCopy(held[c]))
    /\ phase' = [phase EXCEPT ![c] = "copied"]
    /\ UNCHANGED <<outboxVars, publisherVars, ready, dead, held, batch, fanoutVars, worldVars,
                   faults, historyVars>>

(* No confirm: the connection is closed and the original is requeued; the  *)
(* copy may have been stored.                                              *)
CopyUnconfirmed(c) ==
    /\ phase[c] = "retrying"
    /\ faults < MaxFaults
    /\ faults' = faults + 1
    /\ retry' \in {retry, Bump(retry, RetryCopy(held[c]))}
    /\ ready' = Bump(ready, held[c])
    /\ Release(c)
    /\ UNCHANGED <<outboxVars, publisherVars, dead, fanoutVars, worldVars, historyVars>>

ConsumerDies(c) ==          \* or its connection drops: the delivery is requeued
    /\ phase[c] # "idle"
    /\ faults < MaxFaults
    /\ faults' = faults + 1
    /\ ready' = Bump(ready, held[c])
    /\ Release(c)
    /\ UNCHANGED <<outboxVars, publisherVars, retry, dead, fanoutVars, worldVars, historyVars>>

(* Mutant: the retry queue has no dead-letter exchange to return to.        *)
RetryDropped(m) ==
    /\ retry[m] > 0
    /\ retry' = Drop(retry, m)
    /\ UNCHANGED <<outboxVars, publisherVars, ready, dead, consumerVars, fanoutVars, worldVars,
                   faults, historyVars>>

RetryExpires(m) ==          \* 30 s TTL, dead-lettered back to the main exchange
    /\ retry[m] > 0
    /\ retry' = Drop(retry, m)
    /\ ready' = Bump(ready, m)
    /\ UNCHANGED <<outboxVars, publisherVars, dead, consumerVars, fanoutVars, worldVars,
                   faults, historyVars>>

-----------------------------------------------------------------------------
(* The rest of the platform                                                *)

Unsteady(R) ==              \* these recipients changed while events were under way
    steady' = [e \in Events |-> IF inbox[e].done THEN steady[e] ELSE steady[e] \ R]

Churn ==
    /\ churn < MaxChurn
    /\ churn' = churn + 1
    /\ UNCHANGED <<outboxVars, publisherVars, brokerVars, consumerVars, fanoutVars, faults,
                   failures, audience>>

Subscribe(s) ==             \* a renewed subscription is dated now
    /\ s \notin following
    /\ following' = following \cup {s}
    /\ listening' = listening \cup {s}
    /\ since' = [since EXCEPT ![s] = clock + 1]
    /\ Unsteady({s})
    /\ UNCHANGED <<onAir, wanting>>
    /\ Churn

Unsubscribe(s) ==
    /\ s \in following
    /\ following' = following \ {s}
    /\ Unsteady({s})
    /\ UNCHANGED <<listening, since, onAir, wanting>>
    /\ Churn

ToggleBell(s) ==
    /\ s \in following
    /\ listening' = IF s \in listening THEN listening \ {s} ELSE listening \cup {s}
    /\ Unsteady({s})
    /\ UNCHANGED <<following, since, onAir, wanting>>
    /\ Churn

ToggleVideo(e) ==           \* blocked, made private, channel locked; or put back
    /\ outbox[e] # "none"
    /\ onAir' = [onAir EXCEPT ![e] = ~@]
    /\ steady' = IF inbox[e].done THEN steady
                 ELSE [steady EXCEPT ![e] = @ \cap {Owner}]
    /\ UNCHANGED <<subVars, wanting>>
    /\ Churn

ToggleWanting(r) ==         \* the user mutes the category, is banned, or the reverse
    /\ wanting' = IF r \in wanting THEN wanting \ {r} ELSE wanting \cup {r}
    /\ Unsteady({r})
    /\ UNCHANGED <<subVars, onAir>>
    /\ Churn

-----------------------------------------------------------------------------
Publish(p) ==
    \/ \E e \in Events : SelectRow(p, e)
    \/ PublishConfirmed(p)
    \/ CommitPublish(p)

Consume(c) ==
    \/ \E m \in Messages : Receive(c, m)
    \/ ReadBatch(c)
    \/ AlreadyComplete(c)
    \/ CommitBatch(c)
    \/ RejectInvalid(c)
    \/ CopyConfirmed(c)
    \/ Ack(c)

Fault ==
    \/ \E p \in Publishers : PublishFails(p) \/ PublisherDies(p)
    \/ \E c \in Consumers : FanoutFails(c) \/ CopyUnconfirmed(c) \/ ConsumerDies(c)

Environment ==
    \/ \E s \in Subs : Subscribe(s) \/ Unsubscribe(s) \/ ToggleBell(s)
    \/ \E e \in Events : ToggleVideo(e)
    \/ \E r \in Recipients : ToggleWanting(r)

Next ==
    \/ \E e \in Events, announce \in BOOLEAN : Decide(e, announce)
    \/ \E p \in Publishers : Publish(p)
    \/ \E c \in Consumers : Consume(c)
    \/ \E m \in Messages : RetryExpires(m)
    \/ Fault
    \/ Environment

Spec == Init /\ [][Next]_vars

(* The worker loops never stop for good (each catches its exceptions and   *)
(* polls again) and the broker expires retry copies; nobody is obliged to  *)
(* decide, to subscribe, or to fail.                                       *)
Fairness ==
    /\ \A p \in Publishers : WF_vars(Publish(p))
    /\ \A c \in Consumers : WF_vars(Consume(c))
    /\ \A m \in Messages : WF_vars(RetryExpires(m))

FairSpec == Spec /\ Fairness

-----------------------------------------------------------------------------
(* Properties                                                              *)

Live(m) ==                  \* a copy is still to be processed, or is parked
    \/ ready[m] > 0
    \/ retry[m] > 0
    \/ dead[m] > 0
    \/ \E c \in Consumers : held[c] = m /\ phase[c] \in {"holding", "batch", "retrying"}

Safe(e) == inbox[e].done \/ \E m \in Messages : m.event = e /\ Live(m)

\* An outbox row marked published is never lost: its fan-out is complete or a copy
\* of the message is still queued, being worked on, waiting for a retry or dead-lettered
\* (publisher confirm before commit, manual ack, retry copy confirmed before the ack).
NoLostEvent ==
    \A e \in Events : outbox[e] = "published" => Safe(e)

\* A fan-out transaction never stages a recipient that already has a row: the inbox
\* row lock and the cursor keep concurrent consumers and redelivered copies apart, so
\* the unique index (event, user, type) is never what stops a duplicate.
StagedRowsAreNew ==
    \A c \in Consumers : phase[c] = "batch" =>
        batch[c].new \cap rows[held[c].event] = {}

\* Once an event is complete, everybody who was entitled to it from the decision to the
\* completion has a row, whatever batches, redeliveries and crashes it took.
NobodySkipped ==
    \A e \in Events : inbox[e].done => steady[e] \subseteq rows[e]

\* A message that can be read reaches the dead-letter queue only after the fan-out of its
\* event failed more often than MaxConsumerRetries, redeliveries after crashes not counted;
\* one that cannot gets there as it came, never having been retried.
DeadOnlyAfterRetries ==
    \A m \in Messages : dead[m] > 0 =>
        IF Readable(m) THEN failures[m.event] > MaxConsumerRetries ELSE m.retries = 0

\* Every decision is eventually settled: its fan-out completes or an operator finds it
\* in the dead-letter queue.
Settled(e) == inbox[e].done \/ \E m \in Messages : m.event = e /\ dead[m] > 0
EveryDecisionSettled == \A e \in Events : outbox[e] # "none" ~> Settled(e)

\* The pipeline implements DecisionNotices: whatever is redelivered, retried or crashes,
\* its rows are the notices of a system that tells each decision's recipients directly.
Notices == INSTANCE DecisionNotices WITH
    decided <- {e \in Events : outbox[e] # "none"},
    audience <- audience,
    owed <- steady,
    told <- rows,
    closed <- {e \in Events : inbox[e].done}

ImplementsNotices == Notices!Spec

=============================================================================
