---------------------- MODULE ModerationMessagingProofs ----------------------
(***************************************************************************)
(* Theorems about ModerationMessaging for every set of events, consumers   *)
(* and publishers, every batch size and every number of faults.            *)
(***************************************************************************)
EXTENDS ModerationMessaging, FiniteSetTheorems, WellFoundedInduction, TLAPS

\* Max is the greatest element of a nonempty finite set of naturals: of the final
\* segments of the set, take one that has no strict subset among them.
LEMMA FiniteMaximum ==
    ASSUME NEW T \in SUBSET Nat, IsFiniteSet(T), T # {}
    PROVE  Max(T) \in T /\ \A y \in T : y <= Max(T)
<1> DEFINE Above(x) == {y \in T : y > x}
           Segments == {Above(x) : x \in T}
           R == StrictSubsetOrdering(T)
<1>1. IsWellFoundedOn(R, FiniteSubsetsOf(T))
  BY FS_StrictSubsetOrderingWellFounded
<1>2. Segments \subseteq FiniteSubsetsOf(T) /\ Segments # {}
  <2>1. \A U \in SUBSET T : IsFiniteSet(U) BY FS_Subset
  <2>2. \A x \in T : Above(x) \in SUBSET T OBVIOUS
  <2>3. QED BY <2>1, <2>2, Zenon DEF FiniteSubsetsOf
<1>3. PICK U \in Segments : \A V \in Segments : ~ (<<V, U>> \in R)
  <2> HIDE DEF R, Segments
  <2> QED BY ONLY <1>1, <1>2, WFMin
<1>4. PICK x \in T : U = Above(x) OBVIOUS
<1>5. ASSUME NEW y \in T, y > x PROVE FALSE
  <2>1. x \in Nat /\ y \in Nat /\ \A z \in T : z \in Nat OBVIOUS
  <2>2. Above(y) \subseteq Above(x)
    <3>1. \A z \in T : z > y => z > x BY <1>5, <2>1
    <3>2. QED BY <3>1, Zenon
  <2>3. y \in Above(x) BY <1>5
  <2>4. y \notin Above(y) BY <2>1
  <2>5. <<Above(y), U>> \in R BY <2>2, <2>3, <2>4, <1>4 DEF StrictSubsetOrdering
  <2>6. QED BY <2>5, <1>3
<1>6. \E z \in T : \A y \in T : z >= y BY <1>5
<1>7. QED BY <1>6 DEF Max

USE SubsAssumption, BoundsAssumption

-----------------------------------------------------------------------------
(* Types                                                                   *)

HandlersHold ==
    \A c \in Consumers :
        /\ phase[c] # "idle" => held[c] \in Messages
        /\ phase[c] = "retrying" => held[c].retries < MaxConsumerRetries

PublishersHold ==
    \A p \in Publishers : sending[p] # "idle" => locked[p] \in Events

TypeInv == TypeOK /\ HandlersHold /\ PublishersHold

LEMMA QueueTypes ==
    ASSUME NEW q \in [Messages -> Nat], NEW m \in Messages
    PROVE  /\ Bump(q, m) \in [Messages -> Nat]
           /\ q[m] > 0 => Drop(q, m) \in [Messages -> Nat]
BY DEF Bump, Drop

LEMMA BatchTypes ==
    ASSUME TypeInv, NEW c \in Consumers, phase[c] = "batch",
           batch[c].page # {}
    PROVE  Max(batch[c].page) \in Nat
<1>1. batch[c].page \in SUBSET Subs BY DEF TypeInv, TypeOK
<1>2. IsFiniteSet(batch[c].page) /\ batch[c].page \in SUBSET Nat
  BY <1>1, FS_Subset
<1>3. QED BY <1>2, FiniteMaximum

LEMMA InitTypes == Init => TypeInv
BY DEF Init, TypeInv, TypeOK, HandlersHold, PublishersHold, NoBatch, Recipients

LEMMA PublisherTypes ==
    ASSUME TypeInv, NEW p \in Publishers,
           \/ \E e \in Events : SelectRow(p, e)
           \/ PublishConfirmed(p) \/ CommitPublish(p) \/ PublishFails(p) \/ PublisherDies(p)
    PROVE  TypeInv'
<1> USE DEF TypeInv, TypeOK, HandlersHold, PublishersHold, outboxVars, brokerVars,
           consumerVars, fanoutVars, worldVars, subVars, historyVars, publisherVars, Unlock
<1>1. ASSUME NEW e \in Events, SelectRow(p, e) PROVE TypeInv'
  BY <1>1 DEF SelectRow
<1>2. sending[p] # "idle" => FirstCopy(locked[p]) \in Messages
  BY DEF FirstCopy, Messages
<1>3. CASE PublishConfirmed(p)
  <2>1. ready' \in [Messages -> Nat] BY <1>2, <1>3, QueueTypes DEF PublishConfirmed
  <2>2. QED BY <1>3, <2>1 DEF PublishConfirmed
<1>4. CASE PublishFails(p)
  <2>1. ready' \in [Messages -> Nat] BY <1>2, <1>4, QueueTypes DEF PublishFails
  <2>2. QED BY <1>4, <2>1 DEF PublishFails
<1>5. CASE CommitPublish(p)
  <2>1. outbox' \in [Events -> {"none", "pending", "published"}]
    BY <1>5 DEF CommitPublish
  <2>2. QED BY <1>5, <2>1 DEF CommitPublish
<1>6. CASE PublisherDies(p) BY <1>6 DEF PublisherDies
<1>7. QED BY <1>1, <1>3, <1>4, <1>5, <1>6

LEMMA ConsumerTypes ==
    ASSUME TypeInv, NEW c \in Consumers,
           \/ \E m \in Messages : Receive(c, m)
           \/ ReadBatch(c) \/ AlreadyComplete(c) \/ CommitBatch(c) \/ CopyConfirmed(c)
           \/ Ack(c) \/ RejectInvalid(c) \/ FanoutFails(c) \/ CopyUnconfirmed(c) \/ ConsumerDies(c)
    PROVE  TypeInv'
<1> USE DEF TypeInv, TypeOK, HandlersHold, PublishersHold, outboxVars, brokerVars,
           consumerVars, fanoutVars, worldVars, subVars, historyVars, publisherVars, Release, NoBatch
<1>1. ASSUME NEW m \in Messages, Receive(c, m) PROVE TypeInv'
  <2>1. ready' \in [Messages -> Nat] BY <1>1, QueueTypes DEF Receive
  <2>2. QED BY <1>1, <2>1 DEF Receive
<1>2. CASE ReadBatch(c)
  <2>1. Eligible(held[c].event) \subseteq Subs BY DEF Eligible
  <2>2. FirstBy(BatchSize, Eligible(held[c].event)) \subseteq Subs BY <2>1 DEF FirstBy
  <2>3. batch' \in [Consumers -> [page : SUBSET Subs, new : SUBSET Recipients]]
    BY <1>2, <2>2 DEF ReadBatch, Stage
  <2>4. QED BY <1>2, <2>3 DEF ReadBatch, Stage
<1>3. CASE AlreadyComplete(c) BY <1>3 DEF AlreadyComplete
<1>4. CASE CommitBatch(c)
  <2>1. held[c] \in Messages /\ held[c].event \in Events BY <1>4 DEF CommitBatch, WriteBatch, Messages
  <2>2. batch[c].page # {} => Max(batch[c].page) \in Nat BY <1>4, BatchTypes DEF CommitBatch, WriteBatch
  <2>3. inbox' \in [Events -> [owner : BOOLEAN, cursor : Nat, done : BOOLEAN]]
    BY <1>4, <2>1, <2>2 DEF CommitBatch, WriteBatch
  <2>4. rows' \in [Events -> SUBSET Recipients]
    BY <1>4, <2>1 DEF CommitBatch, WriteBatch
  <2>5. QED BY <1>4, <2>3, <2>4 DEF CommitBatch, WriteBatch
<1>5. CASE CopyConfirmed(c)
  <2>1. RetryCopy(held[c]) \in Messages BY <1>5 DEF CopyConfirmed, RetryCopy, Messages
  <2>2. retry' \in [Messages -> Nat] BY <1>5, <2>1, QueueTypes DEF CopyConfirmed
  <2>3. QED BY <1>5, <2>2 DEF CopyConfirmed
<1>6. CASE Ack(c) BY <1>6 DEF Ack
<1>7. CASE FanoutFails(c)
  <2>1. held[c] \in Messages /\ held[c].event \in Events /\ held[c].retries \in Nat
    BY <1>7 DEF FanoutFails, FailFanout, Messages
  <2>2. dead' \in [Messages -> Nat]
    <3>1. Bump(dead, held[c]) \in [Messages -> Nat] BY <2>1, QueueTypes
    <3>2. dead' \in {dead, Bump(dead, held[c])} BY <1>7 DEF FanoutFails, FailFanout
    <3>3. QED BY <3>1, <3>2
  <2>3. failures' \in [Events -> Nat] BY <1>7, <2>1 DEF FanoutFails, FailFanout
  <2>4. CASE held[c].retries >= MaxConsumerRetries
    <3>1. Release(c) BY <1>7, <2>4 DEF FanoutFails, FailFanout
    <3>2. TypeOK' BY <1>7, <2>2, <2>3, <3>1 DEF FanoutFails, FailFanout
    <3>3. HandlersHold' BY <3>1
    <3>4. QED BY <1>7, <3>2, <3>3 DEF FanoutFails, FailFanout
  <2>5. CASE ~(held[c].retries >= MaxConsumerRetries)
    <3>1. /\ phase' = [phase EXCEPT ![c] = "retrying"]
          /\ held' = held /\ held[c] \in Messages /\ held[c].retries < MaxConsumerRetries
      BY <1>7, <2>1, <2>5 DEF FanoutFails, FailFanout
    <3>2. HandlersHold' BY <3>1
    <3>3. batch' \in [Consumers -> [page : SUBSET Subs, new : SUBSET Recipients]]
      <4>1. batch' = [batch EXCEPT ![c] = NoBatch]
        BY <1>7, <2>5 DEF FanoutFails, FailFanout
      <4>2. NoBatch \in [page : SUBSET Subs, new : SUBSET Recipients] OBVIOUS
      <4>3. QED BY <4>1, <4>2
    <3>4. TypeOK' BY <1>7, <2>2, <2>3, <3>1, <3>3 DEF FanoutFails, FailFanout
    <3>5. QED BY <1>7, <3>2, <3>4 DEF FanoutFails, FailFanout
  <2>6. QED BY <2>4, <2>5
<1>10. CASE RejectInvalid(c)
  <2>1. dead' \in [Messages -> Nat] BY <1>10, QueueTypes DEF RejectInvalid
  <2>2. QED BY <1>10, <2>1 DEF RejectInvalid
<1>8. CASE CopyUnconfirmed(c)
  <2>1. held[c] \in Messages /\ RetryCopy(held[c]) \in Messages
    BY <1>8 DEF CopyUnconfirmed, RetryCopy, Messages
  <2>2. ready' \in [Messages -> Nat] BY <1>8, <2>1, QueueTypes DEF CopyUnconfirmed
  <2>3. Bump(retry, RetryCopy(held[c])) \in [Messages -> Nat] BY <2>1, QueueTypes
  <2>4. retry' \in [Messages -> Nat] BY <1>8, <2>3 DEF CopyUnconfirmed
  <2>5. QED BY <1>8, <2>2, <2>4 DEF CopyUnconfirmed
<1>9. CASE ConsumerDies(c)
  <2>1. ready' \in [Messages -> Nat] BY <1>9, QueueTypes DEF ConsumerDies
  <2>2. QED BY <1>9, <2>1 DEF ConsumerDies
<1>11. QED BY <1>1, <1>2, <1>3, <1>4, <1>5, <1>6, <1>7, <1>8, <1>9, <1>10

LEMMA WorldTypes ==
    ASSUME TypeInv,
           \/ \E e \in Events, announce \in BOOLEAN : Decide(e, announce)
           \/ \E m \in Messages : RetryExpires(m)
           \/ Environment
    PROVE  TypeInv'
<1> USE DEF TypeInv, TypeOK, HandlersHold, PublishersHold, outboxVars, brokerVars,
           consumerVars, fanoutVars, worldVars, subVars, historyVars, publisherVars
<1>1. ASSUME NEW e \in Events, NEW announce \in BOOLEAN, Decide(e, announce)
      PROVE  TypeInv'
  <2>2. audience' \in [Events -> SUBSET Subs] BY <1>1 DEF Decide
  <2>3. steady' \in [Events -> SUBSET Recipients] BY <1>1 DEF Decide, Recipients
  <2>4. outbox' \in [Events -> {"none", "pending", "published"}] BY <1>1 DEF Decide
  <2>5. QED BY <1>1, <2>2, <2>3, <2>4 DEF Decide
<1>2. ASSUME NEW m \in Messages, RetryExpires(m) PROVE TypeInv'
  <2>1. ready' \in [Messages -> Nat] /\ retry' \in [Messages -> Nat]
    BY <1>2, QueueTypes DEF RetryExpires
  <2>2. QED BY <1>2, <2>1 DEF RetryExpires
<1>3. CASE Environment
  <2>1. \A R : Unsteady(R) => steady' \in [Events -> SUBSET Recipients] BY DEF Unsteady
  <2>2. Churn => churn' \in 0..MaxChurn BY DEF Churn
  <2>3. ASSUME NEW s \in Subs, Subscribe(s) \/ Unsubscribe(s) \/ ToggleBell(s)
        PROVE  TypeInv'
    <3>1. following' \in SUBSET Subs BY <2>3 DEF Subscribe, Unsubscribe, ToggleBell
    <3>2. listening' \in SUBSET Subs BY <2>3 DEF Subscribe, Unsubscribe, ToggleBell
    <3>3. since' \in [Subs -> Nat] BY <2>3 DEF Subscribe, Unsubscribe, ToggleBell
    <3>4. Unsteady({s}) /\ Churn /\ UNCHANGED <<onAir, wanting>>
      BY <2>3 DEF Subscribe, Unsubscribe, ToggleBell
    <3>5. QED BY <2>1, <2>2, <3>1, <3>2, <3>3, <3>4 DEF Churn
  <2>4. ASSUME NEW e \in Events, ToggleVideo(e) PROVE TypeInv'
    BY <2>2, <2>4 DEF ToggleVideo, Churn
  <2>5. ASSUME NEW r \in Recipients, ToggleWanting(r) PROVE TypeInv'
    BY <2>1, <2>2, <2>5 DEF ToggleWanting, Churn
  <2>6. QED BY <1>3, <2>3, <2>4, <2>5 DEF Environment
<1>4. QED BY <1>1, <1>2, <1>3

LEMMA StutterTypes == TypeInv /\ UNCHANGED vars => TypeInv'
BY DEF TypeInv, TypeOK, HandlersHold, PublishersHold, vars, outboxVars, brokerVars,
       consumerVars, fanoutVars, worldVars, subVars, historyVars, publisherVars

LEMMA NextTypes == TypeInv /\ [Next]_vars => TypeInv'
BY PublisherTypes, ConsumerTypes, WorldTypes, StutterTypes
   DEF Next, Publish, Consume, Fault

\* Every variable keeps its type; a consumer in the middle of a handler holds a message,
\* a publisher in the middle of a transaction holds a row.
THEOREM TypeCorrect == Spec => []TypeOK
<1>1. Init => TypeInv BY InitTypes
<1>2. TypeInv /\ [Next]_vars => TypeInv' BY NextTypes
<1>3. TypeInv => TypeOK BY DEF TypeInv
<1>4. QED BY <1>1, <1>2, <1>3, PTL DEF Spec

-----------------------------------------------------------------------------
(* No event is lost.  NoLostEvent is not inductive: between the confirm    *)
(* and the commit of the outbox row its message may already be consumed,   *)
(* and a consumer acknowledges because it saw the event complete.          *)

ConfirmedSafe ==
    \A e \in Events :
        \/ outbox[e] = "published"
        \/ \E p \in Publishers : locked[p] = e /\ sending[p] = "confirmed"
        => Safe(e)

FinishedDone ==
    \A c \in Consumers : phase[c] = "finished" => inbox[held[c].event].done

LEMMA QueueCounts ==
    ASSUME NEW q \in [Messages -> Nat], NEW m \in Messages, NEW n \in Messages
    PROVE  /\ q[n] > 0 => Bump(q, m)[n] > 0
           /\ Bump(q, m)[m] > 0
           /\ n # m /\ q[n] > 0 => Drop(q, m)[n] > 0
BY DEF Bump, Drop

\* Whatever a publisher does, no copy of any message disappears.
LEMMA PublisherKeepsCopies ==
    ASSUME TypeInv, NEW p \in Publishers, NEW m \in Messages, Live(m),
           \/ \E e \in Events : SelectRow(p, e)
           \/ PublishConfirmed(p) \/ CommitPublish(p) \/ PublishFails(p) \/ PublisherDies(p)
    PROVE  Live(m)' /\ UNCHANGED <<phase, held, inbox>>
<1> USE DEF outboxVars, brokerVars, consumerVars, fanoutVars, worldVars, subVars,
           historyVars, publisherVars
<1>1. UNCHANGED <<retry, dead, phase, held, batch, inbox>>
  BY DEF SelectRow, PublishConfirmed, CommitPublish, PublishFails, PublisherDies
<1>2. ready[m] > 0 => ready'[m] > 0
  <2>1. ready \in [Messages -> Nat] BY DEF TypeInv, TypeOK
  <2>2. sending[p] # "idle" => FirstCopy(locked[p]) \in Messages
    BY DEF FirstCopy, Messages, TypeInv, PublishersHold
  <2>3. \/ ready' = ready
        \/ sending[p] = "selected" /\ ready' = Bump(ready, FirstCopy(locked[p]))
    BY DEF SelectRow, PublishConfirmed, CommitPublish, PublishFails, PublisherDies
  <2>4. QED BY <2>1, <2>2, <2>3, QueueCounts
<1>3. QED BY <1>1, <1>2 DEF Live

\* A consumer's step leaves a copy of the message, makes the retry copy, or has seen the
\* event complete; an expired retry goes back to the main queue.
LEMMA ConsumerKeepsCopies ==
    ASSUME TypeInv, FinishedDone, NEW c \in Consumers, NEW m \in Messages, Live(m),
           \/ \E n \in Messages : Receive(c, n)
           \/ ReadBatch(c) \/ AlreadyComplete(c) \/ CommitBatch(c) \/ CopyConfirmed(c)
           \/ Ack(c) \/ RejectInvalid(c) \/ FanoutFails(c) \/ CopyUnconfirmed(c) \/ ConsumerDies(c)
    PROVE  Safe(m.event)'
<1> DEFINE Held(d) == held[d] = m /\ phase[d] \in {"holding", "batch", "retrying"}
           Queued  == ready[m] > 0 \/ retry[m] > 0 \/ dead[m] > 0
<1> USE DEF outboxVars, brokerVars, consumerVars, fanoutVars, worldVars, subVars,
           historyVars, publisherVars
<1>0. /\ ready \in [Messages -> Nat] /\ retry \in [Messages -> Nat]
      /\ dead \in [Messages -> Nat]
      /\ phase[c] # "idle" => held[c] \in Messages
  BY DEF TypeInv, TypeOK, HandlersHold
<1>1. Queued \/ \E d \in Consumers : Held(d) BY DEF Live
<1>2. SUFFICES \/ Live(m)'
               \/ inbox'[m.event].done
               \/ RetryCopy(m) \in Messages /\ Live(RetryCopy(m))'
  BY DEF Safe, RetryCopy
<1>3. ASSUME NEW d \in Consumers, d # c, Held(d) PROVE Live(m)'
  <2>1. phase'[d] = phase[d] /\ held'[d] = held[d]
    BY <1>3 DEF Receive, ReadBatch, Stage, AlreadyComplete, CommitBatch, WriteBatch,
                CopyConfirmed, Ack, RejectInvalid, FanoutFails, FailFanout, CopyUnconfirmed,
                ConsumerDies, Release, TypeInv, TypeOK
  <2>2. QED BY <1>3, <2>1 DEF Live
<1>4. CASE Queued
  <2>1. ASSUME NEW n \in Messages, Receive(c, n) PROVE Live(m)'
    <3>1. CASE m = n BY <2>1, <3>1 DEF Receive, Live, TypeInv, TypeOK
    <3>2. CASE m # n BY <1>0, <1>4, <2>1, <3>2, QueueCounts DEF Receive, Live
    <3>3. QED BY <3>1, <3>2
  <2>2. CASE ReadBatch(c) \/ AlreadyComplete(c) \/ CommitBatch(c) \/ Ack(c)
    BY <1>4, <2>2 DEF ReadBatch, Stage, AlreadyComplete, CommitBatch, WriteBatch, Ack, Live
  <2>3. CASE CopyConfirmed(c)
    <3>1. RetryCopy(held[c]) \in Messages
      BY <2>3 DEF CopyConfirmed, RetryCopy, Messages, TypeInv, TypeOK, HandlersHold
    <3>2. QED BY <1>0, <1>4, <2>3, <3>1, QueueCounts DEF CopyConfirmed, Live
  <2>4. CASE FanoutFails(c)
    <3>1. held[c] \in Messages BY <1>0, <2>4 DEF FanoutFails, FailFanout
    <3>2. ready' = ready /\ retry' = retry /\ dead' \in {dead, Bump(dead, held[c])}
      BY <2>4 DEF FanoutFails, FailFanout
    <3>3. dead[m] > 0 => dead'[m] > 0 BY <1>0, <3>1, <3>2, QueueCounts
    <3>4. QED BY <1>4, <3>2, <3>3 DEF Live
  <2>5. CASE CopyUnconfirmed(c)
    <3>1. RetryCopy(held[c]) \in Messages
      BY <2>5 DEF CopyUnconfirmed, RetryCopy, Messages, TypeInv, TypeOK, HandlersHold
    <3>2. /\ held[c] \in Messages /\ dead' = dead /\ ready' = Bump(ready, held[c])
          /\ retry' \in {retry, Bump(retry, RetryCopy(held[c]))}
      BY <1>0, <2>5 DEF CopyUnconfirmed
    <3>3. ready[m] > 0 => ready'[m] > 0 BY <1>0, <3>2, QueueCounts
    <3>4. retry[m] > 0 => retry'[m] > 0 BY <1>0, <3>1, <3>2, QueueCounts
    <3>5. QED BY <1>4, <3>2, <3>3, <3>4 DEF Live
  <2>8. CASE RejectInvalid(c)
    <3>1. /\ held[c] \in Messages /\ dead' = Bump(dead, held[c])
          /\ retry' = retry /\ ready' = ready
      BY <1>0, <2>8 DEF RejectInvalid
    <3>2. dead[m] > 0 => dead'[m] > 0 BY <1>0, <3>1, QueueCounts
    <3>3. QED BY <1>4, <3>1, <3>2 DEF Live
  <2>6. CASE ConsumerDies(c)
    <3>1. /\ held[c] \in Messages /\ ready' = Bump(ready, held[c])
          /\ retry' = retry /\ dead' = dead
      BY <1>0, <2>6 DEF ConsumerDies
    <3>2. ready[m] > 0 => ready'[m] > 0 BY <1>0, <3>1, QueueCounts
    <3>3. QED BY <1>4, <3>1, <3>2 DEF Live
  <2>7. QED BY <2>1, <2>2, <2>3, <2>4, <2>5, <2>6, <2>8
<1>5. CASE Held(c)
  <2>1. ASSUME NEW n \in Messages, Receive(c, n) PROVE FALSE BY <1>5, <2>1 DEF Receive
  <2>2. CASE ReadBatch(c) BY <1>5, <2>2 DEF ReadBatch, Stage, Live, TypeInv, TypeOK
  <2>3. CASE AlreadyComplete(c)
    BY <1>5, <2>3 DEF AlreadyComplete
  <2>4. CASE CommitBatch(c)
    <3>1. m.event \in Events BY DEF Messages
    <3>2. CASE Cardinality(batch[c].page) < BatchSize
      BY <1>5, <2>4, <3>1, <3>2 DEF CommitBatch, WriteBatch, TypeInv, TypeOK
    <3>3. CASE ~(Cardinality(batch[c].page) < BatchSize)
      BY <1>5, <2>4, <3>3 DEF CommitBatch, WriteBatch, Live, TypeInv, TypeOK
    <3>4. QED BY <3>2, <3>3
  <2>5. CASE CopyConfirmed(c)
    <3>1. RetryCopy(m) \in Messages
      BY <1>5, <2>5 DEF CopyConfirmed, RetryCopy, Messages, TypeInv, TypeOK, HandlersHold
    <3>2. retry'[RetryCopy(m)] > 0
      BY <1>0, <1>5, <2>5, <3>1, QueueCounts DEF CopyConfirmed
    <3>3. QED BY <3>1, <3>2 DEF Live
  <2>6. CASE Ack(c) BY <1>5, <2>6 DEF Ack
  <2>7. CASE FanoutFails(c)
    <3>1. CASE held[c].retries >= MaxConsumerRetries
      <4>1. dead' = Bump(dead, m) BY <1>5, <2>7, <3>1 DEF FanoutFails, FailFanout
      <4>2. dead'[m] > 0 BY <1>0, <4>1, QueueCounts
      <4>3. QED BY <4>2 DEF Live
    <3>2. CASE ~(held[c].retries >= MaxConsumerRetries)
      BY <1>5, <2>7, <3>2 DEF FanoutFails, FailFanout, Live, TypeInv, TypeOK
    <3>3. QED BY <3>1, <3>2
  <2>8. CASE RejectInvalid(c) \/ CopyUnconfirmed(c) \/ ConsumerDies(c)
    BY <1>0, <1>5, <2>8, QueueCounts DEF RejectInvalid, CopyUnconfirmed, ConsumerDies, Live
  <2>9. QED BY <2>1, <2>2, <2>3, <2>4, <2>5, <2>6, <2>7, <2>8
<1>6. QED BY <1>1, <1>3, <1>4, <1>5

LEMMA ExpiryKeepsCopies ==
    ASSUME TypeInv, NEW n \in Messages, RetryExpires(n), NEW m \in Messages, Live(m)
    PROVE  Live(m)' /\ UNCHANGED <<phase, held, inbox>>
<1> USE DEF consumerVars, fanoutVars
<1>1. ready \in [Messages -> Nat] /\ retry \in [Messages -> Nat]
  BY DEF TypeInv, TypeOK
<1>2. /\ ready' = Bump(ready, n) /\ retry' = Drop(retry, n)
      /\ UNCHANGED <<dead, phase, held, inbox>>
  BY DEF RetryExpires
<1>3. ready[m] > 0 => ready'[m] > 0 BY <1>1, <1>2, QueueCounts
<1>4. retry[m] > 0 => retry'[m] > 0 \/ ready'[m] > 0 BY <1>1, <1>2, QueueCounts
<1>5. QED BY <1>2, <1>3, <1>4 DEF Live

-----------------------------------------------------------------------------
(* The inbox row lock: at most one open batch per event, only on events    *)
(* that are not complete, and what it staged is still missing.             *)

ConsumerStep(c) ==
    \/ \E m \in Messages : Receive(c, m)
    \/ ReadBatch(c) \/ AlreadyComplete(c) \/ CommitBatch(c) \/ CopyConfirmed(c)
    \/ Ack(c) \/ RejectInvalid(c) \/ FanoutFails(c) \/ CopyUnconfirmed(c) \/ ConsumerDies(c)

LockHeld ==
    /\ \A c \in Consumers : phase[c] = "batch" => ~inbox[held[c].event].done
    /\ \A c, d \in Consumers :
         c # d /\ phase[c] = "batch" /\ phase[d] = "batch" => held[c].event # held[d].event

LEMMA OneConsumerMoves ==
    ASSUME TypeInv, NEW c \in Consumers, ConsumerStep(c), NEW d \in Consumers, d # c
    PROVE  phase'[d] = phase[d] /\ held'[d] = held[d] /\ batch'[d] = batch[d]
BY DEF ConsumerStep, Receive, ReadBatch, Stage, AlreadyComplete, CommitBatch, WriteBatch,
       CopyConfirmed, Ack, RejectInvalid, FanoutFails, FailFanout, CopyUnconfirmed, ConsumerDies,
       Release, TypeInv, TypeOK, consumerVars

LEMMA OnlyCommitsWrite ==
    ASSUME NEW c \in Consumers, ConsumerStep(c), ~CommitBatch(c)
    PROVE  /\ UNCHANGED fanoutVars
           /\ TypeInv => (phase'[c] = "batch" => ReadBatch(c))
<1> USE DEF Receive, ReadBatch, Stage, AlreadyComplete, CopyConfirmed, Ack, RejectInvalid,
            FanoutFails, FailFanout, CopyUnconfirmed, ConsumerDies, Release
<1>1. UNCHANGED fanoutVars BY DEF ConsumerStep
<1>2. ASSUME TypeInv, phase'[c] = "batch", ~ReadBatch(c) PROVE FALSE
  <2>1. phase \in [Consumers -> {"idle", "holding", "batch", "finished", "retrying", "copied"}]
    BY <1>2 DEF TypeInv, TypeOK
  <2>2. \/ \E m \in Messages : Receive(c, m)
        \/ AlreadyComplete(c) \/ CopyConfirmed(c) \/ Ack(c)
        \/ RejectInvalid(c) \/ FanoutFails(c) \/ CopyUnconfirmed(c) \/ ConsumerDies(c)
    BY <1>2 DEF ConsumerStep
  <2>3. phase'[c] \in {"holding", "finished", "copied", "idle", "retrying"}
    BY <2>1, <2>2
  <2>4. QED BY <1>2, <2>3
<1>3. QED BY <1>1, <1>2

LEMMA CommitEffect ==
    ASSUME TypeInv, NEW c \in Consumers, CommitBatch(c)
    PROVE  /\ phase[c] = "batch" /\ held[c] \in Messages /\ held[c].event \in Events
           /\ phase'[c] \in {"holding", "finished"} /\ held' = held
           /\ phase'[c] = "finished" => inbox'[held[c].event].done
           /\ rows'[held[c].event] = rows[held[c].event] \cup batch[c].new
           /\ \A e \in Events \ {held[c].event} : inbox'[e] = inbox[e] /\ rows'[e] = rows[e]
<1>1. held[c] \in Messages /\ held[c].event \in Events
  BY DEF CommitBatch, WriteBatch, Messages, TypeInv, HandlersHold
<1>2. QED BY <1>1 DEF CommitBatch, WriteBatch, TypeInv, TypeOK

\* Everything outside the consumers leaves the consumers and their tables alone.
LEMMA OthersDoNotFanOut ==
    ASSUME [Next]_vars, ~\E c \in Consumers : ConsumerStep(c)
    PROVE  UNCHANGED <<consumerVars, fanoutVars>>
<1>1. \/ \E e \in Events, announce \in BOOLEAN : Decide(e, announce)
      \/ \E p \in Publishers : Publish(p) \/ PublishFails(p) \/ PublisherDies(p)
      \/ \E m \in Messages : RetryExpires(m)
      \/ Environment
      \/ UNCHANGED vars
  BY DEF Next, Consume, Fault, ConsumerStep
<1>2. QED
  BY <1>1 DEF Decide, Publish, SelectRow, PublishConfirmed, CommitPublish, PublishFails,
              PublisherDies, RetryExpires, Environment, Subscribe, Unsubscribe, ToggleBell,
              ToggleVideo, ToggleWanting, Churn, vars

LEMMA LockKept ==
    ASSUME TypeInv, LockHeld, StagedRowsAreNew, [Next]_vars
    PROVE  LockHeld' /\ StagedRowsAreNew'
<1>1. CASE ~\E c \in Consumers : ConsumerStep(c)
  BY <1>1, OthersDoNotFanOut DEF LockHeld, StagedRowsAreNew, consumerVars, fanoutVars
<1>2. ASSUME NEW c \in Consumers, ConsumerStep(c) PROVE LockHeld' /\ StagedRowsAreNew'
  <2>1. \A d \in Consumers \ {c} :
          phase'[d] = phase[d] /\ held'[d] = held[d] /\ batch'[d] = batch[d]
    BY <1>2, OneConsumerMoves
  <2>2. CASE CommitBatch(c)
    <3>1. \A d \in Consumers \ {c} : phase[d] = "batch" =>
            held[d].event # held[c].event /\ held[d].event \in Events
      BY <2>2, CommitEffect DEF LockHeld, TypeInv, HandlersHold, Messages
    <3>2. QED BY <2>1, <2>2, <3>1, CommitEffect DEF LockHeld, StagedRowsAreNew
  <2>3. CASE ~CommitBatch(c) /\ phase'[c] # "batch"
    BY <1>2, <2>1, <2>3, OnlyCommitsWrite DEF LockHeld, StagedRowsAreNew, fanoutVars
  <2>4. CASE ReadBatch(c)
    <3>1. /\ UNCHANGED <<inbox, rows, held>> /\ ~inbox[held[c].event].done
          /\ \A d \in Consumers : phase[d] = "batch" => held[d].event # held[c].event
          /\ batch'[c].new \cap rows[held[c].event] = {}
      BY <2>4 DEF ReadBatch, Stage, InboxLocked, TypeInv, TypeOK, fanoutVars
    <3>2. QED BY <2>1, <3>1 DEF LockHeld, StagedRowsAreNew
  <2>5. QED BY <1>2, <2>2, <2>3, <2>4, OnlyCommitsWrite
<1>3. QED BY <1>1, <1>2

\* A fan-out transaction never stages a recipient that already has a row.
THEOREM StagedRowsCorrect == Spec => []StagedRowsAreNew
<1>1. Init => TypeInv /\ LockHeld /\ StagedRowsAreNew
  BY InitTypes DEF Init, LockHeld, StagedRowsAreNew
<1>2. TypeInv /\ LockHeld /\ StagedRowsAreNew /\ [Next]_vars
      => (TypeInv /\ LockHeld /\ StagedRowsAreNew)'
  BY NextTypes, LockKept
<1>3. QED BY <1>1, <1>2, PTL DEF Spec

-----------------------------------------------------------------------------
(* Putting the two together: nothing is lost.                              *)

LEMMA DoneKept ==
    ASSUME TypeInv, LockHeld, [Next]_vars, NEW e \in Events, inbox[e].done
    PROVE  inbox'[e].done
<1>1. CASE ~\E c \in Consumers : ConsumerStep(c)
  BY <1>1, OthersDoNotFanOut DEF fanoutVars
<1>2. ASSUME NEW c \in Consumers, ConsumerStep(c) PROVE inbox'[e].done
  <2>1. CASE CommitBatch(c) BY <2>1, CommitEffect DEF LockHeld
  <2>2. CASE ~CommitBatch(c) BY <1>2, <2>2, OnlyCommitsWrite DEF fanoutVars
  <2>3. QED BY <2>1, <2>2
<1>3. QED BY <1>1, <1>2

LEMMA SafeKept ==
    ASSUME TypeInv, LockHeld, FinishedDone, [Next]_vars, NEW e \in Events, Safe(e)
    PROVE  Safe(e)'
<1>1. CASE inbox[e].done BY <1>1, DoneKept DEF Safe
<1>2. ASSUME NEW m \in Messages, m.event = e, Live(m) PROVE Safe(e)'
  <2>1. ASSUME NEW c \in Consumers, ConsumerStep(c) PROVE Safe(e)'
    BY <1>2, <2>1, ConsumerKeepsCopies DEF ConsumerStep
  <2>2. ASSUME NEW p \in Publishers, Publish(p) \/ PublishFails(p) \/ PublisherDies(p)
        PROVE  Safe(e)'
    BY <1>2, <2>2, PublisherKeepsCopies DEF Publish, Safe
  <2>3. ASSUME NEW n \in Messages, RetryExpires(n) PROVE Safe(e)'
    BY <1>2, <2>3, ExpiryKeepsCopies DEF Safe
  <2>4. CASE \/ \E d \in Events, announce \in BOOLEAN : Decide(d, announce)
             \/ Environment \/ UNCHANGED vars
    <3>1. UNCHANGED <<brokerVars, phase, held>>
      BY <2>4 DEF Decide, Environment, Subscribe, Unsubscribe, ToggleBell, ToggleVideo,
                  ToggleWanting, Churn, vars, consumerVars
    <3>2. QED BY <1>2, <3>1 DEF Safe, Live, brokerVars
  <2>5. QED BY <2>1, <2>2, <2>3, <2>4 DEF Next, Consume, Fault, ConsumerStep
<1>3. QED BY <1>1, <1>2 DEF Safe

LEMMA FinishedKept ==
    ASSUME TypeInv, LockHeld, FinishedDone, [Next]_vars
    PROVE  FinishedDone'
<1>1. \A c \in Consumers : phase[c] # "idle" => held[c].event \in Events
  BY DEF TypeInv, HandlersHold, Messages
<1>2. CASE ~\E c \in Consumers : ConsumerStep(c)
  BY <1>2, OthersDoNotFanOut DEF FinishedDone, consumerVars, fanoutVars
<1>3. ASSUME NEW c \in Consumers, ConsumerStep(c) PROVE FinishedDone'
  <2>1. \A d \in Consumers \ {c} : phase'[d] = phase[d] /\ held'[d] = held[d]
    BY <1>3, OneConsumerMoves
  <2>2. \A d \in Consumers \ {c} : phase'[d] = "finished" => inbox'[held'[d].event].done
    BY <1>1, <2>1, DoneKept DEF FinishedDone
  <2>3. phase'[c] = "finished" => inbox'[held'[c].event].done
    <3>1. CASE CommitBatch(c) BY <3>1, CommitEffect
    <3>2. CASE AlreadyComplete(c) BY <3>2 DEF AlreadyComplete, fanoutVars
    <3>3. CASE \/ \E m \in Messages : Receive(c, m)
               \/ ReadBatch(c) \/ CopyConfirmed(c) \/ Ack(c)
               \/ RejectInvalid(c) \/ FanoutFails(c)
               \/ CopyUnconfirmed(c) \/ ConsumerDies(c)
      <4>1. phase \in [Consumers -> {"idle", "holding", "batch", "finished", "retrying", "copied"}]
        BY DEF TypeInv, TypeOK
      <4>2. phase'[c] # "finished"
        BY <3>3, <4>1 DEF Receive, ReadBatch, Stage, CopyConfirmed, Ack, RejectInvalid,
                          FanoutFails, FailFanout, CopyUnconfirmed, ConsumerDies, Release
      <4>3. QED BY <4>2
    <3>4. QED BY <1>3, <3>1, <3>2, <3>3 DEF ConsumerStep
  <2>4. QED BY <2>2, <2>3 DEF FinishedDone
<1>4. QED BY <1>2, <1>3

\* Only a confirmed publish commits as published, and the confirm put a copy in the queue.
LEMMA ConfirmedKept ==
    ASSUME TypeInv, LockHeld, FinishedDone, ConfirmedSafe, [Next]_vars
    PROVE  ConfirmedSafe'
<1> DEFINE Confirmed(e) == \/ outbox[e] = "published"
                           \/ \E p \in Publishers : locked[p] = e /\ sending[p] = "confirmed"
<1>1. SUFFICES ASSUME NEW e \in Events, Confirmed(e)' PROVE Safe(e)'
  BY DEF ConfirmedSafe
<1>2. CASE Confirmed(e) BY <1>2, SafeKept DEF ConfirmedSafe
<1>3. CASE ~Confirmed(e)
  <2>1. CASE \E p \in Publishers : PublishConfirmed(p)
    <3>1. PICK p \in Publishers : PublishConfirmed(p) BY <2>1
    <3>2. locked[p] = e
      BY <1>1, <1>3, <3>1 DEF PublishConfirmed, TypeInv, TypeOK, outboxVars
    <3>3. FirstCopy(e) \in Messages /\ FirstCopy(e).event = e BY DEF FirstCopy, Messages
    <3>4. ready' = Bump(ready, FirstCopy(e)) /\ ready \in [Messages -> Nat]
      BY <3>1, <3>2 DEF PublishConfirmed, TypeInv, TypeOK
    <3>5. ready'[FirstCopy(e)] > 0 BY <3>3, <3>4, QueueCounts
    <3>6. QED BY <3>3, <3>5 DEF Safe, Live
  <2>2. CASE \E p \in Publishers : CommitPublish(p) \/ PublishFails(p) \/ PublisherDies(p)
    <3>1. ~Confirmed(e)'
      BY <1>3, <2>2 DEF CommitPublish, PublishFails, PublisherDies, Unlock, TypeInv, TypeOK,
                        outboxVars
    <3>2. QED BY <1>1, <3>1
  <2>3. CASE \E p \in Publishers, d \in Events : SelectRow(p, d)
    <3>1. ~Confirmed(e)' BY <1>3, <2>3 DEF SelectRow, TypeInv, TypeOK, outboxVars
    <3>2. QED BY <1>1, <3>1
  <2>4. CASE \E d \in Events, announce \in BOOLEAN : Decide(d, announce)
    <3>1. ~Confirmed(e)' BY <1>3, <2>4 DEF Decide, TypeInv, TypeOK, publisherVars
    <3>2. QED BY <1>1, <3>1
  <2>5. CASE \/ \E c \in Consumers : ConsumerStep(c)
             \/ \E m \in Messages : RetryExpires(m)
             \/ Environment \/ UNCHANGED vars
    <3>1. UNCHANGED <<outbox, locked, sending>>
      BY <2>5 DEF ConsumerStep, Receive, ReadBatch, Stage, AlreadyComplete, CommitBatch,
                  WriteBatch, CopyConfirmed, Ack, RejectInvalid, FanoutFails, FailFanout, CopyUnconfirmed,
                  ConsumerDies, RetryExpires, Environment, Subscribe, Unsubscribe, ToggleBell,
                  ToggleVideo, ToggleWanting, Churn, vars, outboxVars, publisherVars
    <3>2. QED BY <1>1, <1>3, <3>1
  <2>6. QED BY <2>1, <2>2, <2>3, <2>4, <2>5
        DEF Next, Publish, Consume, Fault, ConsumerStep
<1>4. QED BY <1>2, <1>3

EventInv == TypeInv /\ LockHeld /\ StagedRowsAreNew /\ FinishedDone /\ ConfirmedSafe

LEMMA EventInvariant == Spec => []EventInv
<1>1. Init => EventInv
  BY InitTypes DEF Init, EventInv, LockHeld, StagedRowsAreNew, FinishedDone, ConfirmedSafe
<1>2. EventInv /\ [Next]_vars => EventInv'
  BY NextTypes, LockKept, FinishedKept, ConfirmedKept DEF EventInv
<1>3. QED BY <1>1, <1>2, PTL DEF Spec

\* An outbox row marked published is never lost: its fan-out is complete, or a copy of its
\* message is queued, being handled, waiting for a retry or dead-lettered.
THEOREM NoEventLost == Spec => []NoLostEvent
<1>1. EventInv => NoLostEvent BY DEF EventInv, ConfirmedSafe, NoLostEvent
<1>2. QED BY <1>1, EventInvariant, PTL

-----------------------------------------------------------------------------
(* Nobody is skipped and nobody else is told: what a page contains          *)

\* A nonempty finite set of naturals has a least element: of the initial segments of the
\* set, take one that has no strict subset among them.
LEMMA FiniteMinimum ==
    ASSUME NEW T \in SUBSET Nat, IsFiniteSet(T), T # {}
    PROVE  \E x \in T : \A y \in T : x <= y
<1> DEFINE Below(x) == {y \in T : y < x}
           Segments == {Below(x) : x \in T}
           R == StrictSubsetOrdering(T)
<1>1. IsWellFoundedOn(R, FiniteSubsetsOf(T))
  BY FS_StrictSubsetOrderingWellFounded
<1>2. Segments \subseteq FiniteSubsetsOf(T) /\ Segments # {}
  <2>1. \A U \in SUBSET T : IsFiniteSet(U) BY FS_Subset
  <2>2. \A x \in T : Below(x) \in SUBSET T OBVIOUS
  <2>3. QED BY <2>1, <2>2, Zenon DEF FiniteSubsetsOf
<1>3. PICK U \in Segments : \A V \in Segments : ~ (<<V, U>> \in R)
  <2> HIDE DEF R, Segments
  <2> QED BY ONLY <1>1, <1>2, WFMin
<1>4. PICK x \in T : U = Below(x) OBVIOUS
<1>5. ASSUME NEW y \in T, y < x PROVE FALSE
  <2>1. x \in Nat /\ y \in Nat /\ \A z \in T : z \in Nat OBVIOUS
  <2>2. Below(y) \subseteq Below(x)
    <3>1. \A z \in T : z < y => z < x BY <1>5, <2>1
    <3>2. QED BY <3>1, Zenon
  <2>3. y \in Below(x) BY <1>5
  <2>4. y \notin Below(y) BY <2>1
  <2>5. <<Below(y), U>> \in R BY <2>2, <2>3, <2>4, <1>4 DEF StrictSubsetOrdering
  <2>6. QED BY <2>5, <1>3
<1>6. QED BY <1>5

\* The first n elements of a set: with an element they contain every smaller one, and
\* if there are fewer than n they are all.
LEMMA FirstPage ==
    ASSUME NEW T \in SUBSET Nat, IsFiniteSet(T), NEW n \in Nat
    PROVE  /\ FirstBy(n, T) \subseteq T
           /\ \A s \in T, t \in FirstBy(n, T) : s <= t => s \in FirstBy(n, T)
           /\ Cardinality(FirstBy(n, T)) < n => FirstBy(n, T) = T
<1> DEFINE Below(x) == {y \in T : y < x}
           P == {x \in T : Cardinality(Below(x)) < n}
<1>1. FirstBy(n, T) = P BY DEF FirstBy
<1>2. P \subseteq T OBVIOUS
<1>3. \A x \in T : IsFiniteSet(Below(x)) /\ Cardinality(Below(x)) \in Nat
  BY FS_Subset, FS_CardinalityType
<1>4. ASSUME NEW s \in T, NEW t \in P, s <= t PROVE s \in P
  <2>1. Below(s) \subseteq Below(t)
    <3>1. \A y \in T : y < s => y < t BY <1>4
    <3>2. QED BY <3>1, Zenon
  <2>2. t \in T /\ Cardinality(Below(t)) < n OBVIOUS
  <2>3. Cardinality(Below(s)) <= Cardinality(Below(t)) BY <1>3, <2>1, <2>2, FS_Subset
  <2>4. QED BY <1>3, <2>2, <2>3
<1>5. ASSUME Cardinality(P) < n PROVE P = T
  <2>1. SUFFICES ASSUME T \ P # {} PROVE FALSE BY <1>2
  <2>2. IsFiniteSet(T \ P) /\ T \ P \in SUBSET Nat BY FS_Subset
  <2>3. PICK x \in T \ P : \A y \in T \ P : x <= y
    <3> HIDE DEF P
    <3> QED BY <2>1, <2>2, FiniteMinimum
  <2>4. Below(x) \subseteq P
    <3>1. x \in Nat /\ \A y \in T : y \in Nat OBVIOUS
    <3>2. \A y \in T : y < x => ~(x <= y) BY <3>1
    <3>3. \A y \in T : y < x => y \in P BY <2>3, <3>2
    <3>4. QED BY <3>3, Zenon
  <2>5. IsFiniteSet(P) /\ Cardinality(P) \in Nat BY <1>2, FS_Subset, FS_CardinalityType
  <2>6. Cardinality(Below(x)) <= Cardinality(P) BY <2>4, <2>5, FS_Subset
  <2>7. ~(Cardinality(Below(x)) < n) BY <2>3
  <2>8. QED BY <1>3, <1>5, <2>3, <2>5, <2>6, <2>7
<1>6. QED BY <1>1, <1>2, <1>4, <1>5

-----------------------------------------------------------------------------
(* Copies: whose they are, and how many failures they have cost             *)

Explained(m) ==
    /\ outbox[m.event] # "none" /\ failures[m.event] >= m.retries
    /\ Readable(m) \/ m.retries = 0

Parked(m) == Explained(m) /\ (Readable(m) => failures[m.event] > MaxConsumerRetries)

CopiesExplained ==
    /\ \A m \in Messages : ready[m] > 0 \/ retry[m] > 0 => Explained(m)
    /\ \A m \in Messages : dead[m] > 0 => Parked(m)
    /\ \A c \in Consumers : phase[c] # "idle" => Explained(held[c])
    /\ \A c \in Consumers : phase[c] = "retrying" =>
           failures[held[c].event] > held[c].retries /\ Readable(held[c])
    /\ \A p \in Publishers : sending[p] # "idle" => outbox[locked[p]] # "none"

\* A decision is never taken back, its payload stays what it is and failures are never
\* forgotten.
LEMMA HistoryGrows ==
    ASSUME TypeInv, [Next]_vars, NEW e \in Events
    PROVE  /\ outbox[e] # "none" => outbox'[e] # "none" /\ (e \in garbled' <=> e \in garbled)
           /\ failures'[e] >= failures[e]
           /\ failures[e] \in Nat /\ failures'[e] \in Nat
<1> USE DEF TypeInv, TypeOK, outboxVars, historyVars
<1>1. ASSUME NEW d \in Events, NEW announce \in BOOLEAN, Decide(d, announce)
      PROVE  /\ failures' = failures
             /\ outbox[e] # "none" => outbox'[e] # "none" /\ (e \in garbled' <=> e \in garbled)
  BY <1>1 DEF Decide
<1>2. ASSUME NEW p \in Publishers, CommitPublish(p)
      PROVE  /\ failures' = failures /\ garbled' = garbled
             /\ outbox[e] # "none" => outbox'[e] # "none"
  BY <1>2 DEF CommitPublish
<1>3. ASSUME NEW c \in Consumers, FanoutFails(c)
      PROVE  /\ outbox' = outbox /\ garbled' = garbled
             /\ failures'[e] >= failures[e] /\ failures'[e] \in Nat
  BY <1>3 DEF FanoutFails, FailFanout
<1>4. CASE ~ \/ \E d \in Events, announce \in BOOLEAN : Decide(d, announce)
             \/ \E p \in Publishers : CommitPublish(p)
             \/ \E c \in Consumers : FanoutFails(c)
  <2>1. UNCHANGED <<outbox, garbled, failures>>
    BY <1>4 DEF Next, Publish, Consume, Fault, Receive, ReadBatch, Stage, AlreadyComplete,
                CommitBatch, WriteBatch, CopyConfirmed, Ack, RejectInvalid, CopyUnconfirmed,
                ConsumerDies, RetryExpires, SelectRow, PublishConfirmed, PublishFails, PublisherDies,
                Environment, Subscribe, Unsubscribe, ToggleBell, ToggleVideo,
                ToggleWanting, Churn, vars
  <2>2. QED BY <2>1
<1>5. QED BY <1>1, <1>2, <1>3, <1>4

LEMMA StaysExplained ==
    ASSUME TypeInv, [Next]_vars, NEW m \in Messages, Explained(m)
    PROVE  Explained(m)'
<1>1. m.event \in Events /\ m.retries \in Nat BY DEF Messages
<1>2. QED BY <1>1, HistoryGrows DEF Explained, Readable

LEMMA StaysParked ==
    ASSUME TypeInv, [Next]_vars, NEW m \in Messages, Parked(m)
    PROVE  Parked(m)'
<1>1. m.event \in Events BY DEF Messages
<1>2. Explained(m)' BY StaysExplained DEF Parked
<1>3. QED BY <1>1, <1>2, HistoryGrows DEF Parked, Explained, Readable

\* A queue has a copy after Bump only if it had one before or was given one.
LEMMA NewCopies ==
    ASSUME NEW q \in [Messages -> Nat], NEW m \in Messages, NEW n \in Messages
    PROVE  /\ Bump(q, m)[n] > 0 => q[n] > 0 \/ n = m
           /\ q[m] > 0 /\ Drop(q, m)[n] > 0 => q[n] > 0
BY DEF Bump, Drop

\* A message that is about to be copied to the retry queue stays one that can be read.
LEMMA RetryingStays ==
    ASSUME TypeInv, CopiesExplained, [Next]_vars, NEW c \in Consumers,
           phase[c] = "retrying", held'[c] = held[c]
    PROVE  failures'[held'[c].event] > held'[c].retries /\ Readable(held[c])'
<1>1. held[c] \in Messages /\ held[c].event \in Events /\ held[c].retries \in Nat
  BY DEF TypeInv, HandlersHold, Messages
<1>2. outbox[held[c].event] # "none" /\ failures[held[c].event] > held[c].retries
      /\ Readable(held[c])
  BY DEF CopiesExplained, Explained
<1>3. QED BY <1>1, <1>2, HistoryGrows DEF Readable

LEMMA PublishersExplained ==
    ASSUME TypeInv, CopiesExplained, [Next]_vars, NEW p \in Publishers,
           Publish(p) \/ PublishFails(p) \/ PublisherDies(p)
    PROVE  CopiesExplained'
<1> USE DEF publisherVars, consumerVars, brokerVars
<1>1. UNCHANGED <<retry, dead, phase, held, failures>>
  BY DEF Publish, SelectRow, PublishConfirmed, CommitPublish, PublishFails, PublisherDies,
         historyVars
<1>2. \A m \in Messages : ready'[m] > 0 => Explained(m)'
  <2>0. /\ failures \in [Events -> Nat]
        /\ sending[p] # "idle" => locked[p] \in Events /\ outbox[locked[p]] # "none"
    BY DEF TypeInv, TypeOK, PublishersHold, CopiesExplained
  <2>1. sending[p] # "idle" => FirstCopy(locked[p]) \in Messages /\ Explained(FirstCopy(locked[p]))
    BY <2>0 DEF FirstCopy, Messages, Explained, Readable
  <2>2. \/ ready' = ready
        \/ sending[p] = "selected" /\ ready' = Bump(ready, FirstCopy(locked[p]))
    BY DEF Publish, SelectRow, PublishConfirmed, CommitPublish, PublishFails, PublisherDies
  <2>3. ready \in [Messages -> Nat] BY DEF TypeInv, TypeOK
  <2>4. \A m \in Messages : ready'[m] > 0 => Explained(m)
    BY <2>1, <2>2, <2>3, NewCopies DEF CopiesExplained
  <2>5. QED BY <2>4, StaysExplained
<1>3. \A q \in Publishers : sending'[q] # "idle" => outbox'[locked'[q]] # "none"
  <2>1. \A q \in Publishers : sending'[q] # "idle" =>
          locked'[q] \in Events /\ outbox[locked'[q]] # "none"
    BY DEF Publish, SelectRow, PublishConfirmed, CommitPublish, PublishFails, PublisherDies,
           Unlock, TypeInv, TypeOK, PublishersHold, CopiesExplained
  <2>2. QED BY <2>1, HistoryGrows
<1>4. \A c \in Consumers : phase'[c] # "idle" => Explained(held[c])'
  BY <1>1, StaysExplained DEF CopiesExplained, TypeInv, HandlersHold
<1>6. \A c \in Consumers : phase'[c] = "retrying" =>
          /\ failures'[held'[c].event] > held'[c].retries
          /\ Readable(held[c])'
  BY <1>1, <1>4, RetryingStays
<1>5. QED BY <1>1, <1>2, <1>3, <1>4, <1>6, StaysExplained, StaysParked DEF CopiesExplained

\* What a consumer's step puts into the queues, holds, or parks.
LEMMA ConsumersExplained ==
    ASSUME TypeInv, CopiesExplained, [Next]_vars, NEW c \in Consumers, ConsumerStep(c)
    PROVE  CopiesExplained'
<1> USE DEF outboxVars, publisherVars, brokerVars, historyVars
<1>0. /\ ready \in [Messages -> Nat] /\ retry \in [Messages -> Nat]
      /\ dead \in [Messages -> Nat]
      /\ phase \in [Consumers -> {"idle", "holding", "batch", "finished", "retrying", "copied"}]
      /\ held \in [Consumers -> Messages \cup {NoMessage}]
      /\ \A d \in Consumers : phase[d] # "idle" => held[d] \in Messages
      /\ failures \in [Events -> Nat] /\ MaxConsumerRetries \in Nat
      /\ \A m \in Messages : m.event \in Events /\ m.retries \in 0..MaxConsumerRetries
  <2>1. \A m \in Messages : m.event \in Events /\ m.retries \in 0..MaxConsumerRetries
    BY DEF Messages
  <2>2. QED BY <2>1 DEF TypeInv, TypeOK, HandlersHold
<1>1. \A d \in Consumers \ {c} : phase'[d] = phase[d] /\ held'[d] = held[d]
  BY OneConsumerMoves
<1>2. UNCHANGED <<outbox, garbled, sending, locked>>
  BY DEF ConsumerStep, Receive, ReadBatch, Stage, AlreadyComplete, CommitBatch, WriteBatch,
         CopyConfirmed, Ack, RejectInvalid, FanoutFails, FailFanout, CopyUnconfirmed, ConsumerDies
<1>3. phase[c] # "idle" => Explained(held[c]) BY DEF CopiesExplained
<1>4. phase[c] = "retrying" =>
        RetryCopy(held[c]) \in Messages /\ Explained(RetryCopy(held[c]))
  BY <1>0, <1>3 DEF CopiesExplained, Explained, Readable, RetryCopy, TypeInv, HandlersHold,
                    Messages
<1>5. \A m \in Messages : ready'[m] > 0 \/ retry'[m] > 0 => Explained(m)
  <2>1. \A m \in Messages : ready[m] > 0 \/ retry[m] > 0 => Explained(m)
    BY DEF CopiesExplained
  <2>2. ASSUME NEW n \in Messages, Receive(c, n)
        PROVE  ready[n] > 0 /\ ready' = Drop(ready, n) /\ retry' = retry
    BY <2>2 DEF Receive
  <2>3. CASE \/ ReadBatch(c) \/ AlreadyComplete(c) \/ CommitBatch(c) \/ Ack(c)
             \/ RejectInvalid(c) \/ FanoutFails(c)
    <3>1. ready' = ready /\ retry' = retry
      BY <2>3 DEF ReadBatch, Stage, AlreadyComplete, CommitBatch, WriteBatch, Ack,
                  RejectInvalid, FanoutFails, FailFanout
    <3>2. QED BY <2>1, <3>1
  <2>4. CASE CopyConfirmed(c)
    <3>1. phase[c] = "retrying" /\ ready' = ready /\ retry' = Bump(retry, RetryCopy(held[c]))
      BY <2>4 DEF CopyConfirmed
    <3>2. QED BY <1>0, <1>4, <2>1, <3>1, NewCopies
  <2>5. CASE CopyUnconfirmed(c) \/ ConsumerDies(c)
    <3>1. /\ phase[c] # "idle" /\ ready' = Bump(ready, held[c])
          /\ \/ retry' = retry
             \/ phase[c] = "retrying" /\ retry' = Bump(retry, RetryCopy(held[c]))
      BY <2>5 DEF CopyUnconfirmed, ConsumerDies
    <3>2. QED BY <1>0, <1>3, <1>4, <2>1, <3>1, NewCopies
  <2>6. QED BY <1>0, <2>1, <2>2, <2>3, <2>4, <2>5, NewCopies DEF ConsumerStep
<1>6. \A m \in Messages : dead'[m] > 0 => Parked(m)'
  <2>0. /\ phase[c] # "idle" => held[c] \in Messages /\ held[c].event \in Events
        /\ held[c] \in Messages => held[c].retries \in Nat
    BY <1>0, <1>3
  <2>1. CASE FanoutFails(c) /\ held[c].retries >= MaxConsumerRetries
    <3>1. phase[c] # "idle" /\ dead' = Bump(dead, held[c])
      BY <2>1 DEF FanoutFails, FailFanout
    <3>2. failures'[held[c].event] = failures[held[c].event] + 1
      BY <1>0, <2>1 DEF FanoutFails, FailFanout
    <3>3. failures'[held[c].event] > MaxConsumerRetries
      BY <1>0, <1>3, <2>1, <3>1, <3>2 DEF Explained
    <3>4. \A m \in Messages : dead'[m] > 0 => dead[m] > 0 \/ m = held[c]
      BY <1>0, <3>1, NewCopies
    <3>5. \A m \in Messages : m = held[c] => Explained(m)'
      BY <1>3, <2>0, <3>1, StaysExplained
    <3>6. \A m \in Messages : m = held[c] => Parked(m)'
      BY <3>3, <3>5 DEF Parked
    <3>7. QED BY <3>4, <3>6, StaysParked DEF CopiesExplained
  <2>2. CASE RejectInvalid(c)
    <3>1. phase[c] # "idle" /\ dead' = Bump(dead, held[c]) /\ ~Readable(held[c])
      BY <2>2 DEF RejectInvalid
    <3>2. \A m \in Messages : dead'[m] > 0 => dead[m] > 0 \/ m = held[c]
      BY <1>0, <3>1, NewCopies
    <3>3. \A m \in Messages : m = held[c] => Parked(m)
      BY <1>3, <3>1 DEF Parked
    <3>4. QED BY <3>2, <3>3, StaysParked DEF CopiesExplained
  <2>3. CASE ~(FanoutFails(c) /\ held[c].retries >= MaxConsumerRetries) /\ ~RejectInvalid(c)
    <3>1. dead' = dead
      BY <2>3 DEF ConsumerStep, Receive, ReadBatch, Stage, AlreadyComplete, CommitBatch,
                  WriteBatch, CopyConfirmed, Ack, FanoutFails, FailFanout, CopyUnconfirmed,
                  ConsumerDies
    <3>2. QED BY <3>1, StaysParked DEF CopiesExplained
  <2>4. QED BY <2>1, <2>2, <2>3
<1>7. phase'[c] # "idle" => held'[c] \in Messages /\ Explained(held'[c])
  <2>1. ASSUME NEW n \in Messages, Receive(c, n) PROVE held'[c] = n /\ Explained(n)
    BY <1>0, <2>1 DEF Receive, CopiesExplained
  <2>2. CASE \/ ReadBatch(c) \/ AlreadyComplete(c) \/ CommitBatch(c) \/ CopyConfirmed(c)
             \/ FanoutFails(c) /\ ~(held[c].retries >= MaxConsumerRetries)
    <3>1. held' = held /\ phase[c] # "idle"
      BY <2>2 DEF ReadBatch, Stage, AlreadyComplete, CommitBatch, WriteBatch, CopyConfirmed,
                  FanoutFails, FailFanout
    <3>2. QED BY <1>0, <1>3, <3>1
  <2>3. CASE \/ Ack(c) \/ RejectInvalid(c) \/ CopyUnconfirmed(c) \/ ConsumerDies(c)
             \/ FanoutFails(c) /\ held[c].retries >= MaxConsumerRetries
    <3>1. phase'[c] = "idle"
      BY <1>0, <2>3 DEF Ack, RejectInvalid, CopyUnconfirmed, ConsumerDies, FanoutFails, FailFanout, Release
    <3>2. QED BY <3>1
  <2>4. QED BY <2>1, <2>2, <2>3 DEF ConsumerStep
<1>8. phase'[c] = "retrying" =>
          failures'[held'[c].event] > held'[c].retries /\ Readable(held[c])'
  <2>1. CASE FanoutFails(c) /\ ~(held[c].retries >= MaxConsumerRetries)
    <3>1. /\ held' = held /\ phase[c] # "idle" /\ Readable(held[c])
          /\ failures'[held[c].event] = failures[held[c].event] + 1
      BY <1>0, <2>1 DEF FanoutFails, FailFanout
    <3>2. QED BY <1>0, <1>2, <1>3, <3>1 DEF Explained, Readable
  <2>2. CASE ~(FanoutFails(c) /\ ~(held[c].retries >= MaxConsumerRetries))
    <3>1. phase'[c] # "retrying"
      BY <1>0, <2>2 DEF ConsumerStep, Receive, ReadBatch, Stage, AlreadyComplete,
             CommitBatch, WriteBatch, CopyConfirmed, Ack, RejectInvalid, FanoutFails, FailFanout,
             CopyUnconfirmed, ConsumerDies, Release
    <3>2. QED BY <3>1
  <2>3. QED BY <2>1, <2>2
<1>9. \A d \in Consumers : phase'[d] # "idle" => Explained(held[d])'
  <2>1. \A d \in Consumers : phase'[d] # "idle" =>
          held'[d] \in Messages /\ Explained(held'[d])
    BY <1>0, <1>1, <1>7 DEF CopiesExplained
  <2>2. \A d \in Consumers : phase'[d] # "idle" =>
          /\ held'[d].retries \in Nat /\ outbox[held'[d].event] # "none"
          /\ failures[held'[d].event] >= held'[d].retries
          /\ held'[d].event \notin garbled \/ held'[d].retries = 0
    BY <1>0, <2>1 DEF Explained, Readable
  <2>3. QED BY <1>0, <1>2, <2>1, <2>2, HistoryGrows DEF Explained, Readable
<1>10. \A d \in Consumers : phase'[d] = "retrying" =>
         failures'[held'[d].event] > held'[d].retries /\ Readable(held[d])'
  BY <1>1, <1>8, RetryingStays
<1>11. QED
  BY <1>2, <1>5, <1>6, <1>9, <1>10, StaysExplained DEF CopiesExplained

LEMMA CopiesKept ==
    ASSUME TypeInv, CopiesExplained, [Next]_vars
    PROVE  CopiesExplained'
<1>1. ASSUME NEW n \in Messages, RetryExpires(n) PROVE CopiesExplained'
  <2>1. /\ ready' = Bump(ready, n) /\ retry' = Drop(retry, n) /\ retry[n] > 0
        /\ UNCHANGED <<dead, phase, held, outbox, garbled, sending, locked, failures>>
    BY <1>1 DEF RetryExpires, consumerVars, publisherVars, outboxVars, historyVars
  <2>2. ready \in [Messages -> Nat] /\ retry \in [Messages -> Nat] BY DEF TypeInv, TypeOK
  <2>3. \A m \in Messages : ready'[m] > 0 \/ retry'[m] > 0 => Explained(m)
    BY <2>1, <2>2, NewCopies DEF CopiesExplained
  <2>4. QED BY <2>1, <2>3 DEF CopiesExplained, Explained, Parked, Readable
<1>2. CASE \/ \E d \in Events, announce \in BOOLEAN : Decide(d, announce)
           \/ Environment \/ UNCHANGED vars
  <2>1. UNCHANGED <<ready, retry, dead, phase, held, sending, locked, failures>>
    BY <1>2 DEF Decide, Environment, Subscribe, Unsubscribe, ToggleBell, ToggleVideo,
                ToggleWanting, Churn, vars, brokerVars, consumerVars, publisherVars, historyVars
  <2>2. \A c \in Consumers : phase[c] # "idle" => held[c] \in Messages
    BY DEF TypeInv, HandlersHold
  <2>3. \A p \in Publishers : sending[p] # "idle" => locked[p] \in Events
    BY DEF TypeInv, PublishersHold
  <2>4. \A c \in Consumers : phase'[c] # "idle" => Explained(held[c])'
    BY <2>1, <2>2, StaysExplained DEF CopiesExplained
  <2>5. \A c \in Consumers : phase'[c] = "retrying" =>
          failures'[held'[c].event] > held'[c].retries /\ Readable(held[c])'
    BY <2>1, RetryingStays
  <2>6. \A p \in Publishers : sending'[p] # "idle" => outbox'[locked'[p]] # "none"
    BY <2>1, <2>3, HistoryGrows DEF CopiesExplained
  <2>7. QED BY <2>1, <2>4, <2>5, <2>6, StaysExplained, StaysParked DEF CopiesExplained
<1>3. QED BY <1>1, <1>2, PublishersExplained, ConsumersExplained
          DEF Next, Publish, Consume, Fault, ConsumerStep

\* A message that can be read is dead-lettered only after more fan-out failures of its event
\* than it has retries, which crashes and lost confirms do not use up; one that cannot be
\* read is dead-lettered without a retry.
THEOREM DeadLettersExplained == Spec => []DeadOnlyAfterRetries
<1>1. Init => TypeInv /\ CopiesExplained BY InitTypes DEF Init, CopiesExplained
<1>2. TypeInv /\ CopiesExplained /\ [Next]_vars => TypeInv' /\ CopiesExplained'
  BY NextTypes, CopiesKept
<1>3. CopiesExplained => DeadOnlyAfterRetries
  BY DEF CopiesExplained, DeadOnlyAfterRetries, Parked, Explained
<1>4. QED BY <1>1, <1>2, <1>3, PTL DEF Spec


-----------------------------------------------------------------------------
(* Nobody is skipped: what the cursor, the decision and an open batch mean  *)

\* Whom the cursor has passed, or the completion, has his row.
Passed(e, r) ==
    \/ inbox[e].done
    \/ r = Owner /\ inbox[e].owner
    \/ r # Owner /\ r <= inbox[e].cursor

Covered == \A e \in Events : \A r \in steady[e] : Passed(e, r) => r \in rows[e]

\* Who is entitled to a notice of an event under way is found by its next batch.
Qualifies(e, r) ==
    /\ r \in wanting
    /\ r # Owner => /\ r \in following \cap listening
                    /\ since[r] <= occurred[e]
                    /\ notify[e] /\ onAir[e]

StillQualify ==
    \A e \in Events : ~inbox[e].done => \A r \in steady[e] : Qualifies(e, r)

Dated ==
    /\ \A e \in Events : occurred[e] <= clock
    /\ \A s \in Subs : since[s] <= clock + 1

NotBegun(e) ==
    /\ inbox[e] = [owner |-> FALSE, cursor |-> 0, done |-> FALSE]
    /\ steady[e] = {}

Untouched == \A e \in Events : outbox[e] = "none" => NotBegun(e)

\* Nobody who subscribed after the decision is found by a batch.
AudienceFound ==
    \A e \in Events : outbox[e] # "none" /\ notify[e] =>
        \A s \in following : since[s] <= occurred[e] => s \in audience[e]

\* What an open batch has read is still right when it commits.
BatchFinds(c, e, r) ==
    /\ r = Owner => inbox[e].owner \/ r \in batch[c].new \cup rows[e]
    /\ r # Owner /\ r > inbox[e].cursor =>
           /\ r \in batch[c].page => r \in batch[c].new \cup rows[e]
           /\ Cardinality(batch[c].page) < BatchSize => r \in batch[c].page
           /\ \A t \in batch[c].page : r <= t => r \in batch[c].page

BatchStandsAt(c, e) ==
    /\ batch[c].new \subseteq audience[e] \cup {Owner}
    /\ \A r \in steady[e] : BatchFinds(c, e, r)

BatchStands ==
    \A c \in Consumers, e \in Events :
        phase[c] = "batch" /\ held[c].event = e => BatchStandsAt(c, e)

NoticeInv ==
    /\ EventInv /\ CopiesExplained
    /\ Covered /\ StillQualify /\ Dated /\ Untouched /\ AudienceFound /\ BatchStands

decisionVars == <<outbox, notify, occurred, clock, onAir, audience, subVars, wanting, steady>>

\* Only decisions and the rest of the platform change what a decision is about and who
\* is entitled to its notices.
LEMMA PipelineLeavesWorld ==
    ASSUME NEW c \in Consumers, ConsumerStep(c)
    PROVE  UNCHANGED decisionVars
BY DEF decisionVars, ConsumerStep, Receive, ReadBatch, Stage, AlreadyComplete, CommitBatch,
       WriteBatch, CopyConfirmed, Ack, RejectInvalid, FanoutFails, FailFanout, CopyUnconfirmed,
       ConsumerDies, outboxVars, worldVars, historyVars

LEMMA StagedFound ==
    ASSUME NoticeInv, NEW c \in Consumers, ReadBatch(c), NEW e, e = held[c].event
    PROVE  BatchStandsAt(c, e)'
<1> DEFINE T == Eligible(e)
           page == FirstBy(BatchSize, T)
           to == page \cup (IF inbox[e].owner THEN {} ELSE {Owner})
<1>1. /\ phase[c] = "holding" /\ ~inbox[e].done /\ held[c] \in Messages
      /\ e \in Events /\ outbox[e] # "none"
  BY DEF ReadBatch, NoticeInv, EventInv, TypeInv, HandlersHold, Messages, CopiesExplained,
         Explained
<1>2. /\ batch'[c].page = page /\ batch'[c].new = (to \cap wanting) \ rows[e]
      /\ UNCHANGED <<inbox, rows, steady>>
  BY DEF ReadBatch, Stage, NoticeInv, EventInv, TypeInv, TypeOK, fanoutVars, historyVars
<1>3. /\ following \in SUBSET Subs /\ rows[e] \in SUBSET Recipients
      /\ steady[e] \in SUBSET Recipients /\ inbox[e].cursor \in Nat
  BY <1>1 DEF NoticeInv, EventInv, TypeInv, TypeOK
<1>4. T \in SUBSET Nat /\ IsFiniteSet(T) /\ T \subseteq Subs
  <2>1. T \subseteq Subs BY <1>3 DEF Eligible
  <2>2. IsFiniteSet(T) BY <2>1, FS_Subset
  <2>3. QED BY <2>1, <2>2
<1>5. /\ page \subseteq T
      /\ \A s \in T, t \in page : s <= t => s \in page
      /\ Cardinality(page) < BatchSize => page = T
  <2> HIDE DEF T
  <2> QED BY <1>4, FirstPage
<1>6. T \subseteq audience[e]
  <2>1. \A s \in T : notify[e] /\ s \in following /\ since[s] <= occurred[e] BY DEF Eligible
  <2>2. QED BY <1>1, <2>1 DEF NoticeInv, AudienceFound
<1>7. batch'[c].new \subseteq audience[e] \cup {Owner} BY <1>2, <1>5, <1>6
<1>8. ASSUME NEW r \in steady[e] PROVE BatchFinds(c, e, r)'
  <2>1. Qualifies(e, r) BY <1>1 DEF NoticeInv, StillQualify
  <2>2. r # Owner /\ r > inbox[e].cursor => r \in T BY <2>1 DEF Qualifies, Eligible
  <2>3. r \in wanting BY <2>1 DEF Qualifies
  <2>4. r \in to => r \in batch'[c].new \cup rows[e] BY <1>2, <2>3
  <2>5. r = Owner => inbox[e].owner \/ r \in batch'[c].new \cup rows[e] BY <2>4
  <2>6. r # Owner /\ r > inbox[e].cursor =>
           /\ r \in page => r \in batch'[c].new \cup rows[e]
           /\ Cardinality(page) < BatchSize => r \in page
           /\ \A t \in page : r <= t => r \in page
    <3> HIDE DEF page, T
    <3> QED BY <1>5, <2>2, <2>4
  <2>7. inbox' = inbox /\ rows' = rows BY <1>2
  <2> HIDE DEF page, T, to
  <2>8. QED BY <1>2, <2>5, <2>6, <2>7 DEF BatchFinds
<1>9. audience' = audience BY DEF ReadBatch, Stage, historyVars
<1>10. QED BY <1>2, <1>7, <1>8, <1>9 DEF BatchStandsAt

\* A committed batch: everybody up to its new cursor, or everybody, has his row.
LEMMA CommitCovers ==
    ASSUME NoticeInv, NEW c \in Consumers, CommitBatch(c), NEW e, e = held[c].event,
           NEW r \in steady[e], Passed(e, r)'
    PROVE  r \in rows'[e]
<1> DEFINE page == batch[c].page
<1>1. /\ phase[c] = "batch" /\ e \in Events
      /\ rows'[e] = rows[e] \cup batch[c].new
      /\ inbox'[e].owner
      /\ inbox'[e].done <=> Cardinality(page) < BatchSize
      /\ inbox'[e].cursor = IF page = {} THEN inbox[e].cursor ELSE Max(page)
  <2>1. held[c] \in Messages /\ phase[c] = "batch" /\ e \in Events
    BY CommitEffect DEF NoticeInv, EventInv
  <2>2. rows \in [Events -> SUBSET Recipients]
        /\ inbox \in [Events -> [owner : BOOLEAN, cursor : Nat, done : BOOLEAN]]
    BY DEF NoticeInv, EventInv, TypeInv, TypeOK
  <2>3. QED BY <2>1, <2>2 DEF CommitBatch, WriteBatch
<1>2. BatchFinds(c, e, r) BY <1>1 DEF NoticeInv, BatchStands, BatchStandsAt
<1>3. Passed(e, r) => r \in rows[e] BY <1>1 DEF NoticeInv, Covered
<1>4. page # {} => Max(page) \in page
  <2>1. page \in SUBSET Subs BY DEF NoticeInv, EventInv, TypeInv, TypeOK
  <2>2. IsFiniteSet(page) /\ page \in SUBSET Nat BY <2>1, FS_Subset
  <2>3. QED BY <2>2, FiniteMaximum
<1>5. r # Owner => r \in Nat /\ inbox[e].cursor \in Nat
  BY <1>1 DEF NoticeInv, EventInv, TypeInv, TypeOK, Recipients
<1>6. CASE r = Owner BY <1>1, <1>2, <1>3, <1>6 DEF BatchFinds, Passed
<1>7. CASE r # Owner /\ r <= inbox[e].cursor BY <1>1, <1>3, <1>7 DEF Passed
<1>8. CASE r # Owner /\ ~(r <= inbox[e].cursor)
  <2>1. r > inbox[e].cursor BY <1>5, <1>8
  <2>2. r \in page
    <3>1. inbox'[e].done => r \in page BY <1>1, <1>2, <1>8, <2>1 DEF BatchFinds
    <3>2. page # {} /\ r <= Max(page) => r \in page
      BY <1>2, <1>4, <1>8, <2>1 DEF BatchFinds
    <3>3. \/ inbox'[e].done
          \/ page # {} /\ r <= Max(page)
      BY <1>1, <1>8 DEF Passed
    <3>4. QED BY <3>1, <3>2, <3>3
  <2>3. QED BY <1>1, <1>2, <1>8, <2>1, <2>2 DEF BatchFinds
<1>9. QED BY <1>6, <1>7, <1>8

LEMMA ConsumersNotice ==
    ASSUME NoticeInv, [Next]_vars, NEW c \in Consumers, ConsumerStep(c)
    PROVE  Covered' /\ StillQualify' /\ Dated' /\ Untouched' /\ AudienceFound' /\ BatchStands'
<1>1. UNCHANGED decisionVars BY PipelineLeavesWorld
<1> USE DEF decisionVars, subVars
<1>2. \A d \in Consumers \ {c} :
        phase'[d] = phase[d] /\ held'[d] = held[d] /\ batch'[d] = batch[d]
  BY OneConsumerMoves DEF NoticeInv, EventInv
<1>3. Dated' /\ AudienceFound' BY <1>1 DEF NoticeInv, Dated, AudienceFound
<1>4. CASE CommitBatch(c)
  <2>0. PICK e \in Events : e = held[c].event
    BY <1>4, CommitEffect DEF NoticeInv, EventInv
  <2>1. /\ phase[c] = "batch" /\ held[c] \in Messages
        /\ phase'[c] # "batch" /\ ~inbox[e].done /\ outbox[e] # "none"
        /\ \A d \in Events \ {e} : inbox'[d] = inbox[d] /\ rows'[d] = rows[d]
        /\ \A d \in Consumers \ {c} : phase[d] = "batch" =>
               held[d].event # e /\ held[d].event \in Events
    BY <1>4, <2>0, CommitEffect
       DEF NoticeInv, EventInv, LockHeld, CopiesExplained, Explained, TypeInv, HandlersHold,
           Messages
  <2>2. \A r \in steady[e] : Passed(e, r)' => r \in rows'[e]
    BY <1>4, <2>0, CommitCovers
  <2>3. Covered' BY <1>1, <2>1, <2>2 DEF NoticeInv, Covered, Passed
  <2>4. StillQualify' BY <1>1, <2>1 DEF NoticeInv, StillQualify, Qualifies
  <2>5. Untouched' BY <1>1, <2>1 DEF NoticeInv, Untouched, NotBegun
  <2>6. BatchStands'
    <3>1. ASSUME NEW d \in Consumers, phase'[d] = "batch"
          PROVE  /\ phase[d] = "batch" /\ held'[d] = held[d] /\ batch'[d] = batch[d]
                 /\ inbox'[held[d].event] = inbox[held[d].event]
                 /\ rows'[held[d].event] = rows[held[d].event]
      BY <1>2, <2>1, <3>1
    <3>2. QED BY <1>1, <3>1 DEF NoticeInv, BatchStands, BatchStandsAt, BatchFinds
  <2>7. QED BY <1>3, <2>3, <2>4, <2>5, <2>6
<1>5. CASE ~CommitBatch(c)
  <2>1. inbox' = inbox /\ rows' = rows /\ (phase'[c] = "batch" => ReadBatch(c))
    BY <1>5, OnlyCommitsWrite DEF NoticeInv, EventInv, fanoutVars
  <2>2. Covered' BY <1>1, <2>1 DEF NoticeInv, Covered, Passed
  <2>3. StillQualify' BY <1>1, <2>1 DEF NoticeInv, StillQualify, Qualifies
  <2>4. Untouched' BY <1>1, <2>1 DEF NoticeInv, Untouched, NotBegun
  <2>5. ASSUME NEW d \in Consumers, d # c, phase'[d] = "batch",
               NEW e \in Events, held'[d].event = e
        PROVE  BatchStandsAt(d, e)'
    <3>1. BatchStandsAt(d, e) BY <1>2, <2>5 DEF NoticeInv, BatchStands
    <3>2. batch'[d] = batch[d] BY <1>2, <2>5
    <3>3. QED BY <1>1, <2>1, <3>1, <3>2 DEF BatchStandsAt, BatchFinds
  <2>6. ASSUME phase'[c] = "batch", NEW e \in Events, held'[c].event = e
        PROVE  BatchStandsAt(c, e)'
    <3>1. held' = held /\ ReadBatch(c) BY <2>1, <2>6 DEF ReadBatch, Stage
    <3>2. QED BY <2>6, <3>1, StagedFound
  <2>7. BatchStands' BY <2>5, <2>6 DEF BatchStands
  <2>8. QED BY <1>3, <2>2, <2>3, <2>4, <2>7
<1>6. QED BY <1>4, <1>5

\* A decision on an event nothing has been done for.
LEMMA DecideNotices ==
    ASSUME NoticeInv, NEW e \in Events, NEW announce \in BOOLEAN, Decide(e, announce)
    PROVE  Covered' /\ StillQualify' /\ Dated' /\ Untouched' /\ AudienceFound' /\ BatchStands'
<1>1. /\ UNCHANGED <<phase, held, batch, inbox, rows, following, listening, since, wanting>>
      /\ outbox[e] = "none" /\ clock' = clock + 1 /\ NotBegun(e)
  BY DEF Decide, consumerVars, fanoutVars, subVars, NoticeInv, Untouched
<1>2. /\ outbox'[e] # "none" /\ notify'[e] = announce /\ onAir'[e] = announce
      /\ occurred'[e] = clock + 1
      /\ audience'[e] = (IF announce THEN following ELSE {})
      /\ steady'[e] = wanting \cap ({Owner} \cup IF announce THEN following \cap listening ELSE {})
  BY DEF Decide, NoticeInv, EventInv, TypeInv, TypeOK
<1>3. \A d \in Events \ {e} :
        /\ outbox'[d] = outbox[d] /\ notify'[d] = notify[d] /\ onAir'[d] = onAir[d]
        /\ occurred'[d] = occurred[d] /\ audience'[d] = audience[d] /\ steady'[d] = steady[d]
  BY DEF Decide, NoticeInv, EventInv, TypeInv, TypeOK
<1>4. /\ following \in SUBSET Subs /\ clock \in Nat
      /\ \A s \in Subs : s \in Nat /\ s > 0 /\ s # Owner /\ since[s] \in Nat
      /\ \A d \in Events : occurred[d] \in Nat
  BY DEF NoticeInv, EventInv, TypeInv, TypeOK
<1>5. Covered'
  <2>1. ASSUME NEW r \in steady'[e] PROVE ~Passed(e, r)'
    <3>1. r # Owner => r \in Nat /\ r > 0 BY <1>2, <1>4, <2>1
    <3>2. ~inbox'[e].done /\ ~inbox'[e].owner /\ inbox'[e].cursor = 0
      BY <1>1 DEF NotBegun
    <3>3. QED BY <3>1, <3>2 DEF Passed
  <2>2. QED BY <1>1, <1>3, <2>1 DEF NoticeInv, Covered, Passed
<1>6. Dated' BY <1>1, <1>2, <1>3, <1>4 DEF NoticeInv, Dated
<1>7. StillQualify'
  <2>1. \A r \in steady'[e] : Qualifies(e, r)'
    BY <1>1, <1>2, <1>4 DEF Qualifies, NoticeInv, Dated
  <2>2. QED BY <1>1, <1>3, <2>1 DEF NoticeInv, StillQualify, Qualifies
<1>8. Untouched' BY <1>1, <1>2, <1>3 DEF NoticeInv, Untouched, NotBegun
<1>9. AudienceFound' BY <1>1, <1>2, <1>3 DEF NoticeInv, AudienceFound
<1>10. BatchStands'
  <2>1. \A c \in Consumers : phase[c] = "batch" => held[c].event \in Events \ {e}
    BY <1>1 DEF NoticeInv, EventInv, TypeInv, HandlersHold, Messages, CopiesExplained, Explained
  <2>2. QED BY <1>1, <1>3, <2>1 DEF NoticeInv, BatchStands, BatchStandsAt, BatchFinds
<1>11. QED BY <1>5, <1>6, <1>7, <1>8, <1>9, <1>10

\* Whatever else changes takes away the entitlement of those it concerns.
LEMMA EnvironmentNotices ==
    ASSUME NoticeInv, Environment
    PROVE  Covered' /\ StillQualify' /\ Dated' /\ Untouched' /\ AudienceFound' /\ BatchStands'
<1>1. UNCHANGED <<outbox, notify, occurred, clock, phase, held, batch, inbox, rows, audience>>
  BY DEF Environment, Subscribe, Unsubscribe, ToggleBell, ToggleVideo, ToggleWanting, Churn,
         outboxVars, consumerVars, fanoutVars
<1>2. \A e \in Events : steady'[e] \subseteq steady[e]
  <2>1. steady \in [Events -> SUBSET Recipients] BY DEF NoticeInv, EventInv, TypeInv, TypeOK
  <2>2. \A R : Unsteady(R) => \A e \in Events : steady'[e] \subseteq steady[e]
    BY DEF Unsteady
  <2>3. \A d \in Events : ToggleVideo(d) => \A e \in Events : steady'[e] \subseteq steady[e]
    BY <2>1 DEF ToggleVideo
  <2>4. (\E R : Unsteady(R)) \/ \E d \in Events : ToggleVideo(d)
    BY DEF Environment, Subscribe, Unsubscribe, ToggleBell, ToggleWanting
  <2>5. QED BY <2>2, <2>3, <2>4
<1>3. Covered' BY <1>1, <1>2 DEF NoticeInv, Covered, Passed
<1>4. Untouched' BY <1>1, <1>2 DEF NoticeInv, Untouched, NotBegun
<1>5. BatchStands'
  <2>1. \A c \in Consumers : phase[c] = "batch" => held[c].event \in Events
    BY DEF NoticeInv, EventInv, TypeInv, HandlersHold, Messages
  <2>2. QED BY <1>1, <1>2, <2>1 DEF NoticeInv, BatchStands, BatchStandsAt, BatchFinds
<1>6. /\ clock \in Nat /\ since \in [Subs -> Nat] /\ occurred \in [Events -> Nat]
      /\ following \in SUBSET Subs /\ onAir \in [Events -> BOOLEAN]
      /\ steady \in [Events -> SUBSET Recipients]
  BY DEF NoticeInv, EventInv, TypeInv, TypeOK
<1>7. ASSUME NEW s \in Subs, Subscribe(s) PROVE Dated' /\ StillQualify' /\ AudienceFound'
  <2>1. /\ following' = following \cup {s} /\ listening' = listening \cup {s}
        /\ since' = [since EXCEPT ![s] = clock + 1] /\ UNCHANGED <<onAir, wanting>>
        /\ \A e \in Events : ~inbox[e].done => steady'[e] = steady[e] \ {s}
    BY <1>7 DEF Subscribe, Unsteady
  <2>2. Dated' BY <1>1, <1>6, <2>1 DEF NoticeInv, Dated
  <2>3. StillQualify'
    <3>1. ASSUME NEW e \in Events, ~inbox[e].done, NEW r \in steady'[e]
          PROVE  Qualifies(e, r)'
      <4>1. r \in steady[e] /\ r # s /\ Qualifies(e, r)
        BY <2>1, <3>1 DEF NoticeInv, StillQualify
      <4>2. r # Owner => since'[r] = since[r] BY <1>6, <2>1, <4>1 DEF Qualifies
      <4>3. QED BY <1>1, <2>1, <4>1, <4>2 DEF Qualifies
    <3>2. QED BY <1>1, <3>1 DEF StillQualify
  <2>4. AudienceFound'
    <3>1. \A e \in Events : ~(since'[s] <= occurred[e])
      BY <1>6, <2>1 DEF NoticeInv, Dated
    <3>2. \A x \in following' : x # s => x \in following /\ since'[x] = since[x]
      BY <1>6, <2>1
    <3>3. QED BY <1>1, <3>1, <3>2 DEF NoticeInv, AudienceFound
  <2>5. QED BY <2>2, <2>3, <2>4
<1>8. ASSUME NEW s \in Subs, Unsubscribe(s) \/ ToggleBell(s)
      PROVE  Dated' /\ StillQualify' /\ AudienceFound'
  <2>1. /\ following' \subseteq following
        /\ \A x \in following \cap listening : x # s => x \in following' \cap listening'
        /\ UNCHANGED <<since, onAir, wanting>>
        /\ \A e \in Events : ~inbox[e].done => steady'[e] = steady[e] \ {s}
    BY <1>8 DEF Unsubscribe, ToggleBell, Unsteady
  <2>2. Dated' BY <1>1, <2>1 DEF NoticeInv, Dated
  <2>3. StillQualify' BY <1>1, <2>1 DEF NoticeInv, StillQualify, Qualifies
  <2>4. AudienceFound' BY <1>1, <2>1 DEF NoticeInv, AudienceFound
  <2>5. QED BY <2>2, <2>3, <2>4
<1>9. ASSUME NEW d \in Events, ToggleVideo(d) PROVE Dated' /\ StillQualify' /\ AudienceFound'
  <2>1. /\ UNCHANGED <<following, listening, since, wanting>>
        /\ \A e \in Events \ {d} : onAir'[e] = onAir[e]
        /\ ~inbox[d].done => steady'[d] \subseteq {Owner}
    BY <1>6, <1>9 DEF ToggleVideo, subVars
  <2>2. Dated' /\ AudienceFound' BY <1>1, <2>1 DEF NoticeInv, Dated, AudienceFound
  <2>3. StillQualify' BY <1>1, <1>2, <2>1 DEF NoticeInv, StillQualify, Qualifies
  <2>4. QED BY <2>2, <2>3
<1>10. ASSUME NEW x \in Recipients, ToggleWanting(x)
       PROVE  Dated' /\ StillQualify' /\ AudienceFound'
  <2>1. /\ UNCHANGED <<following, listening, since, onAir>>
        /\ \A r \in wanting : r # x => r \in wanting'
        /\ \A e \in Events : ~inbox[e].done => steady'[e] = steady[e] \ {x}
    BY <1>10 DEF ToggleWanting, Unsteady, subVars
  <2>2. Dated' /\ AudienceFound' BY <1>1, <2>1 DEF NoticeInv, Dated, AudienceFound
  <2>3. StillQualify' BY <1>1, <2>1 DEF NoticeInv, StillQualify, Qualifies
  <2>4. QED BY <2>2, <2>3
<1>11. QED BY <1>3, <1>4, <1>5, <1>7, <1>8, <1>9, <1>10 DEF Environment

LEMMA NoticesKept ==
    ASSUME NoticeInv, [Next]_vars
    PROVE  NoticeInv'
<1>1. EventInv' BY NextTypes, LockKept, FinishedKept, ConfirmedKept DEF EventInv, NoticeInv
<1>2. CopiesExplained' BY CopiesKept DEF NoticeInv, EventInv
<1>3. CASE \/ \E p \in Publishers : Publish(p) \/ PublishFails(p) \/ PublisherDies(p)
           \/ \E m \in Messages : RetryExpires(m)
           \/ UNCHANGED vars
  <2>1. /\ UNCHANGED <<phase, held, batch, inbox, rows>>
        /\ UNCHANGED <<notify, occurred, clock, onAir, audience, following, listening, since,
                       wanting, steady>>
    BY <1>3 DEF Publish, SelectRow, PublishConfirmed, CommitPublish, PublishFails,
                PublisherDies, RetryExpires, vars, outboxVars, consumerVars, fanoutVars,
                worldVars, subVars, historyVars
  <2>2. \A e \in Events : outbox'[e] = "none" <=> outbox[e] = "none"
    <3>1. ASSUME NEW p \in Publishers, CommitPublish(p), sending[p] = "confirmed"
          PROVE  \A e \in Events : outbox'[e] = "none" <=> outbox[e] = "none"
      BY <3>1 DEF CommitPublish, NoticeInv, CopiesExplained, EventInv, TypeInv, TypeOK
    <3>2. CASE ~\E p \in Publishers : CommitPublish(p) /\ sending[p] = "confirmed"
      BY <1>3, <3>2 DEF Publish, SelectRow, PublishConfirmed, CommitPublish, PublishFails,
                PublisherDies, RetryExpires, vars, outboxVars
    <3>3. QED BY <3>1, <3>2
  <2>3. Covered' /\ StillQualify' /\ Dated'
    BY <2>1 DEF NoticeInv, Covered, Passed, StillQualify, Qualifies, Dated
  <2>4. Untouched' /\ AudienceFound' /\ BatchStands'
    BY <2>1, <2>2 DEF NoticeInv, Untouched, NotBegun, AudienceFound, BatchStands,
                             BatchStandsAt, BatchFinds
  <2>5. QED BY <1>1, <1>2, <2>3, <2>4 DEF NoticeInv
<1>4. QED
  BY <1>1, <1>2, <1>3, ConsumersNotice, DecideNotices, EnvironmentNotices
     DEF NoticeInv, Next, Consume, Fault, ConsumerStep

LEMMA NoticeInvariant == Spec => []NoticeInv
<1>1. Init => NoticeInv
  <2>1. Init => EventInv
    BY InitTypes DEF Init, EventInv, LockHeld, StagedRowsAreNew, FinishedDone, ConfirmedSafe
  <2>2. Init => CopiesExplained BY DEF Init, CopiesExplained
  <2>3. Init => Covered /\ StillQualify /\ Dated /\ Untouched /\ AudienceFound /\ BatchStands
    BY DEF Init, Covered, StillQualify, Dated, Untouched, NotBegun, AudienceFound, BatchStands
  <2>4. QED BY <2>1, <2>2, <2>3 DEF NoticeInv
<1>2. NoticeInv /\ [Next]_vars => NoticeInv' BY NoticesKept
<1>3. QED BY <1>1, <1>2, PTL DEF Spec

\* When an event is complete, everybody entitled to it from the decision to the completion
\* has a row, whatever pages, redeliveries and crashes it took.
THEOREM NobodyIsSkipped == Spec => []NobodySkipped
<1>1. NoticeInv => NobodySkipped BY DEF NoticeInv, Covered, Passed, NobodySkipped
<1>2. QED BY <1>1, NoticeInvariant, PTL


-----------------------------------------------------------------------------
(* The pipeline implements DecisionNotices                                  *)

Decided == {e \in Events : outbox[e] # "none"}
Closed == {e \in Events : inbox[e].done}

LEMMA CommitTells ==
    ASSUME NoticeInv, NoticeInv', [Next]_vars, NEW c \in Consumers, CommitBatch(c)
    PROVE  Notices!Next
<1>1. PICK e \in Events : e = held[c].event BY CommitEffect DEF NoticeInv, EventInv
<1>2. /\ phase[c] = "batch" /\ held[c] \in Messages
      /\ rows'[e] = rows[e] \cup batch[c].new
      /\ \A d \in Events \ {e} : inbox'[d] = inbox[d] /\ rows'[d] = rows[d]
  BY <1>1, CommitEffect DEF NoticeInv, EventInv
<1>3. ~inbox[e].done /\ outbox[e] # "none"
  BY <1>1, <1>2 DEF NoticeInv, EventInv, LockHeld, CopiesExplained, Explained
<1>4. batch[c].new \in SUBSET (audience[e] \cup {Owner})
  BY <1>1, <1>2 DEF NoticeInv, BatchStands, BatchStandsAt
<1>5. rows' = [rows EXCEPT ![e] = @ \cup batch[c].new]
  BY <1>1 DEF CommitBatch, WriteBatch
<1>6. UNCHANGED <<outbox, audience, steady>>
  BY DEF CommitBatch, WriteBatch, outboxVars, historyVars
<1>7. \/ Closed' = Closed
      \/ steady[e] \subseteq rows'[e] /\ Closed' = Closed \cup {e}
  <2>1. CASE inbox'[e].done
    <3>1. steady'[e] \subseteq rows'[e] BY <2>1 DEF NoticeInv, Covered, Passed
    <3>2. QED BY <1>2, <1>6, <2>1, <3>1 DEF Closed
  <2>2. CASE ~inbox'[e].done BY <1>2, <1>3, <2>2 DEF Closed
  <2>3. QED BY <2>1, <2>2
<1>8. Notices!Tell(e)
  BY <1>3, <1>4, <1>5, <1>6, <1>7 DEF Notices!Tell, Closed
<1>9. QED BY <1>8 DEF Notices!Next

LEMMA DecideDecides ==
    ASSUME NoticeInv, NEW e \in Events, NEW announce \in BOOLEAN, Decide(e, announce)
    PROVE  Notices!Next
<1>1. outbox[e] = "none" /\ Decided' = Decided \cup {e}
  BY DEF Decide, Decided, NoticeInv, EventInv, TypeInv, TypeOK
<1>2. rows' = rows /\ Closed' = Closed BY DEF Decide, fanoutVars, Closed
<1> DEFINE A == IF announce THEN following ELSE {}
           O == wanting \cap ({Owner} \cup IF announce THEN following \cap listening ELSE {})
<1>3. /\ A \in SUBSET Subs /\ O \in SUBSET (Subs \cup {Owner}) /\ O \subseteq A \cup {Owner}
  BY DEF NoticeInv, EventInv, TypeInv, TypeOK, Recipients
<1>4. audience' = [audience EXCEPT ![e] = A] /\ steady' = [steady EXCEPT ![e] = O]
  BY DEF Decide
<1> HIDE DEF A, O
<1>5. Notices!Decide(e) BY <1>1, <1>2, <1>3, <1>4 DEF Notices!Decide, Decided, Closed
<1>6. QED BY <1>5 DEF Notices!Next

LEMMA EnvironmentWithdraws ==
    ASSUME NoticeInv, NoticeInv', Environment
    PROVE  Notices!Next
<1>1. UNCHANGED <<outbox, inbox, rows, audience>>
  BY DEF Environment, Subscribe, Unsubscribe, ToggleBell, ToggleVideo, ToggleWanting, Churn,
         outboxVars, fanoutVars
<1>2. steady \in [Events -> SUBSET Recipients] /\ steady' \in [Events -> SUBSET Recipients]
  BY DEF NoticeInv, EventInv, TypeInv, TypeOK
<1>3. \A e \in Events : steady'[e] \subseteq steady[e] /\ (inbox[e].done => steady'[e] = steady[e])
  <2>1. \A R : Unsteady(R) => \A e \in Events :
          steady'[e] \subseteq steady[e] /\ (inbox[e].done => steady'[e] = steady[e])
    BY DEF Unsteady
  <2>2. \A d \in Events : ToggleVideo(d) => \A e \in Events :
          steady'[e] \subseteq steady[e] /\ (inbox[e].done => steady'[e] = steady[e])
    BY <1>2 DEF ToggleVideo
  <2>3. (\E R : Unsteady(R)) \/ \E d \in Events : ToggleVideo(d)
    BY DEF Environment, Subscribe, Unsubscribe, ToggleBell, ToggleWanting
  <2>4. QED BY <2>1, <2>2, <2>3
<1>4. Notices!Withdraw
  BY <1>1, <1>2, <1>3 DEF Notices!Withdraw, Recipients
<1>5. QED BY <1>4 DEF Notices!Next

LEMMA StepImplements ==
    ASSUME NoticeInv, NoticeInv', [Next]_vars
    PROVE  [Notices!Next]_(Notices!noticeVars)
<1>1. ASSUME NEW c \in Consumers, ConsumerStep(c), ~CommitBatch(c)
      PROVE  UNCHANGED Notices!noticeVars
  <2>1. UNCHANGED decisionVars BY <1>1, PipelineLeavesWorld
  <2>2. inbox' = inbox /\ rows' = rows BY <1>1, OnlyCommitsWrite DEF fanoutVars
  <2>3. QED BY <2>1, <2>2 DEF Notices!noticeVars, decisionVars
<1>2. CASE \/ \E p \in Publishers : Publish(p) \/ PublishFails(p) \/ PublisherDies(p)
           \/ \E m \in Messages : RetryExpires(m)
           \/ UNCHANGED vars
  <2>1. UNCHANGED <<inbox, rows, audience, steady>>
    BY <1>2 DEF Publish, SelectRow, PublishConfirmed, CommitPublish, PublishFails,
                PublisherDies, RetryExpires, vars, fanoutVars, historyVars
  <2>2. Decided' = Decided
    <3>1. ASSUME NEW p \in Publishers, CommitPublish(p), sending[p] = "confirmed"
          PROVE  Decided' = Decided
      BY <3>1 DEF CommitPublish, NoticeInv, CopiesExplained, EventInv, TypeInv, TypeOK, Decided
    <3>2. CASE ~\E p \in Publishers : CommitPublish(p) /\ sending[p] = "confirmed"
      <4>1. outbox' = outbox
        BY <1>2, <3>2 DEF Publish, SelectRow, PublishConfirmed, CommitPublish, PublishFails,
                PublisherDies, RetryExpires, vars, outboxVars
      <4>2. QED BY <4>1 DEF Decided
    <3>3. QED BY <3>1, <3>2
  <2>3. QED BY <2>1, <2>2 DEF Notices!noticeVars, Decided
<1>3. QED
  BY <1>1, <1>2, CommitTells, DecideDecides, EnvironmentWithdraws
     DEF Next, Consume, Fault, ConsumerStep

\* Whatever is redelivered, retried or crashes, the rows are the notices of a system that
\* tells each decision's recipients directly, never untells, and closes a decision when
\* everybody entitled to it throughout has been told.
THEOREM PipelineImplementsNotices == Spec => ImplementsNotices
<1>1. Init => Notices!Init BY DEF Init, Notices!Init
<1>2. NoticeInv /\ NoticeInv' /\ [Next]_vars => [Notices!Next]_(Notices!noticeVars)
  BY StepImplements
<1>3. QED BY <1>1, <1>2, NoticeInvariant, PTL DEF Spec, ImplementsNotices, Notices!Spec

==============================================================================
