---------------------------- MODULE BillingProofs ----------------------------
(***************************************************************************)
(* For any number of payments, transfers, webhooks, requests and faults:   *)
(* the invariants of buying a plan, and that it is one step at a time.     *)
(***************************************************************************)
EXTENDS Billing, TLAPS

\* What is quoted exists, and a transfer under way or acknowledged quotes something.
HandledQuotes ==
    /\ \A t \in Transfers : quotes[t] # Nothing => status[quotes[t]] # "none"
    /\ \A w \in Webhooks : at[w] # "idle" => handles[w] \in Transfers /\ quotes[handles[w]] # Nothing
    /\ \A t \in acked : quotes[t] # Nothing

\* A payment that does not exist yet has no key, no offer, no transfer and no history.
UnbornBlank ==
    \A p \in Payments : status[p] = "none" =>
        key[p] = NoKey /\ offer[p] = NoOffer /\ paidBy[p] = Nothing /\ activations[p] = 0

\* What the expiration worker is about to write exists.
WrittenExist == \A e \in Expirers : writing[e] # Nothing => status[writing[e]] # "none"

\* A payment is paid by a transfer that quotes it.
PaidByQuoting == \A p \in Payments : paidBy[p] # Nothing => quotes[paidBy[p]] = p

\* What may still be activated has never been.
NotYetActivated ==
    /\ \A p \in Payments : status[p] = "pending" => activations[p] = 0
    /\ \A w \in Webhooks : at[w] = "accepted" => activations[Quoted(w)] = 0

\* Between the checks of a checkout and its insert, they stay true.
CheckoutStands ==
    \A r \in Requests : doing[r] = "creating" =>
        /\ wish[r][1] \in Offers
        /\ wish[r][2] # NoKey => \A p \in Payments : key[p] # wish[r][2]
        /\ ~\E p \in Payments : offer[p] = wish[r][1] /\ Payable(p)

\* Nobody joins a shared plan beside a checkout or an activation.
SharingStands ==
    shared => /\ \A r \in Requests : doing[r] # "creating"
              /\ \A w \in Webhooks : at[w] # "accepted"

Settled ==
    /\ HandledQuotes /\ UnbornBlank /\ PaidByQuoting
    /\ NotYetActivated /\ PlanActivatedOnce
    /\ CheckoutStands /\ OnePaymentPerPurchase
    /\ SharingStands /\ SharedMemberOwesNothing
    /\ AcknowledgedIsSettled

BillingInv == TypeOK /\ WrittenExist /\ Settled

LEMMA InitInv == Init => BillingInv
<1> SUFFICES ASSUME Init PROVE BillingInv
  OBVIOUS
<1>1. TypeOK
  <2>1. /\ faults \in 0..MaxFaults
        /\ wish \in [Requests -> (Offers \cup {NoOffer}) \X (Keys \cup {NoKey})]
    BY BillingAssumption DEF Init
  <2>2. /\ \A w \in Webhooks : lock = w <=> at[w] \in {"accepted", "late"}
        /\ \A r \in Requests : lock = r <=> doing[r] = "creating"
    BY NamesAssumption DEF Init, Nobody
  <2>3. QED BY <2>1, <2>2 DEF Init, TypeOK, FreePlans
<1>2. HandledQuotes /\ UnbornBlank /\ PaidByQuoting /\ NotYetActivated /\ PlanActivatedOnce
  BY DEF Init, HandledQuotes, UnbornBlank, PaidByQuoting, NotYetActivated, PlanActivatedOnce
<1>3. CheckoutStands /\ SharingStands /\ SharedMemberOwesNothing /\ AcknowledgedIsSettled
  BY DEF Init, CheckoutStands, SharingStands, SharedMemberOwesNothing,
         AcknowledgedIsSettled
<1>4. OnePaymentPerPurchase BY DEF Init, OnePaymentPerPurchase, Payable
<1>5. WrittenExist BY DEF Init, WrittenExist
<1>6. QED BY <1>1, <1>2, <1>3, <1>4, <1>5 DEF BillingInv, Settled

-----------------------------------------------------------------------------
(* Types *)

LEMMA FaultTypes ==
    ASSUME TypeOK, Fault PROVE faults' \in 0..MaxFaults
BY BillingAssumption DEF TypeOK, Fault

LEMMA EndRequestTypes ==
    ASSUME TypeOK, NEW r \in Requests, EndRequest(r), UNCHANGED webhookVars
    PROVE  /\ lock' \in Webhooks \cup Requests \cup {Nobody}
           /\ doing' \in [Requests -> {"idle", "creating"} \cup FreePlans]
           /\ wish' \in [Requests -> (Offers \cup {NoOffer}) \X (Keys \cup {NoKey})]
           /\ \A w \in Webhooks : lock' = w <=> at'[w] \in {"accepted", "late"}
           /\ \A x \in Requests : lock' = x <=> doing'[x] = "creating"
BY NamesAssumption DEF TypeOK, EndRequest, Nobody, webhookVars

LEMMA EndWebhookTypes ==
    ASSUME TypeOK, NEW w \in Webhooks, EndWebhook(w), UNCHANGED requestVars
    PROVE  /\ lock' \in Webhooks \cup Requests \cup {Nobody}
           /\ at' \in [Webhooks -> {"idle", "found", "accepted", "late"}]
           /\ handles' \in [Webhooks -> Transfers \cup {Nothing}]
           /\ \A x \in Webhooks : lock' = x <=> at'[x] \in {"accepted", "late"}
           /\ \A r \in Requests : lock' = r <=> doing'[r] = "creating"
BY NamesAssumption DEF TypeOK, EndWebhook, Nobody, requestVars

LEMMA AnswerTypes ==
    ASSUME TypeOK, NEW w \in Webhooks, NEW t \in Transfers, Answer(w, t), UNCHANGED requestVars
    PROVE  /\ acked' \in SUBSET Transfers /\ faults' \in 0..MaxFaults
           /\ EndWebhook(w)
           /\ acked' \subseteq acked \cup {t}
<1>1. acked' \in SUBSET Transfers /\ acked' \subseteq acked \cup {t} BY DEF TypeOK, Answer
<1>2. faults' \in 0..MaxFaults
  <2>1. CASE Fault BY <2>1, FaultTypes
  <2>2. CASE UNCHANGED faults BY <2>2 DEF TypeOK
  <2>3. QED BY <2>1, <2>2 DEF Answer
<1>3. QED BY <1>1, <1>2 DEF Answer

\* The transfer and the payment of a webhook under way.
LEMMA UnderWay ==
    ASSUME TypeOK, HandledQuotes, NEW w \in Webhooks, at[w] # "idle"
    PROVE  /\ handles[w] \in Transfers /\ Quoted(w) \in Payments
           /\ status[Quoted(w)] # "none"
<1>1. handles[w] \in Transfers /\ quotes[handles[w]] # Nothing BY DEF HandledQuotes
<1>2. quotes[handles[w]] \in Payments BY <1>1 DEF TypeOK
<1>3. QED BY <1>1, <1>2 DEF HandledQuotes, Quoted

LEMMA CheckoutTypes ==
    ASSUME TypeOK, NEW r \in Requests, Checkout(r) \/ RequestDies(r) PROVE TypeOK'
<1> USE NamesAssumption DEF TypeOK, paymentVars, planVars, expirerVars, bankVars
<1>1. ASSUME NEW o \in Offers, NEW k \in Keys \cup {NoKey}, BeginCreate(r, o, k) PROVE TypeOK'
  BY <1>1 DEF BeginCreate, Wish, webhookVars, Nobody
<1>2. ASSUME NEW p \in Payments, InsertPending(r, p) PROVE TypeOK'
  <2>1. wish[r][1] \in Offers \cup {NoOffer} /\ wish[r][2] \in Keys \cup {NoKey} OBVIOUS
  <2>2. QED BY <1>2, <2>1, EndRequestTypes DEF InsertPending, webhookVars
<1>3. ASSUME NEW f \in FreePlans, CheckSubscribe(r, f) PROVE TypeOK'
  BY <1>3 DEF CheckSubscribe, webhookVars, FreePlans
<1>4. CASE SubscribeFree(r)
  <2>1. own' \in SUBSET (Payments \cup FreePlans) BY <1>4 DEF SubscribeFree
  <2>2. QED BY <1>4, <2>1, EndRequestTypes DEF SubscribeFree, webhookVars
<1>5. CASE RequestDies(r) BY <1>5, EndRequestTypes, FaultTypes DEF RequestDies, webhookVars
<1>6. QED BY <1>1, <1>2, <1>3, <1>4, <1>5 DEF Checkout

LEMMA WebhookTypes ==
    ASSUME TypeOK, HandledQuotes, NEW w \in Webhooks, Webhook(w) \/ WebhookDies(w) PROVE TypeOK'
<1> USE DEF paymentVars, planVars, expirerVars, bankVars
<1>1. ASSUME NEW t \in Transfers, Receive(w, t) PROVE TypeOK'
  BY <1>1 DEF Receive, requestVars, TypeOK
<1>2. ASSUME NEW t \in Transfers, ReceiveAgain(w, t) PROVE TypeOK'
  <2>1. Answer(w, t) /\ UNCHANGED requestVars BY <1>2 DEF ReceiveAgain
  <2>2. QED BY <1>2, <2>1, AnswerTypes, EndWebhookTypes DEF ReceiveAgain, requestVars, TypeOK
<1>3. ASSUME Ignore(w) PROVE TypeOK'
  <2>1. Answer(w, handles[w]) /\ handles[w] \in Transfers /\ UNCHANGED requestVars
    BY <1>3, UnderWay DEF Ignore
  <2>2. QED BY <1>3, <2>1, AnswerTypes, EndWebhookTypes DEF Ignore, requestVars, TypeOK
<1>4. CASE Load(w)
  BY <1>4, NamesAssumption DEF Load, Judge, requestVars, TypeOK, Nobody
<1>5. CASE CancelLate(w)
  <2>1. Answer(w, handles[w]) /\ handles[w] \in Transfers /\ UNCHANGED requestVars
    BY <1>5, UnderWay DEF CancelLate
  <2>2. status' \in [Payments -> {"none", "pending", "paid", "cancelled"}]
    BY <1>5 DEF CancelLate, TypeOK
  <2>3. QED BY <1>5, <2>1, <2>2, AnswerTypes, EndWebhookTypes DEF CancelLate, requestVars, TypeOK
<1>6. CASE Activate(w)
  <2>1. /\ Answer(w, handles[w]) /\ handles[w] \in Transfers /\ UNCHANGED requestVars
        /\ Quoted(w) \in Payments
    BY <1>6, UnderWay DEF Activate, Pay
  <2>2. /\ status' \in [Payments -> {"none", "pending", "paid", "cancelled"}]
        /\ paidBy' \in [Payments -> Transfers \cup {Nothing}]
        /\ activations' \in [Payments -> Nat]
        /\ own' \in SUBSET (Payments \cup FreePlans)
    BY <1>6, <2>1 DEF Activate, Pay, TypeOK
  <2>3. QED
    BY <1>6, <2>1, <2>2, AnswerTypes, EndWebhookTypes DEF Activate, Pay, requestVars, TypeOK
<1>7. CASE ActivationFails(w) BY <1>7, EndWebhookTypes DEF ActivationFails, requestVars, TypeOK
<1>8. CASE WebhookDies(w)
  BY <1>8, EndWebhookTypes, FaultTypes DEF WebhookDies, requestVars, TypeOK
<1>9. QED BY <1>1, <1>2, <1>3, <1>4, <1>5, <1>6, <1>7, <1>8 DEF Webhook

LEMMA ExpireTypes ==
    ASSUME TypeOK, NEW e \in Expirers, Expire(e) \/ ExpirerDies(e) PROVE TypeOK'
<1> USE DEF TypeOK, paymentVars, planVars, webhookVars, requestVars, bankVars
<1>1. CASE ListExpired(e) BY <1>1 DEF ListExpired
<1>2. ASSUME NEW p \in Payments, SkipSettled(e, p) \/ ReadExpired(e, p) PROVE TypeOK'
  BY <1>2 DEF SkipSettled, ReadExpired
<1>3. CASE CancelExpired(e) BY <1>3 DEF CancelExpired
<1>4. CASE ExpirerDies(e) BY <1>4, FaultTypes DEF ExpirerDies
<1>5. QED BY <1>1, <1>2, <1>3, <1>4 DEF Expire

LEMMA WorldTypes ==
    ASSUME TypeOK,
           \/ \E p \in Payments : CancelPayment(p) \/ Lapse(p)
           \/ AcceptInvitation \/ LeaveSharedPlan
           \/ \E t \in Transfers, p \in Payments, full \in BOOLEAN : Transfer(t, p, full)
           \/ \E o \in Offers : ToggleSale(o)
    PROVE  TypeOK'
<1> USE DEF TypeOK, paymentVars, planVars, webhookVars, requestVars, expirerVars, bankVars
<1>1. ASSUME NEW p \in Payments, CancelPayment(p) \/ Lapse(p) PROVE TypeOK'
  BY <1>1 DEF CancelPayment, Lapse
<1>2. CASE AcceptInvitation BY <1>2 DEF AcceptInvitation, Join
<1>3. CASE LeaveSharedPlan BY <1>3 DEF LeaveSharedPlan, FreePlans
<1>4. ASSUME NEW t \in Transfers, NEW p \in Payments, NEW full \in BOOLEAN, Transfer(t, p, full)
      PROVE  TypeOK'
  BY <1>4 DEF Transfer
<1>5. ASSUME NEW o \in Offers, ToggleSale(o) PROVE TypeOK'
  BY <1>5, FaultTypes DEF ToggleSale
<1>6. QED BY <1>1, <1>2, <1>3, <1>4, <1>5

-----------------------------------------------------------------------------
(* Settled: the steps that change payments, plans, transfers or what a     *)
(* handler has established; all the others are quiet.                      *)

Quiet ==
    /\ UNCHANGED <<status, offer, key, paidBy, own, shared, quotes, activations>>
    /\ lapsed \subseteq lapsed'
    /\ \A w \in Webhooks : at'[w] # "idle" => at'[w] = at[w] /\ handles'[w] = handles[w]
    /\ \A r \in Requests :
         doing'[r] = "creating" => doing[r] = "creating" /\ wish'[r] = wish[r]

\* A transfer is acknowledged, if at all, when its payment is settled.
AcksSettled ==
    /\ enough' = enough
    /\ \A t \in acked' \ acked :
         quotes[t] # Nothing /\ (t \in enough => status'[quotes[t]] # "pending")

LEMMA QuietKeeps ==
    ASSUME Settled, Quiet, AcksSettled PROVE Settled'
<1>1. HandledQuotes' /\ UnbornBlank' /\ PaidByQuoting'
  BY DEF Settled, Quiet, AcksSettled, HandledQuotes, UnbornBlank, PaidByQuoting
<1>2. NotYetActivated' /\ PlanActivatedOnce'
  BY DEF Settled, Quiet, NotYetActivated, PlanActivatedOnce, Quoted
<1>3. \A p \in Payments : Payable(p)' => Payable(p) BY DEF Quiet, Payable
<1>4. CheckoutStands' /\ OnePaymentPerPurchase'
  BY <1>3 DEF Settled, Quiet, CheckoutStands, OnePaymentPerPurchase
<1>5. SharingStands' /\ SharedMemberOwesNothing'
  BY DEF Settled, Quiet, SharingStands, SharedMemberOwesNothing
<1>6. AcknowledgedIsSettled'
  BY DEF Settled, Quiet, AcksSettled, AcknowledgedIsSettled
<1>7. QED BY <1>1, <1>2, <1>4, <1>5, <1>6 DEF Settled

\* Cancelling a payment that exists settles it.
LEMMA CancelKeeps ==
    ASSUME TypeOK, Settled, NEW p \in Payments, status[p] # "none",
           status' = [status EXCEPT ![p] = "cancelled"],
           UNCHANGED <<offer, key, paidBy, own, shared, quotes, activations>>,
           lapsed' = lapsed,
           \A w \in Webhooks : at'[w] # "idle" => at'[w] = at[w] /\ handles'[w] = handles[w],
           \A r \in Requests :
             doing'[r] = "creating" => doing[r] = "creating" /\ wish'[r] = wish[r],
           AcksSettled
    PROVE  Settled'
<1>1. /\ \A q \in Payments : status'[q] = "none" <=> status[q] = "none"
      /\ \A q \in Payments : status'[q] = "pending" => status[q] = "pending"
  BY DEF TypeOK
<1>2. HandledQuotes' /\ UnbornBlank' /\ PaidByQuoting'
  <2>1. \A t \in Transfers : quotes[t] # Nothing => quotes[t] \in Payments BY DEF TypeOK
  <2>2. QED BY <1>1, <2>1 DEF Settled, AcksSettled, HandledQuotes, UnbornBlank, PaidByQuoting
<1>3. NotYetActivated' /\ PlanActivatedOnce'
  BY <1>1 DEF Settled, NotYetActivated, PlanActivatedOnce, Quoted
<1>4. \A q \in Payments : Payable(q)' => Payable(q) BY <1>1 DEF Payable
<1>5. CheckoutStands' /\ OnePaymentPerPurchase'
  BY <1>4 DEF Settled, CheckoutStands, OnePaymentPerPurchase
<1>6. SharingStands' /\ SharedMemberOwesNothing'
  BY <1>1 DEF Settled, SharingStands, SharedMemberOwesNothing
<1>7. AcknowledgedIsSettled'
  <2>1. \A t \in acked : quotes[t] \in Payments BY DEF TypeOK, Settled, HandledQuotes
  <2>2. QED BY <1>1, <2>1 DEF Settled, AcksSettled, AcknowledgedIsSettled
<1>8. QED BY <1>2, <1>3, <1>5, <1>6, <1>7 DEF Settled

-----------------------------------------------------------------------------
(* Requests *)

LEMMA BeginCreateKeeps ==
    ASSUME TypeOK, Settled, NEW r \in Requests, NEW o \in Offers, NEW k \in Keys \cup {NoKey},
           BeginCreate(r, o, k)
    PROVE  Settled'
<1> USE DEF BeginCreate, Wish, paymentVars, planVars, webhookVars, bankVars
<1>1. HandledQuotes' /\ UnbornBlank' /\ PaidByQuoting'
  BY DEF Settled, HandledQuotes, UnbornBlank, PaidByQuoting
<1>2. NotYetActivated' /\ PlanActivatedOnce'
  BY DEF Settled, NotYetActivated, PlanActivatedOnce, Quoted
<1>3. \A p \in Payments : Payable(p)' <=> Payable(p) BY DEF Payable
<1>4. OnePaymentPerPurchase' BY <1>3 DEF Settled, OnePaymentPerPurchase
<1>5. CheckoutStands'
  <2>1. \A x \in Requests : doing'[x] = "creating" => x = r
    BY NamesAssumption DEF TypeOK, Nobody
  <2>2. wish'[r][1] = o /\ wish'[r][2] = k BY DEF TypeOK
  <2>3. QED BY <1>3, <2>1, <2>2 DEF CheckoutStands, MayCreate
<1>6. SharingStands' /\ SharedMemberOwesNothing' /\ AcknowledgedIsSettled'
  BY DEF Settled, SharingStands, SharedMemberOwesNothing, MayCreate, AcknowledgedIsSettled
<1>7. QED BY <1>1, <1>2, <1>4, <1>5, <1>6 DEF Settled

LEMMA InsertKeeps ==
    ASSUME TypeOK, Settled, NEW r \in Requests, NEW p \in Payments, InsertPending(r, p)
    PROVE  Settled'
<1>1. /\ \A q \in Payments : q # p => /\ status'[q] = status[q] /\ offer'[q] = offer[q]
                                      /\ key'[q] = key[q]
      /\ status'[p] = "pending" /\ offer'[p] = wish[r][1] /\ key'[p] = wish[r][2]
  BY DEF InsertPending, TypeOK
<1>2. UNCHANGED <<lapsed, paidBy, own, shared, at, handles, quotes, enough, acked, activations>>
  BY DEF InsertPending, planVars, webhookVars, bankVars
<1>3. /\ doing[r] = "creating" /\ status[p] = "none"
      /\ \A x \in Requests : doing'[x] # "creating"
  BY NamesAssumption DEF InsertPending, EndRequest, TypeOK, Nobody
<1>4. key[p] = NoKey /\ offer[p] = NoOffer /\ paidBy[p] = Nothing /\ activations[p] = 0
  BY <1>3 DEF Settled, UnbornBlank
<1>5. /\ \A q \in Payments : status[q] # "none" => q # p
      /\ \A t \in Transfers : quotes[t] # Nothing => quotes[t] \in Payments /\ quotes[t] # p
  BY <1>3 DEF TypeOK, Settled, HandledQuotes
<1>6. HandledQuotes' BY <1>1, <1>2, <1>5 DEF Settled, HandledQuotes
<1>7. UnbornBlank' /\ PaidByQuoting'
  BY <1>1, <1>2, <1>5 DEF Settled, UnbornBlank, PaidByQuoting
<1>8. NotYetActivated' /\ PlanActivatedOnce'
  BY <1>1, <1>2, <1>4 DEF Settled, NotYetActivated, PlanActivatedOnce, Quoted
<1>9. CheckoutStands' BY <1>3 DEF CheckoutStands
<1>10. OnePaymentPerPurchase'
  <2>1. /\ wish[r][2] # NoKey => \A q \in Payments : key[q] # wish[r][2]
        /\ ~\E q \in Payments : offer[q] = wish[r][1] /\ Payable(q)
    BY <1>3 DEF Settled, CheckoutStands
  <2>2. \A q \in Payments : q # p => (Payable(q)' <=> Payable(q)) BY <1>1, <1>2 DEF Payable
  <2>3. \A q \in Payments : q # p => /\ ~(Payable(q)' /\ offer'[q] = offer'[p])
                                     /\ key'[q] = key'[p] => key'[p] = NoKey
    BY <1>1, <2>1, <2>2
  <2>4. QED BY <1>1, <2>2, <2>3 DEF Settled, OnePaymentPerPurchase
<1>11. SharingStands' /\ SharedMemberOwesNothing'
  BY <1>2, <1>3 DEF Settled, SharingStands, SharedMemberOwesNothing
<1>12. AcknowledgedIsSettled'
  <2>1. \A t \in acked : quotes[t] \in Payments /\ quotes[t] # p
    BY <1>5 DEF TypeOK, Settled, HandledQuotes
  <2>2. QED BY <1>1, <1>2, <2>1 DEF Settled, AcknowledgedIsSettled
<1>13. QED BY <1>6, <1>7, <1>8, <1>9, <1>10, <1>11, <1>12 DEF Settled

LEMMA SubscribeKeeps ==
    ASSUME TypeOK, Settled, NEW r \in Requests, SubscribeFree(r) PROVE Settled'
<1>1. /\ UNCHANGED <<status, offer, key, lapsed, paidBy, shared, at, handles, quotes, enough,
                     acked, activations>>
      /\ \A x \in Requests :
           doing'[x] = "creating" => doing[x] = "creating" /\ wish'[x] = wish[x]
  BY DEF SubscribeFree, EndRequest, paymentVars, webhookVars, bankVars, TypeOK
<1>2. HandledQuotes' /\ UnbornBlank' /\ PaidByQuoting' /\ AcknowledgedIsSettled'
  BY <1>1 DEF Settled, HandledQuotes, UnbornBlank, PaidByQuoting, AcknowledgedIsSettled
<1>3. NotYetActivated' /\ PlanActivatedOnce'
  BY <1>1 DEF Settled, NotYetActivated, PlanActivatedOnce, Quoted
<1>4. \A p \in Payments : Payable(p)' <=> Payable(p) BY <1>1 DEF Payable
<1>5. CheckoutStands' /\ OnePaymentPerPurchase'
  BY <1>1, <1>4 DEF Settled, CheckoutStands, OnePaymentPerPurchase
<1>6. own' = IF shared THEN own ELSE {doing[r]} BY DEF SubscribeFree
<1>7. SharingStands' /\ SharedMemberOwesNothing'
  BY <1>1, <1>6 DEF Settled, SharingStands, SharedMemberOwesNothing
<1>8. QED BY <1>2, <1>3, <1>5, <1>7 DEF Settled

LEMMA RequestKeeps ==
    ASSUME TypeOK, Settled, NEW r \in Requests, Checkout(r) \/ RequestDies(r) PROVE Settled'
<1>1. ASSUME (\E f \in FreePlans : CheckSubscribe(r, f)) \/ RequestDies(r)
      PROVE  Quiet /\ AcksSettled
  BY <1>1 DEF CheckSubscribe, FreePlans, RequestDies, EndRequest, Quiet, AcksSettled, TypeOK,
              paymentVars, planVars, webhookVars, bankVars
<1>2. QED
  BY <1>1, QuietKeeps, BeginCreateKeeps, InsertKeeps, SubscribeKeeps DEF Checkout

-----------------------------------------------------------------------------
(* Webhooks *)

\* A response acknowledges the transfer or not, and ends the webhook.
LEMMA AnswerEffect ==
    ASSUME TypeOK, NEW w \in Webhooks, NEW t, Answer(w, t)
    PROVE  /\ acked' \subseteq acked \cup {t}
           /\ \A x \in Webhooks :
                at'[x] # "idle" => x # w /\ at'[x] = at[x] /\ handles'[x] = handles[x]
BY DEF Answer, EndWebhook, TypeOK

LEMMA ReceiveKeeps ==
    ASSUME TypeOK, Settled, NEW w \in Webhooks, NEW t \in Transfers, Receive(w, t) PROVE Settled'
<1>1. UNCHANGED <<status, offer, key, lapsed, paidBy, own, shared, doing, wish, quotes, enough,
                  acked, activations>>
  BY DEF Receive, paymentVars, planVars, requestVars, bankVars
<1>2. /\ at'[w] = "found" /\ handles'[w] = t /\ quotes[t] # Nothing
      /\ \A x \in Webhooks : x # w => at'[x] = at[x] /\ handles'[x] = handles[x]
  BY DEF Receive, Delivered, TypeOK
<1>3. HandledQuotes' /\ UnbornBlank' /\ PaidByQuoting' /\ AcknowledgedIsSettled'
  BY <1>1, <1>2 DEF Settled, HandledQuotes, UnbornBlank, PaidByQuoting, AcknowledgedIsSettled
<1>4. NotYetActivated' /\ PlanActivatedOnce'
  BY <1>1, <1>2 DEF Settled, NotYetActivated, PlanActivatedOnce, Quoted
<1>5. \A p \in Payments : Payable(p)' <=> Payable(p) BY <1>1 DEF Payable
<1>6. CheckoutStands' /\ OnePaymentPerPurchase'
  BY <1>1, <1>5 DEF Settled, CheckoutStands, OnePaymentPerPurchase
<1>7. SharingStands' /\ SharedMemberOwesNothing'
  BY <1>1, <1>2 DEF Settled, SharingStands, SharedMemberOwesNothing
<1>8. QED BY <1>3, <1>4, <1>6, <1>7 DEF Settled

\* A transfer that has paid quotes a payment that is paid.
LEMMA ReceiveAgainKeeps ==
    ASSUME TypeOK, Settled, NEW w \in Webhooks, NEW t \in Transfers, ReceiveAgain(w, t)
    PROVE  Settled'
<1>1. UNCHANGED <<status, offer, key, lapsed, paidBy, own, shared, doing, wish, quotes, enough,
                  activations>>
  BY DEF ReceiveAgain, paymentVars, planVars, requestVars
<1>2. quotes[t] # Nothing /\ status[quotes[t]] = "paid"
  <2>1. PICK p \in Payments : status[p] = "paid" /\ paidBy[p] = t
    BY DEF ReceiveAgain, Processed
  <2>2. paidBy[p] # Nothing BY <2>1, NamesAssumption DEF Nothing
  <2>3. QED BY <2>1, <2>2 DEF Settled, PaidByQuoting, ReceiveAgain, Delivered
<1>3. AcksSettled BY <1>1, <1>2, AnswerEffect DEF ReceiveAgain, AcksSettled
<1>4. Quiet BY <1>1, AnswerEffect DEF ReceiveAgain, Quiet
<1>5. QED BY <1>3, <1>4, QuietKeeps

LEMMA IgnoreKeeps ==
    ASSUME TypeOK, Settled, NEW w \in Webhooks, Ignore(w) PROVE Settled'
<1>1. UNCHANGED <<status, offer, key, lapsed, paidBy, own, shared, doing, wish, quotes, enough,
                  activations>>
  BY DEF Ignore, paymentVars, planVars, requestVars
<1>2. /\ quotes[handles[w]] # Nothing
      /\ handles[w] \in enough => status[quotes[handles[w]]] # "pending"
  BY DEF Ignore, Quoted, Settled, HandledQuotes
<1>3. AcksSettled BY <1>1, <1>2, AnswerEffect DEF Ignore, AcksSettled
<1>4. Quiet BY <1>1, AnswerEffect DEF Ignore, Quiet
<1>5. QED BY <1>3, <1>4, QuietKeeps

\* A pending payment was never activated, and its user shares no plan.
LEMMA LoadKeeps ==
    ASSUME TypeOK, Settled, NEW w \in Webhooks, Load(w) PROVE Settled'
<1>1. UNCHANGED <<status, offer, key, lapsed, paidBy, own, shared, handles, doing, wish, quotes,
                  enough, acked, activations>>
  BY DEF Load, Judge, paymentVars, planVars, requestVars, bankVars
<1>2. at[w] = "found" /\ status[Quoted(w)] = "pending" /\ Quoted(w) \in Payments
  <2>1. HandledQuotes /\ at[w] # "idle" BY DEF Settled, Load, Judge
  <2>2. QED BY <2>1, UnderWay DEF Load, Judge
<1>3. \A x \in Webhooks : x # w => at'[x] = at[x] BY DEF Load, Judge, TypeOK
<1>4. activations[Quoted(w)] = 0 /\ ~shared
  BY <1>2 DEF Settled, NotYetActivated, SharedMemberOwesNothing
<1>5. HandledQuotes' /\ UnbornBlank' /\ PaidByQuoting' /\ AcknowledgedIsSettled'
  BY <1>1, <1>2, <1>3 DEF Settled, HandledQuotes, UnbornBlank, PaidByQuoting, AcknowledgedIsSettled
<1>6. NotYetActivated' /\ PlanActivatedOnce'
  BY <1>1, <1>3, <1>4 DEF Settled, NotYetActivated, PlanActivatedOnce, Quoted
<1>7. \A p \in Payments : Payable(p)' <=> Payable(p) BY <1>1 DEF Payable
<1>8. CheckoutStands' /\ OnePaymentPerPurchase'
  BY <1>1, <1>7 DEF Settled, CheckoutStands, OnePaymentPerPurchase
<1>9. SharingStands' /\ SharedMemberOwesNothing'
  BY <1>1, <1>4 DEF Settled, SharingStands, SharedMemberOwesNothing
<1>10. QED BY <1>5, <1>6, <1>8, <1>9 DEF Settled

LEMMA CancelLateKeeps ==
    ASSUME TypeOK, Settled, NEW w \in Webhooks, CancelLate(w) PROVE Settled'
<1>1. UNCHANGED <<offer, key, lapsed, paidBy, own, shared, doing, wish, quotes, enough,
                  activations>>
  BY DEF CancelLate, planVars, requestVars
<1>2. /\ Quoted(w) \in Payments /\ status[Quoted(w)] # "none"
      /\ quotes[handles[w]] # Nothing
  <2>1. HandledQuotes /\ at[w] # "idle" BY DEF Settled, CancelLate
  <2>2. QED BY <2>1, UnderWay DEF HandledQuotes
<1>3. status' = [status EXCEPT ![Quoted(w)] = "cancelled"] /\ Answer(w, handles[w])
  BY DEF CancelLate
<1>4. status'[quotes[handles[w]]] = "cancelled" BY <1>2, <1>3 DEF Quoted, TypeOK
<1>5. AcksSettled BY <1>1, <1>2, <1>3, <1>4, AnswerEffect DEF AcksSettled
<1>6. QED BY <1>1, <1>2, <1>3, <1>5, AnswerEffect, CancelKeeps

\* The lock is held since the payment was found pending, so no other webhook activates it.
LEMMA ActivateKeeps ==
    ASSUME TypeOK, Settled, NEW w \in Webhooks, Activate(w) PROVE Settled'
<1> DEFINE p == Quoted(w)
           t == handles[w]
<1>1. /\ UNCHANGED <<offer, key, lapsed, shared, doing, wish, quotes, enough>>
      /\ Answer(w, t) /\ own' = {p} /\ at[w] = "accepted"
  BY DEF Activate, Pay, requestVars
<1>2. /\ t \in Transfers /\ p \in Payments /\ status[p] # "none" /\ quotes[t] = p
      /\ activations[p] = 0 /\ ~shared
  <2>1. HandledQuotes /\ at[w] # "idle" BY <1>1 DEF Settled
  <2>2. activations[p] = 0 /\ ~shared
    BY <1>1 DEF Settled, NotYetActivated, SharingStands
  <2>3. QED BY <2>1, <2>2, UnderWay DEF Quoted
<1>3. /\ status'[p] = "paid" /\ paidBy'[p] = t /\ activations'[p] = 1
      /\ \A q \in Payments : q # p => /\ status'[q] = status[q] /\ paidBy'[q] = paidBy[q]
                                      /\ activations'[q] = activations[q]
  <2>1. /\ status' = [status EXCEPT ![p] = "paid"] /\ paidBy' = [paidBy EXCEPT ![p] = t]
        /\ activations' = [activations EXCEPT ![p] = @ + 1]
    BY DEF Activate, Pay
  <2> HIDE DEF p, t
  <2>2. QED BY <1>2, <2>1 DEF TypeOK
<1>4. /\ acked' \subseteq acked \cup {t}
      /\ \A x \in Webhooks :
           at'[x] # "idle" => x # w /\ at'[x] = at[x] /\ handles'[x] = handles[x]
      /\ \A x \in Webhooks : at'[x] # "accepted"
  <2>1. \A x \in Webhooks : at[x] = "accepted" => x = w
    BY <1>1 DEF TypeOK
  <2>2. QED BY <1>1, <2>1, AnswerEffect
<1>5. quotes[t] # Nothing BY <1>2, NamesAssumption DEF Nothing
<1> HIDE DEF p, t
<1>6. HandledQuotes'
  <2>1. \A u \in Transfers : quotes[u] # Nothing => quotes[u] \in Payments BY DEF TypeOK
  <2>2. \A u \in Transfers : quotes[u] # Nothing => status'[quotes[u]] # "none"
    BY <1>3, <2>1 DEF Settled, HandledQuotes
  <2>3. QED BY <1>1, <1>4, <1>5, <2>2 DEF Settled, HandledQuotes
<1>7. UnbornBlank' BY <1>1, <1>2, <1>3 DEF Settled, UnbornBlank
<1>8. PaidByQuoting' BY <1>1, <1>2, <1>3 DEF Settled, PaidByQuoting
<1>9. NotYetActivated' BY <1>3, <1>4 DEF Settled, NotYetActivated
<1>10. PlanActivatedOnce'
  <2>1. \A q \in Payments : activations'[q] <= 1 BY <1>3 DEF Settled, PlanActivatedOnce
  <2>2. QED BY <1>8, <2>1 DEF PlanActivatedOnce, PaidByQuoting
<1>11. \A q \in Payments : Payable(q)' => Payable(q) BY <1>1, <1>3 DEF Payable
<1>12. CheckoutStands' /\ OnePaymentPerPurchase'
  BY <1>1, <1>11 DEF Settled, CheckoutStands, OnePaymentPerPurchase
<1>13. SharingStands' /\ SharedMemberOwesNothing'
  BY <1>1, <1>2 DEF SharingStands, SharedMemberOwesNothing
<1>14. AcknowledgedIsSettled'
  <2>1. \A u \in acked : quotes[u] \in Payments BY DEF TypeOK, Settled, HandledQuotes
  <2>2. \A u \in acked \cap enough : status'[quotes[u]] # "pending"
    BY <1>3, <2>1 DEF Settled, AcknowledgedIsSettled
  <2>3. QED BY <1>1, <1>2, <1>3, <1>4, <2>2 DEF AcknowledgedIsSettled
<1>15. QED BY <1>6, <1>7, <1>8, <1>9, <1>10, <1>12, <1>13, <1>14 DEF Settled

LEMMA WebhookKeeps ==
    ASSUME TypeOK, Settled, NEW w \in Webhooks, Webhook(w) \/ WebhookDies(w) PROVE Settled'
<1>1. ASSUME ActivationFails(w) \/ WebhookDies(w) PROVE Quiet /\ AcksSettled
  BY <1>1 DEF ActivationFails, WebhookDies, EndWebhook, Quiet, AcksSettled, TypeOK, paymentVars,
              planVars, requestVars, bankVars
<1>2. QED
  BY <1>1, QuietKeeps, ReceiveKeeps, ReceiveAgainKeeps, IgnoreKeeps, LoadKeeps, CancelLateKeeps,
     ActivateKeeps DEF Webhook

-----------------------------------------------------------------------------
(* The expiration worker, membership, bank and catalogue *)

LEMMA ExpireKeeps ==
    ASSUME TypeOK, Settled, NEW e \in Expirers, WrittenExist,
           Expire(e) \/ ExpirerDies(e)
    PROVE  Settled'
<1> USE DEF planVars, webhookVars, requestVars, bankVars
<1>1. ASSUME ListExpired(e) \/ ExpirerDies(e) \/ \E p \in Payments : SkipSettled(e, p) \/ ReadExpired(e, p)
      PROVE  Quiet /\ AcksSettled
  BY <1>1 DEF ListExpired, ExpirerDies, SkipSettled, ReadExpired, Quiet, AcksSettled, paymentVars
<1>2. ASSUME CancelExpired(e) PROVE Settled'
  <2>1. writing[e] \in Payments /\ status[writing[e]] # "none" BY <1>2 DEF CancelExpired, WrittenExist, TypeOK
  <2>2. AcksSettled BY <1>2 DEF CancelExpired, AcksSettled
  <2>3. QED BY <1>2, <2>1, <2>2, CancelKeeps DEF CancelExpired
<1>3. QED BY <1>1, <1>2, QuietKeeps DEF Expire

\* Accepting an invitation ends the user's plans and cancels what is pending.
LEMMA AcceptKeeps ==
    ASSUME TypeOK, Settled, AcceptInvitation PROVE Settled'
<1>1. UNCHANGED <<offer, key, lapsed, paidBy, at, handles, doing, wish, quotes, enough, acked,
                  activations>>
  BY DEF AcceptInvitation, Join, webhookVars, requestVars, bankVars
<1>2. /\ \A p \in Payments : status'[p] = IF status[p] = "pending" THEN "cancelled" ELSE status[p]
      /\ shared' = TRUE /\ own' = {}
  BY DEF AcceptInvitation, Join
<1>3. /\ \A r \in Requests : doing[r] # "creating"
      /\ \A w \in Webhooks : at[w] # "accepted"
  BY NamesAssumption DEF AcceptInvitation, Join, TypeOK, Nobody
<1>4. \A t \in Transfers : quotes[t] # Nothing => quotes[t] \in Payments BY DEF TypeOK
<1>5. HandledQuotes' /\ UnbornBlank' /\ PaidByQuoting'
  BY <1>1, <1>2, <1>4 DEF Settled, HandledQuotes, UnbornBlank, PaidByQuoting
<1>6. NotYetActivated' /\ PlanActivatedOnce'
  BY <1>1, <1>2, <1>3 DEF Settled, NotYetActivated, PlanActivatedOnce
<1>7. \A p \in Payments : Payable(p)' => Payable(p) BY <1>1, <1>2 DEF Payable
<1>8. CheckoutStands' /\ OnePaymentPerPurchase'
  BY <1>1, <1>7 DEF Settled, CheckoutStands, OnePaymentPerPurchase
<1>9. SharingStands' /\ SharedMemberOwesNothing'
  BY <1>1, <1>2, <1>3 DEF SharingStands, SharedMemberOwesNothing
<1>10. AcknowledgedIsSettled'
  <2>1. \A t \in acked : quotes[t] \in Payments BY <1>4 DEF TypeOK, Settled, HandledQuotes
  <2>2. QED BY <1>1, <1>2, <2>1 DEF Settled, AcknowledgedIsSettled
<1>11. QED BY <1>5, <1>6, <1>8, <1>9, <1>10 DEF Settled

LEMMA LeaveKeeps ==
    ASSUME TypeOK, Settled, LeaveSharedPlan PROVE Settled'
<1>1. /\ UNCHANGED <<status, offer, key, lapsed, paidBy, at, handles, doing, wish, quotes, enough,
                     acked, activations>>
      /\ shared' = FALSE /\ own' = {"default"}
  BY DEF LeaveSharedPlan, paymentVars, webhookVars, requestVars, bankVars
<1>2. HandledQuotes' /\ UnbornBlank' /\ PaidByQuoting' /\ AcknowledgedIsSettled'
  BY <1>1 DEF Settled, HandledQuotes, UnbornBlank, PaidByQuoting, AcknowledgedIsSettled
<1>3. NotYetActivated' /\ PlanActivatedOnce'
  BY <1>1 DEF Settled, NotYetActivated, PlanActivatedOnce, Quoted
<1>4. \A p \in Payments : Payable(p)' <=> Payable(p) BY <1>1 DEF Payable
<1>5. CheckoutStands' /\ OnePaymentPerPurchase'
  BY <1>1, <1>4 DEF Settled, CheckoutStands, OnePaymentPerPurchase
<1>6. SharingStands' /\ SharedMemberOwesNothing'
  BY <1>1 DEF SharingStands, SharedMemberOwesNothing
<1>7. QED BY <1>2, <1>3, <1>5, <1>6 DEF Settled

\* A transfer that quotes nothing yet is neither under way nor acknowledged.
LEMMA TransferKeeps ==
    ASSUME TypeOK, Settled, NEW t \in Transfers, NEW p \in Payments, NEW full \in BOOLEAN,
           Transfer(t, p, full)
    PROVE  Settled'
<1>1. /\ UNCHANGED <<status, offer, key, lapsed, paidBy, own, shared, at, handles, doing, wish,
                     acked, activations>>
      /\ enough' \subseteq enough \cup {t}
  BY DEF Transfer, paymentVars, planVars, webhookVars, requestVars
<1>2. /\ quotes[t] = Nothing /\ status[p] # "none" /\ quotes'[t] = p
      /\ \A u \in Transfers : u # t => quotes'[u] = quotes[u]
  BY DEF Transfer, TypeOK
<1>3. /\ \A w \in Webhooks : at[w] # "idle" => handles[w] # t /\ handles[w] \in Transfers
      /\ t \notin acked /\ acked \subseteq Transfers
      /\ \A q \in Payments : paidBy[q] # t /\ paidBy[q] \in Transfers \cup {Nothing}
  BY <1>2, NamesAssumption DEF Settled, HandledQuotes, PaidByQuoting, TypeOK, Nothing
<1>4. p # Nothing BY NamesAssumption DEF Nothing
<1>5. HandledQuotes' BY <1>1, <1>2, <1>3, <1>4 DEF Settled, HandledQuotes
<1>6. UnbornBlank' /\ PaidByQuoting'
  BY <1>1, <1>2, <1>3 DEF Settled, UnbornBlank, PaidByQuoting
<1>7. NotYetActivated' /\ PlanActivatedOnce'
  BY <1>1, <1>2, <1>3 DEF Settled, NotYetActivated, PlanActivatedOnce, Quoted
<1>8. \A q \in Payments : Payable(q)' <=> Payable(q) BY <1>1 DEF Payable
<1>9. CheckoutStands' /\ OnePaymentPerPurchase'
  BY <1>1, <1>8 DEF Settled, CheckoutStands, OnePaymentPerPurchase
<1>10. SharingStands' /\ SharedMemberOwesNothing'
  BY <1>1 DEF Settled, SharingStands, SharedMemberOwesNothing
<1>11. AcknowledgedIsSettled'
  BY <1>1, <1>2, <1>3 DEF Settled, AcknowledgedIsSettled
<1>12. QED BY <1>5, <1>6, <1>7, <1>9, <1>10, <1>11 DEF Settled

LEMMA WorldKeeps ==
    ASSUME TypeOK, Settled,
           \/ \E p \in Payments : CancelPayment(p) \/ Lapse(p)
           \/ AcceptInvitation \/ LeaveSharedPlan
           \/ \E t \in Transfers, p \in Payments, full \in BOOLEAN : Transfer(t, p, full)
           \/ \E o \in Offers : ToggleSale(o)
    PROVE  Settled'
<1> USE DEF planVars, webhookVars, requestVars, bankVars
<1>1. ASSUME NEW p \in Payments, CancelPayment(p) PROVE Settled'
  <2>1. status[p] # "none" /\ AcksSettled BY <1>1 DEF CancelPayment, AcksSettled
  <2>2. QED BY <1>1, <2>1, CancelKeeps DEF CancelPayment
<1>2. ASSUME NEW p \in Payments, Lapse(p) PROVE Quiet /\ AcksSettled
  BY <1>2 DEF Lapse, Quiet, AcksSettled
<1>3. ASSUME NEW o \in Offers, ToggleSale(o) PROVE Quiet /\ AcksSettled
  BY <1>3 DEF ToggleSale, Quiet, AcksSettled, paymentVars
<1>4. QED BY <1>1, <1>2, <1>3, QuietKeeps, AcceptKeeps, LeaveKeeps, TransferKeeps

-----------------------------------------------------------------------------
(* No payment is ever deleted *)

Lasts == \A p \in Payments : status[p] # "none" => status'[p] # "none"

LEMMA PaymentsLast ==
    ASSUME TypeOK, Settled, WrittenExist, Next
    PROVE  Lasts
<1>1. ASSUME NEW p \in Payments, NEW s \in {"pending", "paid", "cancelled"},
             status' = [status EXCEPT ![p] = s]
      PROVE  Lasts
  BY <1>1 DEF TypeOK, Lasts
<1>2. ASSUME status' = status PROVE Lasts BY <1>2 DEF Lasts
<1>3. ASSUME NEW r \in Requests, Checkout(r) \/ RequestDies(r) PROVE Lasts
  <2>1. ASSUME NEW p \in Payments, InsertPending(r, p) PROVE Lasts
    BY <1>1, <2>1 DEF InsertPending
  <2>2. ASSUME ~\E p \in Payments : InsertPending(r, p) PROVE status' = status
    BY <1>3, <2>2 DEF Checkout, BeginCreate, Wish, CheckSubscribe, SubscribeFree, RequestDies,
                      paymentVars
  <2>3. QED BY <1>2, <2>1, <2>2
<1>4. ASSUME NEW w \in Webhooks, Webhook(w) \/ WebhookDies(w) PROVE Lasts
  <2>1. ASSUME CancelLate(w) \/ Activate(w) PROVE Lasts
    <3>1. Quoted(w) \in Payments
      <4>1. HandledQuotes /\ at[w] # "idle" BY <2>1 DEF CancelLate, Activate, Pay, Settled
      <4>2. QED BY <4>1, UnderWay
    <3>2. QED BY <1>1, <2>1, <3>1 DEF CancelLate, Activate, Pay
  <2>2. ASSUME ~CancelLate(w), ~Activate(w) PROVE status' = status
    BY <1>4, <2>2 DEF Webhook, Receive, ReceiveAgain, Ignore, Load, Judge, ActivationFails,
                      WebhookDies, paymentVars
  <2>3. QED BY <1>2, <2>1, <2>2
<1>5. ASSUME NEW e \in Expirers, Expire(e) \/ ExpirerDies(e) PROVE Lasts
  <2>1. ASSUME CancelExpired(e) PROVE Lasts
    <3>1. writing[e] \in Payments BY <2>1 DEF CancelExpired, TypeOK
    <3>2. QED BY <1>1, <2>1, <3>1 DEF CancelExpired
  <2>2. ASSUME ~CancelExpired(e) PROVE status' = status
    BY <1>5, <2>2 DEF Expire, ListExpired, SkipSettled, ReadExpired, ExpirerDies, paymentVars
  <2>3. QED BY <1>2, <2>1, <2>2
<1>6. ASSUME NEW p \in Payments, CancelPayment(p) \/ Lapse(p) PROVE Lasts
  <2>1. CASE CancelPayment(p) BY <1>1, <2>1 DEF CancelPayment
  <2>2. CASE Lapse(p) BY <1>2, <2>2 DEF Lapse
  <2>3. QED BY <1>6, <2>1, <2>2
<1>7. CASE AcceptInvitation
  <2>1. \A p \in Payments :
           status'[p] = IF status[p] = "pending" THEN "cancelled" ELSE status[p]
    BY <1>7 DEF AcceptInvitation, Join
  <2>2. QED BY <2>1 DEF Lasts
<1>8. CASE LeaveSharedPlan BY <1>2, <1>8 DEF LeaveSharedPlan, paymentVars
<1>9. ASSUME NEW t \in Transfers, NEW p \in Payments, NEW full \in BOOLEAN, Transfer(t, p, full)
      PROVE  Lasts
  BY <1>2, <1>9 DEF Transfer, paymentVars
<1>10. ASSUME NEW o \in Offers, ToggleSale(o) PROVE Lasts BY <1>2, <1>10 DEF ToggleSale, paymentVars
<1>11. QED BY <1>3, <1>4, <1>5, <1>6, <1>7, <1>8, <1>9, <1>10 DEF Next

LEMMA WrittenExistKeeps ==
    ASSUME TypeOK, Settled, WrittenExist, Next PROVE WrittenExist'
<1>1. \A e \in Expirers : writing'[e] # Nothing =>
         writing'[e] \in Payments /\ status[writing'[e]] # "none"
  <2>1. \A e \in Expirers : writing[e] # Nothing => writing[e] \in Payments BY DEF TypeOK
  <2>2. CASE writing' = writing BY <2>1, <2>2 DEF WrittenExist
  <2>3. ASSUME NEW e \in Expirers, Expire(e) \/ ExpirerDies(e)
        PROVE  \A x \in Expirers : writing'[x] # Nothing =>
                 writing'[x] \in Payments /\ status[writing'[x]] # "none"
    BY <2>1, <2>3 DEF TypeOK, WrittenExist, Expire, ListExpired, SkipSettled, ReadExpired,
                      CancelExpired, ExpirerDies
  <2>4. CASE ~\E e \in Expirers : Expire(e) \/ ExpirerDies(e)
    <3>1. writing' = writing
      BY <2>4 DEF Next, Checkout, BeginCreate, Wish, InsertPending, CheckSubscribe, SubscribeFree,
                  RequestDies, Webhook, Receive, ReceiveAgain, Ignore, Load, Judge, CancelLate,
                  Activate, Pay, ActivationFails, WebhookDies, CancelPayment, Lapse,
                  AcceptInvitation, Join, LeaveSharedPlan, Transfer, ToggleSale, expirerVars
    <3>2. QED BY <2>2, <3>1
  <2>5. QED BY <2>3, <2>4
<1>2. QED BY <1>1, PaymentsLast DEF WrittenExist, Lasts

-----------------------------------------------------------------------------
(* The theorems *)

LEMMA StepInv == BillingInv /\ [Next]_vars => BillingInv'
<1> SUFFICES ASSUME BillingInv, [Next]_vars PROVE BillingInv'
  OBVIOUS
<1>1. TypeOK /\ Settled /\ WrittenExist /\ HandledQuotes BY DEF BillingInv, Settled
<1>2. CASE Next
  <2>1. TypeOK'
    BY <1>1, <1>2, CheckoutTypes, WebhookTypes, ExpireTypes, WorldTypes DEF Next
  <2>2. Settled'
    BY <1>1, <1>2, RequestKeeps, WebhookKeeps, ExpireKeeps, WorldKeeps DEF Next
  <2>3. QED BY <1>1, <1>2, <2>1, <2>2, WrittenExistKeeps DEF BillingInv
<1>3. CASE UNCHANGED vars
  <2>1. TypeOK' /\ WrittenExist'
    BY <1>1, <1>3 DEF TypeOK, WrittenExist, vars, paymentVars, planVars, webhookVars, requestVars,
                      expirerVars, bankVars
  <2>2. Quiet /\ AcksSettled
    BY <1>3 DEF Quiet, AcksSettled, vars, paymentVars, planVars, webhookVars, requestVars, bankVars
  <2>3. QED BY <1>1, <2>1, <2>2, QuietKeeps DEF BillingInv
<1>4. QED BY <1>2, <1>3

THEOREM InvariantHolds == Spec => []BillingInv
BY InitInv, StepInv, PTL DEF Spec

\* Types of payments, plans, handlers and locks, for any number of each; in particular the
\* membership lock is held by exactly the handler between its check and its commit.
THEOREM TypeCorrect == Spec => []TypeOK
<1>1. BillingInv => TypeOK BY DEF BillingInv
<1>2. QED BY <1>1, InvariantHolds, PTL

\* However often SePay delivers and the user transfers, and whatever the expiration worker
\* overwrites: a payment becomes a plan at most once, and a transfer pays one payment.
THEOREM NoSecondPlan == Spec => []PlanActivatedOnce
<1>1. BillingInv => PlanActivatedOnce BY DEF BillingInv, Settled
<1>2. QED BY <1>1, InvariantHolds, PTL

\* Concurrent checkouts never leave two payable codes for one offer, nor two payments with
\* one idempotency key.
THEOREM NoSecondPayment == Spec => []OnePaymentPerPurchase
<1>1. BillingInv => OnePaymentPerPurchase BY DEF BillingInv, Settled
<1>2. QED BY <1>1, InvariantHolds, PTL

\* Who shares a plan has no plan of his own and no payment that could still buy one.
THEOREM SharingOwesNothing == Spec => []SharedMemberOwesNothing
<1>1. BillingInv => SharedMemberOwesNothing BY DEF BillingInv, Settled
<1>2. QED BY <1>1, InvariantHolds, PTL

\* A transfer of enough money is acknowledged only when its payment is settled.
THEOREM AcknowledgedSettled == Spec => []AcknowledgedIsSettled
<1>1. BillingInv => AcknowledgedIsSettled BY DEF BillingInv, Settled
<1>2. QED BY <1>1, InvariantHolds, PTL

-----------------------------------------------------------------------------
(* Billing implements PlanPurchases *)

\* A payment that a transfer paid has become a plan.
PaidIsActivated == \A p \in Payments : paidBy[p] # Nothing => activations[p] > 0

\* What no step of PlanPurchases has to explain.
Unnoticed == UNCHANGED <<status, paidBy, own, shared>>

LEMMA UnnoticedStutters ==
    ASSUME Unnoticed PROVE UNCHANGED Purchases!purchaseVars
BY DEF Unnoticed, Purchases!purchaseVars

\* Cancelling a payment that exists, whatever its status is by then.
LEMMA CancelImplements ==
    ASSUME TypeOK, NEW p \in Payments, status[p] # "none",
           status' = [status EXCEPT ![p] = "cancelled"], UNCHANGED <<paidBy, own, shared>>
    PROVE  [Purchases!Next]_(Purchases!purchaseVars)
<1> DEFINE ordered == {q \in Payments : status[q] # "none"}
           open == {q \in Payments : status[q] = "pending"}
<1>1. ordered' = ordered /\ open' = open \ {p} BY DEF TypeOK
<1>2. CASE status[p] = "pending"
  <2>1. Purchases!Cancel(p) BY <1>1, <1>2 DEF Purchases!Cancel
  <2>2. QED BY <2>1 DEF Purchases!Next
<1>3. CASE status[p] # "pending"
  <2>1. open' = open BY <1>1, <1>3
  <2>2. QED BY <1>1, <2>1 DEF Purchases!purchaseVars
<1>4. QED BY <1>2, <1>3

LEMMA InsertImplements ==
    ASSUME BillingInv, NEW r \in Requests, NEW p \in Payments, InsertPending(r, p)
    PROVE  Purchases!Next
<1>1. /\ status[p] = "none" /\ status' = [status EXCEPT ![p] = "pending"]
      /\ doing[r] = "creating" /\ UNCHANGED <<paidBy, own, shared>>
  BY DEF InsertPending, planVars
<1>2. ~shared BY <1>1 DEF BillingInv, Settled, SharingStands
<1>3. /\ {q \in Payments : status[q] # "none"}' = {q \in Payments : status[q] # "none"} \cup {p}
      /\ {q \in Payments : status[q] = "pending"}' = {q \in Payments : status[q] = "pending"} \cup {p}
  BY <1>1 DEF BillingInv, TypeOK
<1>4. Purchases!Order(p) BY <1>1, <1>2, <1>3 DEF Purchases!Order
<1>5. QED BY <1>4 DEF Purchases!Next

\* An activation buys: the payment has not been paid yet, and its transfer pays no other.
LEMMA ActivateImplements ==
    ASSUME BillingInv, PaidIsActivated, NEW w \in Webhooks, Activate(w)
    PROVE  Purchases!Next
<1>1. HandledQuotes /\ at[w] # "idle" BY DEF Activate, Pay, BillingInv, Settled
<1>2. PICK p \in Payments, t \in Transfers : p = Quoted(w) /\ t = handles[w]
  BY <1>1, UnderWay DEF BillingInv
<1>3. /\ at[w] = "accepted" /\ own' = {p} /\ shared' = shared
      /\ status' = [status EXCEPT ![p] = "paid"] /\ paidBy' = [paidBy EXCEPT ![p] = t]
  BY <1>2 DEF Activate, Pay
<1>4. status[p] # "none" /\ quotes[t] = p /\ activations[p] = 0 /\ ~shared
  <2>1. status[p] # "none" BY <1>1, <1>2, UnderWay DEF BillingInv
  <2>2. activations[p] = 0 /\ ~shared
    BY <1>2, <1>3 DEF BillingInv, Settled, NotYetActivated, SharingStands
  <2>3. QED BY <1>2, <2>1, <2>2 DEF Quoted
<1>5. paidBy[p] = Nothing BY <1>4 DEF PaidIsActivated
<1>6. \A q \in Payments : paidBy[q] # t
  <2>1. t # Nothing BY NamesAssumption DEF Nothing
  <2>2. ASSUME NEW q \in Payments, paidBy[q] = t PROVE FALSE
    BY <1>4, <1>5, <2>1, <2>2 DEF BillingInv, Settled, PaidByQuoting
  <2>3. QED BY <2>2
<1>7. /\ {q \in Payments : status[q] # "none"}' = {q \in Payments : status[q] # "none"}
      /\ {q \in Payments : status[q] = "pending"}' = {q \in Payments : status[q] = "pending"} \ {p}
  BY <1>3, <1>4 DEF BillingInv, TypeOK
<1>8. Purchases!Buy(p, t) BY <1>3, <1>4, <1>5, <1>6, <1>7 DEF Purchases!Buy
<1>9. QED BY <1>8 DEF Purchases!Next

LEMMA RequestImplements ==
    ASSUME BillingInv, NEW r \in Requests, Checkout(r) \/ RequestDies(r)
    PROVE  [Purchases!Next]_(Purchases!purchaseVars)
<1>1. ASSUME NEW p \in Payments, InsertPending(r, p) PROVE Purchases!Next
  BY <1>1, InsertImplements
<1>2. CASE SubscribeFree(r)
  <2>1. /\ UNCHANGED <<status, paidBy, shared>> /\ doing[r] \in {"default", "free"}
        /\ own' = IF shared THEN own ELSE {doing[r]}
    BY <1>2 DEF SubscribeFree, paymentVars, FreePlans
  <2>2. CASE shared BY <2>1, <2>2, UnnoticedStutters DEF Unnoticed
  <2>3. CASE ~shared
    <3>1. Purchases!ChooseFree(doing[r]) BY <2>1, <2>3 DEF Purchases!ChooseFree
    <3>2. QED BY <2>1, <3>1 DEF Purchases!Next
  <2>4. QED BY <2>2, <2>3
<1>3. CASE \/ \E o \in Offers, k \in Keys \cup {NoKey} : BeginCreate(r, o, k)
           \/ \E f \in FreePlans : CheckSubscribe(r, f)
           \/ RequestDies(r)
  BY <1>3, UnnoticedStutters DEF Unnoticed, BeginCreate, Wish, CheckSubscribe, RequestDies,
     paymentVars, planVars
<1>4. QED BY <1>1, <1>2, <1>3 DEF Checkout

LEMMA WebhookImplements ==
    ASSUME BillingInv, PaidIsActivated, NEW w \in Webhooks, Webhook(w) \/ WebhookDies(w)
    PROVE  [Purchases!Next]_(Purchases!purchaseVars)
<1>1. CASE Activate(w) BY <1>1, ActivateImplements
<1>2. CASE CancelLate(w)
  <2>1. HandledQuotes /\ at[w] # "idle" BY <1>2 DEF CancelLate, BillingInv, Settled
  <2>2. Quoted(w) \in Payments /\ status[Quoted(w)] # "none"
    BY <2>1, UnderWay DEF Quoted, BillingInv
  <2>3. status' = [status EXCEPT ![Quoted(w)] = "cancelled"] /\ UNCHANGED <<paidBy, own, shared>>
    BY <1>2 DEF CancelLate, planVars
  <2>4. QED BY <2>2, <2>3, CancelImplements DEF BillingInv
<1>3. CASE \/ \E t \in Transfers : Receive(w, t) \/ ReceiveAgain(w, t)
           \/ Ignore(w) \/ Load(w) \/ ActivationFails(w) \/ WebhookDies(w)
  BY <1>3, UnnoticedStutters DEF Unnoticed, Receive, ReceiveAgain, Ignore, Load, Judge,
     ActivationFails, WebhookDies, paymentVars, planVars
<1>4. QED BY <1>1, <1>2, <1>3 DEF Webhook

LEMMA WorldImplements ==
    ASSUME BillingInv,
           \/ \E e \in Expirers : Expire(e) \/ ExpirerDies(e)
           \/ \E p \in Payments : CancelPayment(p) \/ Lapse(p)
           \/ AcceptInvitation \/ LeaveSharedPlan
           \/ \E t \in Transfers, p \in Payments, full \in BOOLEAN : Transfer(t, p, full)
           \/ \E o \in Offers : ToggleSale(o)
    PROVE  [Purchases!Next]_(Purchases!purchaseVars)
<1>1. ASSUME NEW e \in Expirers, CancelExpired(e)
      PROVE  [Purchases!Next]_(Purchases!purchaseVars)
  <2>1. writing[e] \in Payments /\ status[writing[e]] # "none"
    BY <1>1 DEF CancelExpired, WrittenExist, BillingInv, TypeOK
  <2>2. QED BY <1>1, <2>1, CancelImplements DEF CancelExpired, BillingInv, planVars
<1>2. ASSUME NEW p \in Payments, CancelPayment(p)
      PROVE  [Purchases!Next]_(Purchases!purchaseVars)
  BY <1>2, CancelImplements DEF CancelPayment, BillingInv, planVars
<1>3. CASE AcceptInvitation
  <2>1. /\ ~shared /\ shared' = TRUE /\ own' = {} /\ UNCHANGED paidBy
        /\ \A p \in Payments :
             status'[p] = IF status[p] = "pending" THEN "cancelled" ELSE status[p]
    BY <1>3 DEF AcceptInvitation, Join
  <2>2. /\ {q \in Payments : status[q] # "none"}' = {q \in Payments : status[q] # "none"}
        /\ {q \in Payments : status[q] = "pending"}' = {}
    BY <2>1
  <2>3. Purchases!Join BY <2>1, <2>2 DEF Purchases!Join
  <2>4. QED BY <2>3 DEF Purchases!Next
<1>4. CASE LeaveSharedPlan
  <2>1. Purchases!Leave BY <1>4 DEF LeaveSharedPlan, Purchases!Leave, paymentVars
  <2>2. QED BY <2>1 DEF Purchases!Next
<1>5. CASE \/ \E e \in Expirers :
                 \/ ListExpired(e) \/ ExpirerDies(e)
                 \/ \E p \in Payments : SkipSettled(e, p) \/ ReadExpired(e, p)
           \/ \E p \in Payments : Lapse(p)
           \/ \E t \in Transfers, p \in Payments, full \in BOOLEAN : Transfer(t, p, full)
           \/ \E o \in Offers : ToggleSale(o)
  BY <1>5, UnnoticedStutters DEF Unnoticed, ListExpired, ExpirerDies, SkipSettled, ReadExpired,
     Lapse, Transfer, ToggleSale, paymentVars, planVars
<1>6. QED BY <1>1, <1>2, <1>3, <1>4, <1>5 DEF Expire

\* Only an activation pays, and it counts.
LEMMA PaidIsActivatedKept ==
    ASSUME BillingInv, PaidIsActivated, [Next]_vars PROVE PaidIsActivated'
<1>1. CASE UNCHANGED <<paidBy, activations>> BY <1>1 DEF PaidIsActivated
<1>2. ASSUME NEW w \in Webhooks, Activate(w) PROVE PaidIsActivated'
  <2>1. Quoted(w) \in Payments
    <3>1. HandledQuotes /\ at[w] # "idle" BY <1>2 DEF Activate, Pay, BillingInv, Settled
    <3>2. QED BY <3>1, UnderWay DEF BillingInv
  <2>2. /\ paidBy' = [paidBy EXCEPT ![Quoted(w)] = handles[w]]
        /\ activations' = [activations EXCEPT ![Quoted(w)] = @ + 1]
    BY <1>2 DEF Activate, Pay
  <2> HIDE DEF Quoted
  <2>3. QED BY <2>1, <2>2 DEF PaidIsActivated, BillingInv, TypeOK
<1>3. CASE Next /\ ~\E w \in Webhooks : Activate(w)
  BY <1>1, <1>3 DEF Next, Checkout, BeginCreate, Wish, InsertPending, CheckSubscribe, SubscribeFree,
     RequestDies, Webhook, Receive, ReceiveAgain, Ignore, Load, Judge, CancelLate,
     ActivationFails, WebhookDies, Expire, ListExpired, SkipSettled, ReadExpired, CancelExpired,
     ExpirerDies, CancelPayment, Lapse, AcceptInvitation, Join, LeaveSharedPlan, Transfer,
     ToggleSale, paymentVars
<1>4. CASE UNCHANGED vars BY <1>1, <1>4 DEF vars, paymentVars
<1>5. QED BY <1>2, <1>3, <1>4

\* Billing implements PlanPurchases: seen from payments, plan and membership, each
\* operation takes place in one step, or not at all.
THEOREM BillingImplementsPurchases == Spec => ImplementsPurchases
<1>1. Init => PaidIsActivated /\ Purchases!Init
  BY DEF Init, PaidIsActivated, Purchases!Init
<1>2. BillingInv /\ PaidIsActivated /\ [Next]_vars
        => PaidIsActivated' /\ [Purchases!Next]_(Purchases!purchaseVars)
  <2> SUFFICES ASSUME BillingInv, PaidIsActivated, [Next]_vars
               PROVE  [Purchases!Next]_(Purchases!purchaseVars)
    BY PaidIsActivatedKept
  <2>1. CASE UNCHANGED vars
    BY <2>1, UnnoticedStutters DEF Unnoticed, vars, paymentVars, planVars
  <2>2. QED BY <2>1, RequestImplements, WebhookImplements, WorldImplements DEF Next
<1>3. QED BY <1>1, <1>2, InvariantHolds, PTL DEF Spec, ImplementsPurchases, Purchases!Spec

=============================================================================
