------------------------------- MODULE Billing -------------------------------
(***************************************************************************)
(* Buying a plan: PaymentService (checkout, cancellation, SePay webhook),  *)
(* PaymentExpirationWorker, and the operations of PlanService that replace *)
(* the user's own plan.                                                    *)
(*                                                                         *)
(* Everything concerns one user, hence one advisory lock                   *)
(* "plan-membership:<user>".  A transfer is a bank transfer, with its own  *)
(* SePay id, that quotes the code of a payment.  Each handler runs in a    *)
(* transaction: what it reads and what it writes are separate steps.       *)
(***************************************************************************)
EXTENDS Naturals, FiniteSets

CONSTANTS
    Payments,     \* payments rows the user may come to have
    Offers,       \* what may be bought: a paid plan with or without auto-renewal
    Keys,         \* idempotency keys; a request may also come without one
    Transfers,    \* bank transfers, by SePay id
    Webhooks,     \* webhook requests being handled
    Requests,     \* requests of the user being handled
    Expirers,     \* PaymentExpirationWorker loops, one per API instance
    MaxFaults     \* bound: dead handlers and lost responses

ASSUME BillingAssumption ==
    /\ IsFiniteSet(Payments)
    /\ "default" \notin Payments /\ "free" \notin Payments
    /\ MaxFaults \in Nat

ASSUME NamesAssumption ==   \* what stands for nothing is nobody's name
    /\ Webhooks \cap Requests = {} /\ "nobody" \notin Webhooks \cup Requests
    /\ "nothing" \notin Payments \cup Transfers
    /\ "noOffer" \notin Offers
    /\ "noKey" \notin Keys

NoKey     == "noKey"
NoOffer   == "noOffer"
Nobody    == "nobody"
Nothing   == "nothing"
FreePlans == {"default", "free"}   \* the default plan and another one without a price

VARIABLES
    status,       \* payment -> status, "none" before the row exists
    offer,        \* payment -> what it buys
    key,          \* payment -> idempotency_key
    lapsed,       \* payments whose expires_at has passed
    paidBy,       \* payment -> sepay_transaction_id
    own,          \* the user's active plan_histories: a payment, or a free plan
    shared,       \* the user is an accepted member of somebody else's plan
    onSale,       \* offers whose plan is active in the catalogue
    lock,         \* who holds plan-membership:<user>
    at,           \* webhook -> how far it is
    handles,      \* webhook -> the transfer it is about
    doing,        \* request -> how far it is, or the free plan it found it may subscribe to
    wish,         \* request -> offer and key of the checkout
    todo,         \* expirer -> candidates of its batch still to visit
    writing,      \* expirer -> the candidate it read as pending
    quotes,       \* transfer -> the payment whose code it quotes
    enough,       \* transfers of at least the amount
    acked,        \* transfers SePay knows to be handled
    faults,       \* faults so far
    activations   \* history: payment -> plan histories created for it

paymentVars == <<status, offer, key, lapsed, paidBy>>
planVars    == <<own, shared, onSale>>
webhookVars == <<at, handles>>
requestVars == <<doing, wish>>
expirerVars == <<todo, writing>>
bankVars    == <<quotes, enough, acked>>
vars == <<paymentVars, planVars, lock, webhookVars, requestVars, expirerVars, bankVars,
          faults, activations>>

TypeOK ==
    /\ status \in [Payments -> {"none", "pending", "paid", "cancelled"}]
    /\ offer \in [Payments -> Offers \cup {NoOffer}]
    /\ key \in [Payments -> Keys \cup {NoKey}]
    /\ lapsed \in SUBSET Payments
    /\ paidBy \in [Payments -> Transfers \cup {Nothing}]
    /\ own \in SUBSET (Payments \cup FreePlans)
    /\ shared \in BOOLEAN
    /\ onSale \in SUBSET Offers
    /\ lock \in Webhooks \cup Requests \cup {Nobody}
    /\ at \in [Webhooks -> {"idle", "found", "accepted", "late"}]
    /\ handles \in [Webhooks -> Transfers \cup {Nothing}]
    /\ doing \in [Requests -> {"idle", "creating"} \cup FreePlans]
    /\ wish \in [Requests -> (Offers \cup {NoOffer}) \X (Keys \cup {NoKey})]
    /\ todo \in [Expirers -> SUBSET Payments]
    /\ writing \in [Expirers -> Payments \cup {Nothing}]
    /\ quotes \in [Transfers -> Payments \cup {Nothing}]
    /\ enough \in SUBSET Transfers
    /\ acked \in SUBSET Transfers
    /\ faults \in 0..MaxFaults
    /\ activations \in [Payments -> Nat]
    /\ \A w \in Webhooks : lock = w <=> at[w] \in {"accepted", "late"}
    /\ \A r \in Requests : lock = r <=> doing[r] = "creating"

Init ==
    /\ status = [p \in Payments |-> "none"]
    /\ offer = [p \in Payments |-> NoOffer]
    /\ key = [p \in Payments |-> NoKey]
    /\ lapsed = {}
    /\ paidBy = [p \in Payments |-> Nothing]
    /\ own = {"default"}
    /\ shared = FALSE
    /\ onSale = Offers
    /\ lock = Nobody
    /\ at = [w \in Webhooks |-> "idle"]
    /\ handles = [w \in Webhooks |-> Nothing]
    /\ doing = [r \in Requests |-> "idle"]
    /\ wish = [r \in Requests |-> <<NoOffer, NoKey>>]
    /\ todo = [e \in Expirers |-> {}]
    /\ writing = [e \in Expirers |-> Nothing]
    /\ quotes = [t \in Transfers |-> Nothing]
    /\ enough = {}
    /\ acked = {}
    /\ faults = 0
    /\ activations = [p \in Payments |-> 0]

Payable(p) == status[p] = "pending" /\ p \notin lapsed

Fault == faults < MaxFaults /\ faults' = faults + 1

-----------------------------------------------------------------------------
(* CreatePendingPaymentAsync: a key seen before returns its payment or is   *)
(* refused, a payable payment for the same offer is returned again; only    *)
(* otherwise is a payment inserted.                                         *)

MayCreate(o, k) ==
    /\ ~shared
    /\ o \in onSale
    /\ k # NoKey => \A p \in Payments : key[p] # k
    /\ ~\E p \in Payments : offer[p] = o /\ Payable(p)

Wish(r, o, k) ==
    /\ doing[r] = "idle"
    /\ MayCreate(o, k)
    /\ lock' = r
    /\ doing' = [doing EXCEPT ![r] = "creating"]
    /\ wish' = [wish EXCEPT ![r] = <<o, k>>]
    /\ UNCHANGED <<paymentVars, planVars, webhookVars, expirerVars, bankVars, faults, activations>>

(* Mutant: checkout without the membership lock.                            *)
BeginCreateUnlocked(r, o, k) == Wish(r, o, k)

BeginCreate(r, o, k) == lock = Nobody /\ Wish(r, o, k)

EndRequest(r) ==
    /\ lock' = IF lock = r THEN Nobody ELSE lock
    /\ doing' = [doing EXCEPT ![r] = "idle"]
    /\ wish' = [wish EXCEPT ![r] = <<NoOffer, NoKey>>]

InsertPending(r, p) ==
    /\ doing[r] = "creating"
    /\ status[p] = "none"
    /\ status' = [status EXCEPT ![p] = "pending"]
    /\ offer' = [offer EXCEPT ![p] = wish[r][1]]
    /\ key' = [key EXCEPT ![p] = wish[r][2]]
    /\ EndRequest(r)
    /\ UNCHANGED <<lapsed, paidBy, planVars, webhookVars, expirerVars, bankVars, faults, activations>>

(* CancelAsync, under the lock; only a pending payment can be cancelled.    *)
CancelPayment(p) ==
    /\ lock = Nobody
    /\ status[p] = "pending"
    /\ status' = [status EXCEPT ![p] = "cancelled"]
    /\ UNCHANGED <<offer, key, lapsed, paidBy, planVars, lock, webhookVars, requestVars,
                   expirerVars, bankVars, faults, activations>>

RequestDies(r) ==           \* client gone or process dead: the transaction rolls back
    /\ doing[r] # "idle"
    /\ Fault
    /\ EndRequest(r)
    /\ UNCHANGED <<paymentVars, planVars, webhookVars, expirerVars, bankVars, activations>>

-----------------------------------------------------------------------------
(* HandleSepayWebhookAsync                                                 *)

EndWebhook(w) ==
    /\ at' = [at EXCEPT ![w] = "idle"]
    /\ handles' = [handles EXCEPT ![w] = Nothing]
    /\ lock' = IF lock = w THEN Nobody ELSE lock

Answer(w, t) ==             \* true: SePay stops; or the response is lost and it retries
    /\ EndWebhook(w)
    /\ \/ acked' = acked \cup {t} /\ UNCHANGED faults
       \/ Fault /\ UNCHANGED acked

Delivered(t) == quotes[t] # Nothing /\ t \notin acked

Processed(t) == \E p \in Payments : status[p] = "paid" /\ paidBy[p] = t

(* Lock sepay:<id>; a transfer that has paid is not looked at again.        *)
Receive(w, t) ==
    /\ at[w] = "idle"
    /\ Delivered(t)
    /\ \A other \in Webhooks : handles[other] # t
    /\ ~Processed(t)
    /\ at' = [at EXCEPT ![w] = "found"]
    /\ handles' = [handles EXCEPT ![w] = t]
    /\ UNCHANGED <<paymentVars, planVars, lock, requestVars, expirerVars, bankVars, faults, activations>>

ReceiveAgain(w, t) ==
    /\ at[w] = "idle"
    /\ Delivered(t)
    /\ \A other \in Webhooks : handles[other] # t
    /\ Processed(t)
    /\ Answer(w, t)
    /\ UNCHANGED <<paymentVars, planVars, requestVars, expirerVars, quotes, enough, activations>>

Quoted(w) == quotes[handles[w]]

(* Lock plan-membership:<user> and reload the payment: too little money, or *)
(* a payment that is no longer pending, is acknowledged without effect.     *)
Ignore(w) ==
    /\ at[w] = "found"
    /\ lock = Nobody
    /\ handles[w] \notin enough \/ status[Quoted(w)] # "pending"
    /\ Answer(w, handles[w])
    /\ UNCHANGED <<paymentVars, planVars, requestVars, expirerVars, quotes, enough, activations>>

Judge(w) ==
    /\ at[w] = "found"
    /\ handles[w] \in enough
    /\ status[Quoted(w)] = "pending"
    /\ at' = [at EXCEPT ![w] = IF Quoted(w) \in lapsed THEN "late" ELSE "accepted"]
    /\ lock' = w
    /\ UNCHANGED <<paymentVars, planVars, handles, requestVars, expirerVars, bankVars, faults, activations>>

(* Mutant: the payment is judged without the membership lock.               *)
LoadUnlocked(w) == Judge(w)

Load(w) == lock = Nobody /\ Judge(w)

CancelLate(w) ==
    /\ at[w] = "late"
    /\ status' = [status EXCEPT ![Quoted(w)] = "cancelled"]
    /\ Answer(w, handles[w])
    /\ UNCHANGED <<offer, key, lapsed, paidBy, planVars, requestVars, expirerVars, quotes, enough,
                   activations>>

(* ActivatePaidPlanAsync and the payment row, in one commit.                *)
Pay(w, plans) ==
    /\ at[w] = "accepted"
    /\ offer[Quoted(w)] \in onSale
    /\ own' = plans
    /\ status' = [status EXCEPT ![Quoted(w)] = "paid"]
    /\ paidBy' = [paidBy EXCEPT ![Quoted(w)] = handles[w]]
    /\ activations' = [activations EXCEPT ![Quoted(w)] = @ + 1]
    /\ Answer(w, handles[w])
    /\ UNCHANGED <<offer, key, lapsed, shared, onSale, requestVars, expirerVars, quotes, enough>>

(* Mutant: the plans active before are not expired.                         *)
ActivateBeside(w) == Pay(w, own \cup {Quoted(w)})

Activate(w) == Pay(w, {Quoted(w)})

(* The plan was archived meanwhile, an exception, or the process dies: all  *)
(* is rolled back, and SePay delivers again.                                *)
ActivationFails(w) ==
    /\ at[w] = "accepted"
    /\ offer[Quoted(w)] \notin onSale
    /\ EndWebhook(w)
    /\ UNCHANGED <<paymentVars, planVars, requestVars, expirerVars, bankVars, faults, activations>>

(* Mutant: the transfer is acknowledged before the transaction commits.     *)
WebhookDiesAcked(w) ==
    /\ at[w] # "idle"
    /\ Fault
    /\ EndWebhook(w)
    /\ acked' = acked \cup {handles[w]}
    /\ UNCHANGED <<paymentVars, planVars, requestVars, expirerVars, quotes, enough, activations>>

WebhookDies(w) ==
    /\ at[w] # "idle"
    /\ Fault
    /\ EndWebhook(w)
    /\ UNCHANGED <<paymentVars, planVars, requestVars, expirerVars, bankVars, activations>>

-----------------------------------------------------------------------------
(* PaymentExpirationWorker.  Its lock key is the bare user id: it keeps the *)
(* workers apart from each other, and from nobody else.                     *)

ListExpired(e) ==
    /\ todo[e] = {}
    /\ \E C \in SUBSET {p \in lapsed : status[p] = "pending"} :
         C # {} /\ todo' = [todo EXCEPT ![e] = C]
    /\ UNCHANGED <<paymentVars, planVars, lock, webhookVars, requestVars, writing, bankVars,
                   faults, activations>>

NoneWriting == \A e \in Expirers : writing[e] = Nothing

SkipSettled(e, p) ==
    /\ p \in todo[e]
    /\ NoneWriting
    /\ status[p] # "pending"
    /\ todo' = [todo EXCEPT ![e] = @ \ {p}]
    /\ UNCHANGED <<paymentVars, planVars, lock, webhookVars, requestVars, writing, bankVars,
                   faults, activations>>

ReadExpired(e, p) ==
    /\ p \in todo[e]
    /\ NoneWriting
    /\ status[p] = "pending"
    /\ writing' = [writing EXCEPT ![e] = p]
    /\ UNCHANGED <<paymentVars, planVars, lock, webhookVars, requestVars, todo, bankVars,
                   faults, activations>>

(* UPDATE ... SET status = 'cancelled' WHERE payment_id = ..., whatever the *)
(* row says by now.                                                         *)
CancelExpired(e) ==
    /\ writing[e] # Nothing
    /\ status' = [status EXCEPT ![writing[e]] = "cancelled"]
    /\ writing' = [writing EXCEPT ![e] = Nothing]
    /\ todo' = [todo EXCEPT ![e] = @ \ {writing[e]}]
    /\ UNCHANGED <<offer, key, lapsed, paidBy, planVars, lock, webhookVars, requestVars,
                   bankVars, faults, activations>>

ExpirerDies(e) ==
    /\ todo[e] # {}
    /\ Fault
    /\ todo' = [todo EXCEPT ![e] = {}]
    /\ writing' = [writing EXCEPT ![e] = Nothing]
    /\ UNCHANGED <<paymentVars, planVars, lock, webhookVars, requestVars, bankVars, activations>>

-----------------------------------------------------------------------------
(* PlanService: the user's own plan, and membership of another's.           *)

(* SubscribeAsync to a plan without a price: everything but membership is   *)
(* checked before the transaction and the lock.                             *)
CheckSubscribe(r, f) ==
    /\ doing[r] = "idle"
    /\ ~shared
    /\ own \cap (Payments \cup {f}) = {}
    /\ doing' = [doing EXCEPT ![r] = f]
    /\ UNCHANGED <<paymentVars, planVars, lock, webhookVars, wish, expirerVars, bankVars,
                   faults, activations>>

SubscribeFree(r) ==
    /\ doing[r] \in FreePlans
    /\ lock = Nobody
    /\ own' = IF shared THEN own ELSE {doing[r]}
    /\ EndRequest(r)
    /\ UNCHANGED <<paymentVars, shared, onSale, webhookVars, expirerVars, bankVars, faults, activations>>

Join(settle) ==
    /\ lock = Nobody
    /\ ~shared
    /\ shared' = TRUE
    /\ own' = {}
    /\ status' = settle
    /\ UNCHANGED <<offer, key, lapsed, paidBy, onSale, lock, webhookVars, requestVars,
                   expirerVars, bankVars, faults, activations>>

(* Mutant: pending payments survive the acceptance.                         *)
AcceptKeepingPayments == Join(status)

(* AcceptInvitationAsync: own plans end and pending payments are cancelled. *)
AcceptInvitation ==
    Join([p \in Payments |-> IF status[p] = "pending" THEN "cancelled" ELSE status[p]])

LeaveSharedPlan ==          \* back to the default plan
    /\ lock = Nobody
    /\ shared
    /\ shared' = FALSE
    /\ own' = {"default"}
    /\ UNCHANGED <<paymentVars, onSale, lock, webhookVars, requestVars, expirerVars, bankVars,
                   faults, activations>>

-----------------------------------------------------------------------------
(* The bank, the catalogue and the clock                                   *)

Transfer(t, p, full) ==
    /\ quotes[t] = Nothing
    /\ status[p] # "none"
    /\ quotes' = [quotes EXCEPT ![t] = p]
    /\ enough' = IF full THEN enough \cup {t} ELSE enough
    /\ UNCHANGED <<paymentVars, planVars, lock, webhookVars, requestVars, expirerVars, acked,
                   faults, activations>>

ToggleSale(o) ==
    /\ Fault
    /\ onSale' = IF o \in onSale THEN onSale \ {o} ELSE onSale \cup {o}
    /\ UNCHANGED <<paymentVars, own, shared, lock, webhookVars, requestVars, expirerVars,
                   bankVars, activations>>

Lapse(p) ==
    /\ status[p] # "none"
    /\ p \notin lapsed
    /\ lapsed' = lapsed \cup {p}
    /\ UNCHANGED <<status, offer, key, paidBy, planVars, lock, webhookVars, requestVars,
                   expirerVars, bankVars, faults, activations>>

-----------------------------------------------------------------------------
Checkout(r) ==
    \/ \E o \in Offers, k \in Keys \cup {NoKey} : BeginCreate(r, o, k)
    \/ \E p \in Payments : InsertPending(r, p)
    \/ \E f \in FreePlans : CheckSubscribe(r, f)
    \/ SubscribeFree(r)

Webhook(w) ==
    \/ \E t \in Transfers : Receive(w, t) \/ ReceiveAgain(w, t)
    \/ Ignore(w)
    \/ Load(w)
    \/ CancelLate(w)
    \/ Activate(w)
    \/ ActivationFails(w)

Expire(e) ==
    \/ ListExpired(e)
    \/ \E p \in Payments : SkipSettled(e, p) \/ ReadExpired(e, p)
    \/ CancelExpired(e)

Next ==
    \/ \E r \in Requests : Checkout(r) \/ RequestDies(r)
    \/ \E w \in Webhooks : Webhook(w) \/ WebhookDies(w)
    \/ \E e \in Expirers : Expire(e) \/ ExpirerDies(e)
    \/ \E p \in Payments : CancelPayment(p) \/ Lapse(p)
    \/ AcceptInvitation
    \/ LeaveSharedPlan
    \/ \E t \in Transfers, p \in Payments, full \in BOOLEAN : Transfer(t, p, full)
    \/ \E o \in Offers : ToggleSale(o)

Spec == Init /\ [][Next]_vars

-----------------------------------------------------------------------------
(* Properties                                                              *)

\* Whatever is delivered twice, or transferred twice, a payment is turned into a plan at
\* most once, and two payments never share the transfer that paid them.
PlanActivatedOnce ==
    /\ \A p \in Payments : activations[p] <= 1
    /\ \A p, q \in Payments : paidBy[p] = paidBy[q] /\ p # q => paidBy[p] = Nothing

\* Repeated clicks, with or without an idempotency key, never leave the user with two
\* payable codes for one offer, nor two payments under one key.
OnePaymentPerPurchase ==
    \A p, q \in Payments : p # q =>
        /\ ~(Payable(p) /\ Payable(q) /\ offer[p] = offer[q])
        /\ key[p] = key[q] => key[p] = NoKey

\* Who shares somebody's plan has neither a plan of his own nor a payment that could still
\* buy one, although checkout, webhook and acceptance run concurrently.
SharedMemberOwesNothing ==
    shared => own = {} /\ \A p \in Payments : status[p] # "pending"

\* SePay is told to stop only when the payment is settled: a transfer of enough money is
\* never acknowledged while its payment stays pending.
AcknowledgedIsSettled ==
    \A t \in acked \cap enough : status[quotes[t]] # "pending"

\* Requests, webhooks and workers implement PlanPurchases, where each operation is one
\* step: whatever is retried, repeated, overtaken or killed between a check and its
\* commit, payments, the user's plan and shared membership change only as it says.
Purchases == INSTANCE PlanPurchases WITH
    ordered <- {p \in Payments : status[p] # "none"},
    open <- {p \in Payments : status[p] = "pending"},
    paidWith <- paidBy,
    plans <- own,
    member <- shared

ImplementsPurchases == Purchases!Spec

\* "không canceled nhưng active" (docs/BACKEND_TEST_SCENARIOS.md, B-PAYMENT.07): a payment
\* whose plan was activated does not end up cancelled.
ActivatedStaysPaid ==
    \A p \in Payments : activations[p] > 0 => status[p] = "paid"

=============================================================================
