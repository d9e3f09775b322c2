---------------------------- MODULE PlanPurchases ----------------------------
(***************************************************************************)
(* What buying a plan comes to for one user, without locks, requests,      *)
(* webhooks and workers: every operation is one step.  A payment is open   *)
(* until it is settled; it buys its plan once, with a transfer of its own, *)
(* and that plan replaces whatever the user had.  Who shares another's     *)
(* plan has none and owes nothing, and gets the default plan on leaving.   *)
(***************************************************************************)
CONSTANTS Payments, Transfers, Nothing

VARIABLES
    ordered,   \* payments that exist
    open,      \* payments not settled yet
    paidWith,  \* payment -> the transfer that bought its plan, or Nothing
    plans,     \* the user's own active plans: payments, "default" or "free"
    member     \* the user shares somebody else's plan

purchaseVars == <<ordered, open, paidWith, plans, member>>

Init ==
    /\ ordered = {} /\ open = {}
    /\ paidWith = [p \in Payments |-> Nothing]
    /\ plans = {"default"}
    /\ member = FALSE

Order(p) ==
    /\ ~member /\ p \notin ordered
    /\ ordered' = ordered \cup {p}
    /\ open' = open \cup {p}
    /\ UNCHANGED <<paidWith, plans, member>>

Cancel(p) ==
    /\ p \in open
    /\ open' = open \ {p}
    /\ UNCHANGED <<ordered, paidWith, plans, member>>

\* The payment may have been cancelled since the transfer was accepted: the
\* expiration worker does not wait for a webhook.
Buy(p, t) ==
    /\ ~member /\ p \in ordered
    /\ paidWith[p] = Nothing
    /\ \A q \in Payments : paidWith[q] # t
    /\ open' = open \ {p}
    /\ paidWith' = [paidWith EXCEPT ![p] = t]
    /\ plans' = {p}
    /\ UNCHANGED <<ordered, member>>

\* Nothing is required of the plan it replaces: the check may be out of date.
ChooseFree(f) ==
    /\ ~member
    /\ plans' = {f}
    /\ UNCHANGED <<ordered, open, paidWith, member>>

Join ==
    /\ ~member
    /\ member' = TRUE
    /\ plans' = {} /\ open' = {}
    /\ UNCHANGED <<ordered, paidWith>>

Leave ==
    /\ member
    /\ member' = FALSE
    /\ plans' = {"default"}
    /\ UNCHANGED <<ordered, open, paidWith>>

Next ==
    \/ \E p \in Payments : Order(p) \/ Cancel(p) \/ \E t \in Transfers : Buy(p, t)
    \/ \E f \in {"default", "free"} : ChooseFree(f)
    \/ Join \/ Leave

Spec == Init /\ [][Next]_purchaseVars
=============================================================================
