CONSTANTS
    p1 = p1
    p2 = p2
    o1 = o1
    k1 = k1
    t1 = t1
    t2 = t2
    h1 = h1
    h2 = h2
    r1 = r1
    r2 = r2
    x1 = x1
    x2 = x2
    Payments = {p1, p2}
    Offers = {o1}
    Keys = {k1}
    Transfers = {t1, t2}
    Webhooks = {h1, h2}
    Requests = {r1, r2}
    Expirers = {x1}
    MaxFaults = 1
SYMMETRY Symmetry
SPECIFICATION Spec
INVARIANTS PlanActivatedOnce OnePaymentPerPurchase SharedMemberOwesNothing AcknowledgedIsSettled
PROPERTIES ImplementsPurchases
CHECK_DEADLOCK FALSE
