CONSTANTS
    p1 = p1
    p2 = p2
    o1 = o1
    k1 = k1
    t1 = t1
    t2 = t2
    h1 = h1
    h2 = h2
    r1 = r1
    r2 = r2
    x1 = x1
    x2 = x2
    Payments = {p1}
    Offers = {o1}
    Keys = {k1}
    Transfers = {t1}
    Webhooks = {h1}
    Requests = {r1}
    Expirers = {x1}
    MaxFaults = 0
SPECIFICATION Spec
INVARIANT ActivatedStaysPaid
CHECK_DEADLOCK FALSE
