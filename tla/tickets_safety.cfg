SPECIFICATION Spec
CONSTANTS
    t1 = t1
    t2 = t2
    t3 = t3
    o1 = o1
    o2 = o2
    s1 = s1
    r1 = r1
    r2 = r2
    Tickets = {t1, t2, t3}
    Orders = {o1, o2}
    Sessions = {s1}
    Requests = {r1, r2}
    OrderOf <- MCOrderOf
    SessionOf <- MCSessionOf
    Quantity = 2
    NoOrder = NoOrder
CHECK_DEADLOCK FALSE
SYMMETRY Symmetries
INVARIANTS
    TypeOK
    SoldNeverOvercounts
    SoldIsExact
    OrdersAgree
PROPERTIES
    TicketsHaveOneLife
