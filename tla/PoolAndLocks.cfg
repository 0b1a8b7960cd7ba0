\* Three requests on one act and its order, two connections.
SPECIFICATION Spec
CONSTANTS
    o1 = o1
    a1 = a1
    Requests = {r1, r2, r3}
    Orders = {o1}
    Acts = {a1}
    Users = {u1}
    OrderOf <- OneOrder
    db_pool_size = 1
    db_max_overflow = 1
    None = None
INVARIANTS DeadlocksAreSeen DeadlocksNeedASubmit
PROPERTIES RequestsEnd
