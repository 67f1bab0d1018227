CONSTANTS
    q1 = q1  q2 = q2  q3 = q3
    c1 = c1  c2 = c2  c3 = c3
    t1 = t1  t2 = t2
    r1 = r1  r2 = r2
    NoRow = NoRow
    None = None
    Requests = {q1, q2}
    Calls = {c1, c2, c3}
    RequestOf <- SharedRequestOf
    EndpointOf <- VerifyEndpointOf
    Threads = {t1, t2}
    Runs = {r1, r2}
    MaxRestarts = 0
    MaxDrops = 0
SPECIFICATION Spec
CHECK_DEADLOCK FALSE
INVARIANT OutcomePersisted
