SPECIFICATION Spec
CONSTANTS
    Roots = {1, 2}
    Certs = {c1}
    Policies = {1, 2}
    Handlers = {h1, h2}
    Pulled = {}
    MaxRequests = 3
    MaxPulls = 0
    MaxRestarts = 0
    MaxFailures = 0
CHECK_DEADLOCK FALSE
INVARIANT RevocationsKept
