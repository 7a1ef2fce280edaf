SPECIFICATION MCSpec
CONSTANTS
    Tokens = {t1, t2}
    MaxFaults = 3
    MaxCrashes = 3
    Keys = {k1, k2, k3}
    FewKeys = {n1, n2}
    Hosts = {h1, h2}
    w1 = w1
CHECK_DEADLOCK FALSE
SYMMETRY Symmetry
INVARIANTS AtMostOnce IssuedUsable BindingsAgree
