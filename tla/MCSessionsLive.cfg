SPECIFICATION MCFairSpec
CONSTANTS
    closing = closing
    ticking = ticking
    noThread = noThread
    flow1 = flow1
    accept1 = accept1
    x = x
PROPERTIES MembersFollowTrust SessionsHeal
CHECK_DEADLOCK FALSE
