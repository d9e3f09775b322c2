CONSTANTS
    u1 = u1
    u2 = u2
    u3 = u3
    h1 = h1
    h2 = h2
    h3 = h3
    i1 = i1
    i2 = i2
    s1 = s1
    s2 = s2
    w1 = w1
    w2 = w2
    Users = {u1, u2}
    Histories = {h1, h2}
    Invitations = {i1}
    Sessions = {s1}
    Workers = {w1, w2}
    MaxMembers = 2
    MaxLostSaves = 1
    MaxFaults = 1
SPECIFICATION FairSpec
PROPERTY EndedPlansExpire
CHECK_DEADLOCK FALSE
