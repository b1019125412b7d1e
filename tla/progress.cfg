CONSTANTS
    None = None
    s1 = s1
    s2 = s2
    c1 = c1
    t1 = t1
    t2 = t2
    t3 = t3
    server = server
    g1 = g1
    r1 = r1
    r2 = r2
SPECIFICATION FairSpec
PROPERTIES AllStop SockReleased LocksReleased
