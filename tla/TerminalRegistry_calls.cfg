SPECIFICATION FairSpec
CONSTANTS
    a1 = a1 a2 = a2 b = b s = s t = t d = d w = w k1 = k1 k2 = k2 x = x y = y
    Calls = {a1, a2, b, s, t, d, w}
    Workloads <- MCWorkloads
    Op <- MCOp
    Key <- MCKey
    Digest <- MCDigest
    Keys = {k1, k2}
    Subs = {s1, s2}
    MaxSubscriptions = 1
    MaxChunks = 2
    None = None
INVARIANTS RegistryCounted NoStreamForgotten
PROPERTIES OnlyCurrentFlows AllReturn
CHECK_DEADLOCK FALSE
