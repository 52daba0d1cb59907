SPECIFICATION Spec
CONSTANTS
    v1 = v1 v2 = v2 n1 = n1 n2 = n2 run = run e1 = e1 e2 = e2 e3 = e3
    cur = cur old = old gw = gw key = key mission = mission mkey = mkey
    Verifiers = {v1, v2}
    Scripts <- MCScripts
    Argument <- MCArgument
    Nonces = {n1, n2, run}
    EvidenceIDs = {e1, e2, e3}
    Issued <- MCIssued
    MaxTime = 3
    MaxEpoch = 2
    None = None
INVARIANTS SingleUse RefusalKeepsNonce AuthorizesGenuine RunBound ProjectionRight
SYMMETRY MCSymmetry
CHECK_DEADLOCK FALSE
