SPECIFICATION Spec
CONSTANTS
    Devices = {d1, d2}
    Tokens = {t1, t2, t3}
    MaxTime = 2
    MaxBusy = 1
    NoToken = NoToken
    Refused = Refused
SYMMETRY Symmetry
INVARIANTS TypeOK RevokedRefused OneTokenPerLogin RevocationEnds HoldsFresh
