SPECIFICATION MigrationSpec
CONSTANTS
    t1 = t1
    t2 = t2
    d1 = d1
    d2 = d2
    b1 = b1
    r1 = r1
    x = x
    y = y
    Address = {x, y}
    Ref = {r1}
    NoRef = "noref"
    Bundle = {b1}
    RefOf <- MCRefOf
    EntriesOf <- MCEntriesOf
    Dispute = {d1, d2}
    Desks = {t1, t2}
    Judges = {t1, t2}
    Curators = {t2}
    Window = 0
    EscrowBlocks = 0
    Stubbed = {y}
    Contested = {x}
    Decisions = {}
    TopHeight = 3
PROPERTIES
    FraudFreezes
SYMMETRY DisputeSymmetry
CHECK_DEADLOCK FALSE
