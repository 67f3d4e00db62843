SPECIFICATION Spec
CONSTANTS
    r1 = r1  r2 = r2  r3 = r3  r4 = r4
    Ids = {r1, r2, r3, r4}
    Setups <- AllSetups
SYMMETRY AnyId
INVARIANTS
    CredentialProven
    EveryRequestAnswered
PROPERTY
    NoSecondAnswer
CHECK_DEADLOCK FALSE
