SPECIFICATION SignerSpec
CONSTANTS
    Validators = {1}
    Seeds = {a, b}
    NoSeed = NoSeed
    FirstEpoch = 4
    NumActive = 2
    Step = 1
    Slots = {3, 4, 5, 6}
SYMMETRY Symmetry
INVARIANTS
    SignedOnce
