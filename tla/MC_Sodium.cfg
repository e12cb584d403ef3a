CONSTANTS
    Lens <- MCLens
    KdfMin = 16
    KdfMax = 64
    KdfContext = 8
    KdfKey = 32
    SaltBytes = 16
    HashMin = 16
    PublicKey = 32
    SecretKey = 64
    Seed = 32
    Signature = 64
SPECIFICATION Spec
INVARIANT NoOutOfBounds
CHECK_DEADLOCK FALSE
