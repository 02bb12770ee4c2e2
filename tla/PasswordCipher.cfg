CONSTANTS
    Credentials <- MCCredentials
    Messages <- MCMessages
    Pieces = {2, 8, 26, 55, 62, 64, 80}
    Digests <- MCDigests
    Blocks <- MCBlocks
    Published <- MCPublished
SPECIFICATION Spec
INVARIANTS
    BlocksArePaddedMessage
    AgreesWithStandards
    DecryptUndoes
CHECK_DEADLOCK FALSE
