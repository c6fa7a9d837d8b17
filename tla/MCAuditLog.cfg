\* Three writers race for three appends, with other commits and restarts.
SPECIFICATION Spec
CONSTANTS
    w1 = w1
    w2 = w2
    w3 = w3
    Texts <- MCTexts
    Rests <- MCRests
    Genesis <- MCGenesis
    None = None
    Writers = {w1, w2, w3}
    Actions <- MCActions
    Digests <- MCDigests
    Sha256 <- MCSha256
    GenesisHash = 7
    MaxVersion = 5
INVARIANTS ChainVerifies AppendIsAtomic MutationIsFlagged
PROPERTY AppendOnly
CHECK_DEADLOCK FALSE
