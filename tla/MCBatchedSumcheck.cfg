SPECIFICATION FSpec
CONSTANTS
    P = 5
    Batches <- MCBatches
    Forged <- MCForged
    Proofs <- MCProofs
    Sealed <- MCSealed
    Capacity = 4
    Random <- MCRandom
    Heads <- MCHeads
    Seeds <- MCSeeds
    FoldChallenges = {3}
INVARIANTS
    TypeOK RunningIsCombination ChallengesDelivered ClaimsAreValues HonestProofReduces
    SystemIsVerification HonestFoldAccepted
PROPERTY LuckBounded
CHECK_DEADLOCK FALSE
