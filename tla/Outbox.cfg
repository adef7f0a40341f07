SPECIFICATION FairSpec
CONSTANTS
    MaxEvents = 2
    Relays = {r1, r2}
    MaxAttempts = 2
    BatchSize = 2
    JobAttempts = 2
    MaxFaults = 1
INVARIANTS
    IInv
    OneJobPerAttempt
    PublishedIsKept
    DeadLetterIsEarned
PROPERTIES
    EventSettles
    PublishedIsAudited
    ImplementsDelivery
