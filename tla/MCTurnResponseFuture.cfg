SPECIFICATION Spec
CONSTANTS
    w1 = w1
    w2 = w2
    a1 = a1
    a2 = a2
    Waiters <- MCWaiters
    AudioWaiters <- MCAudioWaiters
INVARIANTS
    SingleOwner
    AudioDelivered
PROPERTIES
    OwnershipSpec
