SPECIFICATION Spec
CONSTANTS
    None = None
    Thrown = Thrown
    BlockFacts <- MCBlockFacts
    Waiting <- MCWaiting
    StakeFacts <- MCStakeFacts
    PaymentFacts <- MCPaymentFacts
    PackageFacts <- MCPackageFacts
    MaxBlocks = 2
    MaxAnswers = 2
INVARIANTS
    TypeOK
    BlocksTold
    OutcomesTold
    EffectsTold
    EventsTold
    StateTold
CHECK_DEADLOCK FALSE
