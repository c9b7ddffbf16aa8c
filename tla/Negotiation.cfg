SPECIFICATION Spec
CONSTANT Plans <- MCPlans
INVARIANTS TypeOK CreditedToOwn ChannelsPaired
PROPERTIES StopReturns LossReported
CHECK_DEADLOCK FALSE
