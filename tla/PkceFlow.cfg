SPECIFICATION FairSpec
PROPERTIES ImplementsFlow CancelledFlowEnds
CHECK_DEADLOCK FALSE
