CONSTANTS
  MaxOffers = 3
  MaxKicks = 1
SPECIFICATION NegotiationSpec
INVARIANT OneGivesWay
CHECK_DEADLOCK FALSE
