CONSTANTS
  Cards = {1, 2, 6, 9, 10}
  MaxCards = 4
SPECIFICATION Spec
CHECK_DEADLOCK FALSE
INVARIANTS EngineTotalIsBest ClientShowsEngineTotal SettlementFollowsRules DrawLoopEnds
