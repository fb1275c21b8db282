CONSTANTS
  Player = {p1, p2, p3}
  Nobody = Nobody
  MaxPlayers = 2
  MaxObservers = 2
  MinBet = 3
  MaxBet = 3
  Balances = {6}
  Cards = {1, 10}
  ShoeSize = 208
  MaxBalance = 6
SPECIFICATION Spec
SYMMETRY PlayerSymmetry
CONSTRAINT BalanceBound
INVARIANTS TypeOK OneStateEach SeatsExclusive TurnIsPlayable HandsInBounds RoundStartsClean DealerStandsOn17 ShoeNeverRunsOut
PROPERTIES TurnEndsForGood ChipsChangeAtSettlementOnly
