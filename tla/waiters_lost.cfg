CONSTANTS
  Player = {p1, p2}
  Nobody = Nobody
  MaxPlayers = 2
  MaxObservers = 2
  MinBet = 2
  MaxBet = 2
  Balances = {4}
  Cards = {1, 10}
  ShoeSize = 208
  MaxBalance = 4
SPECIFICATION Spec
CONSTRAINT BalanceBound
PROPERTIES WaitersPromoted
