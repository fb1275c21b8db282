CONSTANTS
  Player = {p1, p2}
  Nobody = Nobody
  MaxPlayers = 2
  MaxObservers = 1
  MinBet = 2
  MaxBet = 2
  Balances = {0}
  Cards = {10}
  ShoeSize = 208
  StartChips = 4
  MaxBalance = 6
SPECIFICATION FairActorSpec
PROPERTIES TurnsEnd
