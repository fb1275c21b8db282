CONSTANTS
  Player = {me, p2}
  Nobody = Nobody
  Me = me
  MaxPlayers = 2
  MaxObservers = 1
  MinBet = 2
  MaxBet = 2
  Balances = {4}
  Cards = {6, 10}
  ShoeSize = 208
  MaxBacklog = 1
  MaxSent = 2
  MaxBalance = 4
SPECIFICATION ViewSpec
CONSTRAINTS BalanceBound Followed AskedEarly
INVARIANTS ViewTypeOK  TableShown CardsShown HoleCardHidden SeatedCanBet
