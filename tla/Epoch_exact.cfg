SPECIFICATION Spec
CONSTANTS
  Workers = {w1, w2}
  c1 = c1
  LiveCoins <- OneCoin
  Rent = 1
  Dust = 2
  LastEpoch = 0
  MaxBalance = 3
  Fees = {3}
  MaxAccruals = 1
  MaxFaults = 0
SYMMETRY Symmetry
INVARIANT
  BooksAreExact
