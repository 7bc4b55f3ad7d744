SPECIFICATION Spec
CONSTANTS
  Workers = {w1, w2}
  c1 = c1
  LiveCoins <- OneCoin
  Rent = 1
  Dust = 2
  LastEpoch = 1
  MaxBalance = 6
  Fees = {3}
  MaxAccruals = 1
  MaxFaults = 1
SYMMETRY Symmetry
INVARIANTS
  TypeOK
  OncePerEpoch
  BooksWithinPayments
  ReceiptFollowsRow
  TotalsWithinPayments
PROPERTIES
  BookedIsFinal
  ImplementsLedger
