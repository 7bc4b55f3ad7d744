SPECIFICATION Spec
CONSTANTS
  Handlers = {p1, p2}
  MaxAttempts = 2
  Driver = "pg"
  Window = 1
  NoSig = NoSig
  NoCoin = NoCoin
  MaxHeight = 1
  MaxFaults = 1
  MaxForks = 1
SYMMETRY Symmetry
INVARIANTS
  TypeOK
  ReceiptMatchesCoin
  ConfirmedHasCoin
  VerifiedCoinIsInstalled
  NoPhantomCoin
  PreparedIsUntouched
  RecordedWasSent
  PendingIsResumable
PROPERTY
  ImplementsLedger
