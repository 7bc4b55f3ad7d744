SPECIFICATION LiveSpec
CONSTANTS
  Handlers = {p1, p2}
  MaxAttempts = 2
  Driver = "pg"
  Window = 0
  NoSig = NoSig
  NoCoin = NoCoin
  MaxHeight = 0
  MaxFaults = 1
  MaxForks = 0
PROPERTY
  LandedIsRecorded
