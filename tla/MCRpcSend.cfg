CONSTANTS
  Senders = {hb, inf, listen}
  WireWords = 2
  MaxSends = 3
SPECIFICATION SendFairSpec
INVARIANTS SentWhole
PROPERTIES SendsAtomically
CHECK_DEADLOCK FALSE
