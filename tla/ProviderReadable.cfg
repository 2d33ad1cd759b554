SPECIFICATION ProviderSpec
CONSTANTS
  a = a
  b = b
  c = c
  d = d
  o = o
  key = key
  other = other
  Zero = Zero
  None = None
  ObjectHash = key
  PublicKey <- MCPublicKey
  RecordKey <- MCRecordKey
  Envelope <- MCEnvelope
INVARIANT
  EveryHeadReadable
CHECK_DEADLOCK FALSE
