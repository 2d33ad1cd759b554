SPECIFICATION Spec
CONSTANTS
  a = a
  b = b
  c = c
  d = d
  o = o
  key = key
  other = other
  Zero = Zero
  None = None
  K = key
  Durable = TRUE
  PublicKey <- MCPublicKey
  RecordKey <- MCRecordKey
  Envelope <- MCEnvelope
INVARIANTS
  AcceptedNeverRegresses
  WrittenTombstoneShown
