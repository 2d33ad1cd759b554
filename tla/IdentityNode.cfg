SPECIFICATION Spec
CONSTANTS
  a = a
  b = b
  c = c
  d = d
  o = o
  key = key
  other = other
  Zero = Zero
  None = None
  K = key
  Durable = TRUE
  Server = TRUE
  MaxHistory = 4
  PublicKey <- MCPublicKey
  RecordKey <- MCRecordKey
  Envelope <- MCEnvelope
INVARIANTS
  TypeOK
  
  MetadataMatches
  UnlockedWritersDescend

  

