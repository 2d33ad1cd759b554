SPECIFICATION Spec
CONSTANTS
  a = a
  b = b
  c = c
  d = d
  o = o
  key = key
  other = other
  Zero = Zero
  None = None
  K = key
  PublicKey <- MCPublicKey
  RecordKey <- MCRecordKey
  Envelope <- MCEnvelope
INVARIANTS
  TypeOK
  
  EpochFixesSigners
  GenesisOwnerPermanent
  ApprovedByPredecessor
  
CHECK_DEADLOCK FALSE
