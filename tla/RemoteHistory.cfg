SPECIFICATION Spec
CONSTANTS
  a = a
  b = b
  c = c
  d = d
  o = o
  key = key
  other = other
  p1 = p1
  p2 = p2
  Zero = Zero
  None = None
  K = key
  Peer = {p1, p2}
  MaxHistory = 3
  Order <- MCOrder
  PublicKey <- MCPublicKey
  RecordKey <- MCRecordKey
  Envelope <- MCEnvelope
INVARIANTS
  CollectsBoundChain
  
  
