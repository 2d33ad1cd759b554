SPECIFICATION Spec
CONSTANTS
  a = a
  b = b
  c = c
  d = d
  o = o
  key = key
  other = other
  Zero = Zero
  None = None
  Absent = Absent
  Torn = Torn
  Inbox = inbox
  Path = {inbox, work}
  Process = {q1, q2}
  PublicKey <- MCPublicKey
  RecordKey <- MCRecordKey
  Envelope <- MCEnvelope
  SignerKey <- MCSignerKey
  Ceremony <- MCCeremony
  Received <- MCReceived
SYMMETRY ProcessSymmetry
INVARIANTS
  FinalizedIsAuthorised
  FinalizedIsAcceptable
PROPERTIES
  PartialNeverAccepted
