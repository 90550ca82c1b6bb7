\* Three records of three bytes; picotls' buffer holds more than one of them and
\* the client's less; none to two certificates.
SPECIFICATION Spec
CONSTANTS
  Records = 3
  RecordSize = 3
  RecvSize = 5
  BufferSize = 2
  MaxCerts = 2
INVARIANTS
  DialogueInv
PROPERTIES
  BreakSettles
  ResponseArrives
\* The client stops.
CHECK_DEADLOCK FALSE
