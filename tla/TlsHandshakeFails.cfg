\* One record of two bytes and one certificate are enough for the loop.
SPECIFICATION Spec
CONSTANTS
  Records = 1
  RecordSize = 2
  RecvSize = 3
  BufferSize = 2
  MaxCerts = 1
PROPERTIES
  HandshakeFails
CHECK_DEADLOCK FALSE
