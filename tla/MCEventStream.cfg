\* Two clients (one from the start, one with ?from=0), a buffer of one
\* message; one fault: a torn or failed line, a lock collision or a lost
\* connection.  The run may crash at any point besides.
CONSTANTS
  c1 = c1
  c2 = c2
  Tailer = tailer
  Writer = writer
  Free = free
  NoId = noId
  Abort = abort
  Client <- MCClient
  Reader <- MCReader
  From <- MCFrom
  MaxEvent = 2
  MaxFault = 1
  Capacity = 1

SPECIFICATION Spec

INVARIANTS
  AnswersJustified
  ReceiverIsFed
  NoGapBehindTail

PROPERTIES
  ImplementsDelivery
  EveryClientStops
