\* One client of one run.
CONSTANTS
  c1 = c1
  c2 = c2
  Tailer = tailer
  Writer = writer
  Free = free
  NoId = noId
  Abort = abort
  Client <- MCOneClient
  Reader <- MCOneReader
  From <- MCOneFrom
  MaxEvent = 1
  MaxFault = 0
  Capacity = 1

SPECIFICATION Spec

INVARIANT
  FinishedRunNotAborted
