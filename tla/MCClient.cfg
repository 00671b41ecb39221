SPECIFICATION FairSpec
CONSTANTS
  create = create
  join = join
  practice = practice
  command = command
  Requests <- FourRequests
  Acked <- FourRequests
  Replayable <- Replayed
  Bytes <- SizeOf
  MaxMessages = 2
  MaxBytes = 3
INVARIANTS
  ClientInv
PROPERTIES
  FailedIsNotSent
  EveryRequestIsAnswered
  OverIsOver
CHECK_DEADLOCK FALSE
