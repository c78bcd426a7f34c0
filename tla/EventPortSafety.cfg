SPECIFICATION Spec
CONSTANTS
  r1 = r1
  r2 = r2
  main = main
  worker = worker
  reader = reader
  source = source
  any = any
  Threads = {main, worker, reader}
  Emitters = {main, worker}
  Owners = {main}
  Reads <- ReadsShared
  Registrations = {r1, r2}
  Filter <- MCFilter
  Messages <- BothMessages
  AnyPackage = any
  NoEvent = NoEvent
  NoRegistration = NoRegistration
  MaxEvents = 2
INVARIANTS NothingLost HeadOfLine
PROPERTIES ChannelSpec EmitDelivers
CHECK_DEADLOCK FALSE
