SPECIFICATION ServedSpec
CONSTANTS
  r1 = r1
  r2 = r2
  main = main
  worker = worker
  reader = reader
  source = source
  any = any
  Threads = {main, source, worker, reader}
  Emitters = {source, worker}
  Owners = {main}
  Reads <- ReadsOne
  Registrations = {r1}
  Filter <- MCFilter
  Messages <- OneMessage
  AnyPackage = any
  NoEvent = NoEvent
  NoRegistration = NoRegistration
  MaxEvents = 3
INVARIANTS NoLostWakeup
PROPERTIES CloseEndsWaits EmitTerminates
CHECK_DEADLOCK FALSE
