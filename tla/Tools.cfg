SPECIFICATION ToolsSpec
CONSTANTS
  a = a
  b = b
  ToolCallers = {a, b}
  w = w
  x = x
  doc = doc
  memo = memo
  Workspaces = {w, x}
  ToolFiles = {doc, memo}
  ToolCalls <- MCToolCalls
  MaxToolCalls = 3
  shorter = shorter
  longer = longer
  Absent = Absent
  SecretCallers = {a, b}
  SecretCalls <- MCSecretCalls
  Size <- MCSize
  MaxKeys = 3
  s = s
  t = t
  ChatSessions = {s, t}
  Streams <- MCStreams
  NoCall = NoCall
  Nothing = Nothing
  Null = Null
  Empty = Empty
  MaxRows = 4
  Patterns <- MCPatterns
  Chunks <- MCChunks
  MaxText = 9
INVARIANTS ReadMemoryExact AnswersTrue SecretsTrue HistoryAgrees TextKept MatcherAgrees
CHECK_DEADLOCK FALSE
