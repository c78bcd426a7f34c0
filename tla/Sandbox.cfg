SPECIFICATION SandboxSpec
CONSTANTS
  a = a
  b = b
  p = p
  alias = alias
  link = link
  q = q
  Callers = {a, b}
  Pid <- MCPid
  Calls <- MCCalls
  Paths = {p, alias, link, q}
  Canonical <- MCCanonical
  Links = {link}
  Nodes <- MCNodes
  FirstFiles <- MCFirstFiles
  None = None
  Processes = {a, b}
  Roots = {p, q}
  Files = {p, q}
  Under <- MCUnder
  AclCalls <- MCAclCalls
  Nobody = Nobody
  MaxOutput = 2
INVARIANTS GrantsDurable  OutcomeTold NoneLeftRunning
PROPERTIES MapSpec CallReturns
CHECK_DEADLOCK FALSE
