SPECIFICATION Spec
CONSTANTS
  s1 = s1
  s2 = s2
  l1 = l1
  l2 = l2
  c1 = c1
  c2 = c2
  ToolIds <- MCToolIds
  Actions <- MCActions
  Servers = {s1, s2}
  NoTool = NoTool
  NoServer = NoServer
  Calls = {c1, c2}
  Logs = {l1, l2}
  NoLog = NoLog
SYMMETRY Symmetry
INVARIANTS
  AuditedOnce
  TrailsAgree
PROPERTIES
  RoutingIsStable
