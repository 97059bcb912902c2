SPECIFICATION Spec
CONSTANTS
  r1 = r1
  c1 = c1
  c2 = c2
  j1 = j1
  a = a
  b = b
  c = c
  d = d
  Jobs <- MCJobs
  Workers = {w1, w2}
  Handled <- MCHandled
  Delayed = {j1}
  QueueSize = 1
  MaxAttempts = 2
  StoreMayFail = TRUE
  Requests = {r1, r2}
  Schedule = {r2}
  Callers = {c1, c2}
  MaxLoops = 1
  Policies <- MCPolicies
  AutoApply = TRUE
  Nodes = {a, b, c, d}
  Start = a
  Specs <- MCSpecs
  Editors = {e1}
  MaxVersion = 3
INVARIANTS JobsSound EffectApproved FlowSound
PROPERTIES ServiceSettles
CHECK_DEADLOCK FALSE
