CONSTANTS
  u1 = u1  u2 = u2  loop = loop  ping = ping  p1 = p1  w1 = w1
  UIs = {u1, u2}
  Callers = {loop, ping}
  Posters = {p1}
  Clients = {w1}
SPECIFICATION FairIdleSpec
INVARIANT Inv
PROPERTIES FullPeriodAlone AbandonedEnds
