CONSTANTS
  s1 = s1  inj = inj  f1 = f1  none = none
  p1 = p1  l1 = l1  q1 = q1
  Senders = {s1}
  Injector = inj
  Flushers = {f1}
  Nobody = none
  Pastes = {p1}
  Lines = {l1}
  Prompts = {q1}
  MaxPending = 2
  MaxEpoch = 2
  Faults <- AllFaults
SPECIFICATION FairSpec
INVARIANTS AtMostOnce NothingLost InjectionUndisturbed
PROPERTIES InOrder BacklogDrains
