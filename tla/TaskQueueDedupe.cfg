SPECIFICATION Spec
CONSTANTS
  Workers = {w1, w2}
  NoTask = NoTask
  a = a
  a2 = a2
  b = b
  c = c
  ka = ka
  kb = kb
  kc = kc
  Tasks <- MCTasks
  Keys <- MCKeys
  KeyOf <- MCKeyOf
  InitialTasks <- OneInitial
INVARIANTS
  NoKeyHandedOutTwice
