CONSTANTS
  c1 = c1
  i1 = i1
  o1 = o1
  r1 = r1
  r2 = r2
  r3 = r3
  t1 = t1
  t2 = t2
  NoReg = NoReg
  ClientKeys <- MCClientKeys
  InviteKeys <- MCInviteKeys
  OtherKeys <- MCOtherKeys
  Regs <- MCRegs
  Tasks <- MCTasks
  QueueBound = 1
SPECIFICATION MCSpec
INVARIANTS RegistryConsistent NoPanic NoTwinRequests
SYMMETRY MCSymmetry
