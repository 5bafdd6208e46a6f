CONSTANTS
  t1 = t1
  t2 = t2
  t3 = t3
  c1 = c1
  c2 = c2
  Tasks <- MCTasks
  Tgid <- MCTgid
  Clients <- MCBoth
  Alive0 <- MCStart
  Born <- MCNone
  NSub = 2
  Ops <- MCAdds
  Faults <- MCFaults
  Nesting = FALSE
  MaxTries = 1
SPECIFICATION Spec
INVARIANTS TypeOK JoinOrder
PROPERTIES AddProcMovesGroup

