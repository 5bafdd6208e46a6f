CONSTANTS
  t1 = t1
  t2 = t2
  t3 = t3
  c1 = c1
  c2 = c2
  Tasks <- MCPair
  Tgid <- MCTgid
  Clients <- MCBoth
  Alive0 <- MCStart
  Born <- MCBorn
  NSub = 2
  Ops <- MCDestroy
  Faults <- MCNone
  Nesting = TRUE
  MaxTries = 2
SPECIFICATION FairSpec
PROPERTIES DestroyLeavesNothing EmptyBeforeDelete DestroyConverges CallsReturn
