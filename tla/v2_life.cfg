CONSTANTS
  root = root
  a = a
  ab = ab
  ac = ac
  lone = lone
  c1 = c1
  c2 = c2
  c3 = c3
  mem = mem
  io = io
  t1 = t1
  t2 = t2
  t3 = t3
  Nodes <- MCNodes
  Root = root
  Parent <- MCParent
  Clients <- MCAll
  Path <- MCPath
  Supported <- MCBoth
  Want <- MCWant
  Tasks <- MCPair
  Tgid <- MCTgid
  Alive0 <- MCStart
  Ops <- MCOps
  Faults <- MCMkdir
SPECIFICATION Spec
INVARIANTS TypeOK LeafHasControllers
PROPERTIES AddFailsOnlyIfGone DomainEmptyBeforeRmdir
