CONSTANTS
  Nodes <- MCNodes
  Root = "root"
  Parent <- MCParent
  Path <- MCPath
  Clients <- MCClients
  Leaves <- MCLeaves
  Ids <- MCIds
  Wants <- MCWants
  Mixes <- MCMixes
  MaxFlags = 1
  V2s <- MCV2s
SPECIFICATION Spec
PROPERTY TopdownSparesOwn
