SPECIFICATION MCSpec
CONSTANTS
  Clients = {c1}
  Targets <- MCTargets
  Names <- MCNames
  Normalized <- MCNormalized
  Scripts = {"/x.php", "/index.php"}
  Protected = {"/.env", "/.git"}
  Tree <- MCTree
  Index <- MCIndex
  Sibling <- MCSibling
  Entries <- MCEntries
  Follows = TRUE
  Routes <- MCRoutes
  Rules <- MCRules
  Mode = "balanced"
  Tests <- MCTests
  Setups <- MCSetups
  MaxMoves = 2
  MaxOutages = 1
INVARIANT Revalidated
CHECK_DEADLOCK FALSE
