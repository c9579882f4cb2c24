SPECIFICATION MCSpec
CONSTANTS
  Tables <- MCTables
  Requests <- MCRequests
  Globals <- MCGlobals
  Mounts <- MCMounts
  Permissions = {"p", "q"}
  r1 = r1
  r2 = r2
  Fns <- FnsDef
  Decl <- DeclDef
  Routes <- DepRoutesDef
  Workers = {"w1", "w2"}
  Jtis = {"j"}
  Lives = {0, 1, 3}
  DefaultTtl = 2
  Leeway = 1
  Stores = {"memory", "cache", "orm"}
  InFlight = {r1, r2}
  MaxNow = 4
  MaxTokens = 1
SYMMETRY Symmetry
INVARIANTS
  HandlerWasAllowed
  HandlerKnowsWho
  BodyAfterChecks
  CorsOnEveryStatus
  RoutesIntact
  MiddlewareApplied
  RevokedRefused
  ArgumentsAreTheirs
