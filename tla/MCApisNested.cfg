SPECIFICATION Spec
CONSTANTS
  Apis = {"main", "sub", "leaf"}
  Merged = "merged"
  DocsApi = "docsapi"
  Routers = {"outer", "inner"}
  Functions = {"f", "g", "h", "s", "docs"}
  Sockets = {"s"}
  Docs = "docs"
  AppMiddleware <- AppMiddlewareDef
  RouterMiddleware <- RouterMiddlewareDef
  RouteMiddleware <- RouteMiddlewareDef
  RustMiddleware = {"cors"}
  RunsSync = {"f", "g", "h"}
  AuthOf <- AuthOfDef
  SchemeOf <- SchemeOfDef
  Revoking = {"jwt1"}
  Dynamic = {"g"}
  Projects <- ProjectsDef
  Requests = {r1, r2}
  MaxDiscovered = 2
  None = "none"
SYMMETRY Symmetry
INVARIANT SubAppsKeepMiddleware
CHECK_DEADLOCK FALSE
