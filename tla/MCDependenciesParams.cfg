SPECIFICATION Spec
CONSTANTS
  Fns <- FnsDef
  Decl <- DeclDef
  Routes <- DepRoutesDef
INVARIANT ParametersArrive
