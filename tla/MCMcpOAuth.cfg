SPECIFICATION Spec
CONSTANTS
  None = None
  Users = {"u1"}
  Clients = {"k1"}
  UriSets = {{"a"}}
  Params <- MCParams
  Forms <- MCForms
  AutoConsent = FALSE
  AllowRegistration = TRUE
  Required = {"mcp"}
  Reqs = {r1, r2}
  WorkerOf <- MCWorkerOf
  MaxCodes = 1
  MaxTokens = 3
  MaxPasswords = 1
INVARIANT SpentOnce
INVARIANT GrantsWereApproved
INVARIANT ReplayEndsFamily
CHECK_DEADLOCK FALSE
SYMMETRY AnyWorker
