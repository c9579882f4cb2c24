SPECIFICATION Spec
CONSTANTS
  Natives <- MCNatives
  Routes <- MCRoutes
  Exposures <- MCExposures
  Statics <- MCStatics
  Templates <- MCTemplates
  Prompts <- MCPrompts
  Configs <- MCConfigs
  Principals <- MCPrincipals
  Envelopes <- MCEnvelopes
  Messages <- MCMessages
  ToolCalls <- MCToolCalls
  Calls = {c1, c2}
  Listeners = {l1}
  MaxSessions = 1
  MaxAsks = 2
  MaxOut = 1
INVARIANT ReplyReachesAsker
CHECK_DEADLOCK FALSE
PROPERTY ResultIsDelivered
PROPERTY DeleteClosesListener
