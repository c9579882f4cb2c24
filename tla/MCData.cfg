SPECIFICATION MCSpec
CONSTANTS
  Structs <- MCStructs
  Kebab <- MCKebab
  CallRoutes <- MCRoutes
  CallRequests <- MCRequests
  Results <- MCResults
  Ids = {1, 2, 3, 4, 5}
  Key <- MCKey
  Descending = TRUE
  page_size = 2
  max_page_size = 3
  DbOrders <- MCOrders
  Schemes = {"page", "limit", "cursor"}
  Sizes <- MCSizes
  MaxWrites = 2
INVARIANTS
  ParametersAreOwn
  SpecialisedAnswersAlike
  BlameIsRight
  DumpsAsDeclared
  AcceptedIsValid
  AsyncLikeLoaded
  WalkShowsAll
  DjangoOrder
  StackIsTransparent
