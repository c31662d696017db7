CONSTANTS
  RrfK = 60
  Rfp = 0
  SolutionIds <- MCSolutionIds
  Pairs = {"p1", "p2"}
  RequirementRows <- MCRequirementRows
  EmbeddingRows <- MCEmbeddingRows
  CreatedAt <- MCCreatedAt
  FetchCap = 2
  Catalogs <- MCCatalogs
  MaxEdits = 2
SPECIFICATION Spec
CHECK_DEADLOCK FALSE
INVARIANTS ShortlistSound ShortlistComplete SameAsBackend SignalsRankAhead
