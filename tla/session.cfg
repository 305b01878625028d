SPECIFICATION FairSpec
CONSTANTS
  Doc <- MCDoc
  Root = "root"
  Entry <- Site
  Webs <- MCWebs
  MaxNesting = 4
  InScope = {"home", "news"}
  SeedLists <- MCSeedLists
  Codes = {0, 200, 302, 403}
  Serves <- MCServes
  Anchors <- MCAnchors
  Resolve <- MCResolve
  MaxRedirects = 2
  MaxDepth = 1
  Crew <- MCCrew
  MaxSeeds = 2
  Texts <- MCTexts
  TermLists <- MCTerms
INVARIANTS TypeOK SitemapExact BooksBalance LateOnlyAfterCancel Traced  OccurrencesListed
PROPERTIES SitemapEnds RunReturns
CHECK_DEADLOCK FALSE
