CONSTANTS
  c1 = c1
  c2 = c2
  k1 = k1
  k2 = k2
  here = here
  Char = {c1, c2}
  Killmail = {k1, k2}
  System = {here}
  Lists <- SharedLists
  SystemOf <- OneSystem
  Url <- Urls
  Cached <- CachedUrls
  Storable <- FirstList
  MaxVersion = 2
  MaxTtl = 1
  Wait = {0, 1}
  Budget = 1
  CanGarble = TRUE
  CanCrash = TRUE
  CanSignIn = TRUE
SPECIFICATION FairSpec
INVARIANTS TypeOK IInv CacheTruthful EsiLeftAlone
PROPERTIES EnrichmentKept ListsReplacedWhole BacklogLoads
