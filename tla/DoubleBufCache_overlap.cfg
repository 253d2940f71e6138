\* Six results fed while the probe fetches: enough for two overlaps in a row.
CONSTANT MaxFeeds = 6
SPECIFICATION FairSpec
INVARIANTS NoTornBuffer StaleOnlyAfterOverlap
PROPERTIES ImplementsCache FedIsFetchedUnlessOverlap
