\* The last of three results is never drawn.
CONSTANT MaxFeeds = 3
SPECIFICATION FairSpec
PROPERTIES LatestIsFetched
