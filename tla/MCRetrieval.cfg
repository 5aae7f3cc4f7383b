\* Every kind of request against one write of another caller and one failure.
CONSTANTS
    Ids <- MCIds
    K = 2
    BmShare = 1  VecShare = 1
    SearchShare = 5  WeightShare = 2  ImportanceShare = 3
    WeightOf <- MCWeight  ImportanceOf <- MCImportance
    WordsOf <- MCWords  CostOf <- MCCost
    MaxDepth = 2
    Rankings <- MCRankings
    VectorRanking <- MCVectors
    Cosine <- MCCosine
    Bucket <- MCBucket
    Tables <- MCTables
    FirstEdges <- MCFirstEdges  NewEdges <- MCNewEdges
    Requests <- MCRequests
    DegreeLimit = 3
    MaxWrites = 1  MaxFailures = 1
SPECIFICATION Spec
INVARIANTS ServedWasRetrievable PageFull DemandIsServed DualChannelWins DigestSound ExpansionIsReach RelateAccounts
CHECK_DEADLOCK FALSE
