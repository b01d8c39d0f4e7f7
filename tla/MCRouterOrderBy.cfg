CONSTANTS
    NoShard = NoShard
    AnyShard = AnyShard
    AllShards = AllShards
    Clusters <- MCClusters
    KeyValues <- MCKeyValues
    ShardStr <- MCShardStr
    Statements <- MCStatementsOrderBy
    MaxRoundRobin = 3
INIT Init
NEXT Next
PROPERTY RouteAgreesWithSpec
