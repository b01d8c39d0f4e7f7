CONSTANTS
    NoShard = NoShard
    AnyShard = AnyShard
    AllShards = AllShards
    Clusters <- MCClusters
    KeyValues <- MCKeyValues
    ShardStr <- MCShardStr
    Statements <- MCStatements
    MaxRoundRobin = 3
INIT Init
NEXT Next
PROPERTY RouteAgreesWithSpec
