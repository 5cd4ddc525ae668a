CONSTANTS
    Components = {"patroni", "consul", "haproxy", "postgres", "vip"}
    TargetLists <- Targets
    PatroniShows <- Nodes
    UpWords = {"upgrading"}
    DownWords = {"down"}
    MaxPolls = 4
    MaxPollsMulti = 3
SPECIFICATION FairSpec
INVARIANTS TypeOK EventsAreTheChanges EmittersOutliveWatchers
    PatroniLaneShowsPrimary RoutingLanes
PROPERTIES StopEndsAgent
CHECK_DEADLOCK FALSE
