SPECIFICATION FairSpec
CONSTANTS
    Nodes <- Trio
    Neighbors <- Line
    Messages <- Few
    Kind <- FewKinds
    Origin <- FewOrigins
    Capacity = 4
    NoMessage = NoMessage
    NoNode = NoNode
CHECK_DEADLOCK FALSE
INVARIANTS P2PTypeOK SeenExact
PROPERTIES BroadcastImplemented EveryoneReached
