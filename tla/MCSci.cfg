SPECIFICATION Spec
CONSTANTS
    Id = {1, 2, 3, 4, 5}
    Key = {"a", "b", "c", "d", "e"}
    Live = {1, 2, 3}
    NameOf <- MCNameOf
    Protocols <- MCProtocols
    Directory <- MCDirectory
    Peers <- MCPeers
    Disturbed = {1}
    Offered <- MCOffered
    Handled <- MCHandled
    Mix <- MCMix
    InitialSize = 2
    ChainLength = 2
    MaxRounds = 30
    Values <- MCValues
    HashLength = 2
    CrcWidth = 32
    BufferSize = 1000
    QueueSize = 2
    MaxPacket = 2
    MaxInFlight = 2
INVARIANTS
    TypeOK
    NamesExact
    MapIsSound
    RoutedByName
    
    HeardAsSent
