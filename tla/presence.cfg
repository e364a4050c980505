CONSTANTS
  a = a
  b = b
  c = c
  r = r
  NoRoom = NoRoom
  Devices = {a, b, c}
  Codes = {r}
  Places <- MCPlaces
  Home <- MCHome
  Hops <- MCHops
  Keys <- MCKeys
  Sig <- MCSig
  RoomPeerSig <- MCRoomPeerSig
  RoomMaxPeers = 2
  MaxIds = 2
  MaxStray = 1
  Pairs <- MCPairs
  Scenes <- MCScenes
SPECIFICATION FairSpec
INVARIANTS TypeOK IndexComplete StaysReachable SeatsTaken  
PROPERTY GoneForgotten
CHECK_DEADLOCK FALSE
