SPECIFICATION FairSpec
CONSTANTS
  Loop = "loop"
  Others = {"web"}
  MaxConns = 6
  MinConn = 1
  MaxConn = 3
  MaxRetries = 2
  MaxKept = 1
INVARIANTS TypeOK OneHolder NothingLeaks
PROPERTIES RoomForAll Heals
