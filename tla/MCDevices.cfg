SPECIFICATION DevicesSpec
CONSTANTS
  Procs = {reader, terminal}
  VT_MAX = 2
  EvSize = 2
  InSize = 3
  MaxIds = 3
  MaxCount = 1
  RxCount = 3
  TxCount = 2
  ArpTableSize = 1
  Ips = {1, 2}
  Macs = {1, 2}
  MyIp = 9
  MaxFrames = 4
  BdlSize = 3
  Chunk = 2
  IoFrames = 2
  Beeps <- MCBeeps
  Players = {"p", "q"}
  Waves <- MCWaves
  Keys = {"a", "lshift", "up"}
  MapFiles <- MCMaps
  KbdRing = 2
  MouseRing = 3
  MaxStray = 2
  MaxWire = 2
INVARIANTS KeysStay KeysFollow ButtonsFollow SoundInOrder WaveWhole ScreenShows
PROPERTIES BytesInOrder FramesInOrder PowerSound
CHECK_DEADLOCK FALSE
SYMMETRY Symmetric
