SPECIFICATION LibSpec
CHECK_DEADLOCK FALSE
CONSTANTS
  StreamLen = 3
  Payloads = {x, y}
  Rooms = {1, 2}
  Tries = 3
  SendAgain = FALSE
  MaxSends = 3
  None = none
  Tasks = {"s", "t"}
  Hosts = {"srv", "h"}
  Server = "srv"
  Me = "me"
  Macs = {"1", "2", "3"}
  MyMac = "0"
  Names = {"a", "c"}
  Id <- IdOf
  ARP_CACHE = 1
  Nobody = "nobody"
  AskMax = 2
  Players = {"s", "t"}
  WaveFiles <- WaveFile
  Tunes = {"f", "g"}
  Formats <- Waves
  Sounds <- Clips
  Bytes <- Byte22
  CHUNK = 12
  FRAMES = 2
  LEN_MAX = 23
  Wavs <- Riffs
  Mod = 32
  PlayMax = 2
  Fns = {f, g}
  ATEXIT_MAX = 2
  NoFn = nofn
  Inits <- Starts
  Depth = 2
INVARIANTS    TextsAsMeant ExitKept 
PROPERTIES EveryCallReturns  FilesKept
