CONSTANTS
  Files <- SomeFiles
  FormatsAsked = {"auto", "com"}
  MaxHands = 1
  MaxJobs = 2
  MaxFaults = 1
  RamSize = 14
  Page1 <- SomePage1
  ResBase = 9
  Buffer = 10
  MaxPayload = 4
  RawChunk = 3
  BankSize = 3
  Ports = {1, 2}
  WriteOnly = {2}
  MaxPorts = 3
  OlderClient = FALSE
  MaxFramePayload = 7
  Payloads <- SomePayloads
  Noise = {"M"}
  MaxPieces = 3
  MaxBroken = 2
  TextBytes = {13, 10, 26, 32, 49, 65, 1}
  TextLength = 5
  DataBytes = {31, 254}
  DataLength = 10
  Chunk = 2
  Packet = 4
  Savings = 2
  MaxSize = 9
  Screens <- SomeScreens
  LaterScreens <- OtherScreens
  Captures <- SomeCaptures
  Chars = {0, 7, 130, 255}
  VramPayload = 4096
  NoPage = 9
  Contents = {"a", "b", "e"}
  Blocks <- SomeBlocks
  Locals = {"l"}
  Targets = {"t", "bad"}
  NoFile = NoFile
  MaxIds = 2
  MaxEdits = 1
  Typing <- SomeLines
  KeyCells = 4
  KeysByHand = 2
  MaxLost = 1
  MaxSessions = 2
  MaxUnits = 1
  MaxCuts = 1
SPECIFICATION HostSpec
INVARIANTS RunsItsImage RefusalChangesNothing AgentIntact RebootIsTerminal BasicRunsTheProgram ParserIsFaithful UploadArrives AccessIsWhole CaptureIsDrawable JournalsAreFaithful TypingIsWhole ProxyIsAccountable
CHECK_DEADLOCK FALSE
