SPECIFICATION CommandFairSpec
CONSTANTS
  PageWords = 6
  AppPages = 3
  PacketWords = 3
  UsbVector = 2
  FlashWords = 24
  Images <- MCImages
  Programs <- MCPrograms
  CheckedLength = 6
  Runs = 2
  IdleLimit = 5
  ExecuteIdle = 3
  IdleModulus = 6
  TimerMode = FALSE
  GatedStart = FALSE
  StoreOsccal = TRUE
  LossyBus = FALSE
  StrayStarts = {}
  TornPages = FALSE
INVARIANT SuccessIsThere
PROPERTY ProgramRuns
PROPERTY CommandEnds
