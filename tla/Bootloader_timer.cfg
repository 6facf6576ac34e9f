SPECIFICATION FairSpec
CONSTANTS
  PageWords = 3
  AppPages = 2
  PacketWords = 3
  UsbVector = 1
  FlashWords = 16
  Images <- OneImage
  IdleLimit = 5
  ExecuteIdle = 3
  IdleModulus = 6
  TimerMode = TRUE
  GatedStart = TRUE
  StoreOsccal = TRUE
  LossyBus = TRUE
  StrayStarts <- MCStrayStarts
  TornPages = FALSE
INVARIANT OneJobPerPoll
PROPERTY BootloaderKept
PROPERTY AutoExit
