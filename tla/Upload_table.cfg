SPECIFICATION MnflashSpec
CONSTANTS
  PageWords = 6
  AppPages = 3
  PacketWords = 3
  UsbVector = 2
  FlashWords = 24
  Images <- MCImages
  Firmwares <- MCFirmwares
  Retries = 3
  OldFirmwares <- MCOldFirmwares
  Attempts = 2
  Switches = TRUE
  IdleLimit = 5
  ExecuteIdle = 3
  IdleModulus = 6
  TimerMode = FALSE
  GatedStart = TRUE
  StoreOsccal = TRUE
  LossyBus = FALSE
  StrayStarts = {}
  TornPages = FALSE
INVARIANT UploadedRuns
