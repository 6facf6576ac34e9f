SPECIFICATION Spec
CONSTANTS
  PageWords = 4
  AppPages = 2
  PacketWords = 2
  UsbVector = 2
  FlashWords = 16
  Images <- OneImage
  IdleLimit = 5
  ExecuteIdle = 3
  IdleModulus = 6
  TimerMode = TRUE
  GatedStart = FALSE
  StoreOsccal = TRUE
  LossyBus = TRUE
  StrayStarts = {}
  TornPages = FALSE
INVARIANT VectorsAfterErase
