SPECIFICATION Spec
CONSTANTS
  PageWords = 3
  AppPages = 2
  PacketWords = 1
  UsbVector = 1
  FlashWords = 16
  Images <- MCImages
  IdleLimit = 5
  ExecuteIdle = 3
  IdleModulus = 6
  TimerMode = TRUE
  GatedStart = FALSE
  StoreOsccal = FALSE
  LossyBus = FALSE
  StrayStarts = {}
  TornPages = TRUE
INVARIANT TypeOK
INVARIANT SafetyInv
INVARIANT ResetReachesBootloader
INVARIANT UsbDeadOnlyWhenErased
INVARIANT VectorsAfterErase
INVARIANT PageAsSent
INVARIANT TableTargets
INVARIANT AppKeepsUsb
