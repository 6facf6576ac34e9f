SPECIFICATION FairSpec
CONSTANTS
  PageWords = 4
  AppPages = 8
  UsbVector = 2
  FlashWords = 42
  OldWords = 6
  UpgradeStart = 8
  PayloadStart = 9
  Builds <- MCBuilds
  TornPages = TRUE
INVARIANT UpgradeInv
PROPERTY HandsOver
PROPERTY EndsInNewBootloader
