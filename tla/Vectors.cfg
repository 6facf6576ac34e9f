SPECIFICATION Spec
CONSTANTS
  PageWords = 12
  AppPages = 2
  UsbVectorNum = 4
  Reach = 16
  FlashWords = 32
  Images <- MCImages
INVARIANT TableLeadsToApp
