SPECIFICATION Spec
CONSTANTS
  Bytes <- MCBytes
  Disks <- MCDisks
  Devices <- MCDevices
  Alloc = 4
  MaxData = 16
  BufSize = 4
  CheckInts = 2
  LineCells = 4
  DataBuffer = 20
  FlashSize = 6
INVARIANT ImagesTypeOK
INVARIANT StoresInBounds
INVARIANT ImageAsFile
INVARIANT RangeCoversFile
INVARIANT FirstSoundFile
