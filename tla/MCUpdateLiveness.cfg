SPECIFICATION FairSpec
CONSTANTS
  factory = factory
  imgA = imgA
  imgB = imgB
  OtaSlots = 2
  PartitionSize = 2
  Images <- MCImages
  ImageSize <- MCImageSize
  FactoryImage = factory
  Erased = Erased
  Corrupt = Corrupt
  HeapSlots = 2
  ServedContents = {imgA, imgB}
  MaxPayload = 2
  MaxResource = 3
  Requests <- MCRecovery
  NoRequest = NoRequest
  ChunkSize = 1
  DownloadBuffers = {0, 1, 2}
  ResetAfterUpdate = TRUE
  MayReject = FALSE
  PatchesMayBeLost = FALSE
  MaxVersion = 2
  MaxCrashes = 1
PROPERTIES
  AcceptReturns
  UpdateRuns
  EnabledRuns
CHECK_DEADLOCK FALSE
