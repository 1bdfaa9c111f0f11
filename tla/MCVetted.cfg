SPECIFICATION Spec
CONSTANTS
  factory = factory
  imgA = imgA
  imgB = imgB
  OtaSlots = 2
  PartitionSize = 2
  Images <- MCImages
  ImageSize <- MCImageSize
  FactoryImage = factory
  Erased = Erased
  Corrupt = Corrupt
  HeapSlots = 2
  ServedContents = {imgA, imgB}
  MaxPayload = 2
  MaxResource = 3
  Requests <- MCStale
  NoRequest = NoRequest
  ChunkSize = 1
  DownloadBuffers = {0, 1, 2}
  ResetAfterUpdate = TRUE
  MayReject = FALSE
  PatchesMayBeLost = FALSE
  MaxVersion = 2
  MaxCrashes = 1
PROPERTIES
  InstallsVettedRequest
CHECK_DEADLOCK FALSE
