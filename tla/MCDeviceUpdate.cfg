SPECIFICATION Spec
CONSTANTS
  factory = factory
  imgA = imgA
  imgB = imgB
  OtaSlots = 2
  PartitionSize = 2
  Images <- MCImages
  ImageSize <- MCImageSize
  FactoryImage = factory
  Erased = Erased
  Corrupt = Corrupt
  HeapSlots = 2
  ServedContents = {imgA, imgB}
  MaxPayload = 2
  MaxResource = 2
  Requests <- MCDecisions
  NoRequest = NoRequest
  ChunkSize = 1
  DownloadBuffers = {0, 1, 2}
  ResetAfterUpdate = TRUE
  MayReject = TRUE
  PatchesMayBeLost = TRUE
  MaxVersion = 2
  MaxCrashes = 1
INVARIANTS
  TypeOK
  RunningIntact
  BootIntact
  ContiguousDownload
PROPERTIES
  InstallsRequestedImage
  AcceptedVersionInstalled
  RefusedNotInstalled
  NoStateBeforeRestart
  RestartRunsEnabled
  UpdateShortens
  AtomicSpec
CHECK_DEADLOCK FALSE
