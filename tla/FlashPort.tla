------------------------------ MODULE FlashPort ------------------------------
(***************************************************************************)
(* The flash port, port/azure_iot_flash_platform_port.c: how an update     *)
(* image is written to, verified in and enabled on one of the application  *)
(* partitions of partitions.csv.  The esp_ota_* calls and the bootloader   *)
(* are external: they are modelled from how the port uses them.            *)
(*                                                                         *)
(* A partition is a row of cells.  A cell is Erased, or holds the byte     *)
(* that belongs there in some image (the cell's value is then the image),  *)
(* or holds anything else (Corrupt).                                       *)
(***************************************************************************)
EXTENDS Integers

CONSTANTS
  OtaSlots,       (* number of OTA partitions, 2 in partitions.csv          *)
  PartitionSize,  (* cells of a partition, all of the same size             *)
  Images,         (* the application images there are                       *)
  ImageSize,      (* ImageSize[img]: cells the image takes                  *)
  FactoryImage,   (* the image of the factory partition                     *)
  Erased,
  Corrupt,
  HeapSlots       (* OTA handles and HTTP contexts the heap has room for    *)

ASSUME FlashAssumption ==
  /\ OtaSlots \in Nat \ {0}
  /\ PartitionSize \in Nat \ {0}
  /\ ImageSize \in [Images -> 1 .. PartitionSize]
  /\ FactoryImage \in Images
  /\ Erased \notin Images
  /\ Corrupt \notin Images \cup {Erased}
  /\ HeapSlots \in Nat

Factory    == 0
Partitions == 0 .. OtaSlots
Cells      == 0 .. PartitionSize - 1
Contents   == [Cells -> Images \cup {Erased, Corrupt}]

VARIABLES
  running,        (* the partition the program runs from                    *)
  boot,           (* the partition the OTA data selects for the next boot   *)
  flash,          (* flash[p]: the contents of partition p                  *)
  image,          (* AzureADUImage_t: partition, image_size, ota            *)
  ota_handles,    (* OTA handles the SDK has allocated and not released     *)
  http_contexts   (* HTTP contexts allocated and not freed: same heap       *)

flashVars == <<running, boot, flash, image, ota_handles, http_contexts>>

HeapAvailable == ota_handles + http_contexts < HeapSlots

-----------------------------------------------------------------------------
(***************************************************************************)
(* External: image validation and the bootloader                           *)
(***************************************************************************)

(* Contents c start with the whole of image img.                            *)
Holds(c, img) == \A k \in 0 .. ImageSize[img] - 1 : c[k] = img

(* Contents c pass esp_image_verify: they start with a whole image.         *)
Bootable(c) == \E img \in Images : Holds(c, img)

(* The image that contents c start with, or Corrupt without one.            *)
ImageOf(c) ==
  IF Bootable(c) THEN CHOOSE img \in Images : Holds(c, img) ELSE Corrupt

(* The bootloader tries the selected partition, then the ones below it down *)
(* to the factory partition, then the ones above it.                        *)
BootRank(selected, p) == IF p <= selected THEN selected - p ELSE p

BootloaderPicks(f, selected, p) ==
  /\ Bootable(f[p])
  /\ \A q \in Partitions :
       BootRank(selected, q) < BootRank(selected, p) => ~Bootable(f[q])

(* esp_ota_get_next_update_partition: the OTA slot after p, the first one   *)
(* after the last slot and after the factory partition.                     *)
NextUpdatePartition(p) == IF p = OtaSlots THEN 1 ELSE p + 1

(* The first n cells of contents c erased; flash bits are only ever cleared *)
(* by a write, so a cell written twice holds neither value.                 *)
EraseCells(c, n) == [k \in Cells |-> IF k < n THEN Erased ELSE c[k]]

Programmed(old, new) == IF old \in {Erased, new} THEN new ELSE Corrupt

WriteCells(c, offset, n, val) ==
  [k \in Cells |-> IF k \in offset .. offset + n - 1
                     THEN Programmed(c[k], val)
                     ELSE c[k]]

-----------------------------------------------------------------------------
(***************************************************************************)
(* AzureIoTPlatform_GetSingleFlashBootBankSize: there is always a running  *)
(* and a next OTA partition in this partition table.                       *)
(***************************************************************************)
GetSingleFlashBootBankSize == PartitionSize

(***************************************************************************)
(* AzureIoTPlatform_Init.  esp_ota_begin refuses the running partition,    *)
(* needs a handle from the heap, and erases the partition; an erase may    *)
(* fail half-way.                                                          *)
(***************************************************************************)
UpdatePartition == NextUpdatePartition(running)

PlatformInitSucceeds ==
  LET p == UpdatePartition IN
  /\ p # running
  /\ HeapAvailable
  /\ image' = [partition |-> p, image_size |-> 0, ota |-> TRUE]
  /\ flash' = [flash EXCEPT ![p] = EraseCells(@, PartitionSize)]
  /\ ota_handles' = ota_handles + 1
  /\ UNCHANGED <<running, boot, http_contexts>>

PlatformInitFails ==
  LET p == UpdatePartition IN
  /\ image' = [partition |-> p, image_size |-> 0, ota |-> FALSE]
  /\ \E n \in IF p = running THEN {0} ELSE 0 .. PartitionSize :
       flash' = [flash EXCEPT ![p] = EraseCells(@, n)]
  /\ UNCHANGED <<running, boot, ota_handles, http_contexts>>

(***************************************************************************)
(* AzureIoTPlatform_WriteBlock: n cells of value val at an offset.  A      *)
(* block that does not fit is refused; a failing write stops anywhere.     *)
(***************************************************************************)
WriteBlockToBootPartition(offset, n, val) ==  \* mutant: looks up the boot partition
  /\ offset + n <= PartitionSize
  /\ flash' = [flash EXCEPT ![boot] = WriteCells(@, offset, n, val)]

WriteBlockSucceeds(offset, n, val) ==
  /\ offset + n <= PartitionSize
  /\ flash' = [flash EXCEPT ![image.partition] = WriteCells(@, offset, n, val)]

WriteBlockFails(offset, n, val) ==
  \E written \in IF offset + n <= PartitionSize THEN 0 .. n ELSE {0} :
    flash' = [flash EXCEPT ![image.partition] = WriteCells(@, offset, written, val)]

(***************************************************************************)
(* AzureIoTPlatform_VerifyImage.  The SHA-256 of the first image_size      *)
(* cells is that of an image exactly when they are that image; the digest  *)
(* of the request is one of the images' digests, or does not decode.       *)
(* esp_ota_end and esp_ota_abort both release the handle.                  *)
(***************************************************************************)
HashMatchesAnyImage(img) ==  \* mutant: only the image's own checksum is verified
  Bootable(flash[image.partition])

HashMatches(img) ==
  /\ image.image_size = ImageSize[img]
  /\ Holds(flash[image.partition], img)

ReleaseOtaHandleTwice ==  \* mutant: both esp_ota_end and esp_ota_abort count
  /\ image' = [image EXCEPT !.ota = FALSE]
  /\ ota_handles' = ota_handles - 2

ReleaseOtaHandle ==
  /\ image' = [image EXCEPT !.ota = FALSE]
  /\ ota_handles' = ota_handles - 1

VerifyImageSucceeds(img, hashDecodes) ==
  /\ image.image_size # 0
  /\ hashDecodes
  /\ HashMatches(img)
  /\ Bootable(flash[image.partition])
  /\ ReleaseOtaHandle
  /\ UNCHANGED <<running, boot, flash, http_contexts>>

(* A mismatch, and also a read error of the partition or a failing          *)
(* esp_ota_end of a matching image.                                         *)
VerifyImageFails ==
  /\ ReleaseOtaHandle
  /\ UNCHANGED <<running, boot, flash, http_contexts>>

(***************************************************************************)
(* AzureIoTPlatform_EnableImage: esp_ota_set_boot_partition validates the  *)
(* partition again and then writes the OTA data.                           *)
(***************************************************************************)
EnableImageSucceeds ==
  /\ Bootable(flash[image.partition])
  /\ boot' = image.partition
  /\ UNCHANGED <<running, flash, image, ota_handles, http_contexts>>

EnableImageFails == UNCHANGED flashVars

(***************************************************************************)
(* A restart of the device, by AzureIoTPlatform_ResetDevice or not: the    *)
(* bootloader picks a partition out of the contents f, and the heap is     *)
(* empty again.                                                            *)
(***************************************************************************)
RestartFrom(f) ==
  /\ \E p \in Partitions : BootloaderPicks(f, boot, p) /\ running' = p
  /\ flash' = f
  /\ image' = [partition |-> Factory, image_size |-> 0, ota |-> FALSE]
  /\ ota_handles' = 0
  /\ http_contexts' = 0
  /\ UNCHANGED boot

-----------------------------------------------------------------------------
(* A device as it is flashed: the factory image, the OTA slots erased.      *)
FlashInit ==
  /\ running = Factory
  /\ boot = Factory
  /\ flash = [p \in Partitions |->
                [k \in Cells |-> IF p = Factory /\ k < ImageSize[FactoryImage]
                                   THEN FactoryImage ELSE Erased]]
  /\ image = [partition |-> Factory, image_size |-> 0, ota |-> FALSE]
  /\ ota_handles = 0
  /\ http_contexts = 0

FlashTypeOK ==
  /\ running \in Partitions
  /\ boot \in Partitions
  /\ flash \in [Partitions -> Contents]
  /\ image \in [partition : Partitions, image_size : Nat, ota : BOOLEAN]
  /\ ota_handles \in 0 .. HeapSlots
  /\ http_contexts \in 0 .. HeapSlots
=============================================================================
