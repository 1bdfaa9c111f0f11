----------------------------- MODULE AtomicUpdate ----------------------------
(***************************************************************************)
(* What a device promises whoever updates it: it runs one whole image, and *)
(* an update replaces it in two atomic steps, whatever else happens in     *)
(* between: the new image is enabled, and a restart runs what is enabled.  *)
(***************************************************************************)
CONSTANTS Images, FactoryImage

VARIABLES
  installed,   (* the image the device runs                                 *)
  enabled      (* the image it will run after a restart                     *)

Init ==
  /\ installed = FactoryImage
  /\ enabled = FactoryImage

(* Nothing more is enabled while an image waits for its restart.            *)
Enable(img) ==
  /\ enabled = installed
  /\ enabled' = img
  /\ UNCHANGED installed

Restart ==
  /\ installed' = enabled
  /\ UNCHANGED enabled

Next == (\E img \in Images : Enable(img)) \/ Restart

Spec == Init /\ [][Next]_<<installed, enabled>>

(* An enabled image does not wait for its restart for ever.                 *)
RestartComes == WF_<<installed, enabled>>(Restart)
=============================================================================
