---------------------------- MODULE MCDeviceUpdate ---------------------------
(* Instances of DeviceUpdate for TLC: the factory image and two updates, of  *)
(* one and of two cells, partitions of two cells.                            *)
EXTENDS DeviceUpdate

CONSTANTS factory, imgA, imgB

MCImages    == {factory, imgA, imgB}
MCImageSize == [img \in MCImages |-> IF img = imgB THEN 1 ELSE 2]

ApplyA == [action |-> "ApplyDownload", image |-> imgA, size |-> 2, parses |-> TRUE,
           authentic |-> TRUE, url_has_path |-> TRUE, hash_decodes |-> TRUE]
ApplyB == [ApplyA EXCEPT !.image = imgB, !.size = 1]

BadUrl    == [ApplyB EXCEPT !.url_has_path = FALSE]
BadHash   == [ApplyB EXCEPT !.hash_decodes = FALSE]
TooLarge  == [ApplyB EXCEPT !.size = PartitionSize + 1]
Unparsed  == [ApplyB EXCEPT !.parses = FALSE]
Unsigned  == [ApplyB EXCEPT !.authentic = FALSE]
CancelB   == [ApplyB EXCEPT !.action = "Cancel"]

(* Every way a decision on a request may go.                                 *)
MCDecisions == {ApplyA, ApplyB, TooLarge, Unparsed, Unsigned, CancelB}

(* Every way an accepted request may go.                                     *)
MCInstalls == {ApplyA, ApplyB, BadUrl, BadHash}

(* A good update behind one that cannot be installed, or one withdrawn.      *)
MCRecovery == {ApplyA, CancelB, BadHash}

(* A request that does not authenticate after one that does.                 *)
MCStale == {ApplyA, Unsigned}
=============================================================================
