-------------------------------- MODULE OtaUpdate --------------------------------
(***************************************************************************)
(* components/Application/OtaUpdate.cpp and                                *)
(* http_requests/PostOtaUpdate.cpp: a firmware image is uploaded, written  *)
(* to the slot that is not running, checked, and made the one to start.    *)
(*                                                                         *)
(* The HTTP server's thread runs one upload at a time.  Every call of the  *)
(* OTA library may fail, the client may send less or more than an image or *)
(* damaged parts, and the power may fail between any two steps.            *)
(*                                                                         *)
(* The library is external: beginning erases the slot and opens a handle,  *)
(* ending closes it and checks the image, whose checksum covers all parts; *)
(* switching checks it again and replaces the record of the boot slot as a *)
(* whole.                                                                  *)
(***************************************************************************)
EXTENDS Naturals

CONSTANTS
  Versions,
  Parts,         \* writes an image takes
  MaxHandles     \* open handles the heap has room for

ASSUME PartsAssumption == Parts \in Nat \ {0}
ASSUME MaxHandlesAssumption == MaxHandles \in Nat \ {0}

Slots == {0, 1}
Image == [version : Versions, parts : 0 .. Parts, intact : BOOLEAN]

VARIABLES
  slot,          \* the image in each slot of the flash
  boot,          \* the slot the boot loader starts
  running,       \* the slot being executed
  openHandles,   \* update handles begun and not ended
  upload,        \* where the request handler stands
  remaining      \* parts the client has announced and not sent

vars == <<slot, boot, running, openHandles, upload, remaining>>

Complete(image) == image.parts = Parts /\ image.intact

(* The device runs a complete image, and nothing is known of the other slot. *)
Init ==
  /\ slot \in [Slots -> Image]
  /\ boot \in Slots
  /\ Complete(slot[boot])
  /\ running = boot
  /\ openHandles = 0
  /\ upload = "none"
  /\ remaining = 0

(* Faulty variant: the slot after the one to start, not after the one running. *)
SlotToStart == boot

(* esp_ota_get_next_update_partition(NULL). *)
NextUpdatePartition == 1 - running

-------------------------------------------------------------------------------
(* post_ota_update_handler. *)

(* StartUpdate: the slot is erased and a handle opened. *)
StartUpdate(version, contentLen) ==
  /\ upload = "none"
  /\ openHandles < MaxHandles
  /\ slot' = [slot EXCEPT ![NextUpdatePartition] =
                [version |-> version, parts |-> 0, intact |-> TRUE]]
  /\ openHandles' = openHandles + 1
  /\ upload' = "receiving"
  /\ remaining' = contentLen
  /\ UNCHANGED <<boot, running>>

(* "Start error": there is no room for a handle, or the flash fails in the  *)
(* middle of erasing.  A call refused before that changes nothing.          *)
StartFails ==
  /\ upload = "none"
  /\ slot' = [slot EXCEPT ![NextUpdatePartition].parts = 0]
  /\ UNCHANGED <<boot, running, openHandles, upload, remaining>>

(* Faulty variant: the loop goes on while remaining is not negative. *)
WriteFirmwarePartOnceMore(damaged) ==
  /\ upload = "receiving"
  /\ LET image == slot[NextUpdatePartition]
     IN  slot' = [slot EXCEPT ![NextUpdatePartition] =
                    IF image.parts < Parts
                      THEN [image EXCEPT !.parts = @ + 1, !.intact = @ /\ ~damaged]
                      ELSE image]
  /\ remaining' = remaining - 1
  /\ UNCHANGED <<boot, running, openHandles, upload>>

(* WriteFirmwarePart on one chunk of the body.  What follows the image is   *)
(* ignored by the check.  A time-out of the receive is retried and changes  *)
(* nothing.                                                                 *)
WriteFirmwarePart(damaged) ==
  /\ upload = "receiving"
  /\ remaining > 0
  /\ LET image == slot[NextUpdatePartition]
     IN  slot' = [slot EXCEPT ![NextUpdatePartition] =
                    IF image.parts < Parts
                      THEN [image EXCEPT !.parts = @ + 1, !.intact = @ /\ ~damaged]
                      ELSE image]
  /\ remaining' = remaining - 1
  /\ UNCHANGED <<boot, running, openHandles, upload>>

(* "Protocol Error" or "Flash Error": the handler returns without         *)
(* esp_ota_abort, so that the handle stays open until the next restart.   *)
UploadFails ==
  /\ upload = "receiving"
  /\ remaining > 0
  /\ upload' = "none"
  /\ remaining' = 0
  /\ UNCHANGED <<slot, boot, running, openHandles>>

(* Faulty variant: the result of esp_ota_end is not looked at. *)
EndUpdateUnchecked ==
  /\ upload = "receiving"
  /\ remaining = 0
  /\ openHandles' = openHandles - 1
  /\ upload' = "switching"
  /\ UNCHANGED <<slot, boot, running, remaining>>

(* FinalizeUpdate up to the result of esp_ota_end. *)
EndUpdate ==
  /\ upload = "receiving"
  /\ remaining = 0
  /\ openHandles' = openHandles - 1
  /\ upload' = IF Complete(slot[NextUpdatePartition]) THEN "switching" ELSE "none"
  /\ UNCHANGED <<slot, boot, running, remaining>>

SetBootPartition ==
  /\ upload = "switching"
  /\ boot' = NextUpdatePartition
  /\ upload' = "restarting"
  /\ UNCHANGED <<slot, running, openHandles, remaining>>

(* The flash refuses the new record. *)
SetBootPartitionFails ==
  /\ upload = "switching"
  /\ upload' = "none"
  /\ UNCHANGED <<slot, boot, running, openHandles, remaining>>

Reset ==
  /\ running' = boot
  /\ openHandles' = 0
  /\ upload' = "none"
  /\ remaining' = 0
  /\ UNCHANGED <<slot, boot>>

(* Answer, half a second's delay, esp_restart(). *)
EspRestart == upload = "restarting" /\ Reset

(* The power fails, or the device is restarted by anything else. *)
PowerFails == Reset

-------------------------------------------------------------------------------
Next ==
  \/ \E version \in Versions, contentLen \in 0 .. Parts + 1 :
       StartUpdate(version, contentLen)
  \/ StartFails
  \/ \E damaged \in BOOLEAN : WriteFirmwarePart(damaged)
  \/ UploadFails
  \/ EndUpdate
  \/ SetBootPartition
  \/ SetBootPartitionFails
  \/ EspRestart
  \/ PowerFails

Spec == Init /\ [][Next]_vars

-------------------------------------------------------------------------------
(* Properties. *)

TypeOK ==
  /\ slot \in [Slots -> Image]
  /\ boot \in Slots
  /\ running \in Slots
  /\ openHandles \in 0 .. MaxHandles
  /\ upload \in {"none", "receiving", "switching", "restarting"}
  /\ remaining \in 0 .. Parts + 1

(* Wherever the upload stands and whenever the power fails, the boot loader *)
(* finds a complete, undamaged image in the slot it starts.                 *)
BootSlotComplete == Complete(slot[boot])

(* Seen from outside, an update is atomic: the version to start next changes *)
(* in one step, and the version executed changes to it at a restart only.    *)
Firmware == INSTANCE FirmwareSlots WITH
  running <- slot[running].version,
  next <- slot[boot].version

UpdateIsAtomic == Firmware!Spec
===============================================================================
