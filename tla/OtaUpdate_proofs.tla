---------------------------- MODULE OtaUpdate_proofs ----------------------------
(***************************************************************************)
(* Proofs about OtaUpdate, for every set of versions, every length of an   *)
(* image and every number of handles.                                      *)
(***************************************************************************)
EXTENDS OtaUpdate, TLAPS

(* Until the boot slot is switched, the slot written to is not the one that *)
(* would start; and when it is about to be switched, the image in it has    *)
(* passed the check.  Both were established steps earlier, across writes    *)
(* and failures: without them neither the boot slot nor the atomicity of    *)
(* an update can be carried over a step.                                    *)
SlotInv ==
  /\ upload \in {"none", "receiving", "switching"} => boot = running
  /\ upload = "switching" => Complete(slot[1 - running])

(* An upload that is receiving holds a handle. *)
HandleInv == upload = "receiving" => openHandles > 0

Inv == TypeOK /\ BootSlotComplete /\ SlotInv /\ HandleInv

(* The device starts from a complete image with no upload. *)
LEMMA InitInv == Init => Inv
<1> SUFFICES ASSUME Init PROVE Inv
  OBVIOUS
<1> QED
  BY PartsAssumption, MaxHandlesAssumption
  DEF Init, Inv, TypeOK, BootSlotComplete, SlotInv, HandleInv, Slots

(* A write to the slot that is not running leaves an image in every slot    *)
(* and the image of the running slot as it was.                             *)
LEMMA SlotWrite ==
  ASSUME slot \in [Slots -> Image], running \in Slots,
         NEW image \in Image,
         slot' = [slot EXCEPT ![1 - running] = image]
  PROVE  slot' \in [Slots -> Image] /\ slot'[running] = slot[running]
  BY DEF Slots

(* Restarting, by command or by loss of power, starts the boot slot. *)
LEMMA ResetInv == Inv /\ Reset => Inv'
<1> SUFFICES ASSUME Inv, Reset PROVE Inv'
  OBVIOUS
<1> QED
  BY PartsAssumption, MaxHandlesAssumption
  DEF Inv, TypeOK, BootSlotComplete, SlotInv, HandleInv, Reset, Complete, Slots

(* Every step of an upload, failing or not, preserves the invariant. *)
LEMMA NextInv == Inv /\ [Next]_vars => Inv'
<1> SUFFICES ASSUME Inv, [Next]_vars PROVE Inv'
  OBVIOUS
<1> USE PartsAssumption, MaxHandlesAssumption
    DEF Inv, TypeOK, BootSlotComplete, SlotInv, HandleInv, NextUpdatePartition
<1>1. ASSUME NEW version \in Versions, NEW contentLen \in 0 .. Parts + 1,
             StartUpdate(version, contentLen)
      PROVE  Inv'
  <2> DEFINE erased == [version |-> version, parts |-> 0, intact |-> TRUE]
  <2>1. erased \in Image
    BY DEF Image
  <2>2. slot' \in [Slots -> Image] /\ slot'[running] = slot[running]
    BY <1>1, <2>1, SlotWrite DEF StartUpdate
  <2> QED
    BY <1>1, <2>2 DEF StartUpdate, Complete
<1>2. CASE StartFails
  <2> DEFINE erased == [slot[1 - running] EXCEPT !.parts = 0]
  <2>1. erased \in Image
    BY DEF Image, Slots
  <2>2. slot' = [slot EXCEPT ![1 - running] = erased]
    BY <1>2 DEF StartFails
  <2>3. slot' \in [Slots -> Image] /\ slot'[running] = slot[running]
    BY <2>1, <2>2, SlotWrite
  <2> QED
    BY <1>2, <2>3 DEF StartFails, Complete
<1>3. ASSUME NEW damaged \in BOOLEAN, WriteFirmwarePart(damaged)
      PROVE  Inv'
  <2> DEFINE image == slot[1 - running]
             written == IF image.parts < Parts
                          THEN [image EXCEPT !.parts = @ + 1, !.intact = @ /\ ~damaged]
                          ELSE image
  <2>1. image \in Image
    BY DEF Slots
  <2>2. written \in Image
    <3>1. CASE image.parts < Parts
      <4>1. written = [version |-> image.version, parts |-> image.parts + 1,
                       intact |-> image.intact /\ ~damaged]
        BY <2>1, <3>1 DEF Image
      <4>2. (image.intact /\ ~damaged) \in BOOLEAN
        BY Zenon
      <4>3. image.version \in Versions /\ image.parts + 1 \in 0 .. Parts
        BY <2>1, <3>1 DEF Image
      <4> HIDE DEF image, written
      <4> QED
        BY <4>1, <4>2, <4>3, Zenon DEF Image
    <3>2. CASE ~(image.parts < Parts)
      BY <2>1, <3>2
    <3> QED
      BY <3>1, <3>2
  <2>3. slot' = [slot EXCEPT ![1 - running] = written]
    BY <1>3 DEF WriteFirmwarePart
  <2>4. slot' \in [Slots -> Image] /\ slot'[running] = slot[running]
    BY <2>2, <2>3, SlotWrite
  <2> QED
    BY <1>3, <2>4 DEF WriteFirmwarePart, Complete
<1>4. CASE UploadFails
  BY <1>4 DEF UploadFails, Complete
<1>5. CASE EndUpdate
  BY <1>5 DEF EndUpdate, Complete
<1>6. CASE SetBootPartition
  BY <1>6 DEF SetBootPartition, Complete, Slots
<1>7. CASE SetBootPartitionFails
  BY <1>7 DEF SetBootPartitionFails, Complete
<1>8. CASE EspRestart \/ PowerFails
  BY <1>8, ResetInv DEF EspRestart, PowerFails
<1>9. CASE UNCHANGED vars
  BY <1>9 DEF vars, Complete
<1> QED
  BY <1>1, <1>2, <1>3, <1>4, <1>5, <1>6, <1>7, <1>8, <1>9 DEF Next

(* The invariant holds throughout every behaviour. *)
THEOREM Invariance == Spec => []Inv
<1> QED
  BY InitInv, NextInv, PTL DEF Spec

(* The slots hold images, and no history of failing uploads opens more      *)
(* handles than there is room for.                                          *)
THEOREM TypeCorrect == Spec => []TypeOK
<1>1. Inv => TypeOK
  BY DEF Inv
<1> QED
  BY <1>1, Invariance, PTL

(* No upload and no loss of power, at whatever point, leaves the boot       *)
(* loader with an incomplete or damaged image.                              *)
THEOREM BootSlotBootable == Spec => []BootSlotComplete
<1>1. Inv => BootSlotComplete
  BY DEF Inv
<1> QED
  BY <1>1, Invariance, PTL

-------------------------------------------------------------------------------
(* Refinement of the atomic update.                                         *)

(* The version executed at the start is the one to start next. *)
LEMMA InitRefines == Init => Firmware!Init
  BY DEF Init, Firmware!Init, Image

(* Every step is an installation, a restart, or invisible. *)
LEMMA StepRefines ==
  Inv /\ [Next]_vars => [Firmware!Next]_(Firmware!slotVars)
<1> SUFFICES ASSUME Inv, [Next]_vars
             PROVE  Firmware!Next \/ UNCHANGED Firmware!slotVars
  OBVIOUS
<1> USE DEF NextUpdatePartition
<1>1. running \in Slots /\ boot \in Slots /\ slot \in [Slots -> Image]
  BY DEF Inv, TypeOK
<1>2. ASSUME boot = running, boot' = boot, running' = running,
             slot'[running] = slot[running]
      PROVE  UNCHANGED Firmware!slotVars
  BY <1>2 DEF Firmware!slotVars
<1>3. ASSUME slot' = slot, boot' = boot, running' = running
      PROVE  UNCHANGED Firmware!slotVars
  BY <1>3 DEF Firmware!slotVars
<1>4. ASSUME NEW image, slot' = [slot EXCEPT ![1 - running] = image]
      PROVE  slot'[running] = slot[running]
  BY <1>1, <1>4 DEF Slots
<1>5. ASSUME NEW version \in Versions, NEW contentLen \in 0 .. Parts + 1,
             StartUpdate(version, contentLen)
      PROVE  UNCHANGED Firmware!slotVars
  BY <1>2, <1>4, <1>5 DEF StartUpdate, Inv, SlotInv
<1>6. CASE StartFails
  <2>1. \E image : slot' = [slot EXCEPT ![1 - running] = image]
    BY <1>6 DEF StartFails
  <2> QED
    BY <1>2, <1>4, <1>6, <2>1 DEF StartFails, Inv, SlotInv
<1>7. ASSUME NEW damaged \in BOOLEAN, WriteFirmwarePart(damaged)
      PROVE  UNCHANGED Firmware!slotVars
  <2>1. \E image : slot' = [slot EXCEPT ![1 - running] = image]
    BY <1>7 DEF WriteFirmwarePart
  <2> QED
    BY <1>2, <1>4, <1>7, <2>1 DEF WriteFirmwarePart, Inv, SlotInv
<1>8. CASE UploadFails \/ EndUpdate \/ SetBootPartitionFails
  BY <1>3, <1>8 DEF UploadFails, EndUpdate, SetBootPartitionFails
<1>9. CASE SetBootPartition
  <2>1. boot' \in Slots /\ slot' = slot /\ running' = running
    BY <1>1, <1>9 DEF SetBootPartition, Slots
  <2>2. slot'[boot'].version \in Versions
    BY <1>1, <2>1 DEF Image
  <2> QED
    BY <2>1, <2>2 DEF Firmware!Next, Firmware!Install
<1>10. CASE EspRestart \/ PowerFails
  BY <1>10 DEF EspRestart, PowerFails, Reset, Firmware!Next, Firmware!Restart
<1>11. CASE UNCHANGED vars
  BY <1>3, <1>11 DEF vars
<1> QED
  BY <1>5, <1>6, <1>7, <1>8, <1>9, <1>10, <1>11 DEF Next

(* Whatever fails and whenever the power does, the firmware changes at a    *)
(* restart only and to the version chosen in one step before it.            *)
THEOREM UpdateAtomic == Spec => UpdateIsAtomic
<1> QED
  BY InitRefines, StepRefines, Invariance, PTL
  DEF Spec, UpdateIsAtomic, Firmware!Spec
===============================================================================
