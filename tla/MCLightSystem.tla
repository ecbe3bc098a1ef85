----------------------------- MODULE MCLightSystem -----------------------------
(* Instance of LightSystem for TLC: target reports within and beyond the     *)
(* configured distance, readings of the converter that mean light, dusk and  *)
(* dark, and unassigned members inside and outside their later range.        *)
EXTENDS LightSystem

Target(status, movementCm, stationaryCm) ==
  [targetStatus |-> status,
   movementTargetDistanceCm |-> movementCm,
   distanceToStationaryTargetCm |-> stationaryCm]

MCTargetData ==
  {Target("NoTarget", 0, 0),
   Target("CampaignTarget", 1000, 0),
   Target("CampaignStationaryTarget", 1001, 1000)}

MCUninitTargetData ==
  {Target("NoTarget", 0, 0), Target("CampaignStationaryTarget", 0, 2000)}

MCUninitState == [presenceDetected : {FALSE}, movementDetected : BOOLEAN]

MCUninitCounter == {0, 2, 5}

MCRawValues == {1000, 3000, 4000}

MCUninitRawValues == {1000, 5000}

MCUninitBrightness == {0, 2, 99}
===============================================================================
