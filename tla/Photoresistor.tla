------------------------------ MODULE Photoresistor ------------------------------
(***************************************************************************)
(* components/Platform/Photoresistor.cpp and components/Hardware/Adc.cpp:  *)
(* from a raw reading of the converter to the brightness level the light   *)
(* controller is told.                                                     *)
(*                                                                         *)
(* Both are tasks of the dispatcher: Adc::Update stores a raw reading ten  *)
(* times a second, Photoresistor::Update evaluates the stored one once a   *)
(* second.  The float arithmetic is the integer quotient here: it is exact *)
(* to well below the distance between two neighbouring readings, and the   *)
(* code truncates both results.                                            *)
(***************************************************************************)
EXTENDS Naturals

CONSTANTS
  RawValues,          \* readings of the 12-bit converter
  UninitRawValues,    \* what m_currentRawValue may hold before a reading
  UninitBrightness    \* what m_currentBrightness may hold before Update

ADC_RESOLUTION_BIT == 4096
ADC_REFERENCE_VOLTAGE_MV == 2500
DIVIDER_RESISTOR == 210000
DIVIDER_SUPPLY_VOLTAGE_MV == 3300

BRIGHTNESS_DARK == 0
BRIGHTNESS_EXTREMELY_BRIGHT == 6
BrightnessLevel == BRIGHTNESS_DARK .. BRIGHTNESS_EXTREMELY_BRIGHT

(* RESISTANCE_TO_BRIGTHNESS_MAP: the largest resistance of each level. *)
MaxResistance ==
  [level \in BrightnessLevel |->
     <<400000, 300000, 200000, 90000, 20000, 7000, 5000>>[level + 1]]

VARIABLES
  m_currentRawValue,     \* of the Adc
  m_currentResistance,
  m_currentBrightness

vars == <<m_currentRawValue, m_currentResistance, m_currentBrightness>>

-------------------------------------------------------------------------------

CurrentVoltageMv(raw) == (raw * ADC_REFERENCE_VOLTAGE_MV) \div ADC_RESOLUTION_BIT

CalculateResistance(voltageMv) ==
  IF voltageMv >= DIVIDER_SUPPLY_VOLTAGE_MV
    THEN 1000000
    ELSE (voltageMv * DIVIDER_RESISTOR) \div (DIVIDER_SUPPLY_VOLTAGE_MV - voltageMv)

(* The loop's test: above the previous key of the map, at most this one.    *)
(* The previous key of the first band is 0, so no band holds a resistance   *)
(* of zero.                                                                 *)
InBand(resistance, level) ==
  /\ resistance <= MaxResistance[level]
  /\ resistance > IF level = BRIGHTNESS_EXTREMELY_BRIGHT
                    THEN 0 ELSE MaxResistance[level + 1]

BrightnessOf(resistance) ==
  IF \E level \in BrightnessLevel : InBand(resistance, level)
    THEN CHOOSE level \in BrightnessLevel : InBand(resistance, level)
    ELSE BRIGHTNESS_DARK

-------------------------------------------------------------------------------
(* The constructors leave every member unassigned; what m_currentRawValue    *)
(* holds is taken as a natural number.  The resistance is only used after it *)
(* has been computed.                                                        *)
Init ==
  /\ m_currentRawValue \in UninitRawValues
  /\ m_currentResistance = 0
  /\ m_currentBrightness \in UninitBrightness

(* The result of adc_oneshot_read is ignored: if it fails, the value stays.  *)
AdcUpdate ==
  /\ m_currentRawValue' \in RawValues \cup {m_currentRawValue}
  /\ UNCHANGED <<m_currentResistance, m_currentBrightness>>

Update ==
  /\ m_currentResistance' = CalculateResistance(CurrentVoltageMv(m_currentRawValue))
  /\ m_currentBrightness' = BrightnessOf(m_currentResistance')
  /\ UNCHANGED m_currentRawValue

(* The listener is called if this holds of the step. *)
BrightnessChanged == m_currentBrightness' # m_currentBrightness

-------------------------------------------------------------------------------
(* Properties. *)

(* Just below the supply voltage the divisor is 1. *)
HighestResistance == (DIVIDER_SUPPLY_VOLTAGE_MV - 1) * DIVIDER_RESISTOR

TypeOK ==
  /\ m_currentRawValue \in RawValues \cup UninitRawValues
  /\ m_currentResistance \in 0 .. HighestResistance
  /\ m_currentBrightness \in BrightnessLevel \cup UninitBrightness
===============================================================================
