------------------------------ MODULE MCSensorTasks ------------------------------
(* Instance of SensorTasks for TLC: both ends of the converter's range and   *)
(* the two readings on either side of every change of the level; two answers *)
(* of the climate sensor, undisturbed, with every single bit misread, with   *)
(* a pair that cancels out in the checksum, and one breaking off before      *)
(* every phase.                                                              *)
EXTENDS SensorTasks, FiniteSets

(* The conversion alone, which does not depend on the constants. *)
Conversion == INSTANCE Photoresistor WITH
  RawValues <- {}, UninitRawValues <- {}, UninitBrightness <- {}

LevelOf(raw) ==
  Conversion!BrightnessOf(Conversion!CalculateResistance(Conversion!CurrentVoltageMv(raw)))

Boundaries == {raw \in 0 .. 4094 : LevelOf(raw) # LevelOf(raw + 1)}

MCRawValues == {0, 4095} \cup Boundaries \cup {raw + 1 : raw \in Boundaries}

MCUninitRawValues == {5000}

(* The sum of the second exceeds a byte. *)
Answers == {<<40, 0, 21, 0, 61>>, <<255, 3, 128, 9, 139>>}

BitOf(bytes, i) ==
  (bytes[((i - 1) \div 8) + 1] \div 2^(7 - ((i - 1) % 8))) % 2

(* In polls of 2 us: a low phase of 50 us, a high one of 28 or 70 us. *)
Undisturbed(bytes) ==
  [sent |-> [i \in 1 .. 40 |-> BitOf(bytes, i)], b |-> 15, c |-> 40, d |-> 40,
   low |-> [i \in 1 .. 40 |-> 25],
   high |-> [i \in 1 .. 40 |-> IF BitOf(bytes, i) = 1 THEN 35 ELSE 14]]

Misread(line, bits) ==
  [line EXCEPT !.high = [i \in 1 .. 40 |-> IF i \notin bits THEN @[i]
                                           ELSE IF @[i] = 35 THEN 14 ELSE 35]]

Never == 1000

BrokenOff(line) ==
  {[line EXCEPT !.b = Never], [line EXCEPT !.c = Never], [line EXCEPT !.d = Never]}
    \cup {[line EXCEPT !.low[i] = Never] : i \in 1 .. 40}
    \cup {[line EXCEPT !.high[i] = Never] : i \in 1 .. 40}

MCTransmissions ==
  UNION {LET line == Undisturbed(bytes)
         IN  {line} \cup {Misread(line, {i}) : i \in 1 .. 40}
               \cup {Misread(line, {1, 9})}
         : bytes \in Answers}
    \cup BrokenOff(Undisturbed(<<40, 0, 21, 0, 61>>))
===============================================================================
