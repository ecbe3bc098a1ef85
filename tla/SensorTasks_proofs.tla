--------------------------- MODULE SensorTasks_proofs ---------------------------
(***************************************************************************)
(* Proofs about SensorTasks and the components it is made of: a pass of    *)
(* the dispatcher, the level of the photoresistor and the readings of the  *)
(* climate sensor.                                                         *)
(***************************************************************************)
EXTENDS SensorTasks, FiniteSetTheorems, SequenceTheorems, TLAPS

(* All that the proofs need of the list of tasks.  The definition is not    *)
(* looked into again, and SLOW_TASK_COUNTER is any number of passes.        *)
LEMMA TaskList == Len(Tasks) \in Nat /\ DOMAIN Tasks = 1 .. Len(Tasks)
  BY DEF Tasks

TaskNames == {Tasks[n].task : n \in DOMAIN Tasks}

-------------------------------------------------------------------------------
(* The dispatcher. *)

(* A complete pass goes through the whole of the buffer in use, which       *)
(* nothing moves any more: main is done with registering when it begins,    *)
(* and growing is a part of registering.                                    *)
DispatcherInv ==
  /\ m_entries \in [buffer : Nat, size : Nat, capacity : Nat]
  /\ pass \in [at : {"delay", "loop", "waiting"}, buffer : Nat, next : Nat, end : Nat]
  /\ called \in Seq(TaskNames)
  /\ complete \in BOOLEAN
  /\ Dispatcher!TypeOK
  /\ growing => ~Dispatcher!Registered /\ m_entries.size = m_entries.capacity
  /\ pass.at # "delay" => tickCount < SLOW_TASK_COUNTER
  /\ pass.at = "waiting" => pass.next <= pass.end
  /\ pass.end <= Len(Tasks)
  /\ complete => Dispatcher!Registered
  /\ complete /\ pass.at # "delay" => pass.buffer = m_entries.buffer
  /\ Dispatcher!PassIsComplete

DispatcherStep ==
  \/ Dispatcher!RegisterTask \/ Dispatcher!FinishGrowing
  \/ \E task \in TaskNames : Dispatcher!Call(task)
  \/ Dispatcher!BeginPass \/ Dispatcher!Return \/ Dispatcher!Skip \/ Dispatcher!EndPass
  \/ Dispatcher!Panic
  \/ UNCHANGED dispatcherVars

(* An instance brings operators of its own for those its module extends. *)
LEMMA SameOperators == \A S : Dispatcher!Cardinality(S) = Cardinality(S)
  BY DEF Dispatcher!Cardinality, Cardinality

(* The due entries are numbered without a gap. *)
LEMMA DueEntries ==
  ASSUME NEW n \in DOMAIN Tasks
  PROVE  /\ IsFiniteSet(Dispatcher!DueUpTo(n)) /\ Cardinality(Dispatcher!DueUpTo(n)) \in Nat
         /\ Dispatcher!DueUpTo(0) = {} /\ Cardinality(Dispatcher!DueUpTo(0)) = 0
         /\ Dispatcher!Due(Tasks[n]) =>
              /\ Dispatcher!DueUpTo(n) = Dispatcher!DueUpTo(n - 1) \cup {n}
              /\ Cardinality(Dispatcher!DueUpTo(n)) = Cardinality(Dispatcher!DueUpTo(n - 1)) + 1
         /\ ~Dispatcher!Due(Tasks[n]) => Dispatcher!DueUpTo(n) = Dispatcher!DueUpTo(n - 1)
<1> DEFINE DueUpTo(k) == Dispatcher!DueUpTo(k)
<1>1. DOMAIN Tasks = 1 .. Len(Tasks) /\ Len(Tasks) \in Nat
  BY TaskList
<1>2. \A k \in Nat : IsFiniteSet(DueUpTo(k)) /\ Cardinality(DueUpTo(k)) \in Nat
  <2> TAKE k \in Nat
  <2>1. DueUpTo(k) \in SUBSET (1 .. Len(Tasks))
    BY <1>1 DEF Dispatcher!DueUpTo
  <2>2. IsFiniteSet(1 .. Len(Tasks))
    BY <1>1, FS_Interval
  <2> HIDE DEF DueUpTo
  <2> QED
    BY <2>1, <2>2, FS_Subset, FS_CardinalityType
<1>3. DueUpTo(0) = {}
  BY <1>1 DEF Dispatcher!DueUpTo
<1>4. n - 1 \in Nat /\ n \in Nat /\ n \notin DueUpTo(n - 1)
  BY <1>1 DEF Dispatcher!DueUpTo
<1>5. Dispatcher!Due(Tasks[n]) => DueUpTo(n) = DueUpTo(n - 1) \cup {n}
  BY <1>1 DEF Dispatcher!DueUpTo
<1>6. ~Dispatcher!Due(Tasks[n]) => DueUpTo(n) = DueUpTo(n - 1)
  BY <1>1 DEF Dispatcher!DueUpTo
<1>7. Cardinality(DueUpTo(n - 1) \cup {n}) = Cardinality(DueUpTo(n - 1)) + 1
  BY <1>2, <1>4, FS_AddElement
<1> QED
  BY <1>2, <1>3, <1>4, <1>5, <1>6, <1>7, FS_EmptySet

(* The dispatcher before its first pass. *)
LEMMA DispatcherStarts ==
  ASSUME Dispatcher!Init
  PROVE  DispatcherInv
<1>1. called \in Seq(TaskNames)
  BY EmptySeq DEF Dispatcher!Init
<1>2. growing \in BOOLEAN /\ complete \in BOOLEAN
  BY Zenon DEF Dispatcher!Init
<1> QED
  BY <1>1, <1>2, TaskList, SlowTaskCounterAssumption
     DEF DispatcherInv, Dispatcher!Init, Dispatcher!NoEntries, Dispatcher!NoPass,
         Dispatcher!TypeOK, Dispatcher!PassIsComplete

(* Every step of main and of the dispatcher. *)
LEMMA DispatcherSteps ==
  ASSUME DispatcherInv, DispatcherStep
  PROVE  DispatcherInv'
<1> USE TaskList, SlowTaskCounterAssumption
    DEF DispatcherInv, Dispatcher!TypeOK, Dispatcher!Registered, Dispatcher!Blocked
<1> DEFINE Unmoved ==
      complete /\ pass.at # "delay" =>
        ~Dispatcher!ReadsFreed /\ pass.end = Len(Tasks) /\ Dispatcher!Registered /\ ~growing
<1>1. Unmoved
  BY DEF Dispatcher!PassIsComplete
<1>2. CASE Dispatcher!RegisterTask
  <2>1. /\ ~complete /\ complete' = complete
        /\ UNCHANGED <<pass, tickCount, called>>
    BY <1>2 DEF Dispatcher!RegisterTask
  <2>2. growing' \in BOOLEAN
    BY <1>2, Zenon DEF Dispatcher!RegisterTask
  <2>3. m_entries' \in [buffer : Nat, size : Nat, capacity : Nat]
    BY <1>2 DEF Dispatcher!RegisterTask
  <2>4. /\ m_entries'.size \in 0 .. m_entries'.capacity /\ m_entries'.size <= Len(Tasks)
        /\ growing' => m_entries'.size # Len(Tasks) /\ m_entries'.size = m_entries'.capacity
    BY <1>2, SMTT(30) DEF Dispatcher!RegisterTask
  <2> QED
    BY <2>1, <2>2, <2>3, <2>4 DEF Dispatcher!PassIsComplete
<1>3. CASE Dispatcher!FinishGrowing
  <2>1. /\ ~complete /\ complete' = complete
        /\ UNCHANGED <<pass, tickCount, called>>
    BY <1>3 DEF Dispatcher!FinishGrowing
  <2>2. growing' = FALSE
    BY <1>3 DEF Dispatcher!FinishGrowing
  <2>3. m_entries' \in [buffer : Nat, size : Nat, capacity : Nat]
    BY <1>3 DEF Dispatcher!FinishGrowing
  <2>4. m_entries'.size \in 0 .. m_entries'.capacity /\ m_entries'.size <= Len(Tasks)
    BY <1>3 DEF Dispatcher!FinishGrowing
  <2>5. growing' \in BOOLEAN
    BY <2>2, Zenon
  <2> QED
    BY <2>1, <2>2, <2>3, <2>4, <2>5 DEF Dispatcher!PassIsComplete
<1>4. CASE Dispatcher!BeginPass
  <2>1. /\ UNCHANGED <<m_entries, growing>>
        /\ pass' = [at |-> "loop", buffer |-> m_entries.buffer, next |-> 1,
                    end |-> m_entries.size]
        /\ called' = <<>> /\ complete' = (m_entries.size = Len(Tasks))
        /\ tickCount' \in 0 .. SLOW_TASK_COUNTER /\ tickCount' < SLOW_TASK_COUNTER
    BY <1>4 DEF Dispatcher!BeginPass
  <2>2. called' \in Seq(TaskNames) /\ Len(called') = 0
    BY <2>1, EmptySeq
  <2>3. complete' \in BOOLEAN /\ growing' \in BOOLEAN
    BY <2>1, Zenon
  <2>4. Dispatcher!DueUpTo(Dispatcher!Passed)' = {}
    BY <2>1 DEF Dispatcher!DueUpTo, Dispatcher!Passed
  <2>5. Dispatcher!PassIsComplete'
    BY <2>1, <2>2, <2>4, FS_EmptySet, SameOperators
       DEF Dispatcher!PassIsComplete, Dispatcher!ReadsFreed
  <2> QED
    BY <2>1, <2>2, <2>3, <2>5
<1>5. ASSUME NEW task \in TaskNames, Dispatcher!Call(task) PROVE DispatcherInv'
  <2>1. /\ UNCHANGED <<m_entries, growing, tickCount, complete>>
        /\ pass.at = "loop" /\ pass.next <= pass.end
        /\ Tasks[pass.next].task = task /\ Dispatcher!Due(Tasks[pass.next])
        /\ called' = Append(called, task)
        /\ pass' = IF task \in Waiting THEN [pass EXCEPT !.at = "waiting"]
                   ELSE [pass EXCEPT !.next = @ + 1]
    BY <1>5 DEF Dispatcher!Call, Dispatcher!Read
  <2>2. complete' \in BOOLEAN /\ growing' \in BOOLEAN
    BY <2>1, Zenon
  <2>3. /\ called' \in Seq(TaskNames)
        /\ Len(called') = Len(called) + 1 /\ called'[Len(called) + 1] = task
        /\ \A i \in 1 .. Len(called) : called'[i] = called[i]
    BY <2>1, AppendProperties
  <2>4. /\ pass' \in [at : {"delay", "loop", "waiting"}, buffer : Nat, next : Nat, end : Nat]
        /\ pass'.at # "delay" /\ pass'.next \in 1 .. pass'.end + 1
        /\ pass'.at = "waiting" => pass'.next <= pass'.end
        /\ pass'.buffer = pass.buffer /\ pass'.end = pass.end
    <3>1. CASE task \in Waiting
      BY <2>1, <3>1
    <3>2. CASE task \notin Waiting
      <4>1. pass' = [pass EXCEPT !.next = @ + 1]
        BY <2>1, <3>2
      <4>2. pass.next + 1 \in Nat /\ pass.next + 1 \in 1 .. pass.end + 1
        BY <2>1
      <4>3. pass' \in [at : {"delay", "loop", "waiting"}, buffer : Nat, next : Nat, end : Nat]
        BY <4>1, <4>2
      <4> QED
        BY <2>1, <4>1, <4>2, <4>3
    <3> QED
      BY <3>1, <3>2
  <2>5. Dispatcher!Passed = pass.next - 1 /\ Dispatcher!Passed' = pass.next
    BY <2>1 DEF Dispatcher!Passed
  <2>6. ASSUME complete
        PROVE  Dispatcher!PassIsComplete'
    <3>1. pass.next \in DOMAIN Tasks /\ pass.end = Len(Tasks) /\ m_entries.size = Len(Tasks)
      BY <2>1, <2>6, <1>1
    <3> DEFINE Due(k) == Dispatcher!DueUpTo(k)
    <3>2. \A k \in Nat : Dispatcher!DueUpTo(k)' = Due(k)
      BY <2>1 DEF Dispatcher!DueUpTo, Dispatcher!Due, Dispatcher!slowTaskTrigger
    <3>3. /\ Len(called) = Cardinality(Due(pass.next - 1))
          /\ \A m \in Due(pass.next - 1) : called[Cardinality(Due(m))] = Tasks[m].task
      BY <2>1, <2>5, <2>6, SameOperators DEF Dispatcher!PassIsComplete
    <3>4. /\ Due(pass.next) = Due(pass.next - 1) \cup {pass.next}
          /\ Cardinality(Due(pass.next)) = Len(called) + 1
      BY <2>1, <3>1, <3>3, DueEntries
    <3>5. \A m \in Due(pass.next - 1) :
            m \in 1 .. pass.next - 1 /\ Cardinality(Due(m)) \in 1 .. Len(called)
      <4> TAKE m \in Due(pass.next - 1)
      <4>1. m \in DOMAIN Tasks /\ m \in 1 .. pass.next - 1 /\ m \in Due(m)
        BY <2>1, <3>1 DEF Dispatcher!DueUpTo
      <4>2. Due(m) \in SUBSET Due(pass.next - 1)
        BY <4>1 DEF Dispatcher!DueUpTo
      <4>3. pass.next - 1 \in DOMAIN Tasks
        BY <2>1, <3>1, <4>1
      <4> HIDE DEF Due
      <4>4. /\ IsFiniteSet(Due(m)) /\ Cardinality(Due(m)) \in Nat
            /\ IsFiniteSet(Due(pass.next - 1))
        BY <4>1, <4>3, DueEntries DEF Due
      <4>5. Cardinality(Due(m)) # 0
        BY <4>1, <4>4, FS_EmptySet
      <4>6. Cardinality(Due(m)) <= Cardinality(Due(pass.next - 1))
        BY <4>2, <4>4, FS_Subset
      <4> QED
        BY <3>3, <4>1, <4>4, <4>5, <4>6
    <3>6. /\ ~Dispatcher!ReadsFreed' /\ pass'.end = Len(Tasks)
      BY <1>1, <2>1, <2>4, <2>6 DEF Dispatcher!ReadsFreed
    <3>7. \A m \in Due(pass.next) : called'[Cardinality(Due(m))] = Tasks[m].task
      BY <2>1, <2>3, <3>3, <3>4, <3>5
    <3> HIDE DEF Due
    <3>8. /\ Len(called') = Dispatcher!Cardinality(Dispatcher!DueUpTo(Dispatcher!Passed)')
          /\ \A m \in Dispatcher!DueUpTo(Dispatcher!Passed)' :
               called'[Dispatcher!Cardinality(Dispatcher!DueUpTo(m)')] = Tasks[m].task
      <4>1. Dispatcher!DueUpTo(Dispatcher!Passed)' = Due(pass.next)
        BY <2>5, <3>2
      <4>2. \A m \in Due(pass.next) : Dispatcher!DueUpTo(m)' = Due(m)
        BY <3>2, <3>4, <3>5
      <4> QED
        BY <2>3, <3>4, <3>7, <4>1, <4>2, SameOperators
    <3> QED
      BY <2>4, <3>6, <3>8 DEF Dispatcher!PassIsComplete
  <2> QED
    BY <2>1, <2>2, <2>3, <2>4, <2>6 DEF Dispatcher!PassIsComplete
<1>6. CASE Dispatcher!Return
  <2>1. /\ UNCHANGED <<m_entries, growing, tickCount, called, complete>>
        /\ pass.at = "waiting"
        /\ pass' = [pass EXCEPT !.at = "loop", !.next = @ + 1]
    BY <1>6 DEF Dispatcher!Return
  <2>2. complete' \in BOOLEAN /\ growing' \in BOOLEAN
    BY <2>1, Zenon
  <2>3. Dispatcher!Passed' = Dispatcher!Passed
    BY <2>1 DEF Dispatcher!Passed
  <2>4. Dispatcher!PassIsComplete'
    <3>1. \A k : Dispatcher!DueUpTo(k)' = Dispatcher!DueUpTo(k)
      BY <2>1 DEF Dispatcher!DueUpTo, Dispatcher!Due, Dispatcher!slowTaskTrigger
    <3> QED
      BY <1>1, <2>1, <2>3, <3>1 DEF Dispatcher!PassIsComplete, Dispatcher!ReadsFreed
  <2>5. /\ pass' \in [at : {"delay", "loop", "waiting"}, buffer : Nat, next : Nat, end : Nat]
        /\ pass'.at = "loop" /\ pass'.next \in 1 .. pass'.end + 1 /\ pass'.buffer = pass.buffer
    <3>1. pass.next + 1 \in Nat /\ pass.next + 1 \in 1 .. pass.end + 1
      BY <2>1
    <3>2. pass' \in [at : {"delay", "loop", "waiting"}, buffer : Nat, next : Nat, end : Nat]
      BY <2>1, <3>1
    <3> QED
      BY <2>1, <3>1, <3>2
  <2> QED
    BY <2>1, <2>2, <2>4, <2>5
<1>7. CASE Dispatcher!Skip
  <2>1. /\ UNCHANGED <<m_entries, growing, tickCount, called, complete>>
        /\ pass.at = "loop" /\ pass.next <= pass.end
        /\ Dispatcher!ReadsFreed \/ ~Dispatcher!Due(Tasks[pass.next])
        /\ pass' = [pass EXCEPT !.next = @ + 1]
    BY <1>7 DEF Dispatcher!Skip, Dispatcher!Read, Dispatcher!ReadsFreed
  <2>2. complete' \in BOOLEAN /\ growing' \in BOOLEAN
    BY <2>1, Zenon
  <2>3. Dispatcher!Passed = pass.next - 1 /\ Dispatcher!Passed' = pass.next
    <3>1. pass'.at = "loop" /\ pass'.next = pass.next + 1
      BY <2>1
    <3>2. pass.next \in Nat
      OBVIOUS
    <3>3. Dispatcher!Passed' = pass'.next - 1
      BY <3>1, Zenon DEF Dispatcher!Passed
    <3>4. Dispatcher!Passed = pass.next - 1
      BY <2>1, Zenon DEF Dispatcher!Passed
    <3> QED
      BY <3>1, <3>2, <3>3, <3>4
  <2>4. ASSUME complete
        PROVE  Dispatcher!PassIsComplete'
    <3>1. \A k : Dispatcher!DueUpTo(k)' = Dispatcher!DueUpTo(k)
      BY <2>1 DEF Dispatcher!DueUpTo, Dispatcher!Due, Dispatcher!slowTaskTrigger
    <3>2. Dispatcher!DueUpTo(pass.next) = Dispatcher!DueUpTo(pass.next - 1)
      BY <1>1, <2>1, <2>4, DueEntries
    <3> QED
      BY <1>1, <2>1, <2>3, <2>4, <3>1, <3>2 DEF Dispatcher!PassIsComplete, Dispatcher!ReadsFreed
  <2>5. ~complete => Dispatcher!PassIsComplete'
    BY <2>1 DEF Dispatcher!PassIsComplete
  <2>6. /\ pass' \in [at : {"delay", "loop", "waiting"}, buffer : Nat, next : Nat, end : Nat]
        /\ pass'.at = "loop" /\ pass'.next \in 1 .. pass'.end + 1 /\ pass'.buffer = pass.buffer
    <3>1. pass.next + 1 \in Nat /\ pass.next + 1 \in 1 .. pass.end + 1
      BY <2>1
    <3>2. pass' \in [at : {"delay", "loop", "waiting"}, buffer : Nat, next : Nat, end : Nat]
      BY <2>1, <3>1
    <3> QED
      BY <2>1, <3>1, <3>2
  <2> QED
    BY <2>1, <2>2, <2>4, <2>5, <2>6
<1>8. CASE Dispatcher!EndPass
  <2>1. /\ UNCHANGED <<m_entries, growing, called, complete>>
        /\ pass.at = "loop" /\ pass' = [pass EXCEPT !.at = "delay"]
        /\ tickCount' = tickCount + 1
    BY <1>8 DEF Dispatcher!EndPass
  <2>2. complete' \in BOOLEAN /\ growing' \in BOOLEAN
    BY <2>1, Zenon
  <2>3. /\ pass' \in [at : {"delay", "loop", "waiting"}, buffer : Nat, next : Nat, end : Nat]
        /\ pass'.at = "delay" /\ pass'.next \in 1 .. pass'.end + 1
    BY <2>1
  <2>4. Dispatcher!PassIsComplete'
    BY <2>3 DEF Dispatcher!PassIsComplete
  <2> QED
    BY <2>1, <2>2, <2>3, <2>4
<1>9. CASE Dispatcher!Panic
  <2>1. /\ m_entries' = [buffer |-> 0, size |-> 0, capacity |-> 0] /\ growing' = FALSE
        /\ pass' = [at |-> "delay", buffer |-> 0, next |-> 1, end |-> 0]
        /\ tickCount' = 0 /\ called' = <<>> /\ complete' = FALSE
    BY <1>9 DEF Dispatcher!Panic, Dispatcher!NoEntries, Dispatcher!NoPass
  <2>2. called' \in Seq(TaskNames)
    BY <2>1, EmptySeq
  <2>3. growing' \in BOOLEAN /\ complete' \in BOOLEAN
    BY <2>1, Zenon
  <2> QED
    BY <2>1, <2>2, <2>3 DEF Dispatcher!PassIsComplete
<1>10. CASE UNCHANGED dispatcherVars
  <2>1. UNCHANGED <<m_entries, growing, pass, tickCount, called, complete>>
    BY <1>10 DEF dispatcherVars
  <2>2. growing' \in BOOLEAN /\ complete' \in BOOLEAN
    BY <2>1, Zenon
  <2>3. Dispatcher!PassIsComplete'
    BY <2>1 DEF Dispatcher!PassIsComplete, Dispatcher!ReadsFreed,
       Dispatcher!Passed, Dispatcher!DueUpTo, Dispatcher!Due, Dispatcher!slowTaskTrigger
  <2> QED
    BY <2>1, <2>2, <2>3
<1> QED
  BY <1>2, <1>3, <1>4, <1>5, <1>6, <1>7, <1>8, <1>9, <1>10 DEF DispatcherStep

-------------------------------------------------------------------------------
(* The photoresistor. *)

PhotoStep == Photo!AdcUpdate \/ Photo!Update \/ Photo!Init' \/ UNCHANGED photoVars

LEMMA Levels == Photo!BrightnessLevel = 0 .. 6
  BY DEF Photo!BrightnessLevel, Photo!BRIGHTNESS_DARK, Photo!BRIGHTNESS_EXTREMELY_BRIGHT

LEMMA LevelType ==
  ASSUME NEW r
  PROVE  Photo!BrightnessOf(r) \in Photo!BrightnessLevel
<1>1. 0 \in Photo!BrightnessLevel
  BY Levels
<1> QED
  BY <1>1, Zenon DEF Photo!BrightnessOf, Photo!BRIGHTNESS_DARK

LEMMA Quotient ==
  ASSUME NEW a \in Nat, NEW b \in Nat, b >= 1
  PROVE  a \div b \in 0 .. a
<1>1. a \div b >= 0
  BY SMT
<1>2. a \div b <= a
  BY SMT
<1>3. a \div b \in Int
  BY SMT
<1> QED
  BY <1>1, <1>2, <1>3, SMT

LEMMA Highest == 0 \in 0 .. Photo!HighestResistance
<1>1. Photo!HighestResistance \in Nat
  BY SMT DEF Photo!HighestResistance, Photo!DIVIDER_SUPPLY_VOLTAGE_MV, Photo!DIVIDER_RESISTOR
<1> QED
  BY <1>1, SMT

(* What a conversion yields, for a reading of any width. *)
LEMMA Resistance ==
  ASSUME NEW raw \in Nat
  PROVE  Photo!CalculateResistance(Photo!CurrentVoltageMv(raw)) \in 0 .. Photo!HighestResistance
<1> DEFINE mv == Photo!CurrentVoltageMv(raw)
           highest == Photo!HighestResistance
<1>0. highest \in Nat /\ highest >= 692790000
  BY SMT DEF Photo!HighestResistance, Photo!DIVIDER_SUPPLY_VOLTAGE_MV, Photo!DIVIDER_RESISTOR
<1> HIDE DEF highest
<1>1. mv \in Nat
  <2>1. raw * 2500 \in Nat
    BY SMT
  <2>2. \A a \in Nat : a \div 4096 \in Nat
    BY SMT
  <2> QED
    BY <2>1, <2>2, SMT
       DEF Photo!CurrentVoltageMv, Photo!ADC_REFERENCE_VOLTAGE_MV, Photo!ADC_RESOLUTION_BIT
<1> HIDE DEF mv
<1> SUFFICES Photo!CalculateResistance(mv) \in 0 .. highest
  BY DEF mv, highest
<1>2. CASE mv >= 3300
  <2>1. Photo!CalculateResistance(mv) = 1000000
    BY <1>1, <1>2, SMT DEF Photo!CalculateResistance, Photo!DIVIDER_SUPPLY_VOLTAGE_MV
  <2> QED
    BY <1>0, <2>1, SMT
<1>3. CASE mv < 3300
  <2>1. /\ mv * 210000 \in Nat /\ 3300 - mv \in Nat /\ 3300 - mv >= 1
        /\ mv * 210000 <= highest
    BY <1>0, <1>1, <1>3, SMT
  <2>2. (mv * 210000) \div (3300 - mv) \in 0 .. mv * 210000
    BY <2>1, Quotient, SMT
  <2>3. Photo!CalculateResistance(mv) = (mv * 210000) \div (3300 - mv)
    BY <1>1, <1>3, SMT
       DEF Photo!CalculateResistance, Photo!DIVIDER_SUPPLY_VOLTAGE_MV, Photo!DIVIDER_RESISTOR
  <2> QED
    BY <1>0, <2>1, <2>2, <2>3, SMT
<1> QED
  BY <1>1, <1>2, <1>3

LEMMA PhotoStarts ==
  ASSUME Photo!Init
  PROVE  Photo!TypeOK
  BY Highest DEF Photo!Init, Photo!TypeOK

LEMMA PhotoSteps ==
  ASSUME Photo!TypeOK, PhotoStep
  PROVE  Photo!TypeOK'
<1> USE DEF Photo!TypeOK
<1>1. CASE Photo!AdcUpdate
  BY <1>1 DEF Photo!AdcUpdate
<1>2. CASE Photo!Update
  <2>1. m_currentRawValue \in Nat
    <3>1. \A raw \in RawValues : raw \in Nat
      BY RawValuesAssumption
    <3> QED
      BY <3>1, UninitAssumption
  <2>2. /\ UNCHANGED m_currentRawValue
        /\ m_currentResistance' \in 0 .. Photo!HighestResistance
        /\ m_currentBrightness' = Photo!BrightnessOf(m_currentResistance')
    BY <1>2, <2>1, Resistance DEF Photo!Update
  <2>3. m_currentBrightness' \in Photo!BrightnessLevel
    <3>1. m_currentResistance' \in Nat
      BY <2>2, SMT
    <3> QED
      BY <2>2, <3>1, LevelType
  <2> QED
    BY <2>2, <2>3
<1>3. CASE Photo!Init'
  BY <1>3, Highest DEF Photo!Init
<1>4. CASE UNCHANGED photoVars
  BY <1>4 DEF photoVars
<1> QED
  BY <1>1, <1>2, <1>3, <1>4 DEF PhotoStep

(* A call is of the task at the place the pass has come to. *)
LEMMA CallTask ==
  ASSUME NEW task, Dispatcher!Call(task)
  PROVE  /\ called' = Append(called, task) /\ task \in TaskNames
         /\ pass' = IF task \in Waiting THEN [pass EXCEPT !.at = "waiting"]
                    ELSE [pass EXCEPT !.next = @ + 1]
         /\ DispatcherInv => pass.next \in DOMAIN Tasks /\ Tasks[pass.next].task = task
<1>1. /\ \E n \in DOMAIN Tasks : Tasks[n].task = task /\ Tasks[n] = Tasks[pass.next]
      /\ pass.next <= pass.end
      /\ called' = Append(called, task)
      /\ pass' = IF task \in Waiting THEN [pass EXCEPT !.at = "waiting"]
                 ELSE [pass EXCEPT !.next = @ + 1]
  BY DEF Dispatcher!Call, Dispatcher!Read, Dispatcher!ToSet
<1>2. DispatcherInv => pass.next \in DOMAIN Tasks
  BY <1>1, TaskList DEF DispatcherInv, Dispatcher!TypeOK
<1> QED
  BY <1>1, <1>2 DEF TaskNames

(* A pass comes to the converter at the second entry and to the              *)
(* photoresistor at the third: after it nothing in the pass changes the      *)
(* reading.                                                                  *)
LevelInv ==
  /\ \A i \in DOMAIN called : called[i] = "photoresistor" => pass.next > 3
  /\ LevelIsOfThisPass

(* What a step does to the tasks called, and to the reading and the level. *)
LevelStep ==
  \/ called' = <<>>
  \/ UNCHANGED <<called, photoVars>> /\ pass'.next >= pass.next
  \/ Dispatcher!Call("adc") /\ Photo!AdcUpdate
  \/ Dispatcher!Call("photoresistor") /\ Photo!Update
  \/ \E task \in {"presenceSensor", "climateSensor", "lightController"} :
       Dispatcher!Call(task) /\ UNCHANGED photoVars

LEMMA LevelStarts ==
  ASSUME called = <<>>
  PROVE  LevelInv
  BY DEF LevelInv, LevelIsOfThisPass

LEMMA LevelSteps ==
  ASSUME DispatcherInv, DispatcherInv', LevelInv, LevelStep
  PROVE  LevelInv'
<1> USE DEF LevelInv, LevelIsOfThisPass
<1> DEFINE level == Photo!BrightnessOf(Photo!CalculateResistance(
                      Photo!CurrentVoltageMv(m_currentRawValue)))
<1>0. called \in Seq(TaskNames) /\ pass.next \in Nat /\ pass'.next \in Nat
  BY DEF DispatcherInv
<1>1. CASE called' = <<>>
  BY <1>1
<1>2. CASE UNCHANGED <<called, photoVars>> /\ pass'.next >= pass.next
  BY <1>0, <1>2 DEF photoVars
<1>3. ASSUME NEW task, Dispatcher!Call(task)
      PROVE  /\ DOMAIN called' = DOMAIN called \cup {Len(called) + 1}
             /\ called'[Len(called) + 1] = task
             /\ \A i \in DOMAIN called : called'[i] = called[i]
             /\ pass.next \in DOMAIN Tasks /\ Tasks[pass.next].task = task
             /\ pass'.next = IF task \in Waiting THEN pass.next ELSE pass.next + 1
  <2>1. /\ called' = Append(called, task) /\ task \in TaskNames
        /\ pass.next \in DOMAIN Tasks /\ Tasks[pass.next].task = task
        /\ pass' = IF task \in Waiting THEN [pass EXCEPT !.at = "waiting"]
                   ELSE [pass EXCEPT !.next = @ + 1]
    BY <1>3, CallTask
  <2>2. pass'.next = IF task \in Waiting THEN pass.next ELSE pass.next + 1
    BY <2>1 DEF DispatcherInv
  <2>3. Len(called') = Len(called) + 1 /\ Len(called) \in Nat
    BY <1>0, <2>1, AppendProperties
  <2>4. DOMAIN called' = 1 .. Len(called) + 1 /\ DOMAIN called = 1 .. Len(called)
    BY <1>0, <2>1, <2>3, AppendProperties
  <2> QED
    BY <1>0, <2>1, <2>2, <2>3, <2>4, AppendProperties
<1>4. CASE Dispatcher!Call("adc") /\ Photo!AdcUpdate
  <2>1. pass.next = 2
    BY <1>3, <1>4 DEF Tasks
  <2>2. \A i \in DOMAIN called : called[i] # "photoresistor"
    BY <2>1
  <2>3. \A i \in DOMAIN called' : called'[i] # "photoresistor"
    BY <1>3, <1>4, <2>2
  <2> QED
    BY <2>3
<1>5. CASE Dispatcher!Call("photoresistor") /\ Photo!Update
  <2>1. pass.next = 3
    BY <1>3, <1>5 DEF Tasks
  <2>2. pass'.next = 4
    BY <1>3, <1>5, <2>1 DEF Waiting
  <2>3. m_currentBrightness' = level /\ m_currentRawValue' = m_currentRawValue
    BY <1>5 DEF Photo!Update
  <2> QED
    BY <2>2, <2>3
<1>6. ASSUME NEW task \in {"presenceSensor", "climateSensor", "lightController"},
             Dispatcher!Call(task), UNCHANGED photoVars
      PROVE  LevelInv'
  <2>1. pass'.next >= pass.next
    BY <1>0, <1>3, <1>6
  <2>2. \A i \in DOMAIN called' :
          called'[i] = "photoresistor" => i \in DOMAIN called /\ called[i] = "photoresistor"
    BY <1>3, <1>6
  <2> QED
    BY <1>0, <1>6, <2>1, <2>2 DEF photoVars
<1> QED
  BY <1>1, <1>2, <1>4, <1>5, <1>6 DEF LevelStep

-------------------------------------------------------------------------------
(* The climate sensor. *)

ClimateInv == ClimateTypeOK /\ ReadingIsSound

ClimateRestart ==
  /\ countSeconds' = READ_SENSOR_PERIOD_S
  /\ m_humidity' = Uninit /\ m_temperature' = Uninit
  /\ critical' = 0
  /\ source' = NoSource

ClimateStep == ClimateSensorUpdate \/ ClimateRestart \/ UNCHANGED climateVars

BitStrings == [1 .. 40 -> {0, 1}]

(* A byte is less than 256, and one bit changes it by at most 128. *)
LEMMA ByteRange ==
  ASSUME NEW x \in BitStrings, NEW b \in 1 .. 5
  PROVE  Byte(x, b) \in Nat /\ Byte(x, b) <= 255
<1>1. \A m \in 1 .. 8 : x[8 * (b - 1) + m] \in {0, 1}
  BY DEF BitStrings
<1> QED
  BY <1>1 DEF Byte

LEMMA OneBit ==
  ASSUME NEW x \in BitStrings, NEW y \in BitStrings, NEW b \in 1 .. 5,
         NEW m \in 1 .. 8,
         \A n \in 1 .. 8 : x[8 * (b - 1) + n] = y[8 * (b - 1) + n] <=> n # m
  PROVE  /\ Byte(x, b) # Byte(y, b)
         /\ Byte(x, b) <= Byte(y, b) + 128 /\ Byte(y, b) <= Byte(x, b) + 128
<1> DEFINE X(n) == x[8 * (b - 1) + n]
           Y(n) == y[8 * (b - 1) + n]
<1>1. \A n \in 1 .. 8 : X(n) \in {0, 1} /\ Y(n) \in {0, 1} /\ (X(n) = Y(n) <=> n # m)
  BY DEF BitStrings
<1>2. /\ Byte(x, b) = 128 * X(1) + 64 * X(2) + 32 * X(3) + 16 * X(4)
                        + 8 * X(5) + 4 * X(6) + 2 * X(7) + X(8)
      /\ Byte(y, b) = 128 * Y(1) + 64 * Y(2) + 32 * Y(3) + 16 * Y(4)
                        + 8 * Y(5) + 4 * Y(6) + 2 * Y(7) + Y(8)
  BY DEF Byte
<1> HIDE DEF X, Y
<1>3. m \in {1, 2, 3, 4, 5, 6, 7, 8}
  OBVIOUS
<1> QED
  BY <1>1, <1>2, <1>3, SMT

LEMMA SameByte ==
  ASSUME NEW x \in BitStrings, NEW y \in BitStrings, NEW b \in 1 .. 5,
         \A n \in 1 .. 8 : x[8 * (b - 1) + n] = y[8 * (b - 1) + n]
  PROVE  Byte(x, b) = Byte(y, b)
  BY DEF Byte

(* A single bit changes the sum by too little to come round to the same     *)
(* byte.                                                                    *)
LEMMA SumChanges ==
  ASSUME NEW s \in Nat, NEW t \in Nat, s # t, s <= t + 128, t <= s + 128
  PROVE  s % 256 # t % 256
  OBVIOUS

(* The checksum notices a single bit wherever it is. *)
LEMMA SingleBit ==
  ASSUME NEW x \in BitStrings, NEW y \in BitStrings,
         \A i, j \in 1 .. 40 : x[i] # y[i] /\ x[j] # y[j] => i = j,
         ChecksumMatches(Bytes(x)), ChecksumMatches(Bytes(y))
  PROVE  x = y
<1> SUFFICES ASSUME NEW i \in 1 .. 40, x[i] # y[i] PROVE FALSE
  BY DEF BitStrings
<1>1. PICK b \in 1 .. 5, m \in 1 .. 8 : i = 8 * (b - 1) + m
  <2>1. CASE i <= 8
    <3>1. i \in 1 .. 8 /\ i = 8 * (1 - 1) + i
      BY <2>1
    <3> QED
      BY <3>1
  <2>2. CASE i > 8 /\ i <= 16
    <3>1. i - 8 \in 1 .. 8 /\ i = 8 * (2 - 1) + (i - 8)
      BY <2>2
    <3> QED
      BY <3>1
  <2>3. CASE i > 16 /\ i <= 24
    <3>1. i - 16 \in 1 .. 8 /\ i = 8 * (3 - 1) + (i - 16)
      BY <2>3
    <3> QED
      BY <3>1
  <2>4. CASE i > 24 /\ i <= 32
    <3>1. i - 24 \in 1 .. 8 /\ i = 8 * (4 - 1) + (i - 24)
      BY <2>4
    <3> QED
      BY <3>1
  <2>5. CASE i > 32
    <3>1. i - 32 \in 1 .. 8 /\ i = 8 * (5 - 1) + (i - 32)
      BY <2>5
    <3> QED
      BY <3>1
  <2> QED
    BY <2>1, <2>2, <2>3, <2>4, <2>5
<1>2. \A c \in 1 .. 5 : c # b => Byte(x, c) = Byte(y, c)
  <2> SUFFICES ASSUME NEW c \in 1 .. 5, c # b, NEW n \in 1 .. 8
               PROVE  x[8 * (c - 1) + n] = y[8 * (c - 1) + n]
    BY SameByte
  <2>1. 8 * (c - 1) + n \in 1 .. 40 /\ 8 * (c - 1) + n # i
    BY <1>1
  <2> QED
    BY <2>1
<1>3. \A n \in 1 .. 8 : x[8 * (b - 1) + n] = y[8 * (b - 1) + n] <=> n # m
  <2> TAKE n \in 1 .. 8
  <2>1. 8 * (b - 1) + n \in 1 .. 40 /\ (8 * (b - 1) + n = i <=> n = m)
    BY <1>1
  <2> QED
    BY <1>1, <2>1
<1>4. /\ Byte(x, b) # Byte(y, b)
      /\ Byte(x, b) <= Byte(y, b) + 128 /\ Byte(y, b) <= Byte(x, b) + 128
  BY <1>3, OneBit
<1>5. /\ Byte(x, 5) = (Byte(x, 1) + Byte(x, 2) + Byte(x, 3) + Byte(x, 4)) % 256
      /\ Byte(y, 5) = (Byte(y, 1) + Byte(y, 2) + Byte(y, 3) + Byte(y, 4)) % 256
  BY DEF ChecksumMatches, Bytes, DHT_DATA_BYTES, DHT_DATA_BITS
<1>6. \A c \in 1 .. 5 : Byte(x, c) \in Nat /\ Byte(y, c) \in Nat
  BY ByteRange
<1>7. CASE b = 5
  BY <1>2, <1>4, <1>5, <1>7
<1>8. CASE b # 5
  <2> DEFINE s == Byte(x, 1) + Byte(x, 2) + Byte(x, 3) + Byte(x, 4)
             t == Byte(y, 1) + Byte(y, 2) + Byte(y, 3) + Byte(y, 4)
  <2>1. Byte(x, 5) = Byte(y, 5)
    BY <1>2, <1>8
  <2>2. s \in Nat /\ t \in Nat /\ s # t /\ s <= t + 128 /\ t <= s + 128
    <3>1. b \in {1, 2, 3, 4}
      BY <1>8
    <3> QED
      BY <1>2, <1>4, <1>6, <3>1
  <2>3. s % 256 # t % 256
    BY <2>2, SumChanges
  <2> QED
    BY <1>5, <2>1, <2>3
<1> QED
  BY <1>7, <1>8

(* At most one element. *)
LEMMA LessThanTwo ==
  ASSUME NEW S, IsFiniteSet(S), Cardinality(S) < 2, NEW i \in S, NEW j \in S
  PROVE  i = j
<1> SUFFICES ASSUME i # j PROVE FALSE
  OBVIOUS
<1>1. IsFiniteSet({i}) /\ Cardinality({i}) = 1
  BY FS_Singleton
<1>2. Cardinality({i} \cup {j}) = 2
  BY <1>1, FS_AddElement
<1>3. Cardinality({i} \cup {j}) <= Cardinality(S)
  <2>1. {i} \cup {j} \in SUBSET S
    OBVIOUS
  <2> QED
    BY <2>1, FS_Subset
<1>4. Cardinality(S) \in Nat
  BY FS_CardinalityType
<1> QED
  BY <1>2, <1>3, <1>4

(* One call of the driver: it leaves every critical section it enters, and  *)
(* what it accepts is what was sent or has two bits changed.                *)
LEMMA Reading ==
  ASSUME NEW line \in Transmissions
  PROVE  /\ dht_read_data(line).entered = 0
         /\ dht_read_data(line).result = "ESP_OK" =>
              /\ dht_read_data(line).humidity \in Tenths
              /\ dht_read_data(line).temperature \in Tenths
              /\ Cardinality(Changed(line)) < 2 =>
                   /\ dht_read_data(line).humidity = 10 * Bytes(line.sent)[1]
                   /\ dht_read_data(line).temperature = 10 * Bytes(line.sent)[3]
<1> DEFINE fetched == dht_fetch_data(line)
           received == Bits(line)
<1>1. dht_read_data(line).entered = 0
  BY DEF dht_read_data, dht_fetch_data
<1>2. ASSUME dht_read_data(line).result = "ESP_OK"
      PROVE  /\ ChecksumMatches(Bytes(received))
             /\ dht_read_data(line).humidity = Bytes(received)[1] * 10
             /\ dht_read_data(line).temperature = Bytes(received)[3] * 10
  <2>1. ~PhaseMissing(line)
    BY <1>2 DEF dht_read_data, dht_fetch_data
  <2>2. fetched.result = "ESP_OK" /\ fetched.data = Bytes(received)
    BY <2>1 DEF dht_fetch_data
  <2>3. ChecksumMatches(fetched.data)
    BY <1>2, <2>2 DEF dht_read_data
  <2> HIDE DEF fetched
  <2> QED
    BY <2>2, <2>3 DEF dht_read_data, dht_convert_data, fetched
<1>3. received \in BitStrings /\ line.sent \in BitStrings
  BY TransmissionsAssumption DEF Bits, BitStrings, DHT_DATA_BITS
<1>4. Bytes(received)[1] = Byte(received, 1) /\ Bytes(received)[3] = Byte(received, 3)
  BY DEF Bytes, DHT_DATA_BYTES, DHT_DATA_BITS
<1>5. ASSUME ChecksumMatches(Bytes(received)), Cardinality(Changed(line)) < 2
      PROVE  received = line.sent
  <2>1. Changed(line) \in SUBSET (1 .. 40)
    BY DEF Changed, DHT_DATA_BITS
  <2>2. IsFiniteSet(Changed(line))
    <3>1. \A n \in Nat : IsFiniteSet(1 .. n)
      BY FS_Interval
    <3>2. 40 \in Nat
      OBVIOUS
    <3>3. IsFiniteSet(1 .. 40)
      BY <3>1, <3>2, Zenon
    <3> QED
      BY <2>1, <3>3, FS_Subset, Zenon
  <2>3. \A i, j \in Changed(line) : i = j
    BY <1>5, <2>2, LessThanTwo
  <2>4. \A i, j \in 1 .. 40 :
          received[i] # line.sent[i] /\ received[j] # line.sent[j] => i = j
    BY <2>3 DEF Changed, DHT_DATA_BITS
  <2>5. ChecksumMatches(Bytes(line.sent))
    BY TransmissionsAssumption
  <2> QED
    BY <1>3, <1>5, <2>4, <2>5, SingleBit, Zenon
<1>6. /\ Byte(received, 1) \in Nat /\ Byte(received, 1) <= 255
      /\ Byte(received, 3) \in Nat /\ Byte(received, 3) <= 255
  BY <1>3, ByteRange
<1>7. \A n \in Nat : n <= 255 => n * 10 \in Tenths /\ n * 10 = 10 * n
  BY DEF Tenths
<1> HIDE DEF received
<1>8. CASE dht_read_data(line).result = "ESP_OK"
  <2>1. /\ dht_read_data(line).humidity = Byte(received, 1) * 10
        /\ dht_read_data(line).temperature = Byte(received, 3) * 10
    BY <1>2, <1>4, <1>8
  <2>2. Cardinality(Changed(line)) < 2 =>
          /\ Byte(received, 1) = Bytes(line.sent)[1]
          /\ Byte(received, 3) = Bytes(line.sent)[3]
    BY <1>2, <1>4, <1>5, <1>8
  <2> QED
    BY <1>1, <1>6, <1>7, <2>1, <2>2
<1> QED
  BY <1>1, <1>8

LEMMA ClimateStarts ==
  ASSUME ClimateInit
  PROVE  ClimateInv
  BY DEF ClimateInit, ClimateInv, ClimateTypeOK, ReadingIsSound, READ_SENSOR_PERIOD_S

LEMMA ClimateSteps ==
  ASSUME ClimateInv, ClimateStep
  PROVE  ClimateInv'
<1> USE DEF ClimateInv, ClimateTypeOK, ReadingIsSound, READ_SENSOR_PERIOD_S
<1>1. ASSUME countSeconds = 0, ReadSensor, countSeconds' = READ_SENSOR_PERIOD_S - 1
      PROVE  ClimateInv'
  <2>1. PICK line \in Transmissions :
          /\ critical' = critical + dht_read_data(line).entered
          /\ IF dht_read_data(line).result = "ESP_OK"
               THEN /\ m_humidity' = dht_read_data(line).humidity
                    /\ m_temperature' = dht_read_data(line).temperature
                    /\ source' = [sent |-> Bytes(line.sent),
                                  misread |-> Cardinality(Changed(line))]
               ELSE UNCHANGED <<m_humidity, m_temperature, source>>
    BY <1>1 DEF ReadSensor, Readings
  <2>2. critical' = 0
    BY <2>1, Reading
  <2>3. CASE dht_read_data(line).result = "ESP_OK"
    <3>1. /\ m_humidity' = dht_read_data(line).humidity
          /\ m_temperature' = dht_read_data(line).temperature
          /\ source'.sent = Bytes(line.sent)
          /\ source'.misread = Cardinality(Changed(line))
      BY <2>1, <2>3
    <3>2. m_humidity' \in Tenths /\ m_temperature' \in Tenths
      BY <2>3, <3>1, Reading
    <3>3. ClimateTypeOK'
      BY <1>1, <3>2, NoReadingAssumption
    <3>4. source'.misread < 2 =>
            m_humidity' = 10 * source'.sent[1] /\ m_temperature' = 10 * source'.sent[3]
      BY <2>3, <3>1, Reading
    <3> QED
      BY <2>2, <3>3, <3>4
  <2>4. CASE dht_read_data(line).result # "ESP_OK"
    BY <1>1, <2>1, <2>2, <2>4
  <2> QED
    BY <2>3, <2>4
<1>2. ASSUME countSeconds # 0, countSeconds' = countSeconds - 1,
             UNCHANGED <<m_humidity, m_temperature, critical, source>>
      PROVE  ClimateInv'
  BY <1>2
<1>3. CASE ClimateRestart
  BY <1>3 DEF ClimateRestart
<1>4. CASE UNCHANGED climateVars
  BY <1>4 DEF climateVars
<1> QED
  BY <1>1, <1>2, <1>3, <1>4 DEF ClimateStep, ClimateSensorUpdate

-------------------------------------------------------------------------------
(* The composition: every step is a step or a stutter of each component. *)

Inv == DispatcherInv /\ Photo!TypeOK /\ LevelInv /\ ClimateInv

LEMMA CallIsStep ==
  ASSUME NEW task, Dispatcher!Call(task)
  PROVE  DispatcherStep
  BY CallTask DEF DispatcherStep

LEMMA Components ==
  [Next]_vars => DispatcherStep /\ PhotoStep /\ ClimateStep
<1> USE DEF PhotoStep, ClimateStep
<1>1. CASE Main
  BY <1>1 DEF Main, DispatcherStep
<1>2. CASE UpdateAdc
  BY <1>2, CallIsStep DEF UpdateAdc
<1>3. CASE UpdatePhotoresistor
  BY <1>3, CallIsStep DEF UpdatePhotoresistor
<1>4. CASE UpdateClimateSensor
  BY <1>4, CallIsStep DEF UpdateClimateSensor
<1>5. CASE UpdateOther
  BY <1>5, CallIsStep DEF UpdateOther
<1>6. CASE Loop
  BY <1>6 DEF Loop, DispatcherStep
<1>7. CASE Restart
  <2>1. Photo!Init'
    BY <1>7 DEF Restart, Photo!Init
  <2> QED
    BY <1>7, <2>1 DEF Restart, DispatcherStep, ClimateRestart
<1>8. CASE UNCHANGED vars
  BY <1>8 DEF vars, DispatcherStep
<1> QED
  BY <1>1, <1>2, <1>3, <1>4, <1>5, <1>6, <1>7, <1>8 DEF Next, DispatcherTask

LEMMA LevelComponents ==
  ASSUME DispatcherInv, [Next]_vars
  PROVE  LevelStep
<1> USE DEF LevelStep
<1>1. pass \in [at : {"delay", "loop", "waiting"}, buffer : Nat, next : Nat, end : Nat]
  BY DEF DispatcherInv
<1>2. CASE Main \/ UNCHANGED vars
  <2>1. UNCHANGED <<called, pass, photoVars>>
    BY <1>2 DEF Main, Dispatcher!RegisterTask, Dispatcher!FinishGrowing, vars, dispatcherVars
  <2> QED
    BY <1>1, <2>1
<1>3. CASE UpdateAdc \/ UpdatePhotoresistor
  BY <1>3 DEF UpdateAdc, UpdatePhotoresistor
<1>4. CASE UpdateClimateSensor
  BY <1>4 DEF UpdateClimateSensor
<1>5. CASE UpdateOther
  BY <1>5 DEF UpdateOther
<1>6. CASE Loop
  <2>1. CASE Dispatcher!BeginPass
    BY <2>1 DEF Dispatcher!BeginPass
  <2>2. CASE Dispatcher!Return \/ Dispatcher!Skip \/ Dispatcher!EndPass
    <3>1. /\ UNCHANGED called
          /\ \/ pass' = [pass EXCEPT !.at = "loop", !.next = @ + 1]
             \/ pass' = [pass EXCEPT !.next = @ + 1]
             \/ pass' = [pass EXCEPT !.at = "delay"]
      BY <2>2 DEF Dispatcher!Return, Dispatcher!Skip, Dispatcher!EndPass
    <3>2. pass.next \in Nat /\ pass'.next \in {pass.next, pass.next + 1}
      BY <1>1, <3>1
    <3> QED
      BY <1>6, <3>1, <3>2 DEF Loop
  <2> QED
    BY <1>6, <2>1, <2>2 DEF Loop
<1>7. CASE Restart
  BY <1>7 DEF Restart, Dispatcher!Panic
<1> QED
  BY <1>2, <1>3, <1>4, <1>5, <1>6, <1>7 DEF Next, DispatcherTask

(* The invariant holds throughout every behaviour. *)
THEOREM Invariance == Spec => []Inv
<1>1. Init => Inv
  BY DispatcherStarts, PhotoStarts, LevelStarts, ClimateStarts DEF Init, Inv, Dispatcher!Init
<1>2. Inv /\ [Next]_vars => Inv'
  BY Components, LevelComponents, DispatcherSteps, PhotoSteps, LevelSteps, ClimateSteps
     DEF Inv
<1> QED
  BY <1>1, <1>2, PTL DEF Spec

(* A pass that began after the registration calls every due task once and   *)
(* in order: what an earlier pass lost with a buffer stays in that pass.    *)
THEOREM CompletePasses == Spec => []PassIsComplete
<1>1. Inv => PassIsComplete
  BY DEF Inv, DispatcherInv, ClimateInv, PassIsComplete, TypeOK
<1> QED
  BY <1>1, Invariance, PTL

(* Once the photoresistor has been called in a pass, the level is that of    *)
(* the reading the converter holds, however the registration and the passes  *)
(* interleave and whichever readings fail.                                   *)
THEOREM LevelsOfThePass == Spec => []LevelIsOfThisPass
<1>1. Inv => LevelIsOfThisPass
  BY DEF Inv, LevelInv
<1> QED
  BY <1>1, Invariance, PTL

(* No critical section is left open, and no single misread bit gets into    *)
(* the values, whatever the sensor sends and the wire does.                 *)
THEOREM ReadingsSound == Spec => []ReadingIsSound
<1>1. Inv => ReadingIsSound
  BY DEF Inv, ClimateInv
<1> QED
  BY <1>1, Invariance, PTL
===============================================================================
