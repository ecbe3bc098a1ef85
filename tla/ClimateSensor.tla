------------------------------ MODULE ClimateSensor ------------------------------
(***************************************************************************)
(* components/Platform/ClimateSensor.cpp and the driver it calls,          *)
(* managed_components/zorxx__dht/dht.c: humidity and temperature from a    *)
(* DHT11 on one wire.                                                      *)
(*                                                                         *)
(* The sensor answers a start signal with 40 bits; each is a low and a     *)
(* high phase, and a longer high phase than low phase is a one.  The       *)
(* driver polls the wire every DHT_TIMER_INTERVAL and measures a phase by  *)
(* the polls it takes; interrupts are off meanwhile.                       *)
(*                                                                         *)
(* A transmission is what the wire does: for each phase the poll at which  *)
(* it ends.  Values are tenths, as in dht.c; the division by 10.0 is not   *)
(* modelled.                                                               *)
(***************************************************************************)
EXTENDS Integers, Sequences, FiniteSets

CONSTANTS
  Transmissions,   \* records [sent, b, c, d, low, high]; sent: the bits of
                   \* the sensor, which the wire or an interruption may change
  Uninit           \* stands for what the members hold before the first reading

(* The values of a byte, in tenths. *)
Tenths == 0 .. 2550

ASSUME NoReadingAssumption == Uninit \notin Tenths

DHT_TIMER_INTERVAL == 2
DHT_DATA_BITS == 40
DHT_DATA_BYTES == DHT_DATA_BITS \div 8
READ_SENSOR_PERIOD_S == 3

VARIABLES
  countSeconds,
  m_humidity, m_temperature,
  critical,   \* nesting of the critical section
  source      \* history: the transmission the values come from

climateVars == <<countSeconds, m_humidity, m_temperature, critical, source>>

NoSource == [sent |-> <<>>, misread |-> 0]

ClimateInit ==
  /\ countSeconds = READ_SENSOR_PERIOD_S
  /\ m_humidity = Uninit /\ m_temperature = Uninit
  /\ critical = 0
  /\ source = NoSource

-------------------------------------------------------------------------------
(* dht.c *)

TimedOut == -1

(* How long the phase lasted that ends at the given poll. *)
dht_await_pin_state(poll, timeout) ==
  LET duration == DHT_TIMER_INTERVAL * (poll - 1)
  IN  IF duration < timeout THEN duration ELSE TimedOut

LowDuration(line, i) == dht_await_pin_state(line.low[i], 65)
HighDuration(line, i) == dht_await_pin_state(line.high[i], 75)

PhaseMissing(line) ==
  \/ dht_await_pin_state(line.b, 40) = TimedOut
  \/ dht_await_pin_state(line.c, 88) = TimedOut
  \/ dht_await_pin_state(line.d, 88) = TimedOut
  \/ \E i \in 1 .. DHT_DATA_BITS :
       TimedOut \in {LowDuration(line, i), HighDuration(line, i)}

Bits(line) ==
  [i \in 1 .. DHT_DATA_BITS |->
     IF HighDuration(line, i) > LowDuration(line, i) THEN 1 ELSE 0]

(* The bits of a byte come with the highest first. *)
Byte(bits, b) ==
  LET at(m) == bits[8 * (b - 1) + m]
  IN  128 * at(1) + 64 * at(2) + 32 * at(3) + 16 * at(4)
        + 8 * at(5) + 4 * at(6) + 2 * at(7) + at(8)

Bytes(bits) == [b \in 1 .. DHT_DATA_BYTES |-> Byte(bits, b)]

(* CHECK_LOGE leaves the critical section when it returns with an error. *)
dht_fetch_data(line) ==
  IF PhaseMissing(line)
    THEN [result |-> "ESP_ERR_TIMEOUT", data |-> <<>>, exits |-> 1]
    ELSE [result |-> "ESP_OK", exits |-> 0,
          data |-> Bytes(Bits(line))]

(* For a DHT11, the only type in use; the byte after the point is ignored. *)
dht_convert_data(msb, lsb) == msb * 10

(* Faulty variant: the checksum is a parity. *)
ChecksumOfParities(data) ==
  data[5] % 2 = (data[1] + data[2] + data[3] + data[4]) % 2

ChecksumMatches(data) == data[5] = (data[1] + data[2] + data[3] + data[4]) % 256

(* dht_read_data: the critical section is entered once, and left here after *)
(* a success.                                                               *)
dht_read_data(line) ==
  LET fetched == dht_fetch_data(line)
      ok == fetched.result = "ESP_OK"
      left == fetched.exits + IF ok THEN 1 ELSE 0
  IN  IF ok /\ ChecksumMatches(fetched.data)
        THEN [result |-> "ESP_OK", entered |-> 1 - left,
              humidity |-> dht_convert_data(fetched.data[1], fetched.data[2]),
              temperature |-> dht_convert_data(fetched.data[3], fetched.data[4])]
        ELSE [result |-> IF ok THEN "ESP_ERR_INVALID_CRC" ELSE fetched.result,
              entered |-> 1 - left, humidity |-> Uninit, temperature |-> Uninit]

-------------------------------------------------------------------------------
(* The sensor sends five bytes, the last of them the sum of the others. *)
ASSUME TransmissionsAssumption ==
  \A line \in Transmissions :
    /\ line.sent \in [1 .. DHT_DATA_BITS -> {0, 1}]
    /\ ChecksumMatches(Bytes(line.sent))

(* The bits that arrive other than they were sent. *)
Changed(line) == {i \in 1 .. DHT_DATA_BITS : Bits(line)[i] # line.sent[i]}

-------------------------------------------------------------------------------
(* ClimateSensor::Update(). *)

(* What the driver makes of every transmission. *)
Readings ==
  {[sent |-> Bytes(line.sent), misread |-> Cardinality(Changed(line)),
    read |-> dht_read_data(line)] :
     line \in Transmissions}

(* A reading that fails leaves the values as they are. *)
ReadSensor ==
  \E reading \in Readings :
    LET read == reading.read
    IN  /\ critical' = critical + read.entered
        /\ IF read.result = "ESP_OK"
             THEN /\ m_humidity' = read.humidity
                  /\ m_temperature' = read.temperature
                  /\ source' = [sent |-> reading.sent, misread |-> reading.misread]
             ELSE UNCHANGED <<m_humidity, m_temperature, source>>

ClimateSensorUpdate ==
  IF countSeconds = 0
    THEN ReadSensor /\ countSeconds' = READ_SENSOR_PERIOD_S - 1
    ELSE /\ countSeconds' = countSeconds - 1
         /\ UNCHANGED <<m_humidity, m_temperature, critical, source>>

-------------------------------------------------------------------------------
(* Properties. *)

ClimateTypeOK ==
  /\ countSeconds \in 0 .. READ_SENSOR_PERIOD_S
  /\ m_humidity = Uninit <=> m_temperature = Uninit
  /\ m_humidity # Uninit => {m_humidity, m_temperature} \subseteq Tenths

(* Whatever happens on the wire and wherever the sensor falls silent, every  *)
(* critical section is left, and the values are those of one answer of the   *)
(* sensor, unless at least two bits of that answer were misread: a single    *)
(* one anywhere, in the checksum too, is noticed.                            *)
ReadingIsSound ==
  /\ critical = 0
  /\ source.misread < 2 /\ source # NoSource =>
       m_humidity = 10 * source.sent[1] /\ m_temperature = 10 * source.sent[3]
===============================================================================
