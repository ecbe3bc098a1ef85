# HomeSensor: TLA+ models, model checking and proofs

HomeSensor is the firmware of an ESP32-C3 that switches a lamp by movement and
darkness, shows its sensors on a web page and can be updated over the air. This
directory holds TLA+ specifications translated from the firmware's sources,
the TLC configurations that check them and theorems that TLAPS proves.

    tlasany LightSystem.tla                                     parse
    tlc -config LightSystem_web.cfg MCLightSystem.tla           model-check
    tlapm OtaUpdate_proofs.tla                                  prove

`PROJECT.json` lists the components, the runs, the source lines behind every
definition, the findings, the hazards and the theorems.

## 1. The system

One core, FreeRTOS at 100 Hz, no locks in the application. The tasks:

| task | priority | created by | runs |
|---|---|---|---|
| `DispatcherTask` | 5 | constructor of a global object | `Update()` of all registered `ITask`s |
| `httpd` | 5 | `http_server_init` | request handlers and queued work, one at a time |
| `StatusStream` | 3 | `status_stream_init` | queues one status message per second |
| main | 1 | ESP-IDF | constructs and registers everything, then sleeps |
| event loop | 20 | `network_wifi_init` | `wifi_event_handler` |

Components (paths under `src/components`, the last three under
`src/managed_components`):

| component | state | operations | talks to |
|---|---|---|---|
| `Application/LightController` | darkness, light state, override flag, countdown, latch, output pin | presence callback, brightness callback, `Update`, `EnableController`, `DisableController`, `GetLightState` | called by the dispatcher, by both sensors, by httpd |
| `Platform/PresenceSensor` | last presence and movement | `Update`, change callback | radar driver, LightController |
| `Platform/Photoresistor`, `Hardware/Adc` | raw value, resistance, brightness level | two `Update`s, change callback | LightController, status page |
| `Common/DispatcherTask` | vector of tasks, tick counter | `RegisterTask`, the loop | every `ITask`, main |
| `Platform/XiaoHumanPresenceSensor`, `Hardware/Uart` | target data, serial stream, the radar's mode | configuration commands, `Update` | PresenceSensor |
| `Platform/ClimateSensor`, `zorxx__dht` | temperature, humidity, countdown; the wire, the critical section | `Update`, `dht_read_float_data` | status page |
| `http_requests/GetStatusStream` | `active`, request handle | request, periodic task, queued send | httpd work queue, LightController |
| `http_requests/PostLightControllerState`, `PostSetIp` | the body, 64 tokens | one handler each | JSON parser, LightController, IpConfig |
| `OtaUpdate`, `http_requests/PostOtaUpdate` | update handle, partition | start, write, finalize, restart | flash, boot loader |
| `Middleware/network_wifi` (connection) | retry counter, event group | event handler, initialisation | event task, main |
| `Middleware/network_wifi` (address), `Hardware/NvMemory`, `PostSetIp` | address in use, address in flash | load, set, save | httpd, main |
| `http_server.c`, `HttpServicesInit.cpp` | handler table | start-up | all handlers |
| `espressif__jsmn`, `espressif__json_parser` | tokens, cursor | parse, look up, convert, enter, leave | the two handlers |
| `espressif__ethernet_init` | table of instances, SPI bus, interrupt service | initialise all, deinitialise all | MAC and PHY constructors, esp_eth |
| `espressif__enc28j60` | the chip's registers and ring, the driver's copies of them, semaphore | interrupt task, transmit, start, stop, check of the link | SPI, esp_eth |

The Ethernet components are dependencies of the firmware's main component. The
board's `sdkconfig` selects no SPI module, so that they are built and not called;
they are modelled as they would run if one were selected, by the use their own
README describes.

What is hard here, and what makes each part correct:

* **LightController.** Two tasks of equal priority run it without a lock. It is
  correct if the lamp never burns without a countdown that will end, a cycle is
  not restarted or stretched, a disabled controller is dark and says so, and an
  enabled one reacts. `m_enabledCounterS` is never assigned by the constructor.
* **Sensors.** Both report changes only, against a first value that is never
  assigned: whoever listens must nevertheless agree with them.
* **Dispatcher.** Time is counted in passes. Seconds must not drift from passes,
  and a slow task must be called for ever. Registration appends to the vector
  while the loop may be waiting inside it with an iterator in hand.
* **Radar.** A byte stream with lost bytes, resynchronised one byte per call; a
  wrong frame must not be accepted, a right one must be, eventually. Before it, two
  commands whose acknowledgements are read from the same stream as the reports.
* **Climate sensor.** Forty bits measured by polling with interrupts off: the
  sensor may stop anywhere, a misread bit must not reach the page, and every way
  out must turn the interrupts on again.
* **StatusStream.** A stale `active`, two clients, a send that fails between the
  decision to queue and the work.
* **JSON bodies.** Bodies that have come in part or not at all, and never-assigned
  text; two passes of the tokenizer that must count alike; a cursor that goes
  down and up a tree that is only known by parent links.
* **OtaUpdate.** Failures at every step, unlimited retry of time-outs in the only
  server thread, power loss before and after the boot partition is switched.
* **NetworkWifi.** Ten retries, two event bits, a wait without time-out, handlers
  that are unregistered and an event group that is deleted when it is over.
* **IpConfig.** Applied, then saved; validated only when loaded; in flash across
  restarts.
* **ENC28J60.** Every register access may fail, a bank switch even halfway. The
  task, the caller of transmit and the timer that looks at the link use one chip;
  packets go around the end of a ring, and a place lost in it is lost for good.
* **Ethernet set-up.** Ten steps that can fail, each undoing those before it,
  through pointers that outlive what they point to.

`PROJECT.json` ("hazards") names the line at which each of these bites.

## 2. Modules

    LightCycle                abstract: one lighting cycle
      ^ implements
    LightController           the controller under two tasks
      ^ extends               MCLightController, LightController_proofs
      ^ implements
    LightSystem               dispatcher + sensors + controller + web requests
      |  instances            PresenceSensor, Photoresistor
      ^ extends               MCLightSystem, LightSystem_proofs
                              (which instances LightController_proofs)

    SensorTasks               registration + the sensors that only report
      |  instances            DispatcherTask, Photoresistor
      |  extends              ClimateSensor
      ^ extends               MCSensorTasks, SensorTasks_proofs

    RadarSetup                the two configuration commands
      ^ extends
    FrameReader               the radar's byte stream (MCFrameReader, FrameReader_proofs)

    StatusStream              the event stream and its pages (StatusStream_proofs)
    FirmwareSlots             abstract: an atomic update
      ^ implements
    OtaUpdate                 the upload (OtaUpdate_proofs)
    NetworkWifi               start-up of the connection, static address
                              (NetworkWifi_proofs)

    Jsmn <- JsonParser <-\
                          JsonRequests    the parser in use (MCJsonRequests)
    JsonDocument       <-/                the reference it is checked against

    Enc28j60Chip <- Enc28j60Mac <- Enc28j60Phy <- EthernetInit <- Ethernet
                                               (MCEthernet, Ethernet_proofs)

**LightCycle** promises what one cycle is: started at its full length with the
lamp dark, never restarted or lengthened, the lamp lit only inside it and put out
after it.

**LightController** translates `LightController.cpp`. Each access to state that
both tasks touch (the override flag, `m_lightEnabled`, the pin) is a step of its
own. `dispatcher` and `httpd` are the two program counters:

| action | code |
|---|---|
| `PresenceCallback(m)` | the lambda of lines 16-27 up to the test of `m_overrideFlag` (39); if overridden the callback returns after setting the latch (24) |
| `StartCountdown`, `DriveHigh` | lines 42-43; line 44 and the latch, line 24 |
| `BrightnessCallback(b)` | `SetDarknessState`, lines 56-65 |
| `Update`, `DriveLow` | lines 85-93 and 48-49; line 50 and the latch, line 94 |
| `DisableController`, `DisableDrivesLow` | line 75; line 76 |
| `EnableController` | line 82 |

The members only the dispatcher uses are merged into the neighbouring step. A
request that the parser rejects changes nothing and is not modelled.

**PresenceSensor** has the distance windows and the change test of
`PresenceSensor.cpp`. The radar driver is abstracted to what `Update` and
`GetTargetData` show: a new target report, or the previous one. Its members are
not initialised by the code; `UninitTargetData` and `UninitState` are what they
may hold.

**Photoresistor** has `Adc::Update`, which keeps the old value if the reading fails,
the conversion raw value -> millivolts -> resistance -> level, and the change test. The code computes in `float` and
truncates; the model uses integer quotients. Neighbouring readings differ by at
least 63 Ohm and none lies within rounding distance of a key of the map but the
one that hits 90000 exactly, which `float` represents, so the levels are the same.

**LightSystem** is `main.cpp`: the dispatcher's pass visits the entries in the
order of registration, `slowTaskTrigger` selects the one-second entries in every
`SLOW_TASK_COUNTER`-th pass, the sensors call the controller synchronously and
the pass waits for it. The climate sensor's entry touches no state of the model
and is left out. The history variable `cyclePasses` counts passes since the
running cycle was started, and `requested` remembers that a web request has come.
The model starts when the last entry is registered; the dispatcher may have made
any number of passes by then.

**DispatcherTask** is the part before: main appends the five entries to the
vector while the dispatcher runs. The dispatcher has the higher priority, so that
main gets on only while it is blocked, in its delay or inside the `Update` of the
presence sensor, which waits for the radar. Where appending has to grow the
vector there are two steps (`RegisterTask`, `FinishGrowing`), between which the old
buffer is freed. A pass that goes on with an iterator into a freed buffer may
still read the old entry, read one that is due never (`Skip`), or call no function,
which restarts the chip (`Panic`). `called` and `complete` are history.
**SensorTasks** composes it with **Photoresistor** and **ClimateSensor**.

**ClimateSensor** is `Update` with the driver below it, function by function:
`dht_await_pin_state` against the poll at which a phase ends, the comparison of
low and high phase, the bytes, the checksum, the conversion for a DHT11, and the
nesting of the critical section, which `CHECK_LOGE` leaves on errors and
`dht_read_data` on success. A transmission is what the wire does.

**RadarSetup** is the constructor's two calls of `SetConfigurationMode`, in ticks
of 100 ms: `WriteSync`, the delay, `ReadSyncAll` into 256 bytes, and the delay of a
second. A command may not be written whole (`WriteFails`: no delay and no reading), be
lost, or be refused with a status other than zero, and an answer may be late; the
radar, which is external, reports in every tick unless it is being configured.
`heard` and `answered` are history: what the radar has carried out, and what of it it
has acknowledged before the answer was read.

**FrameReader** is `XiaoHumanPresenceSensor::Update` with `ReadReportFrame` and
`CheckReportFrame` on a stream of bytes. A byte is not a value but the frame and
the position it was sent at; a frame may have one more byte with the value 0xF4
of a frame's beginning, in its target data. The stream is joined in the middle
of a frame, and one run of bytes is lost. `SkipByte`, `ReadFrame` and
`ReadTimesOut` are the three ways through `Update`; with fewer bytes than a frame
the read either waits for more or times out and loses what came.

**StatusStream** has the request handler with its error exits (`Refuse`,
`BeginFails`, `HelloFails`, `Accept`), the queued `status_stream_once`
(`SendNothingOrChunk`, `SendFails`) and the two steps of the stream task
(`ReadActive`, `QueueWork`). The browsers are external: an `EventSource` connects
again when its connection ends, and gives up when the answer is not a stream.
Completing an asynchronous request does not end its connection: the socket goes
back to the server, which waits on it for another request. After a send that has
failed the connection may be broken (`closed`), or the page may only have been slow
and waits on (`abandoned`; `unanswered` if it was the first chunk).

**FirmwareSlots** promises that the firmware changes at restarts only, to a
version chosen in one step before. **OtaUpdate** is the upload: `StartUpdate`,
`WriteFirmwarePart`, the failing exits, `EndUpdate` and `SetBootPartition` (the two
calls of `FinalizeUpdate`), `EspRestart`; `PowerFails` may come at any point. The
image check of the OTA library is external: it accepts exactly an image whose
parts are all there and undamaged.

**NetworkWifi** has the main task from `network_wifi_init` to the start of the web
server, the event task in `wifi_event_handler` and the web server's thread in
`post_ip_set_handler`. The three addresses of a configuration are one value, of
which only three things matter: a part that is 0xFFFFFFFF (`EmptyAddr`), a part
that is zero (`ZeroAddr`), neither. External are the radio, and the network
interface, which reports an address when the station is connected and no part of
its static configuration is zero. Stopping the DHCP client and setting an address
on a stopped client do not fail. The driver also reports an address set while
connected; no handler is registered any more by then.

**Jsmn** is the tokenizer as `json_parser.c` configures it (strict, parent links):
`jsmn_parse` over a sequence of lexemes - brackets, colon, comma, white space, whole
strings, the beginnings of primitives - and four kinds of lexeme that make wrong
texts. What counts is where tokens begin and end, whose children they are and
which of the three errors comes out; the characters inside a lexeme do not.
**JsonParser** is every function of `json_parser.c`: the two ways to start, the
lookups by name and by index, the conversions with their integer widths, the
strings with their buffer sizes, entering and leaving. **JsonDocument** is what a
JSON text means: a tree, its text, its members and elements. **JsonRequests** runs
the two request handlers over bodies that arrive whole, in part or not at all, and
a client that walks through a document as `test_json_parser.c` does.

**Enc28j60Chip** is the chip and the access to it: a record `dev` with registers,
ring and PHY on one side and the driver's `emac_enc28j60_t` on the other. A driver
function is an operator from a record to the set of its outcomes, and `Then` is
`MAC_CHECK`: it goes on after a success and leaves with what has been done so far
after a failure. The registers that are in every bank are reached without a
switch; a banked access holds `reg_trans_lock` from the switch on and is one step.
**Enc28j60Mac** has the interrupt task (wake, read EIR, receive packet by packet,
transmit errors with the retransmission after a late collision, restore INTIE) and
`emac_enc28j60_transmit`, each divided wherever another thread or the chip can tell.
**Enc28j60Phy** has set-up, start, stop and the PHY with `enc28j60_get_link`; esp_eth
is external and modelled by what the two drivers use of it. **EthernetInit** is
`ethernet_init_all` with every failure and `ethernet_deinit_all`, for ENC28J60
modules and the processor's own Ethernet; objects on the heap have names, so that
a pointer that outlives its object is seen. **Ethernet** is the program around
them. `slips` names the failures after which the driver's picture of the chip may
be wrong; the properties say what holds without them, and with all others.

Names follow the source. Variants called *faulty* in comments are the ways in
which the code could plausibly be wrong; no specification uses them, and
`PROJECT.json` ("mutants") says which property tells each from the real one.

## 3. Runs

| run | instance | shows |
|---|---|---|
| `light_cycle` | cycle of 3 s, both requests, counter unassigned in {0, 2, 5} | type correctness; `LampNeverUnattended`; `LatchCoversCycle`; a controller that stays disabled is eventually dark for good (`DisabledGoesDark`); the controller implements `LightCycle` with its liveness (`CycleRefined`) |
| `light_disabled` | the same | **violation** of `DisabledIsDark` |
| `light_armed` | the same | **violation** of `EnabledIsArmed` |
| `light_system` | 3 passes per second, cycle of 3 s, three readings, three targets, both requests | `DarknessTracksSensor`; `CountdownTracksPasses`; until a request comes, pin, reported state and arming agree (`ConsistentUntilAsked`); the composition implements `LightController` including its fairness |
| `sensor_tasks` | five tasks registered while the loop runs, 2 passes per second; both end readings and the two around each change of the level; two answers of the climate sensor, whole, with each single bit misread, with a pair that cancels out; one broken off before each phase | a pass begun after the registration calls every due task once and in order (`PassIsComplete`); every task is served for ever (`EveryTaskIsServed`); the level told in a pass is that of the reading the converter holds (`LevelIsOfThisPass`); a reading leaves the interrupts on and never shows a single misread bit (`ReadingIsSound`) |
| `frame_reader` | the two commands, each not written, lost, refused, or carried out and acknowledged in time or late; then a frame without 0xF4 in its data and one with it, one loss of up to 22 bytes, room for two frames | `ReadFits`, `SetupHeard`; `DataFromOneFrame`, `IntactFrameAccepted`; while clean frames keep coming the reader keeps accepting frames (`Resynchronises`) |
| `status_pages` | three pages, a queue of two | `OpenRequestIsActive`; only a failed send takes the stream from a page (`ServedUntilSendFails`); `LeftPageIsReleased` |
| `json_requests` | documents of up to two items at each level and some of four levels; every body with the names the handlers look for; every text of up to three lexemes and every one of four that opens an object; 8 tokens, integers of 4 bits | the handlers do what the body says or nothing (`RequestObeyed`); both passes agree (`PassesAgree`); a walk is never lost (`CursorFollowsWalk`) and finds and converts what is there (`LookupsMatchDocument`) |
| `ota_uploads` | two versions, images of two parts, two handles | `BootSlotComplete`; the upload implements `FirmwareSlots` (`UpdateIsAtomic`) |
| `network_startup` | two addresses, two retries, requests for both and for one that does not parse | `HandlerFindsGroup`, `GivenUpStaysDown`, `AddressKept`; if the power stays on the web server starts (`StartupCompletes`) |
| `network_zero` | one address, requests for 0.0.0.0 | **violation** of `StartupCompletes` |
| `ethernet` | one module with two frames to send and three packets to receive, a ring of 16 bytes, or two devices set up only; one failure anywhere; no chip, and revision 6; 6 and 8 MHz | `RxInStep`, `StackInOrder`, `SemaphoreMeansReady`, `MacFollowsLink`, `ObjectsAccounted`; packets are read (`PacketsAreRead`) and the link comes up (`LinkComesUp`) |

Bounds. A cycle of three seconds has a first, a middle and a last second, and
the counter's initial values lie at zero, inside and beyond it; a cycle of
another length adds middle seconds only. Three passes per second give a slow pass,
a pass that follows it and one that precedes the next. The readings 1000, 3000
and 4000 mean light, dusk (dark for the controller) and dark. In `FrameReader`
`BufferSize` is room for two frames, enough for a frame taken across their border,
and `MaxBurst` is 22, one byte less than a frame: a loss of exactly a frame's
length, from inside one frame to the same place in another, cannot be told by
any check of the reader, and does mix two frames. One loss is enough, since after
it the reader may be in any position it can be in. Two parts of an image are one
before and one after any failure; an announced length of up to three parts is
short, right or long. `MaxHandles` is the room the heap has for open handles.
Three pages are one streaming, one leaving and one arriving. Two retries are a
first and a last; `WIFI_MAXIMUM_RETRY` is 10 in the code. `QueueBound` messages fit
into the server's queue. No state constraint is used: every instance is finite
as it stands, and the power may fail any number of times. In `sensor_tasks`
two passes per second tell slow from fast passes; the vector grows at the first,
second, third and fifth entry, each of which falls before, into and after a wait.
All phases of an undisturbed transmission have the length of the data sheet, and
a misread bit is one with the other length. In `json_requests` the token buffer
has room for an address request, and some bodies need nine tokens; integers of 4
bits have values that fit and one, 9, that fits only the double width. In `ethernet`
the third packet's header goes around the end of the ring, and the three do not
fit into it together, so that the chip has to wait for the driver. `MaxTraffic` bounds frames and packets together:
a history has both frames and no packet, all packets and no frame, or one of
each. One failure (`MaxFaults`) falls into every access in turn; revision 6
retransmits after a late collision, and 0 stands for no chip.

The runs `frame_reader` and `ethernet` do not look for deadlocks: a radar that missed the
second command stays silent and nothing more happens, and a history of
`ethernet` ends where a read of garbage has made everything after it arbitrary, or
where the program has aborted.

Fairness. In `LightController`, steps inside an operation are weakly fair (a task
that runs finishes its call) and `Update` is strongly fair (it is disabled while
a callback runs). `LightSystem` assumes only weak fairness of the dispatcher
task as a whole and of a begun request: the dispatcher's only equals are the
HTTP server's thread, with which FreeRTOS slices time. That this yields the
strong fairness of `Update` is part of what `light_system` checks. No request
and no sensor change is ever assumed to come.

`FrameReader`: the dispatcher calls `Update` for ever; that frames arrive is a
premise of `Resynchronises`, not an assumption. `StatusStream`: both tasks run, a
request is served sooner or later however much work is queued (the server's loop
looks at its sockets and its queue in turn), and of the sends to a connection the
browser has closed one fails, as TCP makes sure by a reset or by its own
time-outs. `NetworkWifi`: the tasks run, the radio ends every attempt, and main,
which needs the mutex of the event loop to unregister, gets it in the pauses
between events; that is a strong fairness. Nothing is assumed of the access point.

`SensorTasks`: the dispatcher always goes on, and main, which gets on only while
the dispatcher is blocked, does so again and again: that is a strong fairness.
`EveryTaskIsServed` takes for granted that the dangling iterator does not restart
the chip at every start. `Ethernet`: the driver's task is woken by a notification
or, at the latest after a second, by the pin; the timer looks at the link every two
seconds. Only steps count in which no call fails and nobody moves the cable, neither
of which anything makes happen; at most `MaxFaults` calls fail in a history, so a
retry succeeds in the end. Neither the chip nor the program is assumed to do anything.

## 4. Findings

1. *Disabled but lit.* `DisableController` may run between the dispatcher's test
   of `m_overrideFlag` and its write to the pin: the lamp burns for a cycle in a
   disabled controller. It does go out in the end (`DisabledGoesDark`,
   `LampNeverUnattended`).
2. *Enabled but deaf.* Movement in the dark while disabled sets the latch although
   no cycle starts; only the end of a cycle releases it. After enabling, no
   movement lights the lamp until a restart.
3. *Zero address.* 0.0.0.0 is taken, saved and accepted at the next start, which
   then waits for ever and never starts the web server that could set another. Only
   the loss of the access point, more often than there are retries, ends the wait.

Worth knowing, though no document says otherwise, or only a word in a comment.
Of the light and the sensors:

* Disabling during a cycle leaves `m_lightEnabled` set: the status page shows ON
  until the countdown ends.
* A cycle lasts up to one second less than `lightEnabledTimeS`, because movement may
  start it just before a slow pass (`CountdownTracksPasses`).
* Movement that is already present when it becomes dark, or when a cycle ends,
  does not light the lamp: the callback reports changes only. For the same reason
  a first presence that equals the unassigned `m_currentState` goes unnoticed.
* The map of resistances has ends. The readings 0 and 1 give a resistance of zero and
  the highest ones more than 400000, its last key; both are in no band and count as
  dark. The log kept in `Adc.cpp:46-47` disagrees for the reading 4095: it has
  resistance 655168 and brightness 6, where the code gives 0. No property says which
  level a reading should have.
* A failed reading of the converter is ignored and the old value evaluated.
* While main registers the tasks, a dispatcher that waits inside the presence
  sensor's `Update` may go on with an iterator into a freed buffer. It does no harm
  to later passes (`PassIsComplete`), but the pass itself reads freed memory.
* A failed reading of the climate sensor is ignored: the page shows the values of
  the last good one, and before it memory that was never assigned.
* A distance whose low byte is 0xF4 (244 cm, 500 cm) and that stands still may hold
  the frame reader out of step for as long as it stands, because it drops a whole
  frame's length at each wrong beginning.
* A radar that misses or refuses the second command stays silent, and nothing looks
  at the result of the commands. A late answer to the first is taken for that to the
  second. A radar that missed the first has sent more than the 256 bytes there
  is room for when the answer to the second is read.
* `Uart.cpp:31` passes milliseconds as ticks: a silent radar holds up a pass of the
  dispatcher ten times as long as intended. No model has real time.

Of the web server and the network:

* A message that cannot be sent in time ends its stream, "and let the server close it"
  (`GetStatusStream.cpp:43`). But completing the request does not close the connection:
  a page that was only slow waits on for messages that nobody sends, and its
  `EventSource` has no reason to connect again (`abandoned`).
* A second status page, or a reload before the server has noticed that the first is
  gone, is answered with text, and its `EventSource` gives up.
* In strict mode too the tokenizer takes texts that are no JSON: missing colons and
  commas, an object without values, several values in a row. The handlers then
  do nothing, or what the first fitting member says.
* What a failed `httpd_req_recv` leaves in the body's buffer is parsed.
* A failed upload leaves its OTA handle open, though the comment says "Abort OTA";
  a silent client holds the web server's only thread in an upload.
* An address may be reported when the station is already given up, so that both
  event bits are set and main takes it for connected.
* Once start-up is over nobody reconnects a lost station.
* A load that fails once makes start-up write the default address over the stored
  one.

Of Ethernet:

* `ethernet_init.c:461` tests a revision that the driver reads from the chip only later:
  with a clock below 8 MHz every chip is refused.
* A `goto err` before line 487 passes the declaration of `eth_handle` by, which the
  code at `err` then tests (`UndoWithoutHandle`: either outcome).
* The MAC's constructor, failing after it has put its device on the SPI bus, leaves it
  there, and the bus cannot be freed. A driver that cannot be uninstalled remains,
  while its MAC and PHY are deleted.
* A stop that has cleared EIE and then fails leaves the link noted as up; if the cable
  is back at the next look, nothing enables the interrupts again.
* If INTIE cannot be restored, no edge wakes the task; the pin is looked at only when
  its wait of a second is over.
* A bank switch that fails halfway, a packet counter that could not be taken down and
  a start between the setting of the read pointer and the read lose the driver's
  place in the ring.
* With packets waiting and no memory the receive loop spins.

## 5. Proofs

TLC checks one small instance of each specification; the theorems hold for every
value of the constants. Each component's proofs are in a module of their own. The
assumptions are those declared beside the constants, and TLC evaluates them in
every run. Theorems without a run's property are named in *italics*.

| module | theorem | states |
|---|---|---|
| `LightController_proofs` | `TypeCorrect`, `LampAttended`, `CycleLatched` | `TypeOK`, `LampNeverUnattended`, `LatchCoversCycle` |
| | *`CycleSafety`* | the safety part of the refinement of `LightCycle` |
| `LightSystem_proofs` | *`ControllerImplementedSafely`* | `Spec => Light!Spec`: the safety part of `ControllerImplemented` |
| | *`LampAttended`* | `LampNeverUnattended` in the whole system |
| | `DarknessTracked`, `CountdownTracked`, `ConsistentBeforeRequests` | `DarknessTracksSensor`, `CountdownTracksPasses`, `ConsistentUntilAsked` |
| `SensorTasks_proofs` | `CompletePasses`, `LevelsOfThePass`, `ReadingsSound` | `PassIsComplete`, `LevelIsOfThisPass`, `ReadingIsSound` |
| `FrameReader_proofs` | `SetupIsHeard`, `SetupReadFits` | `SetupHeard`, `ReadFits` |
| | `DataNotMixed`, `IntactAccepted` | `DataFromOneFrame`, `IntactFrameAccepted` (an action property) |
| `StatusStream_proofs` | `TypeCorrect`, `OneOpenRequest`, `StreamKept` | `TypeOK`, `OpenRequestIsActive`, `ServedUntilSendFails` |
| `OtaUpdate_proofs` | `TypeCorrect`, `BootSlotBootable`, `UpdateAtomic` | `TypeOK`, `BootSlotComplete`, the whole refinement `UpdateIsAtomic` |
| `NetworkWifi_proofs` | `GroupOutlivesHandlers`, `GivingUpIsFinal`, `AddressSurvives` | `HandlerFindsGroup`, `GivenUpStaysDown`, `AddressKept` |
| `Ethernet_proofs` | `ObjectsKept`, `SemaphoreReady`, `LinkFollowed` | `ObjectsAccounted`, `SemaphoreMeansReady`, `MacFollowsLink` |
| | `RingKept`, `StackFed` | `RxInStep`, `StackInOrder` (an action property) |

**LightController**: every `lightEnabledTimeS > 0`, every set of unassigned values,
every set of requests. `LampNeverUnattended` and `LatchCoversCycle` are not
inductive. `DriveHigh` lights the lamp without looking at the countdown, and
`DriveLow` puts it out without looking either; that a countdown runs in the first
case and none in the second was established one step earlier. `CountdownInv`
carries it across: the life of `m_lightEnabled` lies within that of the countdown,
and the program counter of the dispatcher fixes both. The refinement follows
from the invariant: an overridden or latched callback is a stutter of the
abstract cycle, an `Update` is a second of it if a cycle runs and a stutter if
only the unassigned counter runs down.

**LightSystem**: besides, every number of passes per second, all readings and all
targets. First every entry of a pass is shown to be a step of the controller or
none, so that the assumptions `LightController` makes on how it is called - a
callback only on a change, one call at a time - are met by the dispatcher and the
sensors. Then what `LightController_proofs` shows of the controller alone is used
here by `INSTANCE` (`ControllerInvariance`). The invariant adds `PassesInv`: from
the start of a cycle on, the passes begun and those the countdown and the
position in the current second account for differ by a constant less than a
second (`CycleTracked`). A whole second late or early would show in
`CountdownTracksPasses` only several passes later. `AskedInv` says where the
override flag and the web server are before the first request.

**SensorTasks**: the five tasks `main` registers, every number of passes per second,
every set of readings below 4096, all transmissions. A complete pass goes through the whole of the buffer in use,
which nothing moves any more: main is done when it begins, and growing is a part
of registering (`DispatcherInv`). The due entries are numbered by the cardinality
of those before them (`DueEntries`). That the level is of the same
pass rests on the converter being the second entry and the photoresistor the third:
after it nothing in a pass changes the reading, and an iterator into a freed buffer
only ever leaves entries out (`LevelInv`). For the climate sensor the proof is the
arithmetic of the checksum: a single misread bit changes one byte, by at most
128, so that sum and checksum cannot agree modulo 256 (`SingleBit`).
`NoReadingAssumption` keeps the value before the first reading apart from
readings; `TransmissionsAssumption` says that the sensor sends what its data sheet
says, a checksum in the fifth byte.

**FrameReader**: all frames, every buffer that holds a frame (`BufferSizeAssumption`)
and every loss shorter than a frame (`MaxBurstAssumption`; see Bounds for why it
cannot be longer). The setup's invariant bounds what can be in the 256 bytes by the
ticks since a command was written (`FillInv`); `HeardInv` and `AcknowledgedInv` say
whose answer an acknowledgement is and what the radar's mode is at every step, and
`AnsweredInv` that after a first acknowledgement in time nothing is in the buffer or
under way that could stand before the second. Of the stream the invariant says that at most
one pair of neighbouring bytes was not sent in succession, and that this pair shows
in its positions (`StreamInv`). If the head and the tail byte around the target data are
in their places, no such pair lies between them: a loss shows in the positions, and
there is no second one to make up for it. The proof uses no other byte: the length and the
type the code compares are not needed.

**StatusStream**: all sets of pages and every queue. With the types the two properties
are inductive together: an accepted request finds no page that is being served
because none is while `active` is clear, and a failing send completes a
request of a page, not the unset handle, because `active` is set.

**OtaUpdate**: every set of versions, every length of an image, every number of handles.
`SlotInv` adds that until the switch the boot slot is the running one, so that no
write touches it, and that an upload about to switch has written a complete image.
The lemma `SlotWrite` says what a write leaves alone.

**NetworkWifi**: all addresses and requests, every number of retries. That a handler
finds its group needs to know what main has unregistered by then (`GroupInv`). That
giving up is final needs the contents of the queue: at most one event that makes
the station connect is on its way, only while it is down, and none once the last
failure has been reported (`RestartInv`). `AddressInv` orders load, save and use.

**Ethernet**: every number of modules (`ModulesAssumption`), every revision of the
chip, every bound on the traffic (`FramesAssumption`) and on the failures, every
ring and all packets. `RingAssumption` says of the ring what lines 54 to 65 of
`esp_eth_mac_enc28j60.c` define: it begins at 0 and ends at an odd address; and
that the header and what the chip writes of a packet have even lengths, a packet
not 0. The invariant was first checked by TLC with `MaxFaults` 1 and 2. It has five
parts; with the types (`BoundsInv`) they are inductive (`WholeInvariance`).

* `ObjectsInv`: what exists is what a live instance points to, what it points to
  exists, and the two exceptions `ObjectsAccounted` names are all that can be left
  over (`HeapInv`, `BusInv`). It is needed because a record that is not live may
  still hold pointers of an earlier, failed initialisation.
* `FrameInv`: a flag the transmitter sets belongs to the one frame on its way, from
  the time the chip sets it until the task has dealt with it, also in the copy
  of EIR the task has read before. Without that copy the semaphore could be given
  twice for one frame. It does not hold once a caller of transmit has given up
  waiting or a stop has met a frame (`Astray`), nor does the property say so.
* `LinkInv`: what has been done of a start when each of its steps is over, for a
  start that may fail in any of them.

* `DeviceInv`, `ReceiveInv`: the ring. `RxInStep` is not inductive, because it says
  nothing of where the task is between two steps of a packet and nothing of the room
  the chip believes to be free. `DeviceInv` has the driver's place and
  count, and that the packets not yet freed lie one behind the other (`Apart`), in
  offsets from the first of them, so that going around the end of the ring is no case
  of its own. `ReceiveInv` has which packet the task is at and where ERDPT points in
  each of its states. The count and ERDPT are as stated until one of the
  failures `RxInStep` names; that the packets lie apart does not depend on them.
* `HandedInv`, `SetUpInv`: the stack has what has been freed, but for the packet in
  hand and, after a failure, those given up; and a set-up that comes to its end
  hands over an empty ring with ERXRDPT one behind the first packet.

The arithmetic of the ring is in lemmas of its own. `StartIs` says of every n that
packet n begins at an even address inside the ring; `PacketStart` is a recursive
function, and that one with its equation exists is shown on the least n for which it
might not (`Least`, from `WellFoundedInduction`).
`RoomIs` says what the chip takes for free when ERXRDPT is one behind
the first packet, `ArrivalApart` that a packet which fits into that lies apart from
the others, `ApartIntact` that packets which lie apart are read as they were written,
`ContentStart` that the driver finds the content of a packet behind its header, also
around the end.

A driver function is an operator from a device to a set of outcomes, and each has
a lemma on what all its outcomes leave alone (`Keeps`, and `Booked` for the ring) or
bring about, with or without failures; the steps of the three threads follow
from these lemmas.

Model-checked only:

* All liveness and the fairness in a refinement: `DisabledGoesDark`,
  `CycleRefined`'s and `ControllerImplemented`'s fairness, `Resynchronises`,
  `LeftPageIsReleased`, `StartupCompletes`, `EveryTaskIsServed`, `PacketsAreRead`,
  `LinkComesUp`. The prover does not reason about `ENABLED`.
* `RequestObeyed`, `PassesAgree`, `CursorFollowsWalk` and `LookupsMatchDocument`: the
  documents the parser is compared with are trees and `JsonDocument` defines them
  with `RECURSIVE` operators, which the prover's SMT backend does not take.

## 6. Plan

Done: the models of all components but the web server's start-up, and the
theorems of section 5. Left, in this order:

1. `HttpServer`: all handlers on one thread, composing `StatusStream`, `OtaUpdate`
   and the requests to the controller: who waits for whom during an upload.
2. `set_promiscuous` and the other PHY functions of the ENC28J60, when something calls them.
3. The documents of `JsonDocument` as functions from positions instead of trees; then
   what of `JsonRequests` needs no induction over documents can be proved too.

## 7. Not modelled

* The drivers of other Ethernet modules (CH390, LAN865x, LAN86xx) and the branches of
  `ethernet_init.c` that call their constructors, which are built like that of the
  ENC28J60: the same steps with other names, and none is selected by the board.
* Of the ENC28J60: `set_promiscuous`, which nothing calls, and the PHY functions that
  only answer that they are not supported. Of the set-up: PLCA and the handler that
  logs events.
* The start-up of the web server and the registration of its handlers, the two static
  pages and the JavaScript in them; the single thread of the server is the process
  `httpd` of the models that need it.
* Pin and bus configuration (`Gpio`, `Uart`, `Adc` constructors), logging, build output
  and board layout.
* Real time: delays and time-outs are steps that may come at any point, except in
  `RadarSetup`, where a tick stands for 100 ms.
* What `json_obj_get_val_tok` finds behind a last key without a value when the token
  buffer is full: no text of the runs fills the buffer and ends like that.
* Characters of texts and contents of packets, and `float` arithmetic.
