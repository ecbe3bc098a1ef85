------------------------------- MODULE RadarSetup -------------------------------
(***************************************************************************)
(* The constructor of XiaoHumanPresenceSensor: the radar is put into its   *)
(* configuration mode and, a second later, out of it again.  A command is  *)
(* sent, 100 ms later everything that has been received is read as its     *)
(* acknowledgement; what comes of it, the constructor does not look at.    *)
(*                                                                         *)
(* A tick is 100 ms, in which a radar that is not being configured sends a *)
(* report.  The line may lose a command, the radar may refuse one, and an  *)
(* answer may come late.                                                   *)
(***************************************************************************)
EXTENDS Naturals, Sequences

MIN_REPORT_FRAME_LENGTH == 23
READ_BUFFER_SIZE == 256
AckLength(answer) == IF answer = "disable" THEN 14 ELSE 18

VARIABLES
  setup,         \* the constructor: commands to send, place, ticks to wait
  configuring,   \* the radar is in its configuration mode
  buffered,      \* bytes in the receive buffer, and what the first ones are
  late,          \* an answer that is still to come, or "none"
  heard,         \* history: the commands the radar has heard and carried out
  answered,      \* history: those of them it has acknowledged in time
  acknowledged   \* the commands for which SetConfigurationMode returned true

setupVars == <<setup, configuring, buffered, late, heard, answered, acknowledged>>

(* Faulty variant: the mode is left before it is entered. *)
CommandsSwapped == <<"disable", "enable">>

Commands == <<"enable", "disable">>

SetupInit ==
  /\ setup = [commands |-> Commands, pc |-> "write", ticks |-> 0]
  /\ configuring = FALSE
  /\ buffered = [bytes |-> 0, first |-> "nothing"]
  /\ late = "none"
  /\ heard = {}
  /\ answered = {}
  /\ acknowledged = {}

SetupDone == setup.pc = "done"
Sending == setup.commands # <<>>
command == Head(setup.commands)

(* One command less; after the first the constructor waits for a second. *)
AfterCommand ==
  IF Len(setup.commands) = 1
    THEN [commands |-> <<>>, pc |-> "return", ticks |-> 0]
    ELSE [commands |-> Tail(setup.commands), pc |-> "write", ticks |-> 10]

With(buffer, what, bytes) ==
  [bytes |-> buffer.bytes + bytes,
   first |-> IF buffer.bytes = 0 /\ bytes > 0 THEN what ELSE buffer.first]

-------------------------------------------------------------------------------
(* vTaskDelay *)
Tick ==
  /\ Sending /\ setup.ticks > 0
  /\ setup' = [setup EXCEPT !.ticks = @ - 1]
  /\ buffered' = IF configuring THEN buffered
                 ELSE With(buffered, "report", MIN_REPORT_FRAME_LENGTH)
  /\ UNCHANGED <<configuring, late, heard, answered, acknowledged>>

(* The driver takes less than the whole command: SetConfigurationMode        *)
(* returns without a delay, and what has been received stays where it is.    *)
WriteFails ==
  /\ Sending /\ setup.pc = "write" /\ setup.ticks = 0
  /\ setup' = AfterCommand
  /\ UNCHANGED <<configuring, buffered, late, heard, answered, acknowledged>>

(* SendCommandAndGetResponseValue up to its delay.  A report that is under   *)
(* way when the command comes is sent to its end.  The radar carries the     *)
(* command out and acknowledges it, refuses it (a status other than zero),   *)
(* or has not heard it.                                                      *)
WriteSync ==
  /\ Sending /\ setup.pc = "write" /\ setup.ticks = 0
  /\ setup' = [setup EXCEPT !.pc = "read", !.ticks = 1]
  /\ \E rest \in IF configuring THEN {0} ELSE 0 .. MIN_REPORT_FRAME_LENGTH - 1 :
       LET reported == With(buffered, "report", rest)
       IN  \/ /\ configuring' = (command = "enable")
              /\ heard' = heard \cup {command}
              /\ \/ /\ buffered' = With(reported, "ack", AckLength(command))
                    /\ answered' = answered \cup {command}
                    /\ UNCHANGED late
                 \/ buffered' = reported /\ late' = command /\ UNCHANGED answered
           \/ /\ \/ buffered' = With(reported, "refusal", AckLength(command)) /\ UNCHANGED late
                 \/ buffered' = reported /\ late' \in {late, "refusal"}
              /\ UNCHANGED <<configuring, heard, answered>>
  /\ UNCHANGED acknowledged

LateAcknowledgement ==
  /\ Sending /\ late # "none"
  /\ buffered' = With(buffered, IF late = "refusal" THEN late ELSE "ack", AckLength(late))
  /\ late' = "none"
  /\ UNCHANGED <<setup, configuring, heard, answered, acknowledged>>

(* Faulty variant: the length of the vector, which is always 256. *)
CheckResponseLength(buffer) == TRUE

(* The frame is looked for at the beginning only, and which command it      *)
(* answers is not compared.                                                 *)
CheckResponseFrame(buffer) == buffer.first \in {"ack", "refusal"}

StatusOk(buffer) == buffer.first # "refusal"

(* The rest of SendCommandAndGetResponseValue. *)
ReadSyncAll ==
  /\ Sending /\ setup.pc = "read" /\ setup.ticks = 0
  /\ buffered' = [bytes |-> 0, first |-> "nothing"]
  /\ acknowledged' = IF CheckResponseFrame(buffered) /\ StatusOk(buffered)
                       THEN acknowledged \cup {command} ELSE acknowledged
  /\ setup' = AfterCommand
  /\ UNCHANGED <<configuring, late, heard, answered>>

(* The constructor returns, and the history ends.  After a command that      *)
(* could not be written something may be left in the buffer: reports, with   *)
(* which the stream begins, and an answer, in which no byte is 0xF4, so that *)
(* the reader drops it byte by byte.                                         *)
Return ==
  /\ setup.pc = "return"
  /\ setup' = [setup EXCEPT !.pc = "done"]
  /\ buffered' = [bytes |-> 0, first |-> "nothing"]
  /\ late' = "none" /\ heard' = {} /\ answered' = {} /\ acknowledged' = {}
  /\ UNCHANGED configuring

SetupStep == Tick \/ WriteFails \/ WriteSync \/ LateAcknowledgement \/ ReadSyncAll

-------------------------------------------------------------------------------
(* What has been received fits into the 256 bytes it is read into, with a   *)
(* report under way and a late acknowledgement too, if the radar heard the  *)
(* first command: the reports of a second would not.                        *)
ReadFits ==
  "enable" \in heard \/ Len(setup.commands) = 2 => buffered.bytes <= READ_BUFFER_SIZE

(* What the setup finds out and what it does to the radar agree.  TRUE is    *)
(* returned for a command only if the radar has carried it out or, an        *)
(* acknowledgement being late, the one before.  When the setup is over, the  *)
(* radar is silent exactly if it has carried out the first command and not   *)
(* the second; and if it has carried out both and acknowledged both in time, *)
(* TRUE is returned for the second, though a report under way may have       *)
(* hidden the acknowledgement of the first.                                  *)
SetupHeard ==
  /\ "enable" \in acknowledged => "enable" \in heard
  /\ acknowledged # {} => heard # {}
  /\ setup.pc = "return" => (configuring <=> heard = {"enable"})
  /\ setup.pc = "return" /\ answered = {"enable", "disable"} => "disable" \in acknowledged
===============================================================================
