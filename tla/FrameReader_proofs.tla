--------------------------- MODULE FrameReader_proofs ---------------------------
(***************************************************************************)
(* Proofs about FrameReader and the RadarSetup it begins with, for every   *)
(* set of frames, every size of the receive buffer that holds a frame and  *)
(* every loss that is shorter than one.                                    *)
(***************************************************************************)
EXTENDS FrameReader, Integers, SequenceTheorems, TLAPS

-------------------------------------------------------------------------------
(* The invariant of the setup.                                              *)

Setups ==
  [commands : {Commands, <<"disable">>, <<>>},
   pc : {"write", "read", "return", "done"},
   ticks : 0 .. 10]

Buffers == [bytes : Nat, first : {"nothing", "report", "ack", "refusal"}]

SetupTypeOK ==
  /\ setup \in Setups
  /\ configuring \in BOOLEAN
  /\ buffered \in Buffers
  /\ late \in {"none", "enable", "disable", "refusal"}
  /\ heard \subseteq {"enable", "disable"}
  /\ answered \subseteq {"enable", "disable"}
  /\ acknowledged \subseteq {"enable", "disable"}

(* What the radar has heard of the commands that have been written, and the *)
(* mode it is in.                                                           *)
HeardInv ==
  /\ setup.commands = <<>> <=> setup.pc \in {"return", "done"}
  /\ setup.pc = "read" => setup.ticks <= 1
  /\ setup.commands = Commands =>
       /\ "disable" \notin heard
       /\ acknowledged = {}
       /\ setup.pc = "write" => heard = {} /\ setup.ticks = 0 /\ late = "none"
  /\ setup.commands = <<"disable">> /\ setup.pc = "write" => "disable" \notin heard
  /\ setup.pc # "done" => (configuring <=> heard = {"enable"})
  /\ setup.pc = "done" => heard = {}

(* An acknowledgement comes from a radar that has heard a command. *)
AcknowledgedInv ==
  /\ late \in {"none", "refusal"} \/ late \in heard
  /\ buffered.first = "ack" => heard # {}
  /\ SetupHeard

(* After an acknowledgement in time nothing is under way: the radar does    *)
(* not report while it is configured.  The acknowledgement of the second    *)
(* command comes into an empty buffer if that of the first came in time.    *)
AnsweredInv ==
  /\ answered \subseteq heard
  /\ "enable" \in answered /\ setup.commands = Commands => late = "none"
  /\ "enable" \in answered /\ setup.commands = <<"disable">> /\ setup.pc = "write" =>
       late = "none" /\ buffered.bytes = 0
  /\ answered = {"enable", "disable"} /\ setup.pc = "read" =>
       buffered.first = "ack" /\ buffered.bytes > 0 /\ late = "none"

(* The acknowledgement that is still to come will take its place, too.      *)
Due == IF late = "none" THEN 0 ELSE AckLength(late)

(* How much of the 256 bytes can be in use: nothing is received in the      *)
(* configuration mode but acknowledgements.                                 *)
FillInv ==
  "enable" \in heard \/ setup.commands = Commands =>
    /\ setup.pc = "write" => buffered.bytes + Due <= 18
    /\ setup.pc = "read" =>
         buffered.bytes + Due + MIN_REPORT_FRAME_LENGTH * setup.ticks <= 81
    /\ setup.pc = "return" => buffered.bytes <= 18

SetupInv == SetupTypeOK /\ HeardInv /\ AcknowledgedInv /\ AnsweredInv /\ FillInv

-------------------------------------------------------------------------------
(* The invariant of the stream.                                             *)

(* The byte c was sent next after the byte b. *)
Follows(b, c) ==
  \/ c.frame = b.frame /\ c.pos = b.pos + 1
  \/ b.pos = MIN_REPORT_FRAME_LENGTH /\ c.pos = 1

(* That something was lost between b and c shows in their positions.        *)
Jumps(b, c) == c.pos # IF b.pos = MIN_REPORT_FRAME_LENGTH THEN 1 ELSE b.pos + 1

Neighbours == 1 .. Len(rx) - 1

(* At most one pair of neighbours was not sent in succession, and none as   *)
(* long as no loss has ended.                                               *)
StreamInv ==
  /\ \A i \in Neighbours : Follows(rx[i], rx[i + 1]) \/ Jumps(rx[i], rx[i + 1])
  /\ \A i, j \in Neighbours :
       ~Follows(rx[i], rx[i + 1]) /\ ~Follows(rx[j], rx[j + 1]) => i = j
  /\ loss # "over" => \A i \in Neighbours : Follows(rx[i], rx[i + 1])

(* Where the stream goes on: after a whole frame, or after a frame of which *)
(* the rest is lost.                                                        *)
EndInv ==
  /\ loss = "none" => lost = 0
  /\ loss # "none" => lost > 0
  /\ rx # <<>> =>
       rx[Len(rx)].pos = IF loss = "open" THEN MIN_REPORT_FRAME_LENGTH - lost
                         ELSE MIN_REPORT_FRAME_LENGTH
  /\ ~SetupDone => rx = <<>> /\ loss = "none"

-------------------------------------------------------------------------------
(* The setup keeps its invariant.                                           *)

LEMMA CommandFacts ==
  /\ Commands # <<>> /\ Commands # <<"disable">> /\ <<"disable">> # <<>>
  /\ Len(Commands) = 2 /\ Len(<<"disable">>) = 1 /\ Len(<<>>) = 0
  /\ Head(Commands) = "enable" /\ Head(<<"disable">>) = "disable"
  /\ Tail(Commands) = <<"disable">>
<1>1. Commands # <<>>
  BY DEF Commands
<1>2. Commands # <<"disable">>
  BY DEF Commands
<1>3. <<"disable">> # <<>> /\ Len(<<>>) = 0
  OBVIOUS
<1>4. Len(Commands) = 2 /\ Len(<<"disable">>) = 1
  BY DEF Commands
<1>5. Head(Commands) = "enable" /\ Head(<<"disable">>) = "disable"
  BY DEF Commands
<1>6. Tail(Commands) = <<"disable">>
  BY DEF Commands
<1> QED
  BY <1>1, <1>2, <1>3, <1>4, <1>5, <1>6

(* What is received is added to what is there. *)
LEMMA Received ==
  ASSUME NEW buffer \in Buffers, NEW what \in {"report", "ack", "refusal"}, NEW bytes \in Nat
  PROVE  /\ With(buffer, what, bytes) \in Buffers
         /\ With(buffer, what, bytes).bytes = buffer.bytes + bytes
         /\ With(buffer, what, bytes).first = "ack" => buffer.first = "ack" \/ what = "ack"
         /\ buffer.bytes > 0 \/ bytes = 0 => With(buffer, what, bytes).first = buffer.first
         /\ buffer.bytes = 0 /\ bytes > 0 => With(buffer, what, bytes).first = what
  BY DEF With, Buffers

LEMMA Lengths ==
  /\ MIN_REPORT_FRAME_LENGTH = 23
  /\ AckLength("enable") = 18 /\ AckLength("disable") = 14 /\ AckLength("refusal") = 18
  BY DEF MIN_REPORT_FRAME_LENGTH, AckLength

LEMMA BytesAreNatural == SetupTypeOK => buffered.bytes \in Nat /\ Due \in {0, 14, 18}
  BY Lengths DEF SetupTypeOK, Buffers, Due

LEMMA SetupStarts == SetupInit => SetupInv
<1> SUFFICES ASSUME SetupInit PROVE SetupInv
  OBVIOUS
<1>1. SetupTypeOK
  <2>1. setup \in Setups
    BY DEF SetupInit, Setups
  <2>2. buffered \in Buffers
    BY DEF SetupInit, Buffers
  <2> QED
    BY <2>1, <2>2 DEF SetupInit, SetupTypeOK
<1>2. HeardInv
  BY CommandFacts DEF SetupInit, HeardInv
<1>3. AcknowledgedInv
  BY DEF SetupInit, AcknowledgedInv, SetupHeard
<1>4. FillInv
  BY DEF SetupInit, FillInv, Due
<1>5. AnsweredInv
  BY DEF SetupInit, AnsweredInv
<1> QED
  BY <1>1, <1>2, <1>3, <1>4, <1>5 DEF SetupInv

(* What is left to do after a command. *)
LEMMA AfterCommandFacts ==
  ASSUME setup \in Setups, setup.commands # <<>>
  PROVE  \/ /\ setup.commands = Commands /\ command = "enable"
            /\ AfterCommand = [commands |-> <<"disable">>, pc |-> "write", ticks |-> 10]
         \/ /\ setup.commands = <<"disable">> /\ command = "disable"
            /\ AfterCommand = [commands |-> <<>>, pc |-> "return", ticks |-> 0]
<1>1. setup.commands \in {Commands, <<"disable">>}
  BY DEF Setups
<1>2. CASE setup.commands = Commands
  <2>1. /\ Len(setup.commands) # 1 /\ Tail(setup.commands) = <<"disable">>
        /\ command = "enable"
    BY <1>2, CommandFacts DEF command
  <2>2. AfterCommand = [commands |-> <<"disable">>, pc |-> "write", ticks |-> 10]
    BY <2>1, Zenon DEF AfterCommand
  <2> QED
    BY <1>2, <2>1, <2>2
<1>3. CASE setup.commands = <<"disable">>
  <2>1. Len(setup.commands) = 1 /\ command = "disable"
    BY <1>3, CommandFacts DEF command
  <2>2. AfterCommand = [commands |-> <<>>, pc |-> "return", ticks |-> 0]
    BY <2>1, Zenon DEF AfterCommand
  <2> QED
    BY <1>3, <2>1, <2>2
<1> QED
  BY <1>1, <1>2, <1>3

LEMMA NextCommand ==
  ASSUME setup \in Setups, setup.commands # <<>>, setup' = AfterCommand
  PROVE  /\ setup' \in Setups
         /\ setup'.commands # Commands
         /\ setup'.commands = <<>> <=> setup'.pc = "return"
         /\ setup'.pc = "write" <=> setup.commands = Commands
         /\ setup'.pc \in {"write", "return"}
<1>1. CASE setup.commands = Commands
  <2>1. setup' = [commands |-> <<"disable">>, pc |-> "write", ticks |-> 10]
    BY <1>1, AfterCommandFacts, CommandFacts
  <2> QED
    BY <1>1, <2>1, CommandFacts DEF Setups
<1>2. CASE setup.commands # Commands
  <2>1. setup' = [commands |-> <<>>, pc |-> "return", ticks |-> 0]
    BY <1>2, AfterCommandFacts
  <2> QED
    BY <1>2, <2>1, CommandFacts DEF Setups
<1> QED
  BY <1>1, <1>2

LEMMA TickSteps ==
  ASSUME SetupInv, Tick
  PROVE  SetupInv'
<1> USE DEF SetupInv
<1>1. /\ setup \in Setups /\ setup.ticks > 0 /\ setup.commands # <<>>
      /\ setup' = [setup EXCEPT !.ticks = @ - 1]
      /\ UNCHANGED <<configuring, late, heard, answered, acknowledged>>
  BY DEF Tick, Sending, SetupTypeOK
<1>2. /\ setup'.commands = setup.commands /\ setup'.pc = setup.pc
      /\ setup'.ticks = setup.ticks - 1
      /\ setup'.ticks \in 0 .. 10
      /\ setup' \in Setups
  BY <1>1 DEF Setups
<1>3. buffered.bytes \in Nat /\ Due \in {0, 14, 18}
  BY BytesAreNatural
<1>4. /\ buffered' \in Buffers
      /\ buffered'.first = "ack" => buffered.first = "ack"
      /\ buffered'.bytes = buffered.bytes + IF configuring THEN 0 ELSE 23
      /\ buffered.bytes > 0 => buffered'.first = buffered.first
  <2>1. CASE configuring
    BY <1>3, <2>1 DEF Tick, SetupTypeOK
  <2>2. CASE ~configuring
    <3>1. buffered' = With(buffered, "report", 23) /\ buffered \in Buffers
      BY <2>2, Lengths DEF Tick, SetupTypeOK
    <3> QED
      BY <2>2, <3>1, Received
  <2> QED
    BY <2>1, <2>2
<1>5. SetupTypeOK'
  BY <1>1, <1>2, <1>4 DEF SetupTypeOK
<1>6. HeardInv'
  BY <1>1, <1>2 DEF HeardInv, Setups
<1>7. AcknowledgedInv'
  <2>1. setup.pc # "return" /\ setup'.pc # "return"
    BY <1>1, <1>2 DEF HeardInv
  <2> QED
    BY <1>1, <1>2, <1>4, <2>1 DEF AcknowledgedInv, SetupHeard
<1>8. FillInv'
  <2> SUFFICES ASSUME "enable" \in heard \/ setup.commands = Commands
               PROVE  /\ setup.pc = "write" => buffered'.bytes + Due <= 18
                      /\ setup.pc = "read" => buffered'.bytes + Due + 23 * setup'.ticks <= 81
                      /\ setup.pc # "return"
    BY <1>1, <1>2, Lengths DEF FillInv, Due
  <2>1. setup.pc = "write" => configuring
    BY <1>1, CommandFacts DEF HeardInv, SetupTypeOK, Setups
  <2>2. setup.pc = "write" => buffered'.bytes + Due <= 18
    BY <1>3, <1>4, <2>1 DEF FillInv
  <2>3. ASSUME setup.pc = "read"
        PROVE  buffered'.bytes + Due + 23 * setup'.ticks <= 81
    <3>1. setup.ticks = 1 /\ setup'.ticks = 0
      BY <1>1, <1>2, <2>3 DEF HeardInv, Setups
    <3>2. buffered.bytes + Due + 23 <= 81
      BY <1>3, <2>3, <3>1, Lengths DEF FillInv
    <3> QED
      BY <1>3, <1>4, <3>1, <3>2
  <2> QED
    BY <1>1, <2>2, <2>3 DEF HeardInv
<1>9. AnsweredInv'
  <2>1. "enable" \in answered /\ setup.commands = <<"disable">> /\ setup.pc = "write"
          => configuring
    BY DEF AnsweredInv, HeardInv, SetupTypeOK
  <2> QED
    BY <1>1, <1>2, <1>3, <1>4, <2>1 DEF AnsweredInv
<1> QED
  BY <1>5, <1>6, <1>7, <1>8, <1>9

(* A command that could not be written changes nothing but the setup. *)
LEMMA WriteFailsSteps ==
  ASSUME SetupInv, WriteFails
  PROVE  SetupInv'
<1> USE DEF SetupInv
<1>1. /\ setup \in Setups /\ setup.commands # <<>> /\ setup.pc = "write"
      /\ setup' = AfterCommand
      /\ UNCHANGED <<configuring, buffered, late, heard, answered, acknowledged>>
  BY DEF WriteFails, Sending, SetupTypeOK
<1>2. /\ setup' \in Setups
      /\ setup'.commands # Commands
      /\ setup'.commands = <<>> <=> setup'.pc = "return"
      /\ setup'.pc = "write" <=> setup.commands = Commands
      /\ setup'.pc \in {"write", "return"}
  BY <1>1, NextCommand
<1>3. /\ heard \subseteq {"enable"} /\ (setup.commands = Commands => heard = {})
      /\ answered \subseteq heard
  BY <1>1, AfterCommandFacts DEF HeardInv, SetupTypeOK, AnsweredInv
<1>4. SetupTypeOK'
  BY <1>1, <1>2 DEF SetupTypeOK
<1>5. HeardInv'
  BY <1>1, <1>2, <1>3 DEF HeardInv
<1>6. AcknowledgedInv'
  BY <1>1, <1>2, <1>3 DEF AcknowledgedInv, SetupHeard, HeardInv
<1>7. AnsweredInv'
  BY <1>1, <1>2, <1>3 DEF AnsweredInv
<1>8. FillInv'
  <2>1. setup'.pc = "write" => "enable" \notin heard /\ setup'.commands # Commands
    BY <1>2, <1>3
  <2>2. setup'.pc = "return" => setup.commands = <<"disable">>
    BY <1>1, <1>2, AfterCommandFacts
  <2>3. setup'.pc = "return" /\ "enable" \in heard => buffered.bytes <= 18
    BY <1>1, <2>2, BytesAreNatural DEF FillInv
  <2> QED
    BY <1>1, <1>2, <2>1, <2>3 DEF FillInv
<1> QED
  BY <1>4, <1>5, <1>6, <1>7, <1>8

LEMMA WriteSyncSteps ==
  ASSUME SetupInv, WriteSync
  PROVE  SetupInv'
<1> USE DEF SetupInv
<1>1. /\ setup \in Setups
      /\ setup.commands # <<>> /\ setup.pc = "write" /\ setup.ticks = 0
      /\ setup' = [setup EXCEPT !.pc = "read", !.ticks = 1]
      /\ UNCHANGED acknowledged
  BY DEF WriteSync, Sending, SetupTypeOK
<1>2. setup'.commands = setup.commands /\ setup'.pc = "read" /\ setup'.ticks = 1
  BY <1>1 DEF Setups
<1>3. setup' \in Setups
  <2>1. setup' = [commands |-> setup.commands, pc |-> "read", ticks |-> 1]
    BY <1>1 DEF Setups
  <2>2. setup.commands \in {Commands, <<"disable">>, <<>>} /\ 1 \in 0 .. 10
    BY <1>1 DEF Setups
  <2> QED
    BY <2>1, <2>2 DEF Setups
<1>4. /\ setup.commands \in {Commands, <<"disable">>}
      /\ command = IF setup.commands = Commands THEN "enable" ELSE "disable"
  BY <1>1, CommandFacts DEF command, Setups
<1>5. /\ "disable" \notin heard /\ heard \subseteq {"enable", "disable"}
      /\ configuring <=> heard = {"enable"}
      /\ setup.commands = Commands => heard = {} /\ acknowledged = {}
      /\ configuring \in BOOLEAN
      /\ late \in {"none", "enable", "disable", "refusal"}
  BY <1>1, <1>4 DEF HeardInv, SetupTypeOK
<1>6. PICK rest \in IF configuring THEN {0} ELSE 0 .. MIN_REPORT_FRAME_LENGTH - 1 :
        LET reported == With(buffered, "report", rest)
        IN  \/ /\ configuring' = (command = "enable")
               /\ heard' = heard \cup {command}
               /\ \/ /\ buffered' = With(reported, "ack", AckLength(command))
                     /\ answered' = answered \cup {command}
                     /\ UNCHANGED late
                  \/ buffered' = reported /\ late' = command /\ UNCHANGED answered
            \/ /\ \/ buffered' = With(reported, "refusal", AckLength(command)) /\ UNCHANGED late
                  \/ buffered' = reported /\ late' \in {late, "refusal"}
               /\ UNCHANGED <<configuring, heard, answered>>
  BY DEF WriteSync
<1> DEFINE reported == With(buffered, "report", rest)
           acked == With(reported, "ack", AckLength(command))
           refused == With(reported, "refusal", AckLength(command))
<1>7. rest \in 0 .. 22 /\ (configuring => rest = 0)
  BY <1>6, Lengths
<1>8. /\ reported \in Buffers
      /\ reported.bytes = buffered.bytes + rest
      /\ reported.first = "ack" => buffered.first = "ack"
  <2>1. buffered \in Buffers /\ rest \in Nat
    BY <1>7 DEF SetupTypeOK
  <2> QED
    BY <2>1, Received
<1>9. AckLength(command) \in {14, 18}
  BY <1>4, Lengths
<1>10. /\ acked \in Buffers
       /\ acked.bytes = reported.bytes + AckLength(command)
       /\ reported.bytes = 0 => acked.first = "ack"
       /\ refused \in Buffers
       /\ refused.bytes = reported.bytes + AckLength(command)
       /\ refused.first = "ack" => reported.first = "ack"
  <2>1. AckLength(command) \in Nat /\ AckLength(command) > 0
    BY <1>9
  <2> HIDE DEF reported
  <2>2. /\ acked \in Buffers
        /\ acked.bytes = reported.bytes + AckLength(command)
        /\ reported.bytes = 0 => acked.first = "ack"
    BY <1>8, <2>1, Received
  <2>3. /\ refused \in Buffers
        /\ refused.bytes = reported.bytes + AckLength(command)
        /\ refused.first = "ack" => reported.first = "ack"
    <3>1. "refusal" \in {"report", "ack", "refusal"} /\ "refusal" # "ack"
      OBVIOUS
    <3> QED
      BY <1>8, <2>1, <3>1, Received
  <2> QED
    BY <2>2, <2>3
(* What the radar makes of the command, and what of it is in the buffer.    *)
<1>11. \/ /\ configuring' = (command = "enable")
          /\ heard' = heard \cup {command}
          /\ \/ buffered' = acked /\ answered' = answered \cup {command} /\ UNCHANGED late
             \/ buffered' = reported /\ late' = command /\ UNCHANGED answered
       \/ /\ \/ buffered' = refused /\ UNCHANGED late
             \/ buffered' = reported /\ late' \in {late, "refusal"}
          /\ UNCHANGED <<configuring, heard, answered>>
  BY <1>6
<1> HIDE DEF reported, acked, refused
<1>12. SetupTypeOK'
  <2>1. /\ configuring' \in BOOLEAN
        /\ late' \in {"none", "enable", "disable", "refusal"}
        /\ heard' \subseteq {"enable", "disable"}
        /\ answered' \subseteq {"enable", "disable"}
    BY <1>4, <1>5, <1>11 DEF SetupTypeOK
  <2>2. buffered' \in Buffers
    BY <1>8, <1>10, <1>11
  <2> QED
    BY <1>1, <1>3, <2>1, <2>2 DEF SetupTypeOK
<1>13. HeardInv'
  <2>1. configuring' <=> heard' = {"enable"}
    <3>1. CASE setup.commands = Commands
      <4>1. heard = {} /\ command = "enable"
        BY <1>4, <1>5, <3>1
      <4>2. CASE UNCHANGED <<configuring, heard>>
        BY <1>5, <4>2
      <4>3. CASE configuring' = TRUE /\ heard' = {"enable"}
        BY <4>3
      <4> QED
        BY <1>11, <4>1, <4>2, <4>3
    <3>2. CASE setup.commands # Commands
      <4>1. command = "disable"
        BY <1>4, <3>2
      <4>2. CASE UNCHANGED <<configuring, heard>>
        BY <1>5, <4>2
      <4>3. CASE configuring' = FALSE /\ heard' = heard \cup {"disable"}
        <5>1. "disable" \in heard'
          BY <4>3
        <5> QED
          BY <4>3, <5>1
      <4> QED
        BY <1>11, <4>1, <4>2, <4>3
    <3> QED
      BY <3>1, <3>2
  <2>2. setup.commands = Commands => "disable" \notin heard' /\ acknowledged = {}
    BY <1>4, <1>5, <1>11
  <2> QED
    BY <1>1, <1>2, <2>1, <2>2 DEF HeardInv
<1>14. AcknowledgedInv'
  <2>1. heard \subseteq heard' /\ (heard' # {} \/ buffered' \in {reported, refused})
    BY <1>11
  <2>2. late' \in {"none", "refusal"} \/ late' \in heard'
    BY <1>11 DEF AcknowledgedInv
  <2>3. buffered'.first = "ack" => heard' # {}
    BY <1>8, <1>10, <2>1 DEF AcknowledgedInv
  <2> QED
    BY <1>1, <1>2, <2>1, <2>2, <2>3 DEF AcknowledgedInv, SetupHeard
(* The second acknowledgement in time after a first one: the radar was       *)
(* being configured, and the buffer empty.                                   *)
<1>15. AnsweredInv'
  <2>1. answered \subseteq heard
    BY DEF AnsweredInv
  <2>2. answered' \subseteq heard'
    BY <1>11, <2>1
  <2>3. "enable" \in answered' /\ setup.commands = Commands => late' = "none"
    <3> SUFFICES ASSUME "enable" \in answered', setup.commands = Commands
                 PROVE  late' = "none"
      OBVIOUS
    <3>1. heard = {} /\ "enable" \notin answered
      BY <1>5, <2>1
    <3>2. UNCHANGED late
      BY <1>11, <3>1
    <3>3. late = "none" \/ late = "refusal"
      BY <3>1 DEF AcknowledgedInv
    <3> QED
      BY <1>1, <3>2, <3>3 DEF HeardInv
  <2>4. ASSUME answered' = {"enable", "disable"}
        PROVE  buffered'.first = "ack" /\ buffered'.bytes > 0 /\ late' = "none"
    <3>1. /\ "disable" \notin answered /\ command = "disable"
          /\ buffered' = acked /\ UNCHANGED late /\ "enable" \in answered
      BY <1>4, <1>5, <1>11, <2>1, <2>4
    <3>2. setup.commands = <<"disable">>
      BY <1>4, <3>1
    <3>3. late = "none" /\ buffered.bytes = 0
      BY <1>1, <3>1, <3>2 DEF AnsweredInv
    <3>4. configuring
      BY <1>5, <2>1, <3>1
    <3>5. rest = 0 /\ reported.bytes = 0
      BY <1>7, <1>8, <3>3, <3>4
    <3> QED
      BY <1>9, <1>10, <3>1, <3>3, <3>5
  <2> QED
    BY <1>2, <2>2, <2>3, <2>4 DEF AnsweredInv
<1>16. FillInv'
  <2> SUFFICES ASSUME "enable" \in heard' \/ setup.commands = Commands
               PROVE  buffered'.bytes + Due' + 23 * 1 <= 81
    BY <1>2, Lengths DEF FillInv
  <2>1. "enable" \in heard \/ setup.commands = Commands
    BY <1>4, <1>11
  <2>2. /\ buffered.bytes + Due <= 18
        /\ buffered.bytes \in Nat /\ Due \in {0, 14, 18}
    BY <1>1, <2>1, BytesAreNatural DEF FillInv
  <2>3. rest \in Nat /\ rest <= 22
    BY <1>7
  <2>4. buffered'.bytes \in Nat /\ Due' \in Nat /\ buffered'.bytes + Due' <= 58
    <3>1. CASE buffered' \in {acked, refused} /\ UNCHANGED late
      <4>1. Due' = Due
        BY <3>1 DEF Due
      <4> QED
        BY <1>8, <1>9, <1>10, <2>2, <2>3, <3>1, <4>1
    <3>2. CASE buffered' = reported /\ late' = command
      <4>1. Due' = AckLength(command)
        BY <1>4, <3>2 DEF Due
      <4> QED
        BY <1>8, <1>9, <2>2, <2>3, <3>2, <4>1
    <3>3. CASE buffered' = reported /\ late' \in {late, "refusal"}
      <4>1. Due' \in {Due, 18}
        BY <3>3, Lengths DEF Due
      <4> QED
        BY <1>8, <2>2, <2>3, <3>3, <4>1
    <3> QED
      BY <1>11, <3>1, <3>2, <3>3
  <2> QED
    BY <2>4
<1> QED
  BY <1>12, <1>13, <1>14, <1>15, <1>16

LEMMA LateSteps ==
  ASSUME SetupInv, LateAcknowledgement
  PROVE  SetupInv'
<1> USE DEF SetupInv
<1>1. /\ setup.commands # <<>> /\ late \in {"enable", "disable", "refusal"}
      /\ buffered' = With(buffered, IF late = "refusal" THEN late ELSE "ack", AckLength(late))
      /\ buffered \in Buffers
      /\ late' = "none"
      /\ UNCHANGED <<setup, configuring, heard, answered, acknowledged>>
  BY DEF LateAcknowledgement, Sending, SetupTypeOK
<1>2. AckLength(late) \in Nat
  BY <1>1, Lengths
<1>3. /\ buffered' \in Buffers /\ buffered'.bytes = buffered.bytes + AckLength(late)
      /\ buffered'.first = "ack" => buffered.first = "ack" \/ late # "refusal"
  <2>1. CASE late = "refusal"
    <3>1. buffered' = With(buffered, "refusal", AckLength(late))
      BY <1>1, <2>1
    <3>2. /\ With(buffered, "refusal", AckLength(late)) \in Buffers
          /\ With(buffered, "refusal", AckLength(late)).bytes = buffered.bytes + AckLength(late)
          /\ With(buffered, "refusal", AckLength(late)).first = "ack" => buffered.first = "ack"
      BY <1>1, <1>2, Received
    <3> QED
      BY <3>1, <3>2
  <2>2. CASE late # "refusal"
    <3>1. buffered' = With(buffered, "ack", AckLength(late))
      BY <1>1, <2>2
    <3>2. /\ With(buffered, "ack", AckLength(late)) \in Buffers
          /\ With(buffered, "ack", AckLength(late)).bytes = buffered.bytes + AckLength(late)
      BY <1>1, <1>2, Received
    <3> QED
      BY <2>2, <3>1, <3>2
  <2> QED
    BY <2>1, <2>2
<1>4. buffered'.bytes + Due' = buffered.bytes + Due
  <2>1. Due = AckLength(late) /\ Due' = 0
    BY <1>1 DEF Due
  <2> QED
    BY <1>2, <1>3, <2>1, BytesAreNatural
<1>5. SetupTypeOK'
  BY <1>1, <1>3 DEF SetupTypeOK
<1>6. HeardInv'
  BY <1>1 DEF HeardInv
<1>7. AcknowledgedInv'
  <2>1. setup.pc # "return"
    BY <1>1 DEF HeardInv
  <2> QED
    BY <1>1, <1>3, <2>1 DEF AcknowledgedInv, SetupHeard
<1>8. FillInv'
  <2>1. setup.pc # "return"
    BY <1>1 DEF HeardInv
  <2>2. buffered'.bytes + Due' + MIN_REPORT_FRAME_LENGTH * setup'.ticks
          = buffered.bytes + Due + MIN_REPORT_FRAME_LENGTH * setup.ticks
    BY <1>1, <1>4
  <2> QED
    BY <1>1, <1>4, <2>1, <2>2 DEF FillInv
<1>9. AnsweredInv'
  BY <1>1 DEF AnsweredInv
<1> QED
  BY <1>5, <1>6, <1>7, <1>8, <1>9

LEMMA ReadSyncAllSteps ==
  ASSUME SetupInv, ReadSyncAll
  PROVE  SetupInv'
<1> USE DEF SetupInv
<1>1. /\ setup \in Setups /\ setup.commands # <<>> /\ setup.pc = "read"
      /\ buffered' = [bytes |-> 0, first |-> "nothing"]
      /\ acknowledged' = IF buffered.first = "ack"
                           THEN acknowledged \cup {command} ELSE acknowledged
      /\ setup' = AfterCommand
      /\ UNCHANGED <<configuring, late, heard, answered>>
  <2>1. CheckResponseFrame(buffered) /\ StatusOk(buffered) <=> buffered.first = "ack"
    BY DEF CheckResponseFrame, StatusOk
  <2> QED
    BY <2>1 DEF ReadSyncAll, Sending, SetupTypeOK
<1>2. \/ setup.commands = Commands /\ command = "enable"
      \/ setup.commands = <<"disable">> /\ command = "disable"
  BY <1>1, AfterCommandFacts
<1>3. /\ setup' \in Setups
      /\ setup'.commands # Commands
      /\ setup'.commands = <<>> <=> setup'.pc = "return"
      /\ setup'.pc = "write" <=> setup.commands = Commands
      /\ setup'.pc \in {"write", "return"}
  BY <1>1, NextCommand
<1>4. SetupTypeOK'
  <2>1. buffered' \in Buffers
    BY <1>1 DEF Buffers
  <2>2. acknowledged' \subseteq {"enable", "disable"}
    BY <1>1, <1>2 DEF SetupTypeOK
  <2> QED
    BY <1>1, <1>3, <2>1, <2>2 DEF SetupTypeOK
<1>5. HeardInv'
  <2>1. setup.commands = Commands => "disable" \notin heard
    BY DEF HeardInv
  <2>2. configuring <=> heard = {"enable"}
    BY <1>1 DEF HeardInv
  <2> QED
    BY <1>1, <1>3, <2>1, <2>2 DEF HeardInv
(* TRUE is returned for the first command only if the radar has heard it:   *)
(* there was nothing else to acknowledge.                                   *)
<1>6. AcknowledgedInv'
  <2>1. buffered'.first # "ack"
    BY <1>1
  <2>2. "enable" \in acknowledged' => "enable" \in heard
    <3>1. CASE setup.commands = Commands /\ buffered.first = "ack"
      <4>1. heard # {} /\ "disable" \notin heard /\ heard \subseteq {"enable", "disable"}
        BY <3>1 DEF AcknowledgedInv, HeardInv, SetupTypeOK
      <4> QED
        BY <4>1
    <3>2. CASE setup.commands # Commands \/ buffered.first # "ack"
      <4>1. "enable" \in acknowledged' => "enable" \in acknowledged
        BY <1>1, <1>2, <3>2
      <4> QED
        BY <4>1 DEF AcknowledgedInv, SetupHeard
    <3> QED
      BY <3>1, <3>2
  <2>3. acknowledged' # {} => heard # {}
    BY <1>1 DEF AcknowledgedInv, SetupHeard
  <2>4. configuring <=> heard = {"enable"}
    BY <1>1 DEF HeardInv
  <2>5. setup'.pc = "return" /\ answered = {"enable", "disable"}
          => "disable" \in acknowledged'
    <3>1. setup'.pc = "return" => command = "disable"
      BY <1>2, <1>3, CommandFacts
    <3> QED
      BY <1>1, <3>1 DEF AnsweredInv
  <2> QED
    BY <1>1, <2>1, <2>2, <2>3, <2>4, <2>5 DEF AcknowledgedInv, SetupHeard
<1>7. FillInv'
  <2>1. buffered'.bytes = 0
    BY <1>1
  <2>2. Due' = Due
    BY <1>1 DEF Due
  <2>3. buffered'.bytes + Due' <= 18
    BY <2>1, <2>2, BytesAreNatural
  <2> QED
    BY <1>3, <2>1, <2>3 DEF FillInv
<1>8. AnsweredInv'
  <2>1. setup'.pc = "write" /\ "enable" \in answered => late = "none"
    BY <1>3 DEF AnsweredInv
  <2> QED
    BY <1>1, <1>3, <2>1 DEF AnsweredInv
<1> QED
  BY <1>4, <1>5, <1>6, <1>7, <1>8

LEMMA ReturnSteps ==
  ASSUME SetupInv, Return
  PROVE  SetupInv'
<1> USE DEF SetupInv
<1>1. /\ setup \in Setups /\ setup.pc = "return"
      /\ setup' = [setup EXCEPT !.pc = "done"]
      /\ buffered' = [bytes |-> 0, first |-> "nothing"]
      /\ late' = "none" /\ heard' = {} /\ answered' = {} /\ acknowledged' = {}
      /\ UNCHANGED configuring
  BY DEF Return, SetupTypeOK
<1>2. /\ setup' \in Setups
      /\ setup'.pc = "done" /\ setup'.commands = setup.commands
      /\ setup.commands = <<>>
  BY <1>1 DEF Setups, HeardInv
<1>3. SetupTypeOK'
  <2>1. buffered' \in Buffers
    BY <1>1 DEF Buffers
  <2> QED
    BY <1>1, <1>2, <2>1 DEF SetupTypeOK
<1>4. HeardInv'
  BY <1>1, <1>2, CommandFacts DEF HeardInv
<1>5. AcknowledgedInv'
  BY <1>1, <1>2 DEF AcknowledgedInv, SetupHeard
<1>6. AnsweredInv'
  BY <1>1, <1>2 DEF AnsweredInv
<1>7. FillInv'
  BY <1>1, <1>2, CommandFacts DEF FillInv
<1> QED
  BY <1>3, <1>4, <1>5, <1>6, <1>7

LEMMA SetupSteps ==
  ASSUME SetupInv, [Next]_vars
  PROVE  SetupInv'
<1>1. CASE SetupStep
  BY <1>1, TickSteps, WriteFailsSteps, WriteSyncSteps, LateSteps, ReadSyncAllSteps DEF SetupStep
<1>2. CASE StreamBegins
  BY <1>2, ReturnSteps DEF StreamBegins
<1>3. CASE UNCHANGED setupVars
  BY <1>3 DEF setupVars, SetupInv, SetupTypeOK, HeardInv, AcknowledgedInv, SetupHeard,
              AnsweredInv, FillInv, Due
<1> QED
  BY <1>1, <1>2, <1>3 DEF Next, Reader, vars

-------------------------------------------------------------------------------
(* Sequences of bytes.                                                      *)

Bytes == [frame : Frames, pos : Positions]

LEMMA SentBytesFacts ==
  ASSUME NEW frame \in Frames, NEW from \in Nat, NEW to \in Nat,
         1 <= from, to <= 23, from <= to + 1
  PROVE  /\ SentBytes(frame, from, to) \in Seq(Bytes)
         /\ Len(SentBytes(frame, from, to)) = to + 1 - from
         /\ \A i \in 1 .. to + 1 - from :
              SentBytes(frame, from, to)[i] = [frame |-> frame, pos |-> from + i - 1]
<1> DEFINE n == to + 1 - from
           byte(i) == [frame |-> frame, pos |-> from + i - 1]
<1>1. n \in Nat
  OBVIOUS
<1>2. \A i \in 1 .. n : byte(i) \in Bytes
  BY DEF Bytes, Positions, MIN_REPORT_FRAME_LENGTH
<1>3. SentBytes(frame, from, to) = [i \in 1 .. n |-> byte(i)]
  BY DEF SentBytes
<1> HIDE DEF n, byte
<1>4. /\ [i \in 1 .. n |-> byte(i)] \in Seq(Bytes)
      /\ Len([i \in 1 .. n |-> byte(i)]) = n
      /\ \A i \in 1 .. n : [j \in 1 .. n |-> byte(j)][i] = byte(i)
  BY <1>1, <1>2
<1>5. /\ SentBytes(frame, from, to) \in Seq(Bytes)
      /\ Len(SentBytes(frame, from, to)) = n
      /\ \A i \in 1 .. n : SentBytes(frame, from, to)[i] = byte(i)
  BY <1>3, <1>4
<1> QED
  BY <1>5 DEF n, byte

LEMMA NotEmpty == \A s \in Seq(Bytes) : s # <<>> <=> Len(s) > 0
  BY EmptySeq

(* What is left when the reader has taken n bytes. *)
LEMMA TakenBytes ==
  ASSUME NEW s \in Seq(Bytes), NEW n \in 0 .. Len(s)
  PROVE  /\ SubSeq(s, n + 1, Len(s)) \in Seq(Bytes)
         /\ Len(SubSeq(s, n + 1, Len(s))) = Len(s) - n
         /\ \A i \in 1 .. Len(s) - n : SubSeq(s, n + 1, Len(s))[i] = s[i + n]
<1> DEFINE m == Len(s)
<1>1. /\ m \in Nat /\ n \in Nat /\ n <= m
      /\ \A i \in 1 .. m : s[i] \in Bytes
  OBVIOUS
<1> HIDE DEF m
<1>2. /\ SubSeq(s, n + 1, m) \in Seq(Bytes)
      /\ Len(SubSeq(s, n + 1, m)) = IF n + 1 <= m THEN m - (n + 1) + 1 ELSE 0
      /\ \A i \in 1 .. m - (n + 1) + 1 : SubSeq(s, n + 1, m)[i] = s[n + 1 + i - 1]
  <2>1. \A i \in n + 1 .. m : s[i] \in Bytes
    BY <1>1
  <2>2. n + 1 \in Int /\ m \in Int
    BY <1>1
  <2> QED
    BY <2>1, <2>2, SubSeqProperties
<1>3. /\ Len(SubSeq(s, n + 1, m)) = m - n
      /\ \A i \in 1 .. m - n : n + 1 + i - 1 = i + n
      /\ m - (n + 1) + 1 = m - n
  BY <1>1, <1>2
<1> QED
  BY <1>2, <1>3 DEF m

(* The receive buffer after the bytes of two pieces of a frame. *)
LEMMA ReceivedBytes ==
  ASSUME NEW s \in Seq(Bytes), NEW a \in Seq(Bytes), NEW b \in Seq(Bytes)
  PROVE  /\ s \o a \o b \in Seq(Bytes)
         /\ Len(s \o a \o b) = Len(s) + Len(a) + Len(b)
         /\ \A i \in 1 .. Len(s) : (s \o a \o b)[i] = s[i]
         /\ \A i \in 1 .. Len(a) : (s \o a \o b)[Len(s) + i] = a[i]
         /\ \A i \in 1 .. Len(b) : (s \o a \o b)[Len(s) + Len(a) + i] = b[i]
<1>0. \A s1, s2 \in Seq(Bytes) :
        /\ s1 \o s2 \in Seq(Bytes) /\ Len(s1 \o s2) = Len(s1) + Len(s2)
        /\ \A i \in 1 .. Len(s1) + Len(s2) :
             (s1 \o s2)[i] = IF i <= Len(s1) THEN s1[i] ELSE s2[i - Len(s1)]
  BY ConcatProperties
<1> DEFINE sa == s \o a
<1>1. /\ sa \in Seq(Bytes) /\ Len(sa) = Len(s) + Len(a)
      /\ \A i \in 1 .. Len(s) + Len(a) : sa[i] = IF i <= Len(s) THEN s[i] ELSE a[i - Len(s)]
  BY <1>0
<1>2. Len(s) \in Nat /\ Len(a) \in Nat /\ Len(b) \in Nat
  OBVIOUS
<1> HIDE DEF sa
<1>3. /\ sa \o b \in Seq(Bytes) /\ Len(sa \o b) = Len(sa) + Len(b)
      /\ \A i \in 1 .. Len(sa) + Len(b) :
           (sa \o b)[i] = IF i <= Len(sa) THEN sa[i] ELSE b[i - Len(sa)]
  BY <1>0, <1>1
<1>4. \A i \in 1 .. Len(s) : (sa \o b)[i] = s[i]
  BY <1>1, <1>2, <1>3
<1>5. \A i \in 1 .. Len(a) : (sa \o b)[Len(s) + i] = a[i]
  BY <1>1, <1>2, <1>3
<1>6. \A i \in 1 .. Len(b) : (sa \o b)[Len(s) + Len(a) + i] = b[i]
  BY <1>1, <1>2, <1>3
<1> QED
  BY <1>1, <1>3, <1>4, <1>5, <1>6 DEF sa

-------------------------------------------------------------------------------
(* The stream.                                                              *)

BytesInv ==
  /\ rx \in Seq(Bytes)
  /\ Len(rx) <= BufferSize
  /\ loss \in {"none", "open", "over"}
  /\ lost \in 0 .. MaxBurst

(* The driver takes bytes from the front: what is left is still the stream. *)
LEMMA Taking ==
  ASSUME BytesInv, StreamInv, EndInv, SetupDone,
         NEW n \in 0 .. Len(rx), rx' = SubSeq(rx, n + 1, Len(rx)),
         UNCHANGED <<loss, lost>>, SetupDone'
  PROVE  BytesInv' /\ StreamInv' /\ EndInv'
<1>1. rx \in Seq(Bytes) /\ Len(rx) \in Nat /\ n \in Nat /\ n <= Len(rx)
  BY DEF BytesInv
<1>2. /\ rx' \in Seq(Bytes)
      /\ Len(rx') = Len(rx) - n
      /\ \A i \in 1 .. Len(rx) - n : rx'[i] = rx[i + n]
  BY <1>1, TakenBytes
<1>3. BytesInv'
  BY <1>1, <1>2, BufferSizeAssumption DEF BytesInv
<1>4. \A i \in Neighbours' :
        /\ i + n \in Neighbours
        /\ Follows(rx'[i], rx'[i + 1]) <=> Follows(rx[i + n], rx[i + n + 1])
        /\ Jumps(rx'[i], rx'[i + 1]) <=> Jumps(rx[i + n], rx[i + n + 1])
  <2> SUFFICES ASSUME NEW i \in 1 .. Len(rx') - 1
               PROVE  /\ i + n \in 1 .. Len(rx) - 1
                      /\ rx'[i] = rx[i + n]
                      /\ rx'[i + 1] = rx[i + n + 1]
    BY DEF Neighbours
  <2>1. /\ i \in Int /\ i + n \in 1 .. Len(rx) - 1
        /\ i \in 1 .. Len(rx) - n /\ i + 1 \in 1 .. Len(rx) - n
        /\ i + 1 + n = i + n + 1
    BY <1>1, <1>2
  <2>2. rx'[i] = rx[i + n] /\ rx'[i + 1] = rx[i + 1 + n]
    BY <1>2, <2>1
  <2> QED
    BY <2>1, <2>2
<1>5. StreamInv'
  <2>1. \A i \in Neighbours' : Follows(rx'[i], rx'[i + 1]) \/ Jumps(rx'[i], rx'[i + 1])
    BY <1>4 DEF StreamInv
  <2>2. \A i, j \in Neighbours' :
          ~Follows(rx'[i], rx'[i + 1]) /\ ~Follows(rx'[j], rx'[j + 1]) => i = j
    <3> SUFFICES ASSUME NEW i \in Neighbours', NEW j \in Neighbours',
                        ~Follows(rx'[i], rx'[i + 1]), ~Follows(rx'[j], rx'[j + 1])
                 PROVE  i = j
      OBVIOUS
    <3>1. i + n = j + n
      BY <1>4 DEF StreamInv
    <3>2. i \in Int /\ j \in Int
      BY DEF Neighbours
    <3> QED
      BY <1>1, <3>1, <3>2
  <2>3. loss' # "over" => \A i \in Neighbours' : Follows(rx'[i], rx'[i + 1])
    BY <1>4 DEF StreamInv
  <2> QED
    BY <2>1, <2>2, <2>3 DEF StreamInv
<1>6. EndInv'
  <2>1. rx' # <<>> => rx # <<>> /\ rx'[Len(rx')] = rx[Len(rx)]
    <3> SUFFICES ASSUME rx' # <<>> PROVE rx # <<>> /\ rx'[Len(rx')] = rx[Len(rx)]
      OBVIOUS
    <3>1. Len(rx') \in 1 .. Len(rx) - n /\ Len(rx') + n = Len(rx) /\ Len(rx) > 0
      BY <1>1, <1>2, NotEmpty
    <3> QED
      BY <1>1, <1>2, <3>1, NotEmpty
  <2> QED
    BY <2>1 DEF EndInv
<1> QED
  BY <1>3, <1>5, <1>6

(* Two bytes of one frame that are neighbours in it. *)
LEMMA NextInFrame ==
  ASSUME NEW frame, NEW p \in Nat, NEW q \in Nat
  PROVE  /\ q = p + 1 => Follows([frame |-> frame, pos |-> p], [frame |-> frame, pos |-> q])
         /\ p < 23 /\ q # p + 1 =>
              Jumps([frame |-> frame, pos |-> p], [frame |-> frame, pos |-> q])
  BY Lengths DEF Follows, Jumps

LEMMA Receiving ==
  ASSUME BytesInv, StreamInv, EndInv, SetupDone, SetupDone',
         NEW frame \in Frames, NEW head \in 0 .. 23, NEW tail \in 0 .. 23 - head,
         head + tail = 23 => head = 0,
         Receive(frame, head, tail)
  PROVE  /\ BytesInv' /\ StreamInv' /\ EndInv'
         /\ Len(rx') >= Len(rx)
<1> DEFINE n == Len(rx)
           missing == 23 - head - tail
           Byte(p) == [frame |-> frame, pos |-> p]
           F(i) == Follows(rx'[i], rx'[i + 1])
           J(i) == Jumps(rx'[i], rx'[i + 1])
<1>1. /\ rx \in Seq(Bytes) /\ n \in Nat /\ lost \in Nat
      /\ head \in Nat /\ tail \in Nat /\ head + tail <= 23
      /\ missing \in Nat /\ MaxBurst \in 0 .. 22 /\ BufferSize \in Nat
  BY MaxBurstAssumption, BufferSizeAssumption, Lengths DEF BytesInv
<1>2. /\ n + 23 <= BufferSize
      /\ lost + missing <= MaxBurst
      /\ loss = "open" => head = 0
      /\ loss = "over" => missing = 0
      /\ loss' = IF tail = 0 /\ missing > 0 THEN "open"
                 ELSE IF lost + missing > 0 THEN "over" ELSE loss
      /\ lost' = lost + missing
      /\ rx' = rx \o SentBytes(frame, 1, head) \o SentBytes(frame, 24 - tail, 23)
  BY Lengths DEF Receive
<1>3. /\ rx' \in Seq(Bytes)
      /\ Len(rx') = n + head + tail
      /\ \A i \in 1 .. n : rx'[i] = rx[i]
      /\ \A i \in 1 .. head : rx'[n + i] = Byte(i)
      /\ \A i \in 1 .. tail : rx'[n + head + i] = Byte(23 - tail + i)
  <2> DEFINE a == SentBytes(frame, 1, head)
             b == SentBytes(frame, 24 - tail, 23)
  <2>1. /\ a \in Seq(Bytes) /\ Len(a) = head
        /\ \A i \in 1 .. head : a[i] = Byte(i)
    <3>1. 1 \in Nat /\ 1 <= 1 /\ head <= 23 /\ 1 <= head + 1 /\ head + 1 - 1 = head
      BY <1>1
    <3>2. /\ a \in Seq(Bytes) /\ Len(a) = head + 1 - 1
          /\ \A i \in 1 .. head + 1 - 1 : a[i] = Byte(1 + i - 1)
      BY <1>1, <3>1, SentBytesFacts
    <3>3. \A i \in 1 .. head : 1 + i - 1 = i
      OBVIOUS
    <3> QED
      BY <3>1, <3>2, <3>3
  <2>2. /\ b \in Seq(Bytes) /\ Len(b) = tail
        /\ \A i \in 1 .. tail : b[i] = Byte(23 - tail + i)
    <3>1. /\ 24 - tail \in Nat /\ 23 \in Nat /\ 1 <= 24 - tail /\ 24 - tail <= 23 + 1
          /\ 23 <= 23 /\ 23 + 1 - (24 - tail) = tail
      BY <1>1
    <3>2. /\ b \in Seq(Bytes) /\ Len(b) = 23 + 1 - (24 - tail)
          /\ \A i \in 1 .. 23 + 1 - (24 - tail) : b[i] = Byte(24 - tail + i - 1)
      BY <3>1, SentBytesFacts
    <3>3. \A i \in 1 .. tail : 24 - tail + i - 1 = 23 - tail + i
      BY <1>1
    <3> QED
      BY <3>1, <3>2, <3>3
  <2> HIDE DEF a, b, Byte
  <2>3. rx' = rx \o a \o b
    BY <1>2 DEF a, b
  <2>4. /\ rx' \in Seq(Bytes)
        /\ Len(rx') = Len(rx) + Len(a) + Len(b)
        /\ \A i \in 1 .. Len(rx) : rx'[i] = rx[i]
        /\ \A i \in 1 .. Len(a) : rx'[Len(rx) + i] = a[i]
        /\ \A i \in 1 .. Len(b) : rx'[Len(rx) + Len(a) + i] = b[i]
    <3>1. rx \in Seq(Bytes) /\ a \in Seq(Bytes) /\ b \in Seq(Bytes)
      BY <1>1, <2>1, <2>2
    <3>2. /\ rx \o a \o b \in Seq(Bytes)
          /\ Len(rx \o a \o b) = Len(rx) + Len(a) + Len(b)
          /\ \A i \in 1 .. Len(rx) : (rx \o a \o b)[i] = rx[i]
          /\ \A i \in 1 .. Len(a) : (rx \o a \o b)[Len(rx) + i] = a[i]
          /\ \A i \in 1 .. Len(b) : (rx \o a \o b)[Len(rx) + Len(a) + i] = b[i]
      BY <3>1, ReceivedBytes, Zenon
    <3> QED
      BY <2>3, <3>2, Zenon
  <2> QED
    BY <2>1, <2>2, <2>4
<1> HIDE DEF n, missing
<1>4. BytesInv' /\ Len(rx') >= n
  <2>1. Len(rx') <= BufferSize /\ lost' \in 0 .. MaxBurst /\ loss' \in {"none", "open", "over"}
    BY <1>1, <1>2, <1>3 DEF BytesInv
  <2> QED
    BY <1>1, <1>3, <2>1 DEF BytesInv
(* Pairs that were there, pairs inside the two pieces, and the two places   *)
(* where something may be missing.                                          *)
<1>5. \A i \in 1 .. n - 1 : /\ F(i) <=> Follows(rx[i], rx[i + 1])
                            /\ J(i) <=> Jumps(rx[i], rx[i + 1])
  <2> SUFFICES ASSUME NEW i \in 1 .. n - 1
               PROVE  rx'[i] = rx[i] /\ rx'[i + 1] = rx[i + 1]
    OBVIOUS
  <2>1. i \in 1 .. n /\ i + 1 \in 1 .. n
    BY <1>1
  <2> QED
    BY <1>3, <2>1
<1>6. \A i \in n + 1 .. n + head - 1 : F(i)
  <2> SUFFICES ASSUME NEW i \in n + 1 .. n + head - 1 PROVE F(i)
    OBVIOUS
  <2>1. /\ i - n \in 1 .. head /\ i - n + 1 \in 1 .. head /\ i - n \in Nat
        /\ n + (i - n) = i /\ n + (i - n + 1) = i + 1
    BY <1>1
  <2>2. rx'[i] = Byte(i - n) /\ rx'[i + 1] = Byte(i - n + 1)
    BY <1>3, <2>1
  <2> QED
    BY <2>1, <2>2, NextInFrame
<1>7. \A i \in n + head + 1 .. n + head + tail - 1 : F(i)
  <2> SUFFICES ASSUME NEW i \in n + head + 1 .. n + head + tail - 1 PROVE F(i)
    OBVIOUS
  <2> DEFINE k == i - n - head
             p == 23 - tail + k
  <2>1. /\ k \in 1 .. tail /\ k + 1 \in 1 .. tail /\ p \in Nat
        /\ n + head + k = i /\ n + head + (k + 1) = i + 1 /\ 23 - tail + (k + 1) = p + 1
    BY <1>1
  <2>2. rx'[i] = Byte(p) /\ rx'[i + 1] = Byte(p + 1)
    <3>1. rx'[n + head + k] = Byte(23 - tail + k)
      BY <1>3, <2>1
    <3>2. rx'[n + head + (k + 1)] = Byte(23 - tail + (k + 1))
      BY <1>3, <2>1
    <3> QED
      BY <2>1, <3>1, <3>2
  <2> HIDE DEF p
  <2> QED
    BY <2>1, <2>2, NextInFrame
<1>8. n > 0 => rx[n].pos = IF loss = "open" THEN 23 - lost ELSE 23
  <2>1. n > 0 => rx # <<>>
    BY <1>1, NotEmpty DEF n
  <2> QED
    BY <2>1, Lengths DEF EndInv, n
<1>9. ASSUME n > 0, head + tail > 0
      PROVE  /\ F(n) \/ J(n)
             /\ ~F(n) => head = 0 /\ loss # "over" /\ loss' = "over"
  <2>1. rx'[n] = rx[n]
    BY <1>1, <1>3, <1>9
  <2>2. CASE head > 0
    <3>1. rx'[n + 1] = Byte(1)
      BY <1>1, <1>3, <2>2
    <3>2. rx[n].pos = 23
      BY <1>2, <1>8, <1>9, <2>2
    <3> QED
      BY <2>1, <3>1, <3>2, Lengths DEF Follows
  <2>3. CASE head = 0
    <3>1. rx'[n + 1] = Byte(24 - tail)
      <4>1. tail > 0 /\ 1 \in 1 .. tail /\ n + head + 1 = n + 1 /\ 23 - tail + 1 = 24 - tail
        BY <1>1, <1>9, <2>3
      <4> QED
        BY <1>3, <4>1
    <3>2. missing = 23 - tail /\ tail > 0
      BY <1>1, <1>9, <2>3 DEF missing
    <3>3. CASE loss = "open"
      <4>1. /\ rx[n].pos = 23 - lost /\ lost > 0 /\ lost <= 22
            /\ tail > lost
        <5>1. rx[n].pos = 23 - lost
          BY <1>8, <1>9, <3>3
        <5>2. lost > 0
          BY <3>3 DEF EndInv
        <5>3. lost + missing <= 22
          BY <1>1, <1>2
        <5> QED
          BY <1>1, <3>2, <5>1, <5>2, <5>3
      <4>2. J(n)
        BY <1>1, <2>1, <3>1, <4>1, Lengths DEF Jumps
      <4>3. tail # 0 /\ lost + missing > 0
        BY <1>1, <3>2, <4>1
      <4>4. loss' = "over"
        BY <1>2, <4>3
      <4> QED
        BY <2>3, <3>3, <4>2, <4>4
    <3>4. CASE loss # "open" /\ tail = 23
      <4>1. rx[n].pos = 23 /\ 24 - tail = 1
        BY <1>8, <1>9, <3>4
      <4> QED
        BY <2>1, <3>1, <4>1, Lengths DEF Follows
    <3>5. CASE loss # "open" /\ tail # 23
      <4>1. rx[n].pos = 23 /\ 24 - tail # 1 /\ missing > 0
        BY <1>1, <1>8, <1>9, <3>2, <3>5
      <4>2. J(n)
        BY <2>1, <3>1, <4>1, Lengths DEF Jumps
      <4>3. loss # "over" /\ loss' = "over"
        BY <1>1, <1>2, <3>2, <4>1
      <4> QED
        BY <2>3, <4>2, <4>3
    <3> QED
      BY <3>3, <3>4, <3>5
  <2> QED
    BY <1>1, <2>2, <2>3
<1>10. ASSUME head > 0, tail > 0
       PROVE  /\ J(n + head)
              /\ loss # "over" /\ loss' = "over"
  <2>1. rx'[n + head] = Byte(head)
    BY <1>1, <1>3, <1>10
  <2>2. rx'[n + head + 1] = Byte(24 - tail)
    <3>1. 1 \in 1 .. tail /\ 23 - tail + 1 = 24 - tail
      BY <1>1, <1>10
    <3> QED
      BY <1>3, <3>1
  <2>3. missing > 0 /\ head < 23 /\ 24 - tail # head + 1 /\ 24 - tail \in Nat
    BY <1>1, <1>10 DEF missing
  <2>4. J(n + head)
    BY <1>1, <2>1, <2>2, <2>3, NextInFrame
  <2>5. loss # "over" /\ loss' = "over"
    BY <1>1, <1>2, <1>10, <2>3
  <2> QED
    BY <2>4, <2>5
<1> HIDE DEF Byte, F, J
<1>11. \A i \in Neighbours' :
         \/ i \in 1 .. n - 1
         \/ F(i)
         \/ i = n /\ n > 0 /\ head = 0 /\ head + tail > 0
         \/ i = n + head /\ head > 0 /\ tail > 0
  <2>1. Neighbours' = 1 .. n + head + tail - 1
    BY <1>1, <1>3 DEF Neighbours
  <2> SUFFICES ASSUME NEW i \in 1 .. n + head + tail - 1
               PROVE  \/ i \in 1 .. n - 1
                      \/ F(i)
                      \/ i = n /\ n > 0 /\ head = 0 /\ head + tail > 0
                      \/ i = n + head /\ head > 0 /\ tail > 0
    BY <2>1, Zenon
  <2>2. CASE i < n
    BY <1>1, <2>2
  <2>3. CASE i = n /\ head > 0
    <3>1. n > 0 /\ head + tail > 0 /\ head # 0
      BY <1>1, <2>3
    <3> QED
      BY <1>9, <2>3, <3>1
  <2>4. CASE i = n /\ head = 0
    BY <1>1, <2>4
  <2>5. CASE i > n /\ i < n + head
    <3>1. i \in n + 1 .. n + head - 1
      BY <1>1, <2>5
    <3> QED
      BY <1>6, <3>1
  <2>6. CASE i = n + head /\ head > 0
    BY <1>1, <2>6
  <2>7. CASE i > n + head
    <3>1. i \in n + head + 1 .. n + head + tail - 1
      BY <1>1, <2>7
    <3> QED
      BY <1>7, <3>1
  <2> QED
    BY <1>1, <2>2, <2>3, <2>4, <2>5, <2>6, <2>7
(* A pair that was not sent in succession is an old one, and then nothing   *)
(* new is missing, or it is the one at the place of the new loss.           *)
<1> DEFINE place == n + head
<1>12. ASSUME NEW i \in Neighbours', ~F(i)
       PROVE  /\ J(i)
              /\ loss' = "over"
              /\ \/ i \in 1 .. n - 1 /\ loss = "over" /\ ~Follows(rx[i], rx[i + 1])
                 \/ i = place /\ loss # "over"
  <2>1. CASE i \in 1 .. n - 1
    <3>1. i \in Neighbours
      BY <2>1 DEF Neighbours, n
    <3>2. ~Follows(rx[i], rx[i + 1]) /\ J(i)
      BY <1>5, <1>12, <2>1, <3>1 DEF StreamInv
    <3>3. loss = "over"
      BY <3>1, <3>2 DEF StreamInv
    <3>4. loss' = "over"
      BY <1>1, <1>2, <3>3 DEF EndInv
    <3> QED
      BY <2>1, <3>2, <3>3, <3>4
  <2>2. CASE i = n /\ n > 0 /\ head = 0 /\ head + tail > 0
    <3>1. J(i) /\ loss # "over" /\ loss' = "over"
      BY <1>9, <1>12, <2>2
    <3> QED
      BY <1>1, <2>2, <3>1
  <2>3. CASE i = n + head /\ head > 0 /\ tail > 0
    BY <1>10, <2>3
  <2> QED
    BY <1>11, <1>12, <2>1, <2>2, <2>3
<1>13. StreamInv'
  <2>1. \A i \in Neighbours' : F(i) \/ J(i)
    BY <1>12
  <2>2. \A i, j \in Neighbours' : ~F(i) /\ ~F(j) => i = j
    <3> SUFFICES ASSUME NEW i \in Neighbours', NEW j \in Neighbours', ~F(i), ~F(j)
                 PROVE  i = j
      OBVIOUS
    <3>1. CASE loss = "over"
      <4>1. /\ i \in 1 .. n - 1 /\ ~Follows(rx[i], rx[i + 1])
            /\ j \in 1 .. n - 1 /\ ~Follows(rx[j], rx[j + 1])
        BY <1>12, <3>1
      <4>2. i \in Neighbours /\ j \in Neighbours
        BY <4>1 DEF Neighbours, n
      <4> QED
        BY <4>1, <4>2 DEF StreamInv
    <3>2. CASE loss # "over"
      BY <1>12, <3>2
    <3> QED
      BY <3>1, <3>2
  <2>3. loss' # "over" => \A i \in Neighbours' : F(i)
    BY <1>12
  <2> QED
    BY <2>1, <2>2, <2>3 DEF StreamInv, F, J
<1>14. EndInv'
  <2>1. /\ loss' = "none" => lost' = 0
        /\ loss' # "none" => lost' > 0
    <3>1. lost \in Nat /\ missing \in Nat /\ (loss = "none" => lost = 0)
          /\ (loss # "none" => lost > 0)
      BY <1>1 DEF EndInv
    <3>2. CASE missing > 0
      BY <1>2, <3>1, <3>2
    <3>3. CASE missing = 0
      BY <1>2, <3>1, <3>3
    <3> QED
      BY <3>1, <3>2, <3>3
  <2>2. CASE tail > 0
    <3>1. rx'[Len(rx')].pos = 23
      <4>1. tail \in 1 .. tail /\ 23 - tail + tail = 23
        BY <1>1, <2>2
      <4>2. rx'[n + head + tail] = Byte(23 - tail + tail)
        BY <1>3, <4>1
      <4>3. rx'[Len(rx')] = Byte(23)
        BY <1>3, <4>1, <4>2
      <4> QED
        BY <4>3 DEF Byte
    <3>2. loss' # "open"
      <4>1. tail # 0
        BY <1>1, <2>2
      <4>2. loss = "open" => lost + missing > 0
        BY <1>1 DEF EndInv
      <4> QED
        BY <1>2, <4>1, <4>2
    <3> QED
      BY <2>1, <3>1, <3>2, Lengths DEF EndInv
  <2>3. CASE tail = 0
    <3>1. missing = 23 - head /\ head > 0 /\ missing > 0
      BY <1>1, <1>2, <2>3 DEF missing
    <3>2. loss' = "open" /\ lost' = missing
      <4>1. loss = "none"
        BY <1>1, <1>2, <3>1 DEF BytesInv
      <4> QED
        BY <1>1, <1>2, <2>3, <3>1, <4>1 DEF EndInv
    <3>3. rx'[Len(rx')].pos = head
      <4>1. head \in 1 .. head /\ Len(rx') = n + head
        BY <1>1, <1>3, <2>3, <3>1
      <4>2. rx'[n + head] = Byte(head)
        BY <1>3, <4>1
      <4> QED
        BY <4>1, <4>2 DEF Byte
    <3>4. rx'[Len(rx')].pos = 23 - lost'
      BY <1>1, <3>1, <3>2, <3>3
    <3> QED
      BY <2>1, <3>2, <3>4, Lengths DEF EndInv
  <2> QED
    BY <1>1, <2>2, <2>3
<1> QED
  BY <1>4, <1>13, <1>14 DEF n

-------------------------------------------------------------------------------
(* What the check accepts.                                                  *)

(* What holds of position 8 and is passed on holds up to position 18. *)
LEMMA PassedOn ==
  ASSUME NEW Q, NEW R, 8 \in Q, 8 \in R,
         \A i \in 8 .. 17 : i \in Q /\ i \in R => i + 1 \in Q /\ i + 1 \in R
  PROVE  \A i \in 8 .. 18 : i \in Q /\ i \in R
<1>1. \A i \in {8, 9, 10, 11, 12, 13, 14, 15, 16, 17, 18} : i \in Q /\ i \in R
  OBVIOUS
<1> QED
  BY <1>1

(* What holds of both ends, and is passed on from each, meets in between. *)
LEMMA PassedFromBothEnds ==
  ASSUME NEW Q, NEW k \in 8 .. 17, 8 \in Q, 18 \in Q,
         \A i \in 8 .. 17 : i < k /\ i \in Q => i + 1 \in Q,
         \A i \in 8 .. 17 : i > k /\ i + 1 \in Q => i \in Q
  PROVE  k \in Q /\ k + 1 \in Q
<1>1. k \in {8, 9, 10, 11, 12, 13, 14, 15, 16, 17}
  OBVIOUS
<1>2. k \in Q
  BY <1>1
<1>3. k + 1 \in Q
  BY <1>1
<1> QED
  BY <1>2, <1>3

(* Head and tail of a frame at their places leave no room for a loss        *)
(* between them: it would have to be a whole frame long.  So the bytes      *)
(* between them are those of one frame, in order.                           *)
LEMMA Accepted ==
  ASSUME BytesInv, StreamInv, Len(rx) >= 23, CheckReportFrame(rx)
  PROVE  \A i \in 8 .. 18 : rx[i].pos = i /\ rx[i].frame = rx[8].frame
<1>1. /\ rx \in Seq(Bytes)
      /\ \A i \in 8 .. 17 : i \in Neighbours
      /\ \A i \in 8 .. 18 : rx[i].pos \in Int
  <2>1. rx \in Seq(Bytes) /\ Len(rx) \in Nat
    BY DEF BytesInv
  <2>2. \A i \in 1 .. Len(rx) : rx[i] \in Bytes
    BY <2>1
  <2>3. \A i \in 8 .. 18 : i \in 1 .. Len(rx)
    BY <2>1
  <2>4. \A byte \in Bytes : byte.pos \in Int
    BY Lengths DEF Bytes, Positions
  <2>5. \A i \in 8 .. 17 : i \in 1 .. Len(rx) - 1
    BY <2>1
  <2> QED
    BY <2>1, <2>2, <2>3, <2>4, <2>5 DEF Neighbours
<1>2. rx[8].pos = 8 /\ rx[18].pos = 18
  BY DEF CheckReportFrame, HeadByte, TailByte
<1>3. \A i \in 8 .. 17 :
        Follows(rx[i], rx[i + 1]) =>
          /\ rx[i].pos = i => rx[i + 1].pos = i + 1 /\ rx[i + 1].frame = rx[i].frame
          /\ rx[i + 1].pos = i + 1 => rx[i].pos = i
  <2> SUFFICES ASSUME NEW i \in 8 .. 17, Follows(rx[i], rx[i + 1])
               PROVE  /\ rx[i].pos = i => rx[i + 1].pos = i + 1 /\ rx[i + 1].frame = rx[i].frame
                      /\ rx[i + 1].pos = i + 1 => rx[i].pos = i
    OBVIOUS
  <2>1. rx[i].pos \in Int /\ rx[i + 1].pos \in Int
    <3>1. i \in 8 .. 18 /\ i + 1 \in 8 .. 18
      OBVIOUS
    <3> QED
      BY <1>1, <3>1
  <2>2. CASE rx[i + 1].frame = rx[i].frame /\ rx[i + 1].pos = rx[i].pos + 1
    BY <2>1, <2>2
  <2>3. CASE rx[i].pos = 23 /\ rx[i + 1].pos = 1
    BY <2>3
  <2> QED
    BY <2>2, <2>3, Lengths DEF Follows
<1>4. \A i \in 8 .. 17 : Follows(rx[i], rx[i + 1])
  <2> SUFFICES ASSUME NEW k \in 8 .. 17, ~Follows(rx[k], rx[k + 1])
               PROVE  FALSE
    OBVIOUS
  <2> DEFINE Q == {i \in 8 .. 18 : rx[i].pos = i}
  <2>1. \A i \in 8 .. 17 : i # k => Follows(rx[i], rx[i + 1])
    BY <1>1 DEF StreamInv
  <2>2. Jumps(rx[k], rx[k + 1])
    BY <1>1 DEF StreamInv
  <2>3. 8 \in Q /\ 18 \in Q
    BY <1>2
  <2>4. \A i \in 8 .. 17 : i \in 8 .. 18 /\ i + 1 \in 8 .. 18 /\ i + 1 \in Int
    OBVIOUS
  <2>5. ASSUME NEW i \in 8 .. 17, i < k, i \in Q
        PROVE  i + 1 \in Q
    <3>1. Follows(rx[i], rx[i + 1]) /\ rx[i].pos = i
      <4>1. i # k
        BY <2>5
      <4>2. rx[i].pos = i
        BY <2>5
      <4> QED
        BY <2>1, <4>1, <4>2
    <3>2. rx[i + 1].pos = i + 1
      BY <1>3, <3>1
    <3> QED
      BY <2>4, <3>2
  <2>6. ASSUME NEW i \in 8 .. 17, i > k, i + 1 \in Q
        PROVE  i \in Q
    <3>1. Follows(rx[i], rx[i + 1]) /\ rx[i + 1].pos = i + 1
      <4>1. i # k
        BY <2>6
      <4>2. rx[i + 1].pos = i + 1
        BY <2>6
      <4> QED
        BY <2>1, <4>1, <4>2
    <3>2. rx[i].pos = i
      BY <1>3, <3>1
    <3> QED
      BY <2>4, <3>2
  <2> HIDE DEF Q
  <2>7. k \in Q /\ k + 1 \in Q
    BY <2>3, <2>5, <2>6, PassedFromBothEnds
  <2>8. rx[k].pos = k /\ rx[k + 1].pos = k + 1
    BY <2>7 DEF Q
  <2> QED
    BY <2>2, <2>8, Lengths DEF Jumps
<1> DEFINE Q == {i \in 8 .. 18 : rx[i].pos = i}
           R == {i \in 8 .. 18 : rx[i].frame = rx[8].frame}
<1>5. 8 \in Q /\ 8 \in R
  BY <1>2
<1>6. ASSUME NEW i \in 8 .. 17, i \in Q, i \in R
      PROVE  i + 1 \in Q /\ i + 1 \in R
  <2>1. i + 1 \in 8 .. 18 /\ rx[i].pos = i /\ rx[i].frame = rx[8].frame
    BY <1>6
  <2>2. rx[i + 1].pos = i + 1 /\ rx[i + 1].frame = rx[i].frame
    BY <1>3, <1>4, <2>1
  <2> QED
    BY <2>1, <2>2
<1> HIDE DEF Q, R
<1>7. \A i \in 8 .. 18 : i \in Q /\ i \in R
  BY <1>5, <1>6, PassedOn
<1> QED
  BY <1>7 DEF Q, R

(* What the reader holds after it has taken a frame's length. *)
DataInv ==
  /\ currentTargetData \in Seq([frame : Frames, pos : TargetData])
  /\ \A i, j \in DOMAIN currentTargetData :
       currentTargetData[i].frame = currentTargetData[j].frame

LEMMA ReadFrameData ==
  ASSUME BytesInv, StreamInv, DataInv, ReadFrame
  PROVE  DataInv'
<1>1. CASE ~CheckReportFrame(rx)
  BY <1>1 DEF ReadFrame, DataInv
<1>2. CASE CheckReportFrame(rx)
  <2>1. /\ rx \in Seq(Bytes) /\ Len(rx) \in Nat /\ Len(rx) >= 23
        /\ currentTargetData' = SubSeq(rx, 9, 17)
    BY <1>2, Lengths DEF ReadFrame, BytesInv, TargetDataOf
  <2>2. \A i \in 8 .. 18 : rx[i].pos = i /\ rx[i].frame = rx[8].frame
    BY <1>2, <2>1, Accepted
  <2>3. \A i \in 9 .. 17 : rx[i] \in [frame : Frames, pos : TargetData]
    <3> SUFFICES ASSUME NEW i \in 9 .. 17
                 PROVE  rx[i] \in [frame : Frames, pos : TargetData]
      OBVIOUS
    <3>1. i \in 1 .. Len(rx) /\ i \in 8 .. 18
      BY <2>1
    <3>2. rx[i] \in Bytes /\ rx[i].pos = i
      <4>1. \A j \in 1 .. Len(rx) : rx[j] \in Bytes
        BY <2>1
      <4> QED
        BY <2>2, <3>1, <4>1
    <3>3. i \in TargetData
      BY DEF TargetData
    <3> QED
      BY <3>2, <3>3 DEF Bytes
  <2>4. /\ SubSeq(rx, 9, 17) \in Seq([frame : Frames, pos : TargetData])
        /\ Len(SubSeq(rx, 9, 17)) = 9
        /\ \A i \in 1 .. 9 : SubSeq(rx, 9, 17)[i] = rx[8 + i]
    <3> DEFINE S == [frame : Frames, pos : TargetData]
    <3>1. \A i \in 9 .. 17 : rx[i] \in S
      BY <2>3
    <3> HIDE DEF S
    <3>2. /\ SubSeq(rx, 9, 17) \in Seq(S)
          /\ Len(SubSeq(rx, 9, 17)) = IF 9 <= 17 THEN 17 - 9 + 1 ELSE 0
          /\ \A i \in 1 .. 17 - 9 + 1 : SubSeq(rx, 9, 17)[i] = rx[9 + i - 1]
      BY <3>1, SubSeqProperties
    <3>3. \A i \in 1 .. 9 : 9 + i - 1 = 8 + i
      OBVIOUS
    <3> QED
      BY <3>2, <3>3 DEF S
  <2>5. DOMAIN currentTargetData' = 1 .. 9
    BY <2>1, <2>4
  <2>6. \A i \in 1 .. 9 : currentTargetData'[i].frame = rx[8].frame
    BY <2>1, <2>2, <2>4
  <2> QED
    BY <2>1, <2>4, <2>5, <2>6 DEF DataInv
<1> QED
  BY <1>1, <1>2

-------------------------------------------------------------------------------
(* The reader keeps its invariant.                                          *)

ReaderInv == BytesInv /\ StreamInv /\ EndInv /\ DataInv

LEMMA ReaderStarts == Init => ReaderInv
<1> SUFFICES ASSUME Init PROVE ReaderInv
  OBVIOUS
<1>1. /\ rx = <<>> /\ loss = "none" /\ lost = 0 /\ currentTargetData = <<>>
      /\ Len(rx) = 0 /\ rx \in Seq(Bytes)
  BY EmptySeq DEF Init
<1>2. BytesInv
  BY <1>1, MaxBurstAssumption, BufferSizeAssumption, Lengths DEF BytesInv
<1>3. Neighbours = {}
  BY <1>1 DEF Neighbours
<1>4. StreamInv
  BY <1>3 DEF StreamInv
<1>5. EndInv
  BY <1>1 DEF EndInv
<1>6. DataInv
  BY <1>1, EmptySeq DEF DataInv
<1> QED
  BY <1>2, <1>4, <1>5, <1>6 DEF ReaderInv

(* The receive buffer when the constructor returns: the rest of a frame. *)
LEMMA StreamBeginsSteps ==
  ASSUME ReaderInv, StreamBegins
  PROVE  /\ ReaderInv'
         /\ rx = <<>>
<1>1. /\ rx = <<>> /\ loss = "none" /\ lost = 0
      /\ UNCHANGED <<loss, lost, currentTargetData>>
      /\ SetupDone'
  <2>1. ~SetupDone
    BY DEF StreamBegins, Return, SetupDone
  <2>2. SetupDone'
    BY DEF StreamBegins, Return, SetupDone
  <2> QED
    BY <2>1, <2>2 DEF ReaderInv, EndInv, StreamBegins
<1>2. DataInv'
  BY <1>1 DEF ReaderInv, DataInv
<1>3. CASE UNCHANGED rx
  <2>1. BytesInv' /\ StreamInv'
    BY <1>1, <1>3 DEF ReaderInv, BytesInv, StreamInv, Neighbours
  <2>2. EndInv'
    BY <1>1, <1>3 DEF EndInv
  <2> QED
    BY <1>1, <1>2, <2>1, <2>2 DEF ReaderInv
<1>4. ASSUME NEW frame \in Frames, NEW from \in 1 .. 24, rx' = SentBytes(frame, from, 23)
      PROVE  ReaderInv'
  <2>1. from \in Nat /\ 1 <= from /\ 23 \in Nat /\ 23 <= 23 /\ from <= 23 + 1
    OBVIOUS
  <2>2. /\ rx' \in Seq(Bytes)
        /\ Len(rx') = 23 + 1 - from
        /\ \A i \in 1 .. 23 + 1 - from : rx'[i] = [frame |-> frame, pos |-> from + i - 1]
    BY <1>4, <2>1, SentBytesFacts
  <2>3. BytesInv'
    BY <1>1, <2>1, <2>2, BufferSizeAssumption, Lengths DEF ReaderInv, BytesInv
  <2>4. \A i \in Neighbours' : Follows(rx'[i], rx'[i + 1])
    <3> SUFFICES ASSUME NEW i \in 1 .. 23 - from PROVE Follows(rx'[i], rx'[i + 1])
      <4>1. Len(rx') - 1 = 23 - from
        BY <2>1, <2>2
      <4> QED
        BY <4>1 DEF Neighbours
    <3>1. /\ i \in 1 .. 23 + 1 - from /\ i + 1 \in 1 .. 23 + 1 - from
          /\ from + i - 1 \in Nat /\ from + (i + 1) - 1 = from + i - 1 + 1
      BY <2>1
    <3>2. /\ rx'[i] = [frame |-> frame, pos |-> from + i - 1]
          /\ rx'[i + 1] = [frame |-> frame, pos |-> from + (i + 1) - 1]
      BY <2>2, <3>1
    <3> QED
      BY <3>1, <3>2 DEF Follows
  <2>5. StreamInv'
    BY <2>4 DEF StreamInv
  <2>6. EndInv'
    <3>1. rx' # <<>> => rx'[Len(rx')].pos = 23
      <4> SUFFICES ASSUME rx' # <<>> PROVE rx'[Len(rx')].pos = 23
        OBVIOUS
      <4>1. Len(rx') > 0
        BY <2>2, NotEmpty
      <4>2. Len(rx') \in 1 .. 23 + 1 - from /\ from + Len(rx') - 1 = 23
        BY <2>1, <2>2, <4>1
      <4>3. rx'[Len(rx')] = [frame |-> frame, pos |-> from + Len(rx') - 1]
        BY <2>2, <4>2
      <4> QED
        BY <4>2, <4>3
    <3> QED
      BY <1>1, <3>1, Lengths DEF EndInv
  <2> QED
    BY <1>2, <2>3, <2>5, <2>6 DEF ReaderInv
<1>5. \/ UNCHANGED rx
      \/ \E frame \in Frames, from \in 1 .. 24 : rx' = SentBytes(frame, from, 23)
  BY Lengths DEF StreamBegins
<1> QED
  BY <1>1, <1>3, <1>4, <1>5

(* Update() takes a byte, a frame's length or what is left of one. *)
LEMMA UpdateSteps ==
  ASSUME ReaderInv, SetupDone, Reader
  PROVE  ReaderInv'
<1>1. /\ rx \in Seq(Bytes) /\ Len(rx) \in Nat
      /\ BytesInv /\ StreamInv /\ EndInv /\ DataInv
  BY DEF ReaderInv, BytesInv
<1>2. SetupDone' /\ Update
  BY DEF Reader, setupVars, SetupDone
<1>3. CASE SkipByte
  <2>1. rx # <<>> /\ rx' = Tail(rx) /\ UNCHANGED <<loss, lost, currentTargetData>>
    BY <1>3 DEF SkipByte
  <2>2. 1 \in 0 .. Len(rx) /\ rx' = SubSeq(rx, 1 + 1, Len(rx))
    <3>1. Tail(rx) = SubSeq(rx, 2, Len(rx))
      BY <1>1, <2>1, TailIsSubSeq
    <3> QED
      BY <1>1, <2>1, <3>1, NotEmpty
  <2>3. BytesInv' /\ StreamInv' /\ EndInv'
    BY <1>1, <1>2, <2>1, <2>2, Taking
  <2> QED
    BY <1>1, <2>1, <2>3 DEF ReaderInv, DataInv
<1>4. CASE ReadFrame
  <2>1. /\ 23 \in 0 .. Len(rx) /\ rx' = SubSeq(rx, 23 + 1, Len(rx))
        /\ UNCHANGED <<loss, lost>>
    BY <1>1, <1>4, Lengths DEF ReadFrame
  <2>2. BytesInv' /\ StreamInv' /\ EndInv'
    BY <1>1, <1>2, <2>1, Taking
  <2>3. DataInv'
    BY <1>1, <1>4, ReadFrameData
  <2> QED
    BY <2>2, <2>3 DEF ReaderInv
<1>5. CASE ReadTimesOut
  <2>1. rx' = <<>> /\ UNCHANGED <<loss, lost, currentTargetData>>
    BY <1>5 DEF ReadTimesOut
  <2>2. Len(rx) \in 0 .. Len(rx) /\ rx' = SubSeq(rx, Len(rx) + 1, Len(rx))
    <3>1. Len(rx) + 1 \in Int /\ Len(rx) \in Int /\ Len(rx) < Len(rx) + 1
      BY <1>1
    <3>2. SubSeq(rx, Len(rx) + 1, Len(rx)) = <<>>
      BY <3>1, SubSeqEmpty
    <3> QED
      BY <1>1, <2>1, <3>2
  <2>3. BytesInv' /\ StreamInv' /\ EndInv'
    BY <1>1, <1>2, <2>1, <2>2, Taking
  <2> QED
    BY <1>1, <2>1, <2>3 DEF ReaderInv, DataInv
<1> QED
  BY <1>2, <1>3, <1>4, <1>5 DEF Update

LEMMA ReceiveSomeSteps ==
  ASSUME ReaderInv, SetupDone, ReceiveSome, UNCHANGED setupVars
  PROVE  /\ ReaderInv'
         /\ Len(rx') >= Len(rx)
<1>1. PICK frame \in Frames, head \in 0 .. 23 :
        \E tail \in 0 .. 23 - head :
          (head + tail = 23 => head = 0) /\ Receive(frame, head, tail)
  BY Lengths DEF ReceiveSome
<1>2. PICK tail \in 0 .. 23 - head :
        (head + tail = 23 => head = 0) /\ Receive(frame, head, tail)
  BY <1>1
<1>3. SetupDone'
  BY DEF setupVars, SetupDone
<1>4. BytesInv' /\ StreamInv' /\ EndInv' /\ Len(rx') >= Len(rx)
  BY <1>2, <1>3, Receiving DEF ReaderInv
<1>5. DataInv'
  BY <1>2 DEF ReaderInv, DataInv, Receive
<1> QED
  BY <1>4, <1>5 DEF ReaderInv

LEMMA ReaderSteps ==
  ASSUME SetupInv, ReaderInv, [Next]_vars
  PROVE  ReaderInv'
<1>1. CASE SetupStep /\ UNCHANGED readerVars
  <2>1. ~SetupDone
    <3>1. setup.commands # <<>>
      BY <1>1 DEF SetupStep, Tick, WriteFails, WriteSync, LateAcknowledgement, ReadSyncAll, Sending
    <3> QED
      BY <3>1 DEF SetupInv, HeardInv, SetupDone
  <2>2. /\ rx = <<>> /\ rx' = <<>> /\ loss = "none" /\ loss' = "none"
        /\ UNCHANGED <<lost, currentTargetData>>
    BY <1>1, <2>1 DEF ReaderInv, EndInv, readerVars
  <2>3. BytesInv' /\ StreamInv' /\ DataInv'
    BY <2>2 DEF ReaderInv, BytesInv, StreamInv, DataInv, Neighbours
  <2>4. EndInv'
    BY <2>2 DEF ReaderInv, EndInv
  <2> QED
    BY <2>3, <2>4 DEF ReaderInv
<1>2. CASE StreamBegins
  BY <1>2, StreamBeginsSteps
<1>3. CASE SetupDone /\ ~configuring /\ ReceiveSome /\ UNCHANGED setupVars
  BY <1>3, ReceiveSomeSteps
<1>4. CASE Reader
  BY <1>4, UpdateSteps DEF Reader
<1>5. CASE UNCHANGED vars
  BY <1>5 DEF vars, setupVars, readerVars, ReaderInv, BytesInv, StreamInv, EndInv, DataInv,
              Neighbours, SetupDone
<1> QED
  BY <1>1, <1>2, <1>3, <1>4, <1>5 DEF Next

-------------------------------------------------------------------------------

InductiveInv == SetupInv /\ ReaderInv

LEMMA InitInv == Init => InductiveInv
  BY SetupStarts, ReaderStarts DEF Init, InductiveInv

LEMMA NextInv == InductiveInv /\ [Next]_vars => InductiveInv'
  BY SetupSteps, ReaderSteps DEF InductiveInv

(* The invariant holds from the constructor on, however the stream is cut.  *)
THEOREM Invariance == Spec => []InductiveInv
  BY InitInv, NextInv, PTL DEF Spec

(* TRUE is returned only for what the radar can have acknowledged; the radar *)
(* is left silent exactly if it has carried out the first command and not    *)
(* the second; and TRUE is returned for the second if both were carried out  *)
(* and acknowledged in time.                                                 *)
THEOREM SetupIsHeard == Spec => []SetupHeard
<1>1. InductiveInv => SetupHeard
  BY DEF InductiveInv, SetupInv, AcknowledgedInv
<1> QED
  BY <1>1, Invariance, PTL

(* What is received while the constructor waits fits into its buffer. *)
THEOREM SetupReadFits == Spec => []ReadFits
<1>1. InductiveInv => ReadFits
  <2> SUFFICES ASSUME SetupInv, "enable" \in heard \/ Len(setup.commands) = 2
               PROVE  buffered.bytes <= 256
    BY DEF InductiveInv, ReadFits, READ_BUFFER_SIZE
  <2>1. /\ setup.commands \in {Commands, <<"disable">>, <<>>}
        /\ setup.pc \in {"write", "read", "return", "done"}
        /\ setup.ticks \in Nat
        /\ buffered.bytes \in Nat /\ Due \in {0, 14, 18}
    BY BytesAreNatural DEF SetupInv, SetupTypeOK, Setups
  <2>2. "enable" \in heard \/ setup.commands = Commands
    <3>1. CASE setup.commands = <<"disable">>
      BY <3>1, CommandFacts
    <3>2. CASE setup.commands = <<>>
      BY <3>2, CommandFacts
    <3> QED
      BY <2>1, <3>1, <3>2
  <2>3. setup.pc # "done"
    BY <2>2, CommandFacts DEF SetupInv, HeardInv
  <2>4. CASE setup.pc = "write"
    BY <2>1, <2>2, <2>4 DEF SetupInv, FillInv
  <2>5. CASE setup.pc = "read"
    <3>1. buffered.bytes + Due + 23 * setup.ticks <= 81
      BY <2>2, <2>5, Lengths DEF SetupInv, FillInv
    <3> QED
      BY <2>1, <3>1
  <2>6. CASE setup.pc = "return"
    BY <2>1, <2>2, <2>6 DEF SetupInv, FillInv
  <2> QED
    BY <2>1, <2>3, <2>4, <2>5, <2>6
<1> QED
  BY <1>1, Invariance, PTL

(* Target data never mixes two frames, wherever in the stream the loss      *)
(* falls: head and tail of the frame alone see to it.                       *)
THEOREM DataNotMixed == Spec => []DataFromOneFrame
<1>1. InductiveInv => DataFromOneFrame
  <2> SUFFICES ASSUME InductiveInv PROVE DataFromOneFrame
    OBVIOUS
  <2>1. /\ setup.ticks \in 0 .. 10 /\ setup.pc \in {"write", "read", "return", "done"}
        /\ heard \cup answered \cup acknowledged \subseteq {"enable", "disable"}
    BY DEF InductiveInv, SetupInv, SetupTypeOK, Setups
  <2>2. TypeOK
    BY <2>1 DEF InductiveInv, ReaderInv, BytesInv, DataInv, TypeOK, Bytes
  <2> QED
    BY <2>2 DEF InductiveInv, ReaderInv, DataInv, DataFromOneFrame
<1> QED
  BY <1>1, Invariance, PTL

-------------------------------------------------------------------------------
(* What is read from an intact frame.                                       *)

LEMMA IntactPassesCheck ==
  ASSUME BytesInv, NEW frame \in Frames, StandsAtIntact(frame)
  PROVE  /\ rx \in Seq(Bytes) /\ Len(rx) >= 23
         /\ \A i \in 1 .. 23 : rx[i] = [frame |-> frame, pos |-> i]
         /\ BeginsFrame(rx[1])
         /\ CheckReportFrame(rx)
<1>1. rx \in Seq(Bytes) /\ Len(rx) \in Nat /\ Len(rx) >= 23
  BY Lengths DEF BytesInv, StandsAtIntact
<1>2. SubSeq(rx, 1, 23) = SentBytes(frame, 1, 23)
  BY Lengths DEF StandsAtIntact
<1>3. \A i \in 1 .. 23 : rx[i] = [frame |-> frame, pos |-> i]
  <2> SUFFICES ASSUME NEW i \in 1 .. 23 PROVE rx[i] = [frame |-> frame, pos |-> i]
    OBVIOUS
  <2>1. SubSeq(rx, 1, 23)[i] = rx[i]
    <3>1. SubSeq(rx, 1, 23)[i] = rx[1 + i - 1]
      BY <1>1, SubSeqProperties
    <3> QED
      BY <3>1
  <2>2. SentBytes(frame, 1, 23)[i] = [frame |-> frame, pos |-> i]
    BY DEF SentBytes
  <2> QED
    BY <1>2, <2>1, <2>2
<1>4. \A i \in 1 .. 23 : rx[i].pos = i
  BY <1>3
<1>5. BeginsFrame(rx[1])
  <2>1. rx[1].pos = 1
    BY <1>4
  <2> QED
    BY <2>1 DEF BeginsFrame
<1>6. CheckReportFrame(rx)
  <2>1. (FrameHeader \ {1}) \cup {HeadByte, TailByte} \cup EndOfFrame \subseteq 1 .. 23
    BY DEF FrameHeader, HeadByte, TailByte, EndOfFrame
  <2>2. \A i \in (FrameHeader \ {1}) \cup {HeadByte, TailByte} \cup EndOfFrame : rx[i].pos = i
    BY <1>4, <2>1
  <2> QED
    BY <1>5, <2>2 DEF CheckReportFrame
<1> QED
  BY <1>1, <1>3, <1>5, <1>6

(* Bytes leave the buffer of a reader that stands at an intact frame in one *)
(* way only: the frame is read, and its data is taken over.                 *)
LEMMA IntactIsRead ==
  ASSUME InductiveInv, [Next]_vars, NEW frame \in Frames,
         StandsAtIntact(frame), Len(rx') < Len(rx)
  PROVE  currentTargetData' = SentBytes(frame, 9, 17)
<1>1. /\ rx \in Seq(Bytes) /\ Len(rx) \in Nat /\ Len(rx) >= 23
      /\ \A i \in 1 .. 23 : rx[i] = [frame |-> frame, pos |-> i]
      /\ BeginsFrame(rx[1])
      /\ CheckReportFrame(rx)
  <2>1. BytesInv /\ rx \in Seq(Bytes)
    BY DEF InductiveInv, ReaderInv, BytesInv
  <2>2. Len(rx) \in Nat
    BY <2>1
  <2> QED
    BY <2>1, <2>2, IntactPassesCheck
<1>2. rx # <<>>
  BY <1>1, CommandFacts
<1>3. ReadFrame
  <2>1. rx' # rx
    BY <1>1
  <2>2. ~SkipByte
    BY <1>1 DEF SkipByte
  <2>3. ~ReadTimesOut
    BY <1>1, Lengths DEF ReadTimesOut
  <2>4. ~StreamBegins
    <3>1. SetupDone
      BY <1>2 DEF InductiveInv, ReaderInv, EndInv
    <3> QED
      BY <3>1 DEF StreamBegins, Return, SetupDone
  <2>5. ~(SetupDone /\ ReceiveSome /\ UNCHANGED setupVars)
    <3> SUFFICES ASSUME SetupDone, ReceiveSome, UNCHANGED setupVars PROVE FALSE
      OBVIOUS
    <3>1. Len(rx') >= Len(rx) /\ ReaderInv'
      BY ReceiveSomeSteps DEF InductiveInv
    <3>2. Len(rx') \in Nat
      BY <3>1 DEF ReaderInv, BytesInv
    <3> QED
      BY <1>1, <3>1, <3>2
  <2> QED
    BY <2>1, <2>2, <2>3, <2>4, <2>5 DEF Next, Reader, Update, vars, readerVars
<1>4. currentTargetData' = SubSeq(rx, 9, 17)
  BY <1>1, <1>3 DEF ReadFrame, TargetDataOf
<1>5. /\ SubSeq(rx, 9, 17) \in Seq(Bytes)
      /\ Len(SubSeq(rx, 9, 17)) = 9
      /\ \A i \in 1 .. 9 : SubSeq(rx, 9, 17)[i] = rx[9 + i - 1]
  <2>1. \A i \in 9 .. 17 : rx[i] \in Bytes
    <3>1. \A i \in 9 .. 17 : i \in 1 .. Len(rx)
      <4>1. Len(rx) \in Nat /\ Len(rx) >= 23
        BY <1>1, Zenon
      <4> QED
        BY <4>1
    <3>2. \A i \in 1 .. Len(rx) : rx[i] \in Bytes
      <4>1. rx \in Seq(Bytes)
        BY <1>1, Zenon
      <4> QED
        BY <4>1, ElementOfSeq, Zenon
    <3> QED
      BY <3>1, <3>2
  <2>2. /\ SubSeq(rx, 9, 17) \in Seq(Bytes)
        /\ Len(SubSeq(rx, 9, 17)) = IF 9 <= 17 THEN 17 - 9 + 1 ELSE 0
        /\ \A i \in 1 .. 17 - 9 + 1 : SubSeq(rx, 9, 17)[i] = rx[9 + i - 1]
    BY <2>1, SubSeqProperties
  <2> QED
    BY <2>2
<1>6. /\ SentBytes(frame, 9, 17) \in Seq(Bytes)
      /\ Len(SentBytes(frame, 9, 17)) = 9
      /\ \A i \in 1 .. 9 :
           SentBytes(frame, 9, 17)[i] = [frame |-> frame, pos |-> 9 + i - 1]
  <2> DEFINE from == 9
             to == 17
  <2>1. from \in Nat /\ to \in Nat
    OBVIOUS
  <2>2. 1 <= from /\ to <= 23 /\ from <= to + 1
    OBVIOUS
  <2>3. to + 1 - from = 9
    OBVIOUS
  <2> HIDE DEF from, to
  <2>4. /\ SentBytes(frame, from, to) \in Seq(Bytes)
        /\ Len(SentBytes(frame, from, to)) = to + 1 - from
        /\ \A i \in 1 .. to + 1 - from :
             SentBytes(frame, from, to)[i] = [frame |-> frame, pos |-> from + i - 1]
    BY <2>1, <2>2, SentBytesFacts, Zenon
  <2> QED
    BY <2>3, <2>4 DEF from, to
<1>7. \A i \in 1 .. 9 : SubSeq(rx, 9, 17)[i] = SentBytes(frame, 9, 17)[i]
  <2> SUFFICES ASSUME NEW i \in 1 .. 9
               PROVE  SubSeq(rx, 9, 17)[i] = SentBytes(frame, 9, 17)[i]
    OBVIOUS
  <2>1. 9 + i - 1 \in 1 .. 23
    OBVIOUS
  <2>2. rx[9 + i - 1] = [frame |-> frame, pos |-> 9 + i - 1]
    BY <1>1, <2>1
  <2> QED
    BY <1>5, <1>6, <2>2
<1>8. SubSeq(rx, 9, 17) = SentBytes(frame, 9, 17)
  BY <1>5, <1>6, <1>7, SeqEqual
<1> QED
  BY <1>4, <1>8

(* A frame that arrives whole and is met at its first byte is never lost,   *)
(* whatever the stream was before it.                                       *)
THEOREM IntactAccepted == Spec => IntactFrameAccepted
<1>1. InductiveInv /\ [Next]_vars =>
        [ \A frame \in Frames :
            StandsAtIntact(frame) /\ Len(rx') < Len(rx)
              => currentTargetData' = SentBytes(frame, 9, 17) ]_vars
  BY IntactIsRead
<1> QED
  BY <1>1, Invariance, PTL DEF Spec, IntactFrameAccepted
===============================================================================
