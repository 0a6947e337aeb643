--------------------------- MODULE RFIDController ---------------------------
(***************************************************************************)
(* M1_RFIDControllerM: finding, reading and writing RFID tags with a       *)
(* reader on a serial line.  After every answer the reader needs 12 ms; a  *)
(* command that comes earlier is accepted and sent when they are over.     *)
(*                                                                         *)
(* A frame is on the line for a while, the packet buffer being sent as it  *)
(* is then; an answer is one step, which posts parseResponse, and may      *)
(* arrive garbled.  The reader does not know of that: an inventory of tags *)
(* goes on after the controller has given it up.  The command that the     *)
(* client waits for is known to the model only.                            *)
(***************************************************************************)
EXTENDS TinyOS, FiniteSets

CONSTANTS
  NumTags,    \* values for which findTags is called
  TagsInField \* tags that the reader may see at once

MAXNUMTAGS == 5

ASSUME RFIDAssumption ==
  /\ NumTags \subseteq Int8
  /\ TagsInField \in Nat

VARIABLES
  rfidState,
  packet,        \* the command in the packet buffer
  line,          \* to the reader: "free", or a "frame" is sent, or two "mixed"
  idIndex,       \* entries of IDtable in use
  receiveBuffer, \* the code of the last answer
  timer,
  queue,
  reader,        \* the command that the reader works on, or "NONE"
  next,          \* the command that it will work on then, or "NONE"
  inField,       \* tags that an inventory has yet to report
  pending,       \* the command whose answer the client waits for, or "NONE"
  astray         \* the report of a tag was garbled, or written behind IDtable

airVars == <<reader, next, inField>>
vars    == <<rfidState, packet, line, idIndex, receiveBuffer, timer, queue, airVars, pending,
             astray>>

Commands == {"FINDTAGS", "FINDTAGSSINGLE", "READTAGS", "WRITETAGS"}
Wait     == [FINDTAGS |-> "WAITFINDTAGS", FINDTAGSSINGLE |-> "WAITFINDTAGSSINGLE",
             READTAGS |-> "WAITREADTAGS", WRITETAGS |-> "WAITWRITETAGS"]
Events   == [SEL_TAG_PASS |-> "findTagsDone", SEL_TAG_FAIL |-> "findTagsDone",
             READ_TAG_PASS |-> "readTagDone", READ_TAG_FAIL |-> "readTagDone",
             WRITE_TAG_PASS |-> "writeTagDone", WRITE_TAG_FAIL |-> "writeTagDone"]
Codes    == DOMAIN Events \cup {"OTHER"}
EventOf  == [FINDTAGS |-> "findTagsDone", FINDTAGSSINGLE |-> "findTagsDone",
             READTAGS |-> "readTagDone", WRITETAGS |-> "writeTagDone"]

Init ==
  /\ rfidState = "IDLE"
  /\ packet = "NONE" /\ line = "free" /\ receiveBuffer = "OTHER"
  /\ idIndex = 0
  /\ timer = [rfid |-> "off"]
  /\ queue = <<>>
  /\ reader = "NONE" /\ next = "NONE" /\ inField = 0
  /\ pending = "NONE"
  /\ astray = FALSE

-----------------------------------------------------------------------------
(* Commands.                                                               *)

(* The packet buffer is sent: UART.put of STX, after which each putDone    *)
(* puts the next byte.  It is mixed up with what is being sent already.    *)
Send == line' = IF line = "free" THEN "frame" ELSE "mixed"

(* The packet buffer and writeIndex are written, perhaps while being sent. *)
Overwrite == line' = IF line = "free" THEN "free" ELSE "mixed"

(* (Wrong: the reader gets the command at once.)                           *)
AcceptAtOnce(command) ==
  /\ packet' = command
  /\ idIndex' = 0
  /\ pending' = command
  /\ rfidState \in {"IDLE", "WAITIDLE"} /\ rfidState' = command /\ Send
  /\ UNCHANGED <<receiveBuffer, timer, queue, airVars, astray>>

(* (Wrong: the entries of the last search are kept.)                       *)
AcceptKeeps(command) ==
  /\ packet' = command
  /\ pending' = command
  /\ \/ rfidState = "IDLE" /\ rfidState' = command /\ Send
     \/ rfidState = "WAITIDLE" /\ rfidState' = Wait[command] /\ Overwrite
  /\ UNCHANGED <<idIndex, receiveBuffer, timer, queue, airVars, astray>>

(* A command that is accepted is sent, or waits for the timer: the common  *)
(* part of findTags, readTag and writeTag.                                 *)
Accept(command) ==
  /\ packet' = command
  /\ idIndex' = 0
  /\ pending' = command
  /\ \/ rfidState = "IDLE" /\ rfidState' = command /\ Send
     \/ rfidState = "WAITIDLE" /\ rfidState' = Wait[command] /\ Overwrite
  /\ UNCHANGED <<receiveBuffer, timer, queue, airVars, astray>>

FindTags(numTags) ==
  /\ numTags <= MAXNUMTAGS
  /\ Accept(IF numTags = 1 THEN "FINDTAGSSINGLE" ELSE "FINDTAGS")

ReadTag  == Accept("READTAGS")
WriteTag == Accept("WRITETAGS")

-----------------------------------------------------------------------------
(* The reader.                                                             *)

(* The answers to a command: tags are reported one by one, and at last     *)
(* that there is no other.                                                 *)
Answers(command) ==
  [FINDTAGS       |-> IF inField > 0 THEN {"SEL_TAG_PASS"} ELSE {"SEL_TAG_FAIL"},
   FINDTAGSSINGLE |-> {"SEL_TAG_PASS", "SEL_TAG_FAIL"},
   READTAGS       |-> {"READ_TAG_PASS", "READ_TAG_FAIL"},
   WRITETAGS      |-> {"WRITE_TAG_PASS", "WRITE_TAG_FAIL"}][command]

(* The reader begins with a command, or has none.                          *)
Begin(command) ==
  /\ reader' = command /\ next' = "NONE"
  /\ inField' \in IF command = "FINDTAGS" THEN 0 .. TagsInField ELSE {0}

(* The last putDone: the reader has got a command, for which it gives up   *)
(* what it does, or which it keeps for the time after.  Two frames that    *)
(* were mixed may be no command at all.                                    *)
FrameSent ==
  /\ line # "free"
  /\ line' = "free"
  /\ \/ Begin(packet)
     \/ reader # "NONE" /\ next' = packet /\ UNCHANGED <<reader, inField>>
     \/ line = "mixed" /\ UNCHANGED airVars
  /\ UNCHANGED <<rfidState, packet, idIndex, receiveBuffer, timer, queue, pending, astray>>

(* The reader is in an inventory, with tags to come.                       *)
ReportsOn == reader = "FINDTAGS" /\ inField > 0

(* UART.get, when the last byte of an answer has come.  The previous       *)
(* answer has been parsed: the bytes of one take longer than the tasks.    *)
(* (The receive interrupt has been enabled, which Localization does.)      *)
Answer ==
  /\ reader # "NONE"
  /\ ~Queued(queue, "parseResponse")
  /\ receiveBuffer' \in Answers(reader) \cup {"OTHER"}
  /\ IF ReportsOn THEN inField' = inField - 1 /\ UNCHANGED <<reader, next>>
                  ELSE Begin(next)
  /\ astray' = (astray \/ (ReportsOn /\ receiveBuffer' = "OTHER"))
  /\ queue' = Append(queue, "parseResponse")
  /\ UNCHANGED <<rfidState, packet, line, idIndex, timer, pending>>

-----------------------------------------------------------------------------
(* Tasks.                                                                  *)

Dispatch(t) == queue # <<>> /\ Head(queue) = t

(* The event tells the client; "MISMATCH" if it waits for another.         *)
Signal(event) ==
  pending' = IF pending \in Commands /\ EventOf[pending] = event THEN "NONE" ELSE "MISMATCH"

(* (Wrong: an unknown answer is a failure to find tags.)                   *)
EventOfOtherFind(state) ==
  IF state \in {"FINDTAGS", "READTAGS", "WRITETAGS"} THEN "findTagsDone" ELSE "none"

(* The event for an unknown answer; a search for a single tag has none.    *)
EventOfOther(state) ==
  IF state \in {"FINDTAGS", "READTAGS", "WRITETAGS"} THEN EventOf[state] ELSE "none"

(* parseResponse: a tag that is found is an entry of IDtable, and ends a   *)
(* search for a single tag; every other answer ends the command.           *)
ParseResponse ==
  /\ Dispatch("parseResponse")
  /\ queue' = Tail(queue)
  /\ idIndex' = IF receiveBuffer = "SEL_TAG_PASS" THEN idIndex + 1 ELSE idIndex
  /\ LET event == IF receiveBuffer = "OTHER" THEN EventOfOther(rfidState) ELSE Events[receiveBuffer]
     IN  IF receiveBuffer = "SEL_TAG_PASS" /\ rfidState # "FINDTAGSSINGLE"
           THEN UNCHANGED <<rfidState, timer, pending>>
           ELSE /\ rfidState' = "WAITIDLE"
                /\ timer' = TimerStart(timer, "rfid")
                /\ IF event = "none" THEN UNCHANGED pending ELSE Signal(event)
  /\ astray' = (astray \/ (receiveBuffer = "SEL_TAG_PASS" /\ idIndex >= MAXNUMTAGS))
  /\ UNCHANGED <<packet, line, receiveBuffer, airVars>>

(* (Wrong: a command that waits is not sent.)                              *)
TimerFiredIdle ==
  /\ Dispatch("rfid")
  /\ queue' = Tail(queue)
  /\ timer' = AfterExpiry(timer, "rfid", FALSE)
  /\ rfidState' = IF rfidState = "WAITIDLE" THEN "IDLE" ELSE rfidState
  /\ UNCHANGED <<packet, line, idIndex, receiveBuffer, pending, airVars, astray>>

(* Timer.fired; the frame that is sent is what the packet buffer holds.    *)
TimerFired ==
  LET ready == Delivered(timer, "rfid") /\ rfidState = "WAITIDLE"
      sends == Delivered(timer, "rfid") /\ \E command \in Commands : rfidState = Wait[command]
  IN  /\ Dispatch("rfid")
      /\ queue' = Tail(queue)
      /\ timer' = AfterExpiry(timer, "rfid", FALSE)
      /\ rfidState' = IF ready THEN "IDLE"
                      ELSE IF sends THEN CHOOSE command \in Commands : rfidState = Wait[command]
                      ELSE rfidState
      /\ IF sends THEN Send ELSE UNCHANGED line
      /\ UNCHANGED <<packet, idIndex, receiveBuffer, pending, airVars, astray>>

RunTask == ParseResponse \/ TimerFired

(* The timer expires; the task of its last expiry has run.                 *)
Expire ==
  /\ timer["rfid"] = "armed"
  /\ ~Queued(queue, "rfid")
  /\ timer' = [timer EXCEPT !["rfid"] = "due"]
  /\ queue' = Append(queue, "rfid")
  /\ UNCHANGED <<rfidState, packet, line, idIndex, receiveBuffer, airVars, pending, astray>>

Next ==
  \/ \E numTags \in NumTags : FindTags(numTags)
  \/ ReadTag \/ WriteTag
  \/ FrameSent \/ Answer \/ RunTask \/ Expire

Spec == Init /\ [][Next]_vars

(* Frames are sent, the reader answers, the queue is served and the timer  *)
(* expires.                                                                *)
FairSpec ==
  /\ Spec
  /\ WF_vars(FrameSent) /\ WF_vars(Answer) /\ WF_vars(RunTask) /\ WF_vars(Expire)

-----------------------------------------------------------------------------
(* Properties.                                                             *)

TypeOK ==
  /\ rfidState \in {"IDLE", "WAITIDLE"} \cup Commands \cup {Wait[c] : c \in Commands}
  /\ packet \in Commands \cup {"NONE"}
  /\ line \in {"free", "frame", "mixed"}
  /\ line # "free" \/ rfidState \notin {"IDLE", "WAITIDLE"} => packet \in Commands
  /\ idIndex \in Nat
  /\ receiveBuffer \in Codes
  /\ timer \in [{"rfid"} -> TimerStates]
  /\ queue \in Seq({"rfid", "parseResponse"})
  /\ reader \in Commands \cup {"NONE"} /\ next \in Commands \cup {"NONE"}
  /\ inField \in 0 .. TagsInField
  /\ astray \in BOOLEAN

(* As long as no report of a tag was garbled, the client is told of the    *)
(* command that it waits for, and of no other; every other answer, the     *)
(* last one of an inventory too, may be garbled.                           *)
AnswersMatch == ~astray => pending # "MISMATCH"

(* Until then the reader works only while the controller waits for it, and *)
(* on the command that its state says; it has no second one, gets none     *)
(* within the 12 ms after an answer, and no frame is mixed with another.   *)
ReaderIsExpected ==
  ~astray =>
    /\ line # "mixed" /\ next = "NONE"
    /\ reader # "NONE" => reader = rfidState /\ timer["rfid"] = "off" /\ line = "free"
    /\ rfidState \in Commands =>
         packet = rfidState /\ (line # "free" \/ reader # "NONE" \/ queue # <<>>)

(* Until then a tag is counted once, and none of an earlier search: no     *)
(* more are found than there are.                                          *)
TagsCountedOnce == ~astray /\ rfidState = "FINDTAGS" => idIndex + inField <= TagsInField

(* "The number of available IDs are returned in the findTagsDone function" *)
(* (M1_RFIDControllerM.nc:312-313), of which IDtable holds five.  Broken   *)
(* when there are more tags in the field: numTags is compared with         *)
(* MAXNUMTAGS, but the reader is never told of it.                         *)
IdsFit == idIndex <= MAXNUMTAGS

(* "It returns FAIL if the reader is busy handling a previous request"     *)
(* (M1_RFIDControllerM.nc:330-331): what was accepted waits for its pause, *)
(* or is sent, with the reader free.  Broken when the report of a tag is   *)
(* garbled: the client is told that no tag was found, and the reports and  *)
(* the end of the inventory fall upon its next command.                    *)
BusyIsRefused ==
  line # "free" \/ (\E c \in Commands : rfidState = Wait[c]) => reader = "NONE"

(* The inductive invariant: until a report is lost, what the queue, the    *)
(* timer, the line, the reader and the client are at in each state.        *)
CommandSent ==
  /\ timer["rfid"] = "off"
  /\ packet = rfidState /\ pending = rfidState
  /\ \/ queue = <<>> /\ line = "frame" /\ reader = "NONE"
     \/ queue = <<>> /\ line = "free" /\ reader = rfidState
     \/ /\ queue = <<"parseResponse">> /\ line = "free"
        /\ receiveBuffer # "OTHER" => Events[receiveBuffer] = EventOf[rfidState]
        /\ reader = IF rfidState = "FINDTAGS" /\ receiveBuffer = "SEL_TAG_PASS"
                      THEN "FINDTAGS" ELSE "NONE"

ReaderPauses ==
  /\ reader = "NONE" /\ line = "free"
  /\ \/ timer["rfid"] = "armed" /\ queue = <<>>
     \/ timer["rfid"] = "due" /\ queue = <<"rfid">>
  /\ \A c \in Commands : rfidState = Wait[c] => packet = c /\ pending = c

ReaderRests == timer["rfid"] = "off" /\ queue = <<>> /\ reader = "NONE" /\ line = "free"

Orderly ==
  /\ next = "NONE" /\ pending # "MISMATCH"
  /\ rfidState \in Commands => CommandSent
  /\ rfidState \notin Commands \cup {"IDLE"} => ReaderPauses
  /\ rfidState = "IDLE" => ReaderRests

(* Tags found and tags to come are together those in the field.            *)
TagsAreCounted ==
  /\ rfidState \notin {"IDLE", "WAITIDLE", "FINDTAGS"} => idIndex = 0
  /\ rfidState = "FINDTAGS" =>
       LET read == IF queue # <<>> /\ receiveBuffer = "SEL_TAG_PASS" THEN 1 ELSE 0
       IN  IF line = "free" THEN idIndex + read + inField <= TagsInField
                            ELSE idIndex = 0 /\ queue = <<>>

ProtocolInv == TypeOK /\ (~astray => Orderly /\ TagsAreCounted)

(* Every command ends, unless the report of a tag is garbled: the client   *)
(* is told, or, of a search for a single tag whose answer is unknown, the  *)
(* controller becomes ready untold.                                        *)
CommandsEnd ==
  \A command \in Commands :
    pending = command ~>
      \/ pending = "NONE"
      \/ command = "FINDTAGSSINGLE" /\ receiveBuffer = "OTHER" /\ rfidState \in {"IDLE", "WAITIDLE"}
      \/ astray
=============================================================================
