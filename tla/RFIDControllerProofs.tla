------------------------ MODULE RFIDControllerProofs ------------------------
(* The protocol of RFIDController for every set of numbers of tags that are  *)
(* asked for, any number of tags in the field and every kind of timer.      *)
EXTENDS RFIDController, TLAPS

Waiting == {"WAITFINDTAGS", "WAITFINDTAGSSINGLE", "WAITREADTAGS", "WAITWRITETAGS"}

(* The tables of the controller, written out.                              *)
LEMMA WaitTable ==
  /\ Wait["FINDTAGS"] = "WAITFINDTAGS"
  /\ Wait["FINDTAGSSINGLE"] = "WAITFINDTAGSSINGLE"
  /\ Wait["READTAGS"] = "WAITREADTAGS"
  /\ Wait["WRITETAGS"] = "WAITWRITETAGS"
  /\ {Wait[c] : c \in Commands} = Waiting
BY DEF Wait, Commands, Waiting

LEMMA WaitIsInjective ==
  \A c, d \in Commands : Wait[c] = Wait[d] => c = d
BY WaitTable DEF Commands

LEMMA EventTable ==
  /\ EventOf["FINDTAGS"] = "findTagsDone"
  /\ EventOf["FINDTAGSSINGLE"] = "findTagsDone"
  /\ EventOf["READTAGS"] = "readTagDone"
  /\ EventOf["WRITETAGS"] = "writeTagDone"
BY DEF EventOf

LEMMA CodeTable ==
  /\ Events["SEL_TAG_PASS"] = "findTagsDone"
  /\ Events["SEL_TAG_FAIL"] = "findTagsDone"
  /\ Events["READ_TAG_PASS"] = "readTagDone"
  /\ Events["READ_TAG_FAIL"] = "readTagDone"
  /\ Events["WRITE_TAG_PASS"] = "writeTagDone"
  /\ Events["WRITE_TAG_FAIL"] = "writeTagDone"
  /\ Codes = {"SEL_TAG_PASS", "SEL_TAG_FAIL", "READ_TAG_PASS", "READ_TAG_FAIL",
              "WRITE_TAG_PASS", "WRITE_TAG_FAIL", "OTHER"}
BY DEF Events, Codes

(* An answer is one of the codes, and its event is that of the command.    *)
LEMMA AnswersFit ==
  ASSUME NEW c \in Commands, NEW code \in Answers(c)
  PROVE  /\ code \in Codes /\ code # "OTHER"
         /\ Events[code] = EventOf[c]
         /\ code = "SEL_TAG_PASS" => c \in {"FINDTAGS", "FINDTAGSSINGLE"}
         /\ c = "FINDTAGS" => (code = "SEL_TAG_PASS" <=> inField > 0)
<1>1. CASE c = "FINDTAGS"
  BY <1>1, EventTable, CodeTable DEF Answers
<1>2. CASE c = "FINDTAGSSINGLE"
  BY <1>2, EventTable, CodeTable DEF Answers
<1>3. CASE c = "READTAGS"
  BY <1>3, EventTable, CodeTable DEF Answers
<1>4. CASE c = "WRITETAGS"
  BY <1>4, EventTable, CodeTable DEF Answers
<1>5. QED
  BY <1>1, <1>2, <1>3, <1>4 DEF Commands

LEMMA OneTask ==
  ASSUME NEW t \in {"rfid", "parseResponse"}
  PROVE  /\ Append(<<>>, t) = <<t>> /\ <<t>> # <<>>
         /\ Head(<<t>>) = t /\ Tail(<<t>>) = <<>>
         /\ <<t>> \in Seq({"rfid", "parseResponse"})
         /\ <<>> \in Seq({"rfid", "parseResponse"})
OBVIOUS

(* The timer goes from state to state.                                     *)
LEMMA TimerTyped ==
  ASSUME NEW tm \in [{"rfid"} -> TimerStates]
  PROVE  /\ TimerStart(tm, "rfid") \in [{"rfid"} -> TimerStates]
         /\ TimerStart(tm, "rfid")["rfid"] = "armed"
         /\ AfterExpiry(tm, "rfid", FALSE) \in [{"rfid"} -> TimerStates]
         /\ tm["rfid"] = "due" => AfterExpiry(tm, "rfid", FALSE)["rfid"] = "off"
         /\ [tm EXCEPT !["rfid"] = "due"] \in [{"rfid"} -> TimerStates]
         /\ [tm EXCEPT !["rfid"] = "due"]["rfid"] = "due"
BY DEF TimerStart, AfterExpiry, TimerStates

(* Every command of a client is one that is accepted.                      *)
LEMMA ClientAccepts ==
  ASSUME \/ \E numTags \in NumTags : FindTags(numTags)
         \/ ReadTag \/ WriteTag
  PROVE  \E c \in Commands : Accept(c)
BY DEF FindTags, ReadTag, WriteTag, Commands

-----------------------------------------------------------------------------
(* The types.                                                              *)

LEMMA BeginTyped ==
  ASSUME NEW c \in Commands \cup {"NONE"}, Begin(c)
  PROVE  /\ reader' \in Commands \cup {"NONE"} /\ next' \in Commands \cup {"NONE"}
         /\ inField' \in 0 .. TagsInField
BY RFIDAssumption DEF Begin, Commands

LEMMA TypeInit == Init => TypeOK
<1> SUFFICES ASSUME Init PROVE TypeOK
  OBVIOUS
<1>1. timer \in [{"rfid"} -> TimerStates]
  BY DEF Init, TimerStates
<1>2. queue \in Seq({"rfid", "parseResponse"}) /\ receiveBuffer \in Codes
  BY CodeTable, OneTask DEF Init
<1>3. inField \in 0 .. TagsInField /\ idIndex \in Nat
  BY RFIDAssumption DEF Init
<1>4. QED
  BY <1>1, <1>2, <1>3 DEF Init, TypeOK

LEMMA TypeAccept ==
  ASSUME TypeOK, NEW c \in Commands, Accept(c)
  PROVE  TypeOK'
<1>1. rfidState' \in Commands \cup {Wait[d] : d \in Commands}
  BY DEF Accept
<1>2. packet' = c /\ line' \in {"free", "frame", "mixed"}
  BY DEF Accept, Send, Overwrite
<1>3. QED
  BY <1>1, <1>2 DEF Accept, TypeOK, airVars

LEMMA TypeFrame ==
  ASSUME TypeOK, FrameSent
  PROVE  TypeOK'
<1>1. packet \in Commands
  BY DEF FrameSent, TypeOK
<1>2. /\ reader' \in Commands \cup {"NONE"} /\ next' \in Commands \cup {"NONE"}
      /\ inField' \in 0 .. TagsInField
  BY <1>1, BeginTyped DEF FrameSent, TypeOK, airVars
<1>3. QED
  BY <1>1, <1>2 DEF FrameSent, TypeOK

LEMMA TypeAnswer ==
  ASSUME TypeOK, Answer
  PROVE  TypeOK'
<1>1. /\ reader' \in Commands \cup {"NONE"} /\ next' \in Commands \cup {"NONE"}
      /\ inField' \in 0 .. TagsInField
  <2>1. CASE ReportsOn
    BY <2>1, RFIDAssumption DEF Answer, ReportsOn, TypeOK
  <2>2. CASE ~ReportsOn
    BY <2>2, BeginTyped DEF Answer, TypeOK
  <2>3. QED
    BY <2>1, <2>2
<1>2. receiveBuffer' \in Codes
  BY AnswersFit, CodeTable DEF Answer, TypeOK
<1>3. queue' \in Seq({"rfid", "parseResponse"})
  BY DEF Answer, TypeOK
<1>4. astray' \in BOOLEAN
  BY DEF Answer
<1>5. QED
  BY <1>1, <1>2, <1>3, <1>4 DEF Answer, TypeOK

LEMMA TypeParse ==
  ASSUME TypeOK, ParseResponse
  PROVE  TypeOK'
<1>1. queue' \in Seq({"rfid", "parseResponse"}) /\ idIndex' \in Nat
  BY DEF ParseResponse, Dispatch, TypeOK
<1>2. rfidState' \in {rfidState, "WAITIDLE"} /\ timer' \in [{"rfid"} -> TimerStates]
  BY TimerTyped DEF ParseResponse, TypeOK
<1>3. astray' \in BOOLEAN
  BY DEF ParseResponse
<1>4. QED
  BY <1>1, <1>2, <1>3 DEF ParseResponse, TypeOK, airVars

LEMMA TypeTimer ==
  ASSUME TypeOK, TimerFired
  PROVE  TypeOK'
<1>1. queue' \in Seq({"rfid", "parseResponse"}) /\ timer' \in [{"rfid"} -> TimerStates]
  <2>1. queue' \in Seq({"rfid", "parseResponse"})
    BY DEF TimerFired, Dispatch, TypeOK
  <2>2. timer \in [{"rfid"} -> TimerStates] /\ timer' = AfterExpiry(timer, "rfid", FALSE)
    BY DEF TimerFired, TypeOK
  <2>3. QED
    BY <2>1, <2>2, TimerTyped
<1>2. CASE \E c \in Commands : rfidState = Wait[c]
  <2>1. PICK c \in Commands : rfidState = Wait[c]
    BY <1>2
  <2>2. (CHOOSE command \in Commands : rfidState = Wait[command]) \in Commands
    BY <2>1
  <2>3. rfidState # "WAITIDLE"
    BY <2>1, WaitTable DEF Commands
  <2>4. rfidState' \in {rfidState} \cup Commands
    BY <2>2, <2>3 DEF TimerFired
  <2>5. line' \in {"free", "frame", "mixed"}
    BY DEF TimerFired, Send, TypeOK
  <2>6. packet' = packet /\ packet \in Commands
    BY <2>1, WaitTable DEF TimerFired, TypeOK, Commands
  <2>7. QED
    BY <1>1, <2>4, <2>5, <2>6 DEF TimerFired, TypeOK, airVars
<1>3. CASE ~\E c \in Commands : rfidState = Wait[c]
  <2>1. rfidState' \in {rfidState, "IDLE"} /\ line' = line
    BY <1>3 DEF TimerFired
  <2>2. QED
    BY <1>1, <2>1 DEF TimerFired, TypeOK, airVars
<1>4. QED
  BY <1>2, <1>3

LEMMA TypeExpire ==
  ASSUME TypeOK, Expire
  PROVE  TypeOK'
<1>1. queue' \in Seq({"rfid", "parseResponse"}) /\ timer' \in [{"rfid"} -> TimerStates]
  <2>1. queue' \in Seq({"rfid", "parseResponse"})
    BY DEF Expire, TypeOK
  <2>2. timer \in [{"rfid"} -> TimerStates] /\ timer' = [timer EXCEPT !["rfid"] = "due"]
    BY DEF Expire, TypeOK
  <2>3. QED
    BY <2>1, <2>2, TimerTyped
<1>2. QED
  BY <1>1 DEF Expire, TypeOK, airVars

LEMMA TypeStep == TypeOK /\ [Next]_vars => TypeOK'
<1> SUFFICES ASSUME TypeOK, [Next]_vars PROVE TypeOK'
  OBVIOUS
<1>1. ASSUME UNCHANGED vars PROVE TypeOK'
  BY <1>1 DEF vars, airVars, TypeOK
<1>2. QED
  BY <1>1, ClientAccepts, TypeAccept, TypeFrame, TypeAnswer, TypeParse, TypeTimer, TypeExpire
  DEF Next, RunTask

-----------------------------------------------------------------------------
(* The protocol, until a report goes astray.                               *)

LEMMA OrderlyInit == Init => Orderly /\ TagsAreCounted
BY DEF Init, Orderly, ReaderRests, TagsAreCounted, Commands

(* A command that is accepted is sent at once or waits for the timer.      *)
LEMMA OrderlyAccept ==
  ASSUME TypeOK, Orderly, NEW c \in Commands, Accept(c)
  PROVE  Orderly'
<1>1. next' = "NONE" /\ pending' # "MISMATCH"
  BY DEF Accept, Orderly, Commands, airVars
<1>2. CASE rfidState = "IDLE"
  <2>1. ReaderRests /\ rfidState' = c /\ line' = "frame"
    BY <1>2, WaitTable DEF Orderly, Accept, Send, ReaderRests
  <2>2. CommandSent'
    BY <2>1 DEF Accept, ReaderRests, CommandSent, airVars
  <2>3. QED
    BY <1>1, <2>1, <2>2 DEF Orderly, Commands
<1>3. CASE rfidState = "WAITIDLE"
  <2>1. ReaderPauses
    BY <1>3 DEF Orderly, Commands
  <2>2. rfidState' = Wait[c] /\ rfidState' \in Waiting /\ line' = "free"
    BY <1>3, <2>1, WaitTable DEF Accept, Overwrite, ReaderPauses, Commands, Waiting
  <2>3. ReaderPauses'
    BY <2>1, <2>2, WaitIsInjective DEF Accept, ReaderPauses, airVars
  <2>4. QED
    BY <1>1, <2>2, <2>3 DEF Orderly, Waiting, Commands
<1>4. QED
  BY <1>2, <1>3 DEF Accept

(* The reader gets a command when it is free.                              *)
LEMMA OrderlyFrame ==
  ASSUME TypeOK, Orderly, FrameSent
  PROVE  Orderly'
<1>1. rfidState \in Commands /\ CommandSent /\ line = "frame"
  BY DEF FrameSent, Orderly, ReaderPauses, ReaderRests, CommandSent
<1>2. queue = <<>> /\ reader = "NONE" /\ packet = rfidState
  BY <1>1 DEF CommandSent
<1>3. Begin(packet)
  BY <1>1, <1>2 DEF FrameSent
<1>4. reader' = rfidState /\ next' = "NONE" /\ line' = "free"
  BY <1>2, <1>3 DEF Begin, FrameSent
<1>5. CommandSent'
  BY <1>1, <1>2, <1>4 DEF FrameSent, CommandSent
<1>6. QED
  BY <1>1, <1>4, <1>5 DEF Orderly, FrameSent, Commands

(* An answer belongs to the command that the reader works on.              *)
LEMMA OrderlyAnswer ==
  ASSUME TypeOK, Orderly, Answer, ~astray'
  PROVE  Orderly'
<1>1. rfidState \in Commands /\ CommandSent /\ reader = rfidState /\ line = "free"
  <2>1. rfidState \in Commands /\ CommandSent
    BY DEF Orderly, ReaderPauses, ReaderRests, Answer
  <2>2. queue # <<"parseResponse">>
    BY DEF Answer, Queued
  <2>3. QED
    BY <2>1, <2>2 DEF CommandSent, Answer
<1>2. queue = <<>> /\ queue' = <<"parseResponse">>
  <2>1. queue # <<"parseResponse">>
    BY DEF Answer, Queued
  <2>2. QED
    BY <1>1, <2>1, OneTask DEF CommandSent, Answer
<1>3. receiveBuffer' # "OTHER" => Events[receiveBuffer'] = EventOf[rfidState]
  BY <1>1, AnswersFit DEF Answer
<1>4. CASE ReportsOn
  <2>1. receiveBuffer' = "SEL_TAG_PASS"
    BY <1>4 DEF Answer, ReportsOn, Answers
  <2>2. reader' = "FINDTAGS" /\ next' = "NONE" /\ rfidState = "FINDTAGS"
    BY <1>1, <1>4 DEF Answer, ReportsOn, Orderly
  <2>3. CommandSent'
    BY <1>1, <1>2, <1>3, <2>1, <2>2 DEF CommandSent, Answer
  <2>4. QED
    BY <1>1, <2>2, <2>3 DEF Orderly, Answer, Commands
<1>5. CASE ~ReportsOn
  <2>1. reader' = "NONE" /\ next' = "NONE"
    BY <1>5 DEF Answer, Begin, Orderly
  <2>2. ~(rfidState = "FINDTAGS" /\ receiveBuffer' = "SEL_TAG_PASS")
    BY <1>1, <1>5, AnswersFit DEF Answer, ReportsOn, TypeOK
  <2>3. CommandSent'
    BY <1>1, <1>2, <1>3, <2>1, <2>2 DEF CommandSent, Answer
  <2>4. QED
    BY <1>1, <2>1, <2>3 DEF Orderly, Answer, Commands
<1>6. QED
  BY <1>4, <1>5

LEMMA Parsing ==
  ASSUME TypeOK, Orderly, ParseResponse
  PROVE  /\ rfidState \in Commands /\ CommandSent /\ line = "free"
         /\ queue = <<"parseResponse">> /\ queue' = <<>>
<1>1. queue # <<"rfid">> /\ queue # <<>>
  BY OneTask DEF ParseResponse, Dispatch
<1>2. rfidState \in Commands /\ CommandSent /\ queue = <<"parseResponse">> /\ line = "free"
  BY <1>1 DEF Orderly, ReaderPauses, ReaderRests, CommandSent
<1>3. QED
  BY <1>2, OneTask DEF ParseResponse

(* The answer is parsed: it goes to the command that the client waits for. *)
LEMMA OrderlyParse ==
  ASSUME TypeOK, Orderly, ParseResponse
  PROVE  Orderly'
<1>1. /\ rfidState \in Commands /\ CommandSent /\ line = "free"
      /\ queue = <<"parseResponse">> /\ queue' = <<>>
  BY Parsing
<1>2. CASE receiveBuffer = "SEL_TAG_PASS" /\ rfidState # "FINDTAGSSINGLE"
  <2>1. UNCHANGED <<rfidState, timer, pending, packet, line, receiveBuffer, airVars>>
    BY <1>2 DEF ParseResponse
  <2>2. rfidState = "FINDTAGS"
    BY <1>1, <1>2, CodeTable, EventTable, OneTask DEF CommandSent, Commands
  <2>3. CommandSent'
    BY <1>1, <1>2, <2>1, <2>2, OneTask DEF CommandSent, airVars
  <2>4. QED
    BY <2>1, <2>2, <2>3 DEF Orderly, Commands, airVars
<1>3. CASE ~(receiveBuffer = "SEL_TAG_PASS" /\ rfidState # "FINDTAGSSINGLE")
  <2>1. /\ rfidState' = "WAITIDLE"
        /\ timer' = TimerStart(timer, "rfid")
        /\ UNCHANGED <<packet, line, receiveBuffer, airVars>>
    BY <1>3 DEF ParseResponse
  <2>2. reader = "NONE"
    BY <1>1, <1>3, OneTask DEF CommandSent
  <2>3. pending' \in {pending, "NONE"}
    <3> DEFINE event == IF receiveBuffer = "OTHER" THEN EventOfOther(rfidState)
                        ELSE Events[receiveBuffer]
    <3>1. event = "none" \/ event = EventOf[pending]
      BY <1>1, OneTask DEF CommandSent, EventOfOther
    <3>2. \/ UNCHANGED pending
          \/ event # "none" /\ Signal(event)
      BY <1>3 DEF ParseResponse
    <3>3. pending \in Commands
      BY <1>1 DEF CommandSent
    <3>4. QED
      BY <3>1, <3>2, <3>3 DEF Signal
  <2>4. timer'["rfid"] = "armed"
    BY <2>1, TimerTyped DEF TypeOK
  <2>5. ReaderPauses'
    BY <1>1, <2>1, <2>2, <2>4, WaitTable DEF ReaderPauses, Waiting, Commands, airVars
  <2>6. QED
    BY <2>1, <2>3, <2>5 DEF Orderly, Commands, airVars
<1>4. QED
  BY <1>2, <1>3

LEMMA Firing ==
  ASSUME TypeOK, Orderly, TimerFired
  PROVE  /\ rfidState \notin Commands \cup {"IDLE"} /\ ReaderPauses
         /\ timer["rfid"] = "due" /\ queue = <<"rfid">> /\ queue' = <<>>
         /\ timer'["rfid"] = "off"
<1>1. queue # <<"parseResponse">> /\ queue # <<>>
  BY OneTask DEF TimerFired, Dispatch
<1>2. /\ rfidState \notin Commands \cup {"IDLE"} /\ ReaderPauses
      /\ timer["rfid"] = "due" /\ queue = <<"rfid">>
  BY <1>1 DEF Orderly, ReaderPauses, ReaderRests, CommandSent
<1>3. timer'["rfid"] = "off"
  BY <1>2, TimerTyped DEF TimerFired, TypeOK
<1>4. QED
  BY <1>2, <1>3, OneTask DEF TimerFired

(* The pause of the reader ends, and a command that waited is sent.        *)
LEMMA OrderlyTimer ==
  ASSUME TypeOK, Orderly, TimerFired
  PROVE  Orderly'
<1>1. /\ rfidState \notin Commands \cup {"IDLE"} /\ ReaderPauses
      /\ timer["rfid"] = "due" /\ queue = <<"rfid">> /\ queue' = <<>>
      /\ timer'["rfid"] = "off"
  BY Firing
<1>2. UNCHANGED <<packet, receiveBuffer, pending, airVars>> /\ Delivered(timer, "rfid")
  BY <1>1 DEF TimerFired, Delivered
<1>3. CASE rfidState = "WAITIDLE"
  <2>1. rfidState' = "IDLE" /\ line' = line
    BY <1>2, <1>3, WaitTable DEF TimerFired, Commands
  <2>2. ReaderRests'
    BY <1>1, <1>2, <2>1 DEF ReaderPauses, ReaderRests, airVars
  <2>3. QED
    BY <1>2, <2>1, <2>2 DEF Orderly, Commands, airVars
<1>4. ASSUME NEW c \in Commands, rfidState = Wait[c]
      PROVE  Orderly'
  <2>1. packet = c /\ pending = c
    BY <1>1, <1>4 DEF ReaderPauses
  <2>2. Wait[c] # "WAITIDLE"
    BY WaitTable DEF Commands
  <2>3. (CHOOSE command \in Commands : rfidState = Wait[command]) = c
    BY <1>4, WaitIsInjective
  <2>4. rfidState' = c /\ line' = "frame"
    BY <1>1, <1>2, <1>4, <2>2, <2>3 DEF TimerFired, Send, ReaderPauses
  <2>5. CommandSent'
    BY <1>1, <1>2, <2>1, <2>4 DEF ReaderPauses, CommandSent, airVars
  <2>6. QED
    BY <1>2, <2>4, <2>5 DEF Orderly, Commands, airVars
<1>5. QED
  BY <1>1, <1>3, <1>4 DEF TypeOK

LEMMA OrderlyExpire ==
  ASSUME TypeOK, Orderly, Expire
  PROVE  Orderly' /\ rfidState \notin Commands
<1>1. rfidState \notin Commands \cup {"IDLE"} /\ ReaderPauses /\ queue = <<>>
  BY DEF Expire, Orderly, ReaderPauses, ReaderRests, CommandSent
<1>2. queue' = <<"rfid">> /\ timer'["rfid"] = "due"
  BY <1>1, OneTask, TimerTyped DEF Expire, TypeOK
<1>3. UNCHANGED <<rfidState, packet, line, airVars, pending>>
  BY DEF Expire
<1>4. ReaderPauses'
  BY <1>1, <1>2, <1>3 DEF ReaderPauses, airVars
<1>5. QED
  BY <1>1, <1>3, <1>4 DEF Orderly, airVars

-----------------------------------------------------------------------------
(* The table of tags.                                                      *)

(* A command begins to count from nothing.                                 *)
LEMMA CountAccept ==
  ASSUME TypeOK, Orderly, NEW c \in Commands, Accept(c)
  PROVE  TagsAreCounted'
<1>1. idIndex' = 0 /\ queue' = queue
  BY DEF Accept
<1>2. ASSUME rfidState' = "FINDTAGS"
      PROVE  queue' = <<>> /\ line' = "frame"
  BY <1>2, WaitTable DEF Accept, Send, Orderly, ReaderRests, Commands
<1>3. QED
  BY <1>1, <1>2 DEF TagsAreCounted

(* An inventory begins with the tags that are there.                       *)
LEMMA CountFrame ==
  ASSUME TypeOK, Orderly, TagsAreCounted, FrameSent
  PROVE  TagsAreCounted'
<1>1. UNCHANGED <<rfidState, idIndex, queue>> /\ line # "free" /\ line' = "free"
  BY DEF FrameSent
<1>2. ASSUME rfidState = "FINDTAGS"
      PROVE  idIndex' = 0 /\ queue' = <<>>
  BY <1>1, <1>2 DEF TagsAreCounted
<1>3. inField' \in 0 .. TagsInField
  BY TypeFrame DEF TypeOK
<1>4. QED
  BY <1>1, <1>2, <1>3, RFIDAssumption DEF TagsAreCounted

(* An answer takes a tag from the field to the receive buffer.             *)
LEMMA CountAnswer ==
  ASSUME TypeOK, Orderly, TagsAreCounted, Answer, ~astray'
  PROVE  TagsAreCounted'
<1>1. UNCHANGED <<rfidState, idIndex, line>>
  BY DEF Answer
<1>2. rfidState \in Commands /\ reader = rfidState /\ queue = <<>> /\ line = "free"
  <2>1. queue # <<"parseResponse">>
    BY DEF Answer, Queued
  <2>2. QED
    BY <2>1 DEF Orderly, ReaderPauses, ReaderRests, Answer, CommandSent
<1>3. inField \in 0 .. TagsInField
  BY DEF TypeOK
<1>4. ASSUME rfidState = "FINDTAGS"
      PROVE  \/ receiveBuffer' = "SEL_TAG_PASS" /\ inField > 0 /\ inField' = inField - 1
             \/ receiveBuffer' # "SEL_TAG_PASS" /\ inField' = 0
  <2>1. CASE ReportsOn
    BY <2>1 DEF Answer, ReportsOn, Answers
  <2>2. CASE ~ReportsOn
    <3>1. receiveBuffer' # "SEL_TAG_PASS"
      BY <1>2, <1>4, <2>2 DEF Answer, ReportsOn, Answers
    <3>2. inField' = 0
      BY <2>2 DEF Answer, Begin, Orderly
    <3>3. QED
      BY <3>1, <3>2
  <2>3. QED
    BY <2>1, <2>2
<1>5. QED
  BY <1>1, <1>2, <1>3, <1>4, RFIDAssumption DEF TagsAreCounted, TypeOK

(* A tag that is parsed goes from the receive buffer to the table.         *)
LEMMA CountParse ==
  ASSUME TypeOK, Orderly, TagsAreCounted, ParseResponse
  PROVE  TagsAreCounted'
<1>1. /\ rfidState \in Commands /\ CommandSent /\ line = "free"
      /\ queue = <<"parseResponse">> /\ queue' = <<>>
  BY Parsing
<1>2. inField' = inField /\ inField \in 0 .. TagsInField /\ line' = "free"
  BY <1>1 DEF ParseResponse, TypeOK, airVars
<1>3. CASE receiveBuffer = "SEL_TAG_PASS" /\ rfidState # "FINDTAGSSINGLE"
  <2>1. idIndex' = idIndex + 1 /\ rfidState' = rfidState
    BY <1>3 DEF ParseResponse
  <2>2. rfidState = "FINDTAGS"
    BY <1>1, <1>3, CodeTable, EventTable, OneTask DEF CommandSent, Commands
  <2>3. idIndex + 1 + inField <= TagsInField
    BY <1>1, <1>3, <2>2, OneTask DEF TagsAreCounted
  <2>4. QED
    BY <1>1, <1>2, <2>1, <2>2, <2>3, RFIDAssumption DEF TagsAreCounted, TypeOK
<1>4. CASE ~(receiveBuffer = "SEL_TAG_PASS" /\ rfidState # "FINDTAGSSINGLE")
  <2>1. rfidState' = "WAITIDLE"
    BY <1>4 DEF ParseResponse
  <2>2. QED
    BY <2>1 DEF TagsAreCounted
<1>5. QED
  BY <1>3, <1>4

(* The timer sends a command that has not counted yet.                     *)
LEMMA CountTimer ==
  ASSUME TypeOK, Orderly, TagsAreCounted, TimerFired
  PROVE  TagsAreCounted'
<1>1. rfidState \notin Commands \cup {"IDLE"} /\ line = "free" /\ queue' = <<>>
  BY Firing DEF ReaderPauses
<1>2. idIndex' = idIndex
  BY DEF TimerFired
<1>3. CASE rfidState = "WAITIDLE"
  <2>1. rfidState' \in {"IDLE", "WAITIDLE"}
    BY <1>3, WaitTable DEF TimerFired, Commands
  <2>2. QED
    BY <1>2, <2>1 DEF TagsAreCounted
<1>4. CASE rfidState # "WAITIDLE"
  <2>1. idIndex = 0
    BY <1>1, <1>4 DEF TagsAreCounted, Commands
  <2>2. ASSUME rfidState' = "FINDTAGS"
        PROVE  line' = "frame"
    BY <1>1, <1>4, <2>2 DEF TimerFired, Send, Commands
  <2>3. QED
    BY <1>1, <1>2, <2>1, <2>2 DEF TagsAreCounted
<1>5. QED
  BY <1>3, <1>4

LEMMA CountExpire ==
  ASSUME TypeOK, Orderly, TagsAreCounted, Expire
  PROVE  TagsAreCounted'
<1>1. rfidState \notin Commands /\ UNCHANGED <<rfidState, idIndex>>
  BY OrderlyExpire DEF Expire
<1>2. QED
  BY <1>1 DEF TagsAreCounted, Commands

-----------------------------------------------------------------------------
(* The theorems.                                                           *)

LEMMA OrderlyStep ==
  ASSUME TypeOK, Orderly, TagsAreCounted, [Next]_vars, ~astray'
  PROVE  Orderly' /\ TagsAreCounted'
<1>1. ASSUME UNCHANGED vars PROVE Orderly' /\ TagsAreCounted'
  BY <1>1 DEF vars, airVars, Orderly, CommandSent, ReaderPauses, ReaderRests, TagsAreCounted
<1>2. ASSUME NEW c \in Commands, Accept(c) PROVE Orderly' /\ TagsAreCounted'
  BY <1>2, OrderlyAccept, CountAccept
<1>3. QED
  BY <1>1, <1>2, ClientAccepts, OrderlyFrame, OrderlyAnswer, OrderlyParse, OrderlyTimer,
     OrderlyExpire, CountFrame, CountAnswer, CountParse, CountTimer, CountExpire
  DEF Next, RunTask

(* What has gone astray does not come back.                                *)
LEMMA AstrayStays ==
  ASSUME TypeOK, [Next]_vars, astray
  PROVE  astray'
<1>1. ASSUME NEW c \in Commands, Accept(c) PROVE astray'
  BY <1>1 DEF Accept
<1>2. ASSUME UNCHANGED vars PROVE astray'
  BY <1>2 DEF vars
<1>3. ASSUME FrameSent \/ Answer \/ RunTask \/ Expire PROVE astray'
  BY <1>3 DEF FrameSent, Answer, RunTask, ParseResponse, TimerFired, Expire
<1>4. QED
  BY <1>1, <1>2, <1>3, ClientAccepts DEF Next

LEMMA ProtocolCorrect == Spec => []ProtocolInv
<1>1. Init => ProtocolInv
  BY TypeInit, OrderlyInit DEF ProtocolInv
<1>2. ProtocolInv /\ [Next]_vars => ProtocolInv'
  BY TypeStep, OrderlyStep, AstrayStays DEF ProtocolInv
<1>3. QED
  BY <1>1, <1>2, PTL DEF Spec

(* The types of state, buffers, line, timer, queue and reader.             *)
THEOREM TypeCorrect == Spec => []TypeOK
<1>1. ProtocolInv => TypeOK
  BY DEF ProtocolInv
<1>2. QED
  BY <1>1, ProtocolCorrect, PTL

(* The event that a client gets is the one of the command that it called:  *)
(* findTagsDone after findTags, and so on, also for garbled answers, until *)
(* the one that is garbled is the report of a tag.                         *)
THEOREM AnswersMatched == Spec => []AnswersMatch
<1>1. ProtocolInv => AnswersMatch
  BY DEF ProtocolInv, Orderly, AnswersMatch
<1>2. QED
  BY <1>1, ProtocolCorrect, PTL

(* Until the report of a tag is garbled, the reader gets a command only    *)
(* when it has had its 12 ms after the last answer, one at a time and      *)
(* whole, and works on the one that the state of the controller says.      *)
THEOREM ReaderExpected == Spec => []ReaderIsExpected
<1>1. ASSUME ProtocolInv, ~astray
      PROVE  /\ line # "mixed" /\ next = "NONE"
             /\ reader # "NONE" => reader = rfidState /\ timer["rfid"] = "off" /\ line = "free"
             /\ rfidState \in Commands =>
                  packet = rfidState /\ (line # "free" \/ reader # "NONE" \/ queue # <<>>)
  <2>1. CASE rfidState \in Commands
    BY <1>1, <2>1, OneTask DEF ProtocolInv, Orderly, CommandSent, Commands
  <2>2. CASE rfidState \notin Commands
    BY <1>1, <2>2 DEF ProtocolInv, Orderly, ReaderPauses, ReaderRests
  <2>3. QED
    BY <2>1, <2>2
<1>2. ProtocolInv => ReaderIsExpected
  BY <1>1 DEF ReaderIsExpected
<1>3. QED
  BY <1>2, ProtocolCorrect, PTL

(* Until the report of a tag is garbled, or written behind IDtable, a      *)
(* search counts every tag once and none of the search before it, for any  *)
(* number of tags in the field.                                            *)
THEOREM TagsCounted == Spec => []TagsCountedOnce
<1>1. ASSUME ProtocolInv, ~astray, rfidState = "FINDTAGS"
      PROVE  idIndex + inField <= TagsInField
  <2>1. TagsAreCounted /\ inField \in 0 .. TagsInField /\ idIndex \in Nat
    BY <1>1 DEF ProtocolInv, TypeOK
  <2>2. QED
    BY <1>1, <2>1, RFIDAssumption DEF TagsAreCounted
<1>2. ProtocolInv => TagsCountedOnce
  BY <1>1 DEF TagsCountedOnce
<1>3. QED
  BY <1>2, ProtocolCorrect, PTL
=============================================================================
