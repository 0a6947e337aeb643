-------------------------------- MODULE LightShow --------------------------------
(***************************************************************************)
(* The light show (src/robot/sw/code/sos-1.x/modules/mc/lightshow) over    *)
(* the driver of the lights: at every expiry of its timer it posts the     *)
(* messages that take the lights one step on, and a load.  Applications    *)
(* start and stop it, and use the driver at the same time.                 *)
(***************************************************************************)
EXTENDS CB2Bus, FiniteSets

CONSTANTS
  Asks,        \* what applications send: messages of the show and of the driver
  MaxAsks,     \* bound: messages of applications
  MaxTimeouts  \* bound: expiries of the timer that are waiting for dispatch

ASSUME ShowAssumption ==
  /\ MaxAsks \in Nat /\ MaxTimeouts \in Nat \ {0}
  /\ \A m \in Asks : m.type # "MSG_TIMER_TIMEOUT"   \* only the timer of the show posts it

VARIABLES
  enabled,      \* decklights_state, headlights_state, bargraph_state: those enabled
  light_state,  \* the show runs
  count,        \* an unsigned byte
  asked,        \* messages of applications so far
  touched       \* history: lights that an application has set, or left as they were

show == <<enabled, light_state, count>>
lightVars == <<queue, config, outputs, show, asked, touched>>

Show(type, what, cmd) == Message("lightshow", type, [byte |-> what, word |-> cmd])

\* MSG_INIT of both modules is done; an application starts the show.
ShowInit ==
  /\ CB2_init
  /\ enabled = {} /\ light_state = FALSE /\ count = 0
  /\ asked = 0 /\ touched = {}
  /\ queue = <<Show("MSG_LIGHTSHOW", "decklights", "ENABLE"),
               Show("MSG_LIGHTSHOW", "headlights", "ENABLE"),
               Show("MSG_LIGHTSHOW_START", "", "")>>

-----------------------------------------------------------------------------
(* A step of the show.                                                      *)

\* The deck lights in the order of the U.
U == <<2, 3, 4, 5, 6, 1>>

Off(n) == Setting("MSG_DECKLIGHT", n, "OFF")
On(n)  == Setting("MSG_DECKLIGHT", n, "ON")

\* Mutant: on the way back, the light behind is not switched off.
DecklightsWayBack(c) ==
  LET k == IF c % 10 <= 5 THEN c % 10 ELSE 10 - (c % 10)
  IN  CASE k = 0 -> <<On(U[1])>>
        [] k = 5 -> <<Off(U[5]), On(U[6])>>
        [] OTHER -> <<Off(U[k]), On(U[k + 1])>>

\* One light is switched on, and its neighbours in the U off: forth in six steps,
\* back in four.
Decklights(c) ==
  LET k == IF c % 10 <= 5 THEN c % 10 ELSE 10 - (c % 10)
  IN  CASE k = 0 -> <<Off(U[2]), On(U[1])>>
        [] k = 5 -> <<Off(U[5]), On(U[6])>>
        [] OTHER -> <<Off(U[k]), On(U[k + 1]), Off(U[k + 2])>>

Bargraph(c) ==
  <<Setting("MSG_BARPOSITION", IF c % 18 < 10 THEN c % 18 ELSE 18 - (c % 18), 0)>>

Headlights(c) ==
  LET color == CASE c % 8 = 2 -> "GREEN" [] c % 8 = 4 -> "ORANGE" [] c % 8 = 6 -> "RED"
                 [] OTHER -> "BLACK"
  IN  <<Setting("MSG_HEADLIGHT", "FRONT_LEFT", color), Setting("MSG_HEADLIGHT", "FRONT_RIGHT", color),
        Setting("MSG_HEADLIGHT", "BACK_LEFT", color), Setting("MSG_HEADLIGHT", "BACK_RIGHT", color)>>

Load == <<Setting("MSG_LOAD", 0, 0)>>

If(light, msgs) == IF light \in enabled THEN msgs ELSE <<>>

\* Mutant: the load comes before the last headlight.
StepLoadEarly(c) ==
  If("decklights", Decklights(c)) \o If("bargraph", Bargraph(c))
    \o If("headlights", SubSeq(Headlights(c), 1, 3)) \o Load
    \o If("headlights", SubSeq(Headlights(c), 4, 4))

Step(c) ==
  If("decklights", Decklights(c)) \o If("bargraph", Bargraph(c))
    \o If("headlights", Headlights(c)) \o Load

\* MSG_TIMER_TIMEOUT; the count wraps.
TakeStep ==
  /\ Next_is("lightshow", "MSG_TIMER_TIMEOUT")
  /\ Dispatch(Step(count))
  /\ count' = (count + 1) % 256
  /\ UNCHANGED <<config, outputs, enabled, light_state, asked, touched>>

-----------------------------------------------------------------------------
(* Its control.                                                             *)

\* The timer repeats while the show runs.
Expire ==
  /\ light_state
  /\ Cardinality({k \in DOMAIN queue : queue[k].type = "MSG_TIMER_TIMEOUT"}) < MaxTimeouts
  /\ queue' = Append(queue, Show("MSG_TIMER_TIMEOUT", "", ""))
  /\ UNCHANGED <<config, outputs, show, asked, touched>>

\* MSG_LIGHTSHOW_START and MSG_LIGHTSHOW_STOP: an expiry that has been posted comes
\* after the stop.
StartStop ==
  /\ \E type \in {"MSG_LIGHTSHOW_START", "MSG_LIGHTSHOW_STOP"} :
       /\ Next_is("lightshow", type)
       /\ light_state' = (type = "MSG_LIGHTSHOW_START")
  /\ Dispatch(<<>>)
  /\ UNCHANGED <<config, outputs, enabled, count, asked, touched>>

\* MSG_LIGHTSHOW_DECKLIGHTS, _HEADLIGHTS and _BARGRAPH: what is disabled stays lit.
Enable ==
  /\ Next_is("lightshow", "MSG_LIGHTSHOW")
  /\ Dispatch(<<>>)
  /\ LET m == Head(queue).data
     IN  IF m.word = "ENABLE" THEN enabled' = enabled \cup {m.byte} /\ UNCHANGED touched
         ELSE enabled' = enabled \ {m.byte} /\ touched' = touched \cup {m.byte}
  /\ UNCHANGED <<config, outputs, light_state, count, asked>>

\* An application sends a message.
Ask(m) ==
  /\ asked < MaxAsks /\ asked' = asked + 1
  /\ queue' = Append(queue, m)
  /\ touched' = touched \cup (CASE m.type = "MSG_DECKLIGHT" -> {"decklights"}
                                [] m.type = "MSG_HEADLIGHT" -> {"headlights"}
                                [] OTHER                    -> {})
  /\ UNCHANGED <<config, outputs, show>>

ShowNext ==
  \/ TakeStep \/ Expire \/ StartStop \/ Enable
  \/ CB2Handle /\ UNCHANGED <<show, asked, touched>>
  \/ \E m \in Asks : Ask(m)

ShowSpec == ShowInit /\ [][ShowNext]_lightVars

-----------------------------------------------------------------------------
(* Properties.                                                              *)

Lit == {n \in 1 .. 6 : n + 1 \in outputs[2]}

\* Of the deck lights of the U one is on at a time (lightshow.c:29), whatever else
\* applications have loaded, and over stops and starts; but for the steps after the
\* count has wrapped, in the middle of the U, when light 1 is still on.
OneDecklight ==
  "decklights" \notin touched
    => Cardinality(IF count <= 4 + MaxTimeouts THEN Lit \ {1} ELSE Lit) <= 1

\* The headlights have one colour: no load, neither the show's own nor that of another
\* module, finds only some of them changed.
HeadlightsAgree ==
  "headlights" \notin touched
    => \A p, q \in DOMAIN HeadlightPin :
         /\ HeadlightPin[p] \in outputs[0] <=> HeadlightPin[q] \in outputs[0]
         /\ HeadlightPin[p] + 1 \in outputs[0] <=> HeadlightPin[q] + 1 \in outputs[0]
=============================================================================
