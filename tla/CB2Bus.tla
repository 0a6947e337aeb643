--------------------------------- MODULE CB2Bus ---------------------------------
(***************************************************************************)
(* The driver of the lights and enable lines of the robot under SOS        *)
(* (src/robot/sw/code/sos-1.x/modules/mc/cb2bus, with cb2bus_hardware):    *)
(* they hang on four shift registers.  A message changes bits of config;   *)
(* MSG_LOAD, and the reset of the magnetometer, shift config out, with     *)
(* whatever changes of whatever module it holds by then.                   *)
(***************************************************************************)
EXTENDS SosKernel, Integers

VARIABLES
  config,  \* cb2bus_state.config: the bits of each byte that are 1
  outputs  \* the outputs of the shift registers

\* config[4], which HEAD0 to FOOT1 set, lies behind the array of four.
CB2_init ==
  /\ config = [i \in 0 .. 4 |-> IF i = 3 THEN {2} ELSE {}]
  /\ outputs = [i \in 0 .. 3 |-> config[i]]

\* A bit set, cleared or toggled.
Switch(bits, bit, cmd) ==
  IF cmd = "OFF" \/ (cmd = "TOGGLE" /\ bit \in bits) THEN bits \ {bit} ELSE bits \cup {bit}

\* setColor: the two bits of a light of two colours.
SetColor(bits, pin1, pin2, color) ==
  (bits \ {pin1, pin2}) \cup (IF color \in {"GREEN", "ORANGE"} THEN {pin1} ELSE {})
                        \cup (IF color \in {"RED", "ORANGE"} THEN {pin2} ELSE {})

\* The first of the two bits of a headlight.
HeadlightPin == [FRONT_LEFT |-> 2, FRONT_RIGHT |-> 0, BACK_LEFT |-> 6, BACK_RIGHT |-> 4]

\* The bits of the status bar, from the one of element 0: config[1], and bits 0
\* and 1 of config[2], next to those of the deck lights.
Bar(elements) ==
  [config EXCEPT ![1] = elements \cap 0 .. 7,
                 ![2] = (@ \ {0, 1}) \cup {e - 8 : e \in elements \cap {8, 9}}]

\* What a message of some type, with its byte and its word, makes of config.
Configured(type, byte, word) ==
  CASE type = "MSG_DECKLIGHT"       -> [config EXCEPT ![2] = Switch(@, byte + 1, word)]
    [] type = "MSG_CLEARDECKLIGHTS" -> [config EXCEPT ![2] = @ \cap {0, 1}]
    [] type = "MSG_HEADLIGHT"       -> [config EXCEPT ![0] =
                                          SetColor(@, HeadlightPin[byte], HeadlightPin[byte] + 1, word)]
    [] type = "MSG_BARPOSITION"     -> Bar({IF byte < 9 THEN byte ELSE 9})
    [] type = "MSG_BARPERCENT"      -> Bar({e \in 0 .. 9 : e < byte})
    [] type = "MSG_BARBINARY"       -> Bar({e \in 0 .. 9 : (word \div 2^e) % 2 = 1})
    [] type = "MSG_SERVO_EN"        -> [config EXCEPT ![3] = Switch(@, 7, word)]
    [] type = "MSG_MAG_EN"          -> [config EXCEPT ![3] = Switch(@, 3, word)]
    [] type = "MSG_ACC_EN"          -> [config EXCEPT ![3] = Switch(@, 1, word)]
    [] type = "MSG_CB2_IRIS"        -> [config EXCEPT ![3] = Switch(@, 6, word)]
    [] type = "MSG_CB2_BCU"         -> [config EXCEPT ![3] = Switch(@, 5, word)]
    [] type = "MSG_CB2_HEAD0"       -> [config EXCEPT ![4] = Switch(@, 7, word)]
    [] type = "MSG_MAG_RESET"       -> [config EXCEPT ![3] = @ \cup {2}]
    [] OTHER                        -> config

Setting(type, byte, word) == Message("cb2bus", type, [byte |-> byte, word |-> word])

\* One message of the driver.
CB2Handle ==
  /\ queue # <<>> /\ Head(queue).to = "cb2bus"
  /\ Dispatch(<<>>)
  /\ config' = Configured(Head(queue).type, Head(queue).data.byte, Head(queue).data.word)
  /\ outputs' = IF Head(queue).type \in {"MSG_LOAD", "MSG_MAG_RESET"}
                THEN [i \in 0 .. 3 |-> config'[i]] ELSE outputs
=============================================================================
