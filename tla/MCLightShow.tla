------------------------------ MODULE MCLightShow ------------------------------
(* The light show and applications that use the lights at the same time.   *)
EXTENDS LightShow

MCAsks ==
  {Show("MSG_LIGHTSHOW_STOP", "", ""), Show("MSG_LIGHTSHOW_START", "", ""),
   Show("MSG_LIGHTSHOW", "decklights", "DISABLE"), Show("MSG_LIGHTSHOW", "bargraph", "ENABLE"),
   Setting("MSG_DECKLIGHT", 3, "TOGGLE"), Setting("MSG_CLEARDECKLIGHTS", 0, 0),
   Setting("MSG_BARBINARY", 0, 682), Setting("MSG_MAG_RESET", 0, 0)}
=============================================================================
