---------------------------- MODULE Orientation ----------------------------
(***************************************************************************)
(* The arithmetic of OrientM: from the heading that the localization       *)
(* reports and the heading that is wanted, the angle to turn by, until the *)
(* robot is within five degrees.  A turn is not exact.                     *)
(***************************************************************************)
EXTENDS Integers

CONSTANTS
  Headings, \* headings and goals, in degrees
  Errors    \* by how much a turn may miss, in degrees

(* Headings come from the compass and goals from NavigationM; both may be  *)
(* 360.                                                                    *)
ASSUME OrientationAssumption ==
  /\ \A h \in Headings : h \in Nat /\ h <= 360
  /\ \A e \in Errors : e \in Int /\ -5 <= e /\ e <= 5

VARIABLES
  heading, goal,
  state,   \* OrientM.state
  turns    \* turns made for this goal

turnVars == <<heading, goal, state, turns>>

ALLOWED_VARIATION == 5

Abs(n) == IF n >= 0 THEN n ELSE -n

(* (Wrong: the difference as it is.)                                       *)
CalculateTurnAngleDirect(current, wanted) == wanted - current

(* The difference, or the one that goes round the other way if that is the *)
(* shorter of the two.                                                     *)
CalculateTurnAngle(current, wanted) ==
  LET diff1 == wanted - current
      diff2 == IF diff1 > 0 THEN wanted - 360 - current ELSE 360 - current + wanted
  IN  IF Abs(diff1) > Abs(diff2) THEN diff2 ELSE diff1

(* The heading after a turn by angle that missed by e.                     *)
Turned(h, angle, e) == (h + angle + e) % 360

OrientationInit ==
  /\ heading \in Headings
  /\ goal \in Headings
  /\ state = "IDLE"
  /\ turns = 0

OrientTo(dir) ==
  /\ state = "IDLE"
  /\ state' = "ORIENT"
  /\ goal' = dir
  /\ turns' = 0
  /\ UNCHANGED heading

(* (Wrong: an exact heading is asked for.)                                 *)
LocationExact(e) ==
  LET angle == CalculateTurnAngle(heading, goal)
  IN  /\ state = "ORIENT"
      /\ heading' = Turned(heading, angle, e)
      /\ turns' = turns + 1
      /\ state' = IF heading' = goal THEN "IDLE" ELSE "ORIENT"
      /\ UNCHANGED goal

(* Localization.location in the state ORIENT.                              *)
Location(e) ==
  LET angle == CalculateTurnAngle(heading, goal)
  IN  /\ state = "ORIENT"
      /\ \/ /\ Abs(angle) > ALLOWED_VARIATION
            /\ heading' = Turned(heading, angle, e)
            /\ turns' = turns + 1
            /\ UNCHANGED state
         \/ /\ Abs(angle) <= ALLOWED_VARIATION
            /\ state' = "IDLE"
            /\ UNCHANGED <<heading, turns>>
      /\ UNCHANGED goal

OrientationNext ==
  \/ \E dir \in Headings : OrientTo(dir)
  \/ \E e \in Errors : Location(e)

OrientationSpec == OrientationInit /\ [][OrientationNext]_turnVars

-----------------------------------------------------------------------------
(* The angle leads from one heading to the other, and no other angle that  *)
(* does is shorter.  So the period of a turn, seven milliseconds per       *)
(* degree, fits the 16-bit integer in which turnRobot computes it.         *)
LeadsTo(angle, current, wanted) ==
  \E k \in {-2, -1, 0, 1, 2} : angle = wanted - current + 360 * k

AngleIsShortest ==
  /\ LeadsTo(CalculateTurnAngle(heading, goal), heading, goal)
  /\ Abs(CalculateTurnAngle(heading, goal)) <= 180

(* One turn is enough if it misses by no more than the allowed variation.  *)
OneTurnIsEnough == turns <= 1

(* The inductive invariant behind it: the first turn of a goal already     *)
(* leads to a heading within the allowed variation.                        *)
TurnInv ==
  /\ heading \in Nat /\ heading <= 360
  /\ goal \in Nat /\ goal <= 360
  /\ turns \in {0, 1}
  /\ turns = 1 => Abs(CalculateTurnAngle(heading, goal)) <= ALLOWED_VARIATION
=============================================================================
