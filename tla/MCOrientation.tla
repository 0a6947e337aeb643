--------------------------- MODULE MCOrientation ---------------------------
(* Orientation for TLC: the headings around the points where the           *)
(* computation changes, 0, 180 and 360, and every seventh degree.          *)
EXTENDS Orientation

MCHeadings == {7 * i : i \in 0 .. 51} \cup {0, 1, 5, 6, 179, 180, 181, 354, 355, 359, 360}
MCErrors   == {-5, 0, 5}
=============================================================================
