------------------------------ MODULE MCOsccal -------------------------------
(***************************************************************************)
(* Oscillators in full width for the 16.5 MHz target: straight lines that  *)
(* pass the target at any value of OSCCAL, with two steepnesses, with and  *)
(* without the second range of the ATtiny85, some with a dent every few    *)
(* values, and some that never reach the target.                           *)
(***************************************************************************)
EXTENDS Osccal

Line(at, below, slope, overlap, dent) ==
    [v \in Values |->
        LET frame == Target - below + slope * (v - at)
                       + (IF v < 128 THEN overlap ELSE 0)
                       - (IF v % 4 = 3 THEN dent ELSE 0)
        IN  IF frame < 1 THEN 1 ELSE frame]

MCChips ==
    {Line(at, below, 20, overlap, 0) :
        at \in 0 .. 255, below \in {0, 10}, overlap \in {0, 600}}
    \cup {Line(at, below, 127, 0, 0) : at \in 0 .. 255, below \in {0, 63, 126}}
    \cup {Line(at, 5, 20, 600, 30) : at \in {2 * n : n \in 0 .. 127}}
    \cup {Line(at, 5, 20, 0, 0) : at \in {-20, -2, 257, 270}}
=============================================================================
