------------------------------- MODULE Osccal --------------------------------
(***************************************************************************)
(* The calibration of the RC oscillator, calibrateOscillatorASM of         *)
(* firmware/libs-device/osccalASM.S, which usbPoll runs with interrupts    *)
(* off at the end of every bus reset.  It tries ten values of OSCCAL:      *)
(* seven in a binary search, and from the seventh on it keeps the value    *)
(* that brought the length of a USB frame closest to the target while it   *)
(* steps up and down around it.                                            *)
(*                                                                         *)
(* A chip is what its oscillator makes of each value: how often the        *)
(* counting loop runs during a frame.  Registers have eight bits, cnt16    *)
(* has sixteen.                                                            *)
(***************************************************************************)
EXTENDS Integers

Values  == 0 .. 255      \* a register
SignBit == 32768         \* bit 7 of cnt16H
Wrap16  == 65536         \* cnt16 has sixteen bits

CONSTANTS
    Target,         \* F_CPU * 999e-6 / 5
    Chips,          \* oscillators, [Values -> Nat]
    Factory,        \* OSCCAL before the first bus reset
    Leftovers       \* what the register of opV may hold when the routine starts

ASSUME OsccalAssumption ==
    /\ Target \in 0 .. SignBit - 1
    /\ Chips \subseteq [Values -> 0 .. Target + SignBit]
    /\ Factory \in Values
    /\ Leftovers \subseteq Values

VARIABLES
    chip,           \* the oscillator of this device
    osccal,         \* OSCCAL
    try, stp, i,    \* the next value to try, the step, how many are left
    opV, opD,       \* the best value so far and its deviation
    fine,           \* history: the values tried in the neighbourhood search
    pc

vars == <<chip, osccal, try, stp, i, opV, opD, fine, pc>>

Init ==
    /\ chip \in Chips /\ opV \in Leftovers
    /\ osccal = Factory
    /\ try = 128 /\ stp = 64 /\ i = 10 /\ opD = 255
    /\ fine = {} /\ pc = "main"

\* cnt16 when the frame is over: the target less one for each turn of the loop.
Cnt16(frame) == (Target - frame) % Wrap16

\* Bit 7 of its upper byte: more turns than the target, the clock is too fast.
TooHigh(cnt) == cnt >= SignBit

\* Mutant: the count of a clock that is too fast is not negated.
Deviation_Signed(cnt) == cnt % 256

\* What is compared is the low byte, made positive.
Deviation(cnt) == IF TooHigh(cnt) THEN (0 - cnt) % 256 ELSE cnt % 256

\* Mutant: the search starts in steps of half the register.
Reset_Wide ==
    /\ pc = "main" /\ pc' = "search"
    /\ opD' = 255 /\ try' = 128 /\ stp' = 128 /\ i' = 10
    /\ opV' \in Leftovers /\ fine' = {}
    /\ UNCHANGED <<chip, osccal>>

\* The bus reset ends and the routine sets up its registers, but not opV.
Reset ==
    /\ pc = "main" /\ pc' = "search"
    /\ opD' = 255 /\ try' = 128 /\ stp' = 64 /\ i' = 10
    /\ opV' \in Leftovers /\ fine' = {}
    /\ UNCHANGED <<chip, osccal>>

\* One turn of usbCOloop: set the clock, measure a frame, step towards the
\* target.  A step that cannot be halved any more is kept at one, and then the
\* value counts.
Search ==
    LET cnt  == Cnt16(chip[try])
        half == stp \div 2
    IN  /\ pc = "search"
        /\ osccal' = try
        /\ try' = (IF TooHigh(cnt) THEN try - stp ELSE try + stp) % 256
        /\ stp' = (IF half = 0 THEN 1 ELSE half)
        /\ fine' = (IF half = 0 THEN fine \cup {try} ELSE fine)
        /\ IF half = 0 /\ Deviation(cnt) <= opD
           THEN opV' = try /\ opD' = Deviation(cnt)
           ELSE UNCHANGED <<opV, opD>>
        /\ i' = i - 1
        /\ pc' = (IF i = 1 THEN "set" ELSE "search")
        /\ UNCHANGED chip

\* The best value is set for good.
Finish ==
    /\ pc = "set" /\ pc' = "main"
    /\ osccal' = opV
    /\ UNCHANGED <<chip, try, stp, i, opV, opD, fine>>

Next == Reset \/ Search \/ Finish

Spec == Init /\ [][Next]_vars

-----------------------------------------------------------------------------
(***************************************************************************)
(* Properties                                                              *)
(***************************************************************************)
\* How far a value is off the target.
Off(v) == IF chip[v] > Target THEN chip[v] - Target ELSE Target - chip[v]

\* The half of the register the first measurement sends the search to; on the
\* ATtiny85 these are two ranges of frequencies that overlap.
Half == IF chip[128] <= Target THEN 128 .. 255 ELSE 0 .. 127

\* In that half the frequency does not fall and no step changes the count by
\* more than 127, which would be four percent of the frequency ...
Gradual == \A v, w \in Half : v <= w => chip[w] - chip[v] \in 0 .. 127 * (w - v)

\* ... and the target lies between its ends.
InReach == (\E v \in Half : chip[v] <= Target) /\ (\E v \in Half : chip[v] > Target)

\* On any oscillator: of the values tried in the neighbourhood search the
\* best one is set, if the low byte can tell them apart.
BestTried ==
    (\A v \in fine : Off(v) <= 255) =>
        osccal \in fine /\ \A v \in fine : Off(osccal) <= Off(v)

\* On one that is gradual no other value of the half would have been better:
\* the binary search comes close enough for the neighbourhood search to try
\* the values on both sides of the target.
BestOfHalf == Gradual /\ InReach => \A v \in Half : Off(osccal) <= Off(v)

\* After a calibration the oscillator is as close to the target as it can be.
Tuned == pc = "main" /\ fine # {} => BestTried /\ BestOfHalf

\* When the target lies between 128 and 192, "normal operation" in the words of
\* the routine, the search never leaves the upper range and never sets a
\* frequency above that of 192, which is the highest in the chip's limits.
WithinSpec ==
    chip[128] <= Target /\ chip[192] > Target => osccal \in {Factory} \cup 128 .. 192

=============================================================================
