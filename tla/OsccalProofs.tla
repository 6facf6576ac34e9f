---------------------------- MODULE OsccalProofs -----------------------------
(***************************************************************************)
(* Proofs about Osccal, for every oscillator: the best of the values tried *)
(* is set; on a gradual oscillator these are the two on either side of the *)
(* target; and a search whose target lies between 128 and 192 stays there. *)
(***************************************************************************)
EXTENDS Osccal, TLAPS

\* What the comparison sees of value v: its deviation, in one byte.
Low(v) == Deviation(Cnt16(chip[v]))

Bottom == IF chip[128] <= Target THEN 128 ELSE 0
Top    == IF chip[128] <= Target THEN 255 ELSE 127

(***************************************************************************)
(* The invariants.                                                         *)
(***************************************************************************)
OsccalTypeOK ==
    /\ chip \in Chips
    /\ osccal \in Values /\ try \in Values /\ opV \in Values /\ opD \in Values
    /\ stp \in 1 .. 64 /\ i \in 0 .. 10
    /\ fine \subseteq Values
    /\ pc \in {"main", "search", "set"}

\* The step belongs to the turn.
ScheduleInv ==
    /\ pc = "search" =>
          /\ <<i, stp>> \in {<<10, 64>>, <<9, 32>>, <<8, 16>>, <<7, 8>>, <<6, 4>>,
                             <<5, 2>>, <<4, 1>>, <<3, 1>>, <<2, 1>>, <<1, 1>>}
          /\ i >= 4 <=> fine = {}
    /\ pc = "set" => fine # {}

\* opV is the best of the values that count.
BestInv ==
    /\ fine = {} /\ pc # "main" => opD = 255
    /\ fine # {} => /\ opV \in fine /\ opD = Low(opV)
                    /\ \A v \in fine : opD <= Low(v)
                    /\ pc = "main" => osccal = opV

\* c is the last value below the target.
Straddles(c) ==
    /\ c \in Half /\ c + 1 \in Half
    /\ chip[c] <= Target /\ chip[c + 1] > Target

\* The binary search: the target is less than two steps away.
Bracketed ==
    /\ try - 2 * stp \in Half /\ chip[try - 2 * stp] <= Target
    /\ \/ try + 2 * stp \in Half /\ chip[try + 2 * stp] > Target
       \/ try + 2 * stp = Top + 1

\* The neighbourhood search: first next to the target, then on one side of it
\* with the other side tried, then both tried.
Next1 ==
    /\ try \in Half /\ try - 1 \in Half /\ chip[try - 1] <= Target
    /\ \/ chip[try] > Target
       \/ try + 1 \in Half /\ chip[try + 1] > Target
    /\ \A v \in fine : v \in Half /\ v \in try - 1 .. try + 1

Around(c) == Straddles(c) /\ \A v \in fine : v \in Half /\ v \in c - 1 .. c + 2

OneSide(c) ==
    /\ Around(c)
    /\ (try = c /\ c + 1 \in fine) \/ (try = c + 1 /\ c \in fine)

BothSides(c) == Around(c) /\ c \in fine /\ c + 1 \in fine

NearInv ==
    Gradual /\ InReach =>
        /\ pc = "search" /\ i = 10 => try = 128
        /\ pc = "search" /\ i \in 4 .. 9 => Bracketed
        /\ pc = "search" /\ i = 3 => Next1
        /\ pc = "search" /\ i = 2 => \E c \in Half : OneSide(c)
        /\ pc = "search" /\ i = 1 => \E c \in Half : BothSides(c) /\ try \in {c, c + 1}
        /\ pc # "search" /\ fine # {} => \E c \in Half : BothSides(c)

\* A search that turns back at 192.
Normal == chip[128] <= Target /\ chip[192] > Target

LimitInv ==
    Normal =>
        /\ WithinSpec
        /\ \A v \in fine : v \in 128 .. 192
        /\ pc = "search" =>
              /\ i = 10 => try = 128
              /\ i = 9 => try = 192
              /\ i \in 4 .. 8 => try \in 128 + 2 * stp .. 192 - 2 * stp
              /\ i = 3 => try \in 129 .. 191
              /\ try \in 128 .. 192

SearchInv == OsccalTypeOK /\ ScheduleInv /\ BestInv /\ NearInv /\ LimitInv

(***************************************************************************)
(* Lemmas about counts.                                                    *)
(***************************************************************************)
\* A remainder is below the modulus.
LEMMA RemainderRange ==
  ASSUME NEW m \in Nat \ {0}, NEW x \in Int
  PROVE  x % m \in 0 .. m - 1
  BY SMTT(20)

\* A number that is at most one modulus below zero or already below it.
LEMMA RemainderIs ==
  ASSUME NEW m \in Nat, NEW r \in 0 .. m - 1, NEW x \in Int,
         x = r \/ x = r - m
  PROVE  x % m = r
  BY SMTT(20)

\* The widths, of which no proof needs the exact number.
LEMMA Widths ==
    /\ SignBit \in Nat /\ SignBit > 256 /\ Wrap16 = SignBit + SignBit
    /\ Wrap16 \in Nat \ {0}
  BY DEF SignBit, Wrap16

\* The low byte of a negative count, negated.
LEMMA LowByteNegated ==
  ASSUME NEW x \in 1 .. 255
  PROVE  (0 - (Wrap16 - x)) % 256 = x
  BY SMTT(20) DEF Wrap16

\* What a chip makes of a value is a number the counter can tell apart.
LEMMA Frames ==
  ASSUME chip \in Chips, NEW v \in Values
  PROVE  /\ chip[v] \in Int /\ chip[v] >= 0 /\ chip[v] <= Target + SignBit
         /\ Target \in Int /\ Target >= 0 /\ Target < SignBit
  BY OsccalAssumption, Widths

\* The count of a clock that is not too fast, x below the target.
LEMMA CountBelow ==
  ASSUME NEW x \in Int, x >= 0, x < SignBit
  PROVE  /\ x % Wrap16 = x /\ ~TooHigh(x)
         /\ Deviation(x) \in Values
         /\ x <= 255 => Deviation(x) = x
PROOF
  <1>1. x \in 0 .. Wrap16 - 1 /\ 256 \in Nat \ {0}
    BY Widths
  <1>2. x % Wrap16 = x
    BY <1>1, Widths, RemainderIs
  <1>3. ~TooHigh(x)
    BY Widths DEF TooHigh
  <1>4. x % 256 \in 0 .. 256 - 1
    BY <1>1, RemainderRange
  <1>5. x <= 255 => x % 256 = x
    BY SMTT(20)
  <1>6. Deviation(x) = x % 256
    BY <1>3 DEF Deviation
  <1> QED BY <1>2, <1>3, <1>4, <1>5, <1>6 DEF Values

\* The count of a clock that is too fast, x above the target.
LEMMA CountAbove ==
  ASSUME NEW x \in Int, x > 0, x <= SignBit
  PROVE  /\ (0 - x) % Wrap16 = Wrap16 - x /\ TooHigh(Wrap16 - x)
         /\ Deviation(Wrap16 - x) \in Values
         /\ x <= 255 => Deviation(Wrap16 - x) = x
PROOF
  <1>1. /\ 0 - x \in Int /\ Wrap16 - x \in 0 .. Wrap16 - 1
        /\ 0 - x = (Wrap16 - x) - Wrap16
        /\ 0 - (Wrap16 - x) \in Int /\ 256 \in Nat \ {0}
    BY Widths
  <1>2. (0 - x) % Wrap16 = Wrap16 - x
    BY <1>1, Widths, RemainderIs
  <1>3. TooHigh(Wrap16 - x)
    BY Widths DEF TooHigh
  <1>4. (0 - (Wrap16 - x)) % 256 \in 0 .. 256 - 1
    BY <1>1, RemainderRange
  <1>5. x <= 255 => (0 - (Wrap16 - x)) % 256 = x
    BY LowByteNegated
  <1>6. Deviation(Wrap16 - x) = (0 - (Wrap16 - x)) % 256
    BY <1>3 DEF Deviation
  <1> QED BY <1>2, <1>3, <1>4, <1>5, <1>6 DEF Values

\* The sign bit says which side of the target the clock is on, and the low
\* byte how far away it is when that is not too far.
LEMMA Measured ==
  ASSUME chip \in Chips, NEW v \in Values
  PROVE  /\ TooHigh(Cnt16(chip[v])) <=> chip[v] > Target
         /\ Low(v) \in Values
         /\ Off(v) \in Int
         /\ Off(v) <= 255 => Low(v) = Off(v)
PROOF
  <1>1. CASE chip[v] <= Target
    <2>1. PICK x \in Int : x = Target - chip[v] /\ x >= 0 /\ x < SignBit
      BY <1>1, Frames, Widths
    <2>2. Off(v) = x /\ ~(chip[v] > Target)
      BY <1>1, <2>1, Frames DEF Off
    <2>3. Cnt16(chip[v]) = x
      BY <2>1, CountBelow DEF Cnt16
    <2> QED BY <2>1, <2>2, <2>3, CountBelow DEF Low
  <1>2. CASE chip[v] > Target
    <2>1. PICK x \in Int : x = chip[v] - Target /\ x > 0 /\ x <= SignBit
      BY <1>2, Frames, Widths
    <2>2. Off(v) = x /\ Target - chip[v] = 0 - x
      BY <1>2, <2>1, Frames DEF Off
    <2>3. Cnt16(chip[v]) = Wrap16 - x
      BY <2>1, <2>2, CountAbove DEF Cnt16
    <2> QED BY <1>2, <2>1, <2>2, <2>3, CountAbove DEF Low
  <1> QED BY <1>1, <1>2, Frames

\* A register in plain arithmetic.
LEMMA ByteIs == \A v : v \in Values <=> v \in Int /\ v >= 0 /\ v <= 255
  BY SMTT(20) DEF Values

\* Stepping past neither end, a register does not wrap.
LEMMA ByteKept ==
  ASSUME NEW x \in Int
  PROVE  x % 256 \in Values /\ (x >= 0 /\ x <= 255 => x % 256 = x)
PROOF
  <1>1. x % 256 \in 0 .. 256 - 1
    BY RemainderRange
  <1>2. x >= 0 /\ x <= 255 => x % 256 = x
    BY SMTT(20)
  <1> QED BY <1>1, <1>2 DEF Values

\* The half that is searched.
LEMMA HalfIs ==
    /\ \A v : v \in Half <=> v \in Int /\ v >= Bottom /\ v <= Top
    /\ Half \subseteq Values
    /\ \/ Bottom = 128 /\ Top = 255 /\ chip[128] <= Target
       \/ Bottom = 0 /\ Top = 127 /\ ~(chip[128] <= Target)
  BY SMTT(20) DEF Half, Bottom, Top, Values

(***************************************************************************)
(* One turn of the search.                                                 *)
(***************************************************************************)
\* What a turn does, case by case: the step is halved until it is one.
LEMMA Turn ==
  ASSUME OsccalTypeOK, ScheduleInv, Search
  PROVE  /\ pc = "search" /\ osccal' = try /\ chip' = chip /\ i' = i - 1
         /\ pc' = (IF i = 1 THEN "set" ELSE "search")
         /\ try' = (IF chip[try] > Target THEN try - stp ELSE try + stp) % 256
         /\ i >= 5 => /\ stp = stp' + stp' /\ fine' = fine
                      /\ opV' = opV /\ opD' = opD
         /\ i <= 4 => /\ stp = 1 /\ stp' = 1 /\ fine' = fine \cup {try}
                      /\ IF Low(try) <= opD
                         THEN opV' = try /\ opD' = Low(try)
                         ELSE opV' = opV /\ opD' = opD
PROOF
  <1> DEFINE cnt == Cnt16(chip[try])
             half == stp \div 2
  <1>1. /\ pc = "search" /\ osccal' = try /\ chip' = chip /\ i' = i - 1
        /\ pc' = (IF i = 1 THEN "set" ELSE "search")
        /\ try' = (IF TooHigh(cnt) THEN try - stp ELSE try + stp) % 256
        /\ stp' = (IF half = 0 THEN 1 ELSE half)
        /\ fine' = (IF half = 0 THEN fine \cup {try} ELSE fine)
        /\ IF half = 0 /\ Low(try) <= opD
           THEN opV' = try /\ opD' = Low(try)
           ELSE opV' = opV /\ opD' = opD
    BY DEF Search, Low
  <1>2. /\ i >= 5 => half # 0 /\ stp = half + half
        /\ i <= 4 => half = 0 /\ stp = 1
    BY <1>1 DEF ScheduleInv
  <1>3. TooHigh(cnt) <=> chip[try] > Target
    BY Measured DEF OsccalTypeOK
  <1> HIDE DEF cnt, half
  <1> QED BY <1>1, <1>2, <1>3

\* Every variable stays in its type.
LEMMA TypeKept == OsccalTypeOK /\ ScheduleInv /\ [Next]_vars => OsccalTypeOK'
PROOF
  <1> SUFFICES ASSUME OsccalTypeOK, ScheduleInv, [Next]_vars PROVE OsccalTypeOK'
    OBVIOUS
  <1>1. CASE Reset
    <2>1. 255 \in Values /\ 128 \in Values /\ opV' \in Values
      BY <1>1, ByteIs, OsccalAssumption DEF Reset
    <2> QED BY <1>1, <2>1 DEF Reset, OsccalTypeOK
  <1>2. CASE Search
    <2>1. try - stp \in Int /\ try + stp \in Int /\ Low(try) \in Values
      BY ByteIs, Measured DEF OsccalTypeOK
    <2>2. try' \in Values
      BY <1>2, <2>1, Turn, ByteKept
    <2>3. i \in 1 .. 10
      BY <1>2, Turn DEF ScheduleInv
    <2>4. stp' \in 1 .. 64 /\ opV' \in Values /\ opD' \in Values /\ fine' \subseteq Values
      <3>1. CASE i >= 5
        BY <1>2, <2>3, <3>1, Turn DEF OsccalTypeOK, ScheduleInv, Search
      <3>2. CASE i <= 4
        BY <1>2, <2>1, <3>2, Turn DEF OsccalTypeOK
      <3> QED BY <2>3, <3>1, <3>2
    <2>5. osccal' \in Values /\ chip' \in Chips /\ pc' \in {"search", "set"}
      BY <1>2, Turn DEF OsccalTypeOK
    <2>6. i' \in 0 .. 10
      BY <1>2, <2>3, Turn
    <2> QED BY <2>2, <2>4, <2>5, <2>6 DEF OsccalTypeOK
  <1>3. CASE Finish
    BY <1>3 DEF Finish, OsccalTypeOK
  <1>4. CASE UNCHANGED vars
    BY <1>4 DEF vars, OsccalTypeOK
  <1> QED BY <1>1, <1>2, <1>3, <1>4 DEF Next

\* What the steps are halved to.
LEMMA Halves ==
  ASSUME NEW s \in Int
  PROVE  /\ 64 = s + s => s = 32
         /\ 32 = s + s => s = 16
         /\ 16 = s + s => s = 8
         /\ 8 = s + s => s = 4
         /\ 4 = s + s => s = 2
         /\ 2 = s + s => s = 1
  BY SMT

\* The steps follow one another as the table says.
LEMMA ScheduleKept == OsccalTypeOK /\ ScheduleInv /\ [Next]_vars => ScheduleInv'
PROOF
  <1> SUFFICES ASSUME OsccalTypeOK, ScheduleInv, [Next]_vars PROVE ScheduleInv'
    OBVIOUS
  <1>1. CASE Reset
    BY <1>1 DEF Reset, ScheduleInv
  <1>2. CASE Search
    <2>1. /\ i \in 1 .. 10
          /\ stp = 1 \/ i >= 5
      BY <1>2, Turn DEF ScheduleInv
    <2>2. CASE i = 1
      BY <1>2, <2>2, Turn DEF ScheduleInv
    <2>3. CASE i \in 2 .. 4
      BY <1>2, <2>3, Turn DEF ScheduleInv
    <2>4. CASE i \in 5 .. 10
      <3>1. stp' \in Int /\ stp = stp' + stp'
        BY <1>2, <2>4, Turn, TypeKept DEF OsccalTypeOK
      <3>2. /\ pc' = "search" /\ fine' = fine /\ fine = {} /\ i' = i - 1
            /\ \/ i = 10 /\ stp = 64
               \/ i = 9 /\ stp = 32
               \/ i = 8 /\ stp = 16
               \/ i = 7 /\ stp = 8
               \/ i = 6 /\ stp = 4
               \/ i = 5 /\ stp = 2
        BY <1>2, <2>4, Turn DEF ScheduleInv
      <3>3. \/ i' = 9 /\ stp' = 32
            \/ i' = 8 /\ stp' = 16
            \/ i' = 7 /\ stp' = 8
            \/ i' = 6 /\ stp' = 4
            \/ i' = 5 /\ stp' = 2
            \/ i' = 4 /\ stp' = 1
        <4>1. /\ stp = 64 => stp' = 32
              /\ stp = 32 => stp' = 16
              /\ stp = 16 => stp' = 8
              /\ stp = 8 => stp' = 4
              /\ stp = 4 => stp' = 2
              /\ stp = 2 => stp' = 1
          BY <3>1, Halves
        <4>2. /\ i = 10 => i' = 9
              /\ i = 9 => i' = 8
              /\ i = 8 => i' = 7
              /\ i = 7 => i' = 6
              /\ i = 6 => i' = 5
              /\ i = 5 => i' = 4
          BY <3>2
        <4> QED BY <3>2, <4>1, <4>2
      <3>4. i' >= 4
        BY <3>3
      <3> QED BY <3>2, <3>3, <3>4 DEF ScheduleInv
    <2> QED BY <2>1, <2>2, <2>3, <2>4
  <1>3. CASE Finish
    BY <1>3 DEF Finish, ScheduleInv
  <1>4. CASE UNCHANGED vars
    BY <1>4 DEF vars, ScheduleInv
  <1> QED BY <1>1, <1>2, <1>3, <1>4 DEF Next

\* opV stays the best of the values that count.
LEMMA BestKept == OsccalTypeOK /\ ScheduleInv /\ BestInv /\ [Next]_vars => BestInv'
PROOF
  <1> SUFFICES ASSUME OsccalTypeOK, ScheduleInv, BestInv, [Next]_vars PROVE BestInv'
    OBVIOUS
  <1>1. CASE Reset
    BY <1>1 DEF Reset, BestInv
  <1>2. CASE Search
    <2>1. chip' = chip /\ \A v : Low(v)' = Low(v)
      BY <1>2, Turn DEF Low, Cnt16, Deviation, TooHigh
    <2>2. /\ Low(try) \in Int /\ Low(try) <= 255 /\ opD \in Int /\ i \in 1 .. 10
          /\ \A v \in fine : Low(v) \in Int
      BY <1>2, Measured, ByteIs, Turn DEF OsccalTypeOK, ScheduleInv
    <2>3. pc = "search" /\ pc' # "main"
      BY <1>2, Turn
    <2>4. CASE i >= 5
      <3>1. fine' = fine /\ opV' = opV /\ opD' = opD
        BY <1>2, <2>4, Turn
      <3> QED BY <2>1, <2>3, <3>1 DEF BestInv
    <2>5. CASE i <= 4
      <3>1. fine' = fine \cup {try}
        BY <1>2, <2>5, Turn
      <3>2. CASE Low(try) <= opD
        <4>1. opV' = try /\ opD' = Low(try)
          BY <1>2, <2>5, <3>2, Turn
        <4>2. \A v \in fine : Low(try) <= Low(v)
          BY <2>2, <3>2 DEF BestInv
        <4> QED BY <2>1, <2>2, <2>3, <3>1, <4>1, <4>2 DEF BestInv
      <3>3. CASE ~(Low(try) <= opD)
        <4>1. opV' = opV /\ opD' = opD
          BY <1>2, <2>5, <3>3, Turn
        <4>2. fine # {}
          BY <2>2, <2>3, <3>3 DEF BestInv
        <4> QED BY <2>1, <2>2, <2>3, <3>1, <3>3, <4>1, <4>2 DEF BestInv
      <3> QED BY <3>2, <3>3
    <2> QED BY <2>2, <2>4, <2>5
  <1>3. CASE Finish
    <2>1. /\ pc' = "main" /\ osccal' = opV /\ chip' = chip
          /\ fine' = fine /\ opV' = opV /\ opD' = opD
      BY <1>3 DEF Finish
    <2>2. \A v : Low(v)' = Low(v)
      BY <2>1 DEF Low, Cnt16, Deviation, TooHigh
    <2> QED BY <2>1, <2>2 DEF BestInv
  <1>4. CASE UNCHANGED vars
    <2>1. \A v : Low(v)' = Low(v)
      BY <1>4 DEF vars, Low, Cnt16, Deviation, TooHigh
    <2> QED BY <1>4, <2>1 DEF vars, BestInv
  <1> QED BY <1>1, <1>2, <1>3, <1>4 DEF Next

(***************************************************************************)
(* A gradual oscillator that reaches the target.                           *)
(***************************************************************************)
\* The oscillator of a device does not change.
LEMMA SameChip ==
  ASSUME [Next]_vars
  PROVE  /\ chip' = chip /\ Half' = Half /\ Top' = Top /\ Bottom' = Bottom
         /\ Gradual' <=> Gradual
         /\ InReach' <=> InReach
PROOF
  <1>1. chip' = chip
    BY DEF Next, vars, Reset, Search, Finish
  <1> QED BY <1>1 DEF Half, Top, Bottom, Gradual, InReach

\* Counts in the half do not fall, and not by more than 127 a step.
LEMMA Slope ==
  ASSUME chip \in Chips, Gradual, NEW v \in Half, NEW w \in Half, v <= w
  PROVE  /\ chip[v] \in Int /\ chip[w] \in Int /\ Target \in Int
         /\ chip[v] <= chip[w] /\ chip[w] - chip[v] <= 127 * (w - v)
PROOF
  <1>1. v \in Int /\ w \in Int /\ chip[v] \in Int /\ chip[w] \in Int /\ Target \in Int
    BY HalfIs, Frames
  <1>2. chip[w] - chip[v] \in 0 .. 127 * (w - v)
    BY DEF Gradual
  <1> QED BY <1>1, <1>2

\* The target lies between the ends of the half.
LEMMA Ends ==
  ASSUME chip \in Chips, Gradual, InReach
  PROVE  /\ Bottom \in Half /\ Top \in Half
         /\ chip[Bottom] <= Target /\ chip[Top] > Target
PROOF
  <1>1. Bottom \in Half /\ Top \in Half
    BY HalfIs
  <1>2. PICK v \in Half : chip[v] <= Target
    BY DEF InReach
  <1>3. PICK w \in Half : chip[w] > Target
    BY DEF InReach
  <1>4. Bottom <= v /\ w <= Top
    BY HalfIs
  <1>5. chip[Bottom] <= chip[v] /\ chip[w] <= chip[Top]
    BY <1>1, <1>4, Slope
  <1>6. /\ chip[Bottom] \in Int /\ chip[Top] \in Int /\ Target \in Int
        /\ chip[v] \in Int /\ chip[w] \in Int
    BY <1>1, HalfIs, Frames
  <1> QED BY <1>1, <1>2, <1>3, <1>5, <1>6

\* Where a turn goes when it does not wrap.
LEMMA Moves ==
  ASSUME OsccalTypeOK, ScheduleInv, Search
  PROVE  /\ try \in Int /\ try >= 0 /\ try <= 255 /\ stp \in 1 .. 64
         /\ chip[try] \in Int /\ Target \in Int
         /\ chip[try] <= Target /\ try + stp <= 255 => try' = try + stp
         /\ chip[try] > Target /\ try - stp >= 0 => try' = try - stp
PROOF
  <1>1. /\ try \in Int /\ try >= 0 /\ try <= 255 /\ stp \in 1 .. 64
        /\ chip[try] \in Int /\ Target \in Int
    BY ByteIs, Frames DEF OsccalTypeOK
  <1>2. CASE chip[try] <= Target
    <2>1. try' = (try + stp) % 256
      BY <1>1, <1>2, Turn
    <2>2. try + stp \in Int /\ try + stp >= 0
      BY <1>1
    <2> QED BY <1>1, <1>2, <2>1, <2>2, ByteKept
  <1>3. CASE chip[try] > Target
    <2>1. try' = (try - stp) % 256
      BY <1>3, Turn
    <2>2. try - stp \in Int /\ try - stp <= 255
      BY <1>1
    <2> QED BY <1>1, <1>3, <2>1, <2>2, ByteKept
  <1> QED BY <1>1, <1>2, <1>3

\* The first turn chooses the half.
LEMMA FirstTurn ==
  ASSUME OsccalTypeOK, ScheduleInv, Search, Gradual, InReach, i = 10, try = 128
  PROVE  Bracketed'
PROOF
  <1>1. stp = 64 /\ stp' = 32
    <2>1. stp = 64
      BY Turn DEF ScheduleInv
    <2>2. stp' \in Int /\ stp = stp' + stp'
      BY Turn, TypeKept DEF Next, OsccalTypeOK
    <2>3. stp = 64 => stp' = 32
      BY <2>2, Halves
    <2> QED BY <2>1, <2>3
  <1>2. /\ chip' = chip /\ Half' = Half /\ Top' = Top /\ Bottom' = Bottom
    BY SameChip DEF Next
  <1>3. /\ Bottom \in Half /\ chip[Bottom] <= Target
        /\ chip \in Chips
    BY Ends DEF OsccalTypeOK
  <1>4. CASE chip[128] <= Target
    <2>1. try' = 192 /\ Bottom = 128 /\ Top = 255
      BY <1>1, <1>4, Moves, HalfIs
    <2> QED BY <1>1, <1>2, <1>3, <2>1 DEF Bracketed
  <1>5. CASE ~(chip[128] <= Target)
    <2>1. try' = 64 /\ Bottom = 0 /\ Top = 127
      BY <1>1, <1>5, Moves, HalfIs
    <2> QED BY <1>1, <1>2, <1>3, <2>1 DEF Bracketed
  <1> QED BY <1>4, <1>5

\* While the target is bracketed the turn stays in the half.
LEMMA InsideHalf ==
  ASSUME OsccalTypeOK, Bracketed
  PROVE  /\ try \in Half /\ try - 2 * stp >= Bottom /\ try + 2 * stp <= Top + 1
         /\ Bottom \in Int /\ Top \in Int /\ Bottom >= 0 /\ Top <= 255
PROOF
  <1>1. try \in Int /\ stp \in 1 .. 64
    BY ByteIs DEF OsccalTypeOK
  <1>2. Bottom \in Int /\ Top \in Int /\ Bottom >= 0 /\ Top <= 255
    BY HalfIs
  <1>3. try - 2 * stp >= Bottom
    BY HalfIs DEF Bracketed
  <1>4. try + 2 * stp <= Top + 1
    BY <1>1, <1>2, HalfIs DEF Bracketed
  <1> QED BY <1>1, <1>2, <1>3, <1>4, HalfIs

\* Each turn of the binary search halves the bracket.
LEMMA BracketTurn ==
  ASSUME OsccalTypeOK, ScheduleInv, Search, i \in 5 .. 9, Bracketed
  PROVE  Bracketed'
PROOF
  <1>1. /\ try \in Half /\ try - 2 * stp >= Bottom /\ try + 2 * stp <= Top + 1
        /\ Bottom \in Int /\ Top \in Int /\ Bottom >= 0 /\ Top <= 255
    BY InsideHalf
  <1>2. /\ chip' = chip /\ Half' = Half /\ Top' = Top
    BY SameChip DEF Next
  <1>3. /\ try \in Int /\ stp \in Int /\ stp' \in Int
        /\ chip[try] \in Int /\ Target \in Int
    BY Moves, TypeKept DEF Next, OsccalTypeOK
  <1>4. PICK h \in Int : h >= 1 /\ stp' = h /\ stp = h + h
    BY Turn, TypeKept DEF Next, OsccalTypeOK
  <1>5. CASE chip[try] <= Target
    <2>1. try + stp <= 255
      BY <1>1, <1>3, <1>4
    <2>2. try' = try + stp
      BY <1>5, <2>1, Moves
    <2>3. try' - 2 * stp' = try /\ try' + 2 * stp' = try + 2 * stp
      BY <1>3, <1>4, <2>2
    <2> QED BY <1>1, <1>2, <1>5, <2>3 DEF Bracketed
  <1>6. CASE chip[try] > Target
    <2>1. try - stp >= 0
      BY <1>1, <1>3, <1>4
    <2>2. try' = try - stp
      BY <1>6, <2>1, Moves
    <2>3. try' - 2 * stp' = try - 2 * stp /\ try' + 2 * stp' = try
      BY <1>3, <1>4, <2>2
    <2> QED BY <1>1, <1>2, <1>6, <2>3 DEF Bracketed
  <1> QED BY <1>3, <1>5, <1>6

\* The last turn of the binary search ends next to the target.
LEMMA LastHalving ==
  ASSUME OsccalTypeOK, ScheduleInv, Search, Gradual, InReach, i = 4, Bracketed
  PROVE  Next1'
PROOF
  <1>1. /\ try \in Half /\ try - 2 * stp >= Bottom /\ try + 2 * stp <= Top + 1
        /\ Bottom \in Int /\ Top \in Int /\ Bottom >= 0 /\ Top <= 255
    BY InsideHalf
  <1>2. /\ chip' = chip /\ Half' = Half
        /\ stp = 1 /\ try \in Int /\ chip[try] \in Int /\ Target \in Int
    BY SameChip, Turn, Moves DEF Next
  <1>3. fine' = {try}
    BY <1>2, Turn DEF ScheduleInv
  <1>4. /\ try - 2 \in Half /\ chip[try - 2] <= Target
        /\ \/ try + 2 \in Half /\ chip[try + 2] > Target
           \/ try + 2 = Top + 1
    BY <1>2 DEF Bracketed
  <1>5. Top \in Half /\ chip[Top] > Target
    BY Ends DEF OsccalTypeOK
  <1>6. CASE chip[try] <= Target
    <2>1. try' = try + 1 /\ try' - 1 = try /\ try' \in Int
      BY <1>1, <1>2, <1>6, Moves
    <2>2. try' \in Half
      BY <1>1, <1>2, <2>1, HalfIs
    <2>3. CASE try + 2 \in Half /\ chip[try + 2] > Target
      <3>1. try' + 1 = try + 2
        BY <1>2, <2>1
      <3> QED BY <1>1, <1>2, <1>3, <1>6, <2>1, <2>2, <2>3, <3>1 DEF Next1
    <2>4. CASE try + 2 = Top + 1
      <3>1. try' = Top
        BY <1>1, <1>2, <2>1, <2>4
      <3> QED BY <1>1, <1>2, <1>3, <1>5, <1>6, <2>1, <3>1 DEF Next1
    <2> QED BY <1>4, <2>3, <2>4
  <1>7. CASE chip[try] > Target
    <2>1. try' = try - 1 /\ try' - 1 = try - 2 /\ try' + 1 = try /\ try' \in Int
      BY <1>1, <1>2, <1>7, Moves
    <2>2. try' \in Half
      BY <1>1, <1>2, <2>1, HalfIs
    <2> QED BY <1>1, <1>2, <1>3, <1>4, <1>7, <2>1, <2>2 DEF Next1
  <1> QED BY <1>2, <1>6, <1>7

\* The next turn is on one side of the target, and so was an earlier one.
LEMMA FirstNeighbour ==
  ASSUME OsccalTypeOK, ScheduleInv, Search, i = 3, Next1
  PROVE  \E c \in Half : OneSide(c)'
PROOF
  <1>1. /\ chip' = chip /\ Half' = Half
        /\ stp = 1 /\ try \in Int /\ chip[try] \in Int /\ Target \in Int
        /\ fine' = fine \cup {try}
    BY SameChip, Turn, Moves DEF Next
  <1>2. /\ try \in Half /\ try - 1 \in Half /\ chip[try - 1] <= Target
        /\ \A v \in fine : v \in Half /\ v \in try - 1 .. try + 1
    BY DEF Next1
  <1>3. CASE chip[try] <= Target
    <2>1. try + 1 \in Half /\ chip[try + 1] > Target
      BY <1>1, <1>3 DEF Next1
    <2>2. try' = try + 1
      <3>1. try + 1 <= 255
        BY <2>1, HalfIs
      <3> QED BY <1>1, <1>3, <3>1, Moves
    <2>3. \A v \in fine' : v \in Half /\ v \in try - 1 .. try + 2
      BY <1>1, <1>2
    <2>4. PICK c \in Half : c = try
      BY <1>2
    <2>5. OneSide(c)'
      BY <1>1, <1>2, <1>3, <2>1, <2>2, <2>3, <2>4 DEF OneSide, Around, Straddles
    <2> QED BY <2>5
  <1>4. CASE chip[try] > Target
    <2>1. PICK c \in Half : c = try - 1 /\ c + 1 = try /\ c \in Int
      BY <1>1, <1>2
    <2>2. try' = c
      <3>1. c >= 0
        BY <2>1, HalfIs
      <3> QED BY <1>1, <1>4, <2>1, <3>1, Moves
    <2>3. \A v \in fine' : v \in Half /\ v \in c - 1 .. c + 2
      BY <1>1, <1>2, <2>1
    <2>4. OneSide(c)'
      BY <1>1, <1>2, <1>4, <2>1, <2>2, <2>3 DEF OneSide, Around, Straddles
    <2> QED BY <2>4
  <1> QED BY <1>1, <1>3, <1>4

\* The third turn tries the other side.
LEMMA SecondNeighbour ==
  ASSUME OsccalTypeOK, ScheduleInv, Search, i = 2, NEW c \in Half, OneSide(c)
  PROVE  BothSides(c)' /\ try' \in {c, c + 1}
PROOF
  <1>1. /\ chip' = chip /\ Half' = Half
        /\ stp = 1 /\ try \in Int /\ chip[try] \in Int /\ Target \in Int
        /\ fine' = fine \cup {try}
    BY SameChip, Turn, Moves DEF Next
  <1>2. /\ Straddles(c) /\ \A v \in fine : v \in Half /\ v \in c - 1 .. c + 2
        /\ c \in Int /\ c >= 0 /\ c + 1 <= 255
    BY HalfIs DEF OneSide, Around, Straddles
  <1>3. CASE try = c /\ c + 1 \in fine
    <2>1. try' = c + 1
      BY <1>1, <1>2, <1>3, Moves DEF Straddles
    <2>2. \A v \in fine' : v \in Half /\ v \in c - 1 .. c + 2
      BY <1>1, <1>2, <1>3
    <2> QED BY <1>1, <1>2, <1>3, <2>1, <2>2 DEF BothSides, Around, Straddles
  <1>4. CASE try = c + 1 /\ c \in fine
    <2>1. try' = c
      <3>1. chip[try] > Target /\ try - stp = c
        BY <1>1, <1>2, <1>4 DEF Straddles
      <3> QED BY <1>2, <3>1, Moves
    <2>2. \A v \in fine' : v \in Half /\ v \in c - 1 .. c + 2
      BY <1>1, <1>2, <1>4 DEF Straddles
    <2> QED BY <1>1, <1>2, <1>4, <2>1, <2>2 DEF BothSides, Around, Straddles
  <1> QED BY <1>3, <1>4 DEF OneSide

\* The last turn tries one of the two again.
LEMMA ThirdNeighbour ==
  ASSUME OsccalTypeOK, ScheduleInv, Search, i = 1,
         NEW c \in Half, BothSides(c), try \in {c, c + 1}
  PROVE  BothSides(c)'
PROOF
  <1>1. /\ chip' = chip /\ Half' = Half /\ fine' = fine \cup {try}
    BY SameChip, Turn DEF Next
  <1>2. try \in fine
    BY DEF BothSides
  <1> QED BY <1>1, <1>2 DEF BothSides, Around, Straddles

\* On a gradual oscillator the search closes in on the target.
LEMMA NearKept ==
  OsccalTypeOK /\ ScheduleInv /\ NearInv /\ [Next]_vars => NearInv'
PROOF
  <1> SUFFICES ASSUME OsccalTypeOK, ScheduleInv, NearInv, [Next]_vars,
                      Gradual', InReach'
               PROVE  /\ (pc = "search" /\ i = 10 => try = 128)'
                      /\ (pc = "search" /\ i \in 4 .. 9 => Bracketed)'
                      /\ (pc = "search" /\ i = 3 => Next1)'
                      /\ (pc = "search" /\ i = 2 => \E c \in Half : OneSide(c))'
                      /\ (pc = "search" /\ i = 1 =>
                             \E c \in Half : BothSides(c) /\ try \in {c, c + 1})'
                      /\ (pc # "search" /\ fine # {} => \E c \in Half : BothSides(c))'
    BY DEF NearInv
  <1>1. Gradual /\ InReach /\ Half' = Half /\ chip' = chip
    BY SameChip
  <1>2. CASE Reset
    BY <1>2 DEF Reset
  <1>3. CASE Search
    <2>1. /\ i \in 1 .. 10 /\ pc = "search" /\ i' = i - 1
          /\ pc' = (IF i = 1 THEN "set" ELSE "search")
      BY <1>3, Turn DEF ScheduleInv
    <2>2. CASE i = 10
      BY <1>1, <1>3, <2>1, <2>2, FirstTurn DEF NearInv
    <2>3. CASE i \in 5 .. 9
      BY <1>1, <1>3, <2>1, <2>3, BracketTurn DEF NearInv
    <2>4. CASE i = 4
      BY <1>1, <1>3, <2>1, <2>4, LastHalving DEF NearInv
    <2>5. CASE i = 3
      BY <1>1, <1>3, <2>1, <2>5, FirstNeighbour DEF NearInv
    <2>6. CASE i = 2
      <3>1. PICK c \in Half : OneSide(c)
        BY <1>1, <2>1, <2>6 DEF NearInv
      <3>2. BothSides(c)' /\ try' \in {c, c + 1}
        BY <1>3, <2>6, <3>1, SecondNeighbour
      <3> QED BY <1>1, <2>1, <2>6, <3>2
    <2>7. CASE i = 1
      <3>1. PICK c \in Half : BothSides(c) /\ try \in {c, c + 1}
        BY <1>1, <2>1, <2>7 DEF NearInv
      <3>2. BothSides(c)'
        BY <1>3, <2>7, <3>1, ThirdNeighbour
      <3> QED BY <1>1, <2>1, <2>7, <3>2
    <2> QED BY <2>1, <2>2, <2>3, <2>4, <2>5, <2>6, <2>7
  <1>4. CASE Finish
    <2>1. pc = "set" /\ pc' = "main" /\ fine' = fine
      BY <1>4 DEF Finish
    <2>2. fine # {} => \E c \in Half : BothSides(c)
      BY <1>1, <2>1 DEF NearInv
    <2> QED BY <1>1, <2>1, <2>2 DEF BothSides, Around, Straddles
  <1>5. CASE UNCHANGED vars
    BY <1>1, <1>5 DEF vars, NearInv, Bracketed, Next1, OneSide, BothSides, Around,
                      Straddles, Top
  <1> QED BY <1>2, <1>3, <1>4, <1>5 DEF Next

(***************************************************************************)
(* A target between 128 and 192.                                           *)
(***************************************************************************)
\* The first two turns lead between them, and each later one stays there.
LEMMA LimitTurn ==
  ASSUME OsccalTypeOK, ScheduleInv, Search, Normal, LimitInv
  PROVE  /\ try \in 128 .. 192 /\ try' \in 128 .. 192
         /\ i = 10 => try' = 192
         /\ i \in 5 .. 9 => try' \in 128 + 2 * stp' .. 192 - 2 * stp'
         /\ i = 4 => try' \in 129 .. 191
PROOF
  <1>1. /\ i \in 1 .. 10 /\ try \in Int /\ stp \in Int /\ stp' \in Int /\ try \in 128 .. 192
        /\ chip[try] \in Int /\ Target \in Int
        /\ chip[128] <= Target /\ chip[192] > Target
    BY Turn, Moves, TypeKept DEF ScheduleInv, LimitInv, Normal, Next, OsccalTypeOK
  <1>2. CASE i = 10
    <2>1. try = 128 /\ stp = 64
      BY <1>2, Turn DEF LimitInv, ScheduleInv
    <2>2. try' = 192
      BY <1>1, <2>1, Moves
    <2> QED BY <1>1, <1>2, <2>2
  <1>3. CASE i = 9
    <2>1. try = 192 /\ stp = 32
      BY <1>3, Turn DEF LimitInv, ScheduleInv
    <2>2. try' = 160
      BY <1>1, <2>1, Moves
    <2>3. stp' = 16
      <3>1. stp = stp' + stp'
        BY <1>3, Turn
      <3>2. stp = 32 => stp' = 16
        BY <1>1, <3>1, Halves
      <3> QED BY <2>1, <3>2
    <2> QED BY <1>1, <1>3, <2>2, <2>3
  <1>4. CASE i \in 5 .. 8
    <2>1. PICK h \in Int : h >= 1 /\ stp' = h /\ stp = h + h
      BY <1>4, Turn, TypeKept DEF Next, OsccalTypeOK
    <2>2. try >= 128 + 4 * h /\ try <= 192 - 4 * h
      BY <1>1, <1>4, <2>1, Turn DEF LimitInv
    <2>3. try' = try + h + h \/ try' = try - h - h
      <3>1. try + stp <= 255 /\ try - stp >= 0
        BY <1>1, <2>1, <2>2
      <3>2. try' = try + stp \/ try' = try - stp
        BY <1>1, <3>1, Moves
      <3> QED BY <1>1, <2>1, <3>2
    <2> QED BY <1>1, <1>4, <2>1, <2>2, <2>3
  <1>5. CASE i \in 1 .. 4
    <2>1. stp = 1
      BY <1>5, Turn
    <2>2. /\ i = 4 => try \in 130 .. 190
          /\ i = 3 => try \in 129 .. 191
      BY <1>1, <2>1, Turn DEF LimitInv
    <2>3. /\ try' = try + 1 \/ try' = try - 1
          /\ try = 192 => try' = 191
          /\ try = 128 => try' = 129
      <3>1. try + stp <= 255 /\ try - stp >= 0
        BY <1>1, <2>1
      <3> QED BY <1>1, <2>1, <3>1, Moves
    <2> QED BY <1>1, <1>5, <2>2, <2>3
  <1> QED BY <1>1, <1>2, <1>3, <1>4, <1>5

\* Neither a value that is tried nor the one that is kept is above 192.
LEMMA LimitKept ==
  OsccalTypeOK /\ ScheduleInv /\ BestInv /\ LimitInv /\ [Next]_vars => LimitInv'
PROOF
  <1> SUFFICES ASSUME OsccalTypeOK, ScheduleInv, BestInv, LimitInv, [Next]_vars, Normal'
               PROVE  LimitInv'
    BY DEF LimitInv
  <1>1. Normal /\ chip' = chip
    BY SameChip DEF Normal
  <1>2. /\ osccal \in {Factory} \cup 128 .. 192
        /\ \A v \in fine : v \in 128 .. 192
    BY <1>1 DEF LimitInv, WithinSpec, Normal
  <1>3. CASE Reset
    BY <1>2, <1>3 DEF Reset, LimitInv, WithinSpec
  <1>4. CASE Search
    <2>1. osccal' = try /\ i' = i - 1 /\ i \in 1 .. 10
      BY <1>4, Turn DEF ScheduleInv
    <2>2. \A v \in fine' : v \in 128 .. 192
      <3>1. fine' = fine \/ fine' = fine \cup {try}
        BY <1>4, <2>1, Turn
      <3> QED BY <1>1, <1>2, <1>4, <3>1, LimitTurn
    <2>3. /\ i' = 10 => try' = 128
          /\ i' = 9 => try' = 192
          /\ i' \in 4 .. 8 => try' \in 128 + 2 * stp' .. 192 - 2 * stp'
          /\ i' = 3 => try' \in 129 .. 191
          /\ try' \in 128 .. 192
      BY <1>1, <1>4, <2>1, LimitTurn
    <2>4. WithinSpec'
      BY <1>1, <1>4, <2>1, LimitTurn DEF WithinSpec
    <2> QED BY <2>2, <2>3, <2>4 DEF LimitInv
  <1>5. CASE Finish
    <2>1. pc = "set" /\ pc' = "main" /\ fine' = fine /\ osccal' = opV
      BY <1>5 DEF Finish
    <2>2. opV \in fine
      BY <2>1 DEF ScheduleInv, BestInv
    <2> QED BY <1>2, <2>1, <2>2 DEF LimitInv, WithinSpec
  <1>6. CASE UNCHANGED vars
    BY <1>6 DEF vars, LimitInv, WithinSpec, Normal
  <1> QED BY <1>3, <1>4, <1>5, <1>6 DEF Next

(***************************************************************************)
(* The theorems.                                                           *)
(***************************************************************************)
\* The invariant of the search, for every oscillator.
THEOREM SearchHolds == Spec => []SearchInv
PROOF
  <1>1. Init => SearchInv
    <2> SUFFICES ASSUME Init PROVE SearchInv
      OBVIOUS
    <2>1. /\ 255 \in Values /\ 128 \in Values
          /\ opV \in Values /\ osccal \in Values /\ chip \in Chips
      BY ByteIs, OsccalAssumption DEF Init
    <2>2. OsccalTypeOK
      BY <2>1 DEF Init, OsccalTypeOK
    <2> QED BY <2>2 DEF Init, SearchInv, ScheduleInv, BestInv, NearInv, LimitInv,
                        WithinSpec
  <1>2. SearchInv /\ [Next]_vars => SearchInv'
    BY TypeKept, ScheduleKept, BestKept, NearKept, LimitKept DEF SearchInv
  <1> QED BY <1>1, <1>2, PTL DEF Spec

\* The highest frequency of normal operation is that of 192.
THEOREM StaysWithinSpec == Spec => []WithinSpec
PROOF
  <1>1. SearchInv => WithinSpec
    BY DEF SearchInv, LimitInv, Normal, WithinSpec
  <1> QED BY <1>1, SearchHolds, PTL

\* Deviations that fit into a byte are compared as they are.
LEMMA TriedBest ==
  ASSUME SearchInv, pc = "main", fine # {}
  PROVE  BestTried
PROOF
  <1> SUFFICES ASSUME \A v \in fine : Off(v) <= 255
               PROVE  osccal \in fine /\ \A v \in fine : Off(osccal) <= Off(v)
    BY DEF BestTried
  <1>1. osccal = opV /\ opV \in fine /\ opD = Low(opV) /\ \A v \in fine : opD <= Low(v)
    BY DEF SearchInv, BestInv
  <1>2. chip \in Chips /\ fine \subseteq Values
    BY DEF SearchInv, OsccalTypeOK
  <1>3. \A v \in fine : Low(v) = Off(v)
    BY <1>2, Measured
  <1> QED BY <1>1, <1>3

\* Next to the target deviations fit into a byte, and further away no value is
\* better than the two next to it.
LEMMA HalfBest ==
  ASSUME SearchInv, pc = "main", fine # {}
  PROVE  BestOfHalf
PROOF
  <1> SUFFICES ASSUME Gradual, InReach, NEW w \in Half
               PROVE  Off(osccal) <= Off(w)
    BY DEF BestOfHalf
  <1>1. chip \in Chips /\ fine \subseteq Values
    BY DEF SearchInv, OsccalTypeOK
  <1>2. PICK c \in Half : BothSides(c)
    BY DEF SearchInv, NearInv
  <1>3. /\ c \in Int /\ w \in Int /\ c + 1 \in Half /\ c \in fine /\ c + 1 \in fine
        /\ chip[c] <= Target /\ chip[c + 1] > Target
        /\ \A v \in fine : v \in Half /\ v \in c - 1 .. c + 2
    BY <1>2, HalfIs DEF BothSides, Around, Straddles
  <1>4. /\ chip[c] \in Int /\ chip[c + 1] \in Int /\ Target \in Int /\ chip[w] \in Int
    BY <1>1, <1>3, HalfIs, Frames
  <1>5. ASSUME NEW v \in fine PROVE Off(v) <= 255
    <2>1. v \in Half /\ v \in Int /\ v >= c - 1 /\ v <= c + 2 /\ chip[v] \in Int
      BY <1>1, <1>3, HalfIs, Frames
    <2>2. CASE v <= c
      <3>1. /\ chip[v] <= chip[c]
            /\ chip[c + 1] - chip[v] <= 127 * (c + 1 - v)
        BY <1>1, <1>3, <2>1, <2>2, Slope
      <3> QED BY <1>3, <1>4, <2>1, <2>2, <3>1 DEF Off
    <2>3. CASE v >= c + 1
      <3>1. /\ chip[c + 1] <= chip[v]
            /\ chip[v] - chip[c] <= 127 * (v - c)
        BY <1>1, <1>3, <2>1, <2>3, Slope
      <3> QED BY <1>3, <1>4, <2>1, <2>3, <3>1 DEF Off
    <2> QED BY <1>3, <2>1, <2>2, <2>3
  <1>6. osccal \in fine /\ Off(osccal) <= Off(c) /\ Off(osccal) <= Off(c + 1)
    BY <1>3, <1>5, TriedBest DEF BestTried
  <1>7. Off(osccal) \in Int /\ Off(c) \in Int /\ Off(c + 1) \in Int /\ Off(w) \in Int
    BY <1>1, <1>3, <1>6, HalfIs, Measured
  <1>8. CASE w <= c
    <2>1. chip[w] <= chip[c]
      BY <1>1, <1>8, Slope
    <2>2. Off(c) <= Off(w)
      BY <1>3, <1>4, <2>1 DEF Off
    <2> QED BY <1>6, <1>7, <2>2
  <1>9. CASE w >= c + 1
    <2>1. chip[c + 1] <= chip[w]
      BY <1>1, <1>3, <1>9, Slope
    <2>2. Off(c + 1) <= Off(w)
      BY <1>3, <1>4, <2>1 DEF Off
    <2> QED BY <1>6, <1>7, <2>2
  <1> QED BY <1>3, <1>8, <1>9

\* The calibration ends at the best value it tried, and on a gradual oscillator
\* at the best there is in its half of the register.
THEOREM CalibrationTunes == Spec => []Tuned
PROOF
  <1>1. SearchInv => Tuned
    BY TriedBest, HalfBest DEF Tuned
  <1> QED BY <1>1, SearchHolds, PTL

=============================================================================
