----------------------------- MODULE ImagesProofs -----------------------------
(***************************************************************************)
(* The images mnflash and micronucleus load, for files of any length with  *)
(* any records, sections and words, and for any sizes of memory.           *)
(***************************************************************************)
EXTENDS Images, SequenceTheorems, TLAPS

(***************************************************************************)
(* Files.                                                                  *)
(***************************************************************************)
\* A file as it may be on a disk.
OnDisk(f) ==
    /\ f \in Files
    /\ f.format = "hex" => \A i \in DOMAIN f.lines :
        LET l == f.lines[i]
        IN  /\ Len(l.bytes) <= LineCells /\ l.len <= LineCells
            /\ l.addr + l.len < MaxData /\ l.addr + l.len <= DataBuffer

LEMMA DiskFiles ==
    ASSUME NEW d \in Disks, NEW n \in DOMAIN d
    PROVE  OnDisk(d[n])
BY FilesAssumption DEF OnDisk

LEMMA FormatOf ==
    ASSUME NEW f, OnDisk(f)
    PROVE  f.format \in {"hex", "elf", "raw"}
BY DEF OnDisk, Files

LEMMA HexFile ==
    ASSUME NEW f, OnDisk(f), f.format = "hex"
    PROVE  /\ f.lines \in Seq(Records)
           /\ \A i \in 1 .. Len(f.lines) :
                /\ f.lines[i] \in Records
                /\ f.lines[i].addr \in Nat /\ f.lines[i].len \in Nat
                /\ f.lines[i].mark \in BOOLEAN /\ f.lines[i].type \in Types
                /\ f.lines[i].bytes \in Seq(Bytes)
                /\ Len(f.lines[i].bytes) <= LineCells
                /\ f.lines[i].len <= LineCells
                /\ f.lines[i].addr + f.lines[i].len < MaxData
                /\ f.lines[i].addr + f.lines[i].len <= DataBuffer
<1>1. f.lines \in Seq(Records)
  BY DEF OnDisk, Files
<1>2. ASSUME NEW i \in 1 .. Len(f.lines)
      PROVE  /\ f.lines[i] \in Records
             /\ f.lines[i].addr \in Nat /\ f.lines[i].len \in Nat
             /\ f.lines[i].mark \in BOOLEAN /\ f.lines[i].type \in Types
             /\ f.lines[i].bytes \in Seq(Bytes)
  <2>1. f.lines[i] \in Records
    BY <1>1, ElementOfSeq
  <2> QED
    BY <2>1 DEF Records
<1>3. DOMAIN f.lines = 1 .. Len(f.lines)
  BY <1>1, LenProperties
<1> QED
  BY <1>1, <1>2, <1>3 DEF OnDisk

LEMMA ElfFile ==
    ASSUME NEW f, OnDisk(f), f.format = "elf"
    PROVE  /\ f.executable \in BOOLEAN
           /\ DOMAIN f.sections = Names
           /\ \A n \in Names :
                /\ f.sections[n].addr \in Nat /\ f.sections[n].sound \in BOOLEAN
                /\ f.sections[n].cells \in Seq(Bytes)
<1>1. f.executable \in BOOLEAN /\ f.sections \in [Names -> Sections]
  BY DEF OnDisk, Files
<1>2. ASSUME NEW n \in Names
      PROVE  /\ f.sections[n].addr \in Nat /\ f.sections[n].sound \in BOOLEAN
             /\ f.sections[n].cells \in Seq(Bytes)
  <2>1. f.sections[n] \in Sections
    BY <1>1
  <2> QED
    BY <2>1 DEF Sections
<1> QED
  BY <1>1, <1>2

LEMMA RawFile ==
    ASSUME NEW f, OnDisk(f), f.format = "raw"
    PROVE  /\ f.words \in Seq(Bytes) /\ Len(f.words) \in Nat \ {0}
           /\ DOMAIN f.words = 1 .. Len(f.words)
           /\ \A i \in 1 .. Len(f.words) : f.words[i] \in Bytes
<1>1. f.words \in Seq(Bytes) /\ f.words # <<>>
  BY DEF OnDisk, Files
<1> QED
  BY <1>1, EmptySeq, LenProperties, ElementOfSeq

(***************************************************************************)
(* Memory.                                                                 *)
(***************************************************************************)
LEMMA Constants ==
    /\ Alloc \in Nat \ {0} /\ LineCells \in Nat \ {0} /\ FlashSize \in Nat \ {0}
    /\ MaxData \in Nat /\ DataBuffer \in Nat /\ BufSize = Alloc
    /\ CheckInts \in Nat /\ 2 <= CheckInts /\ CheckInts <= BufSize
<1>1. Alloc \in Nat \ {0} /\ LineCells \in Nat \ {0} /\ FlashSize \in Nat \ {0}
  BY SizeAssumption
<1> QED
  BY <1>1, SizeAssumption

\* Products and quotients, for the solver.
LEMMA Products ==
    ASSUME NEW a \in Nat, NEW b \in Nat, NEW d \in Nat
    PROVE  /\ a * d \in Nat
           /\ a <= b => a * d <= b * d
           /\ a * d < b * d => a < b
           /\ (a + 1) * d = a * d + d
           /\ (2 * a) * d = a * (2 * d)
<1>1. a * d \in Nat /\ (a + 1) * d = a * d + d /\ (2 * a) * d = a * (2 * d)
  OBVIOUS
<1>2. a <= b => a * d <= b * d
  OBVIOUS
<1>3. b <= a => b * d <= a * d
  OBVIOUS
<1> QED
  BY <1>1, <1>2, <1>3

LEMMA Quotient ==
    ASSUME NEW n \in Nat, NEW d \in Nat \ {0}
    PROVE  /\ n \div d \in Nat
           /\ (n \div d) * d <= n
           /\ n < (n \div d) * d + d
           /\ n = (n \div d) * d + (n % d)
  OBVIOUS

LEMMA MaxDataUnits == \E k \in Nat : MaxData = (2 * k) * Alloc
<1>1. MaxData \in Nat /\ MaxData % (2 * Alloc) = 0 /\ Alloc \in Nat \ {0}
  BY Constants, SizeAssumption
<1> DEFINE k == MaxData \div (2 * Alloc)
<1>2. 2 * Alloc \in Nat \ {0}
  BY <1>1
<1>3. k \in Nat /\ MaxData = k * (2 * Alloc) + (MaxData % (2 * Alloc))
  BY <1>1, <1>2, Quotient
<1>4. MaxData = k * (2 * Alloc)
  BY <1>1, <1>2, <1>3
<1> HIDE DEF k
<1>5. (2 * k) * Alloc = k * (2 * Alloc)
  BY <1>1, <1>3, Products
<1> QED
  BY <1>3, <1>4, <1>5

LEMMA UnitAbove ==
    ASSUME NEW address \in Nat
    PROVE  /\ \E k \in Nat : NextUnit(address) = k * Alloc
           /\ NextUnit(address) \in Nat \ {0}
           /\ address < NextUnit(address) /\ NextUnit(address) <= address + Alloc
           /\ address < MaxData => NextUnit(address) <= MaxData
<1> DEFINE q == address \div Alloc
<1>1. q \in Nat /\ q * Alloc <= address /\ address < q * Alloc + Alloc
  BY Quotient, Constants
<1>2. NextUnit(address) = (q + 1) * Alloc
  BY DEF NextUnit
<1> HIDE DEF q
<1>3. (q + 1) * Alloc = q * Alloc + Alloc /\ q * Alloc \in Nat
  BY <1>1, Constants, Products
<1>4. ASSUME address < MaxData PROVE (q + 1) * Alloc <= MaxData
  <2>1. PICK k \in Nat : MaxData = (2 * k) * Alloc
    BY MaxDataUnits
  <2>2. DEFINE m == 2 * k
  <2>3. m \in Nat /\ q * Alloc < m * Alloc
    BY <1>1, <1>4, <2>1, Constants, <1>3
  <2> HIDE DEF m
  <2>4. q < m
    BY <2>3, <1>1, Constants, Products
  <2>5. (q + 1) * Alloc <= m * Alloc
    BY <2>3, <2>4, <1>1, Constants, Products
  <2> QED
    BY <2>1, <2>5 DEF m
<1> QED
  BY <1>1, <1>2, <1>3, <1>4, Constants

\* A blob, whatever its memory holds.
IsBlob(b) ==
    /\ b = [data |-> b.data, size |-> b.size, start |-> b.start, end |-> b.end]
    /\ b.start \in Nat /\ b.end \in Nat
    /\ DOMAIN b.data \in {{}, 0 .. b.size - 1}

\* A blob whose memory is what mnflash_firmware_resize has given it.
Sized(b) ==
    /\ IsBlob(b) /\ b.size \in Nat
    /\ \E k \in Nat : b.size = k * Alloc
    /\ IF b.data = NoData THEN b.size = 0
       ELSE b.size # 0 /\ DOMAIN b.data = 0 .. b.size - 1

LEMMA NothingThere ==
    /\ DOMAIN NoData = {}
    /\ Sized(mnflash_firmware_new) /\ mnflash_firmware_new.data = NoData
    /\ mnflash_firmware_new.size = 0
    /\ mnflash_firmware_new.start = 0 /\ mnflash_firmware_new.end = 0
<1>1. DOMAIN NoData = {}
  BY DEF NoData
<1>2. 0 = 0 * Alloc
  BY Constants
<1> QED
  BY <1>1, <1>2 DEF mnflash_firmware_new, Sized, IsBlob

\* What mnflash_firmware_resize gives in any case.
LEMMA ResizeBlob ==
    ASSUME NEW b, IsBlob(b), NEW address \in Nat
    PROVE  /\ IsBlob(resize(b, address))
           /\ resize(b, address).start = b.start /\ resize(b, address).end = b.end
<1> DEFINE new == NextUnit(address)
<1>1. CASE Enough(b, address)
  BY <1>1 DEF resize
<1>2. CASE ~Enough(b, address) /\ new > MaxData
  <2>1. resize(b, address) = [b EXCEPT !.data = NoData]
    BY <1>2 DEF resize
  <2>2. resize(b, address) = [data |-> NoData, size |-> b.size,
                              start |-> b.start, end |-> b.end]
    BY <2>1 DEF IsBlob
  <2> QED
    BY <2>2, NothingThere DEF IsBlob
<1>3. CASE ~Enough(b, address) /\ ~(new > MaxData)
  <2>1. resize(b, address) = [b EXCEPT !.data = Grown(b, new), !.size = new]
    BY <1>3 DEF resize
  <2>2. resize(b, address) = [data |-> Grown(b, new), size |-> new,
                              start |-> b.start, end |-> b.end]
    BY <2>1 DEF IsBlob
  <2>3. DOMAIN Grown(b, new) = 0 .. new - 1
    BY DEF Grown
  <2> QED
    BY <2>2, <2>3 DEF IsBlob
<1> QED
  BY <1>1, <1>2, <1>3

\* What it gives when the next unit is not too much.
LEMMA ResizeRoom ==
    ASSUME NEW b, Sized(b), NEW address \in Nat,
           Enough(b, address) \/ NextUnit(address) <= MaxData
    PROVE  LET r == resize(b, address)
           IN  /\ Sized(r) /\ r.data # NoData
               /\ r.size = IF Enough(b, address) THEN b.size ELSE NextUnit(address)
               /\ r.size >= address /\ r.size >= b.size
               /\ DOMAIN r.data = 0 .. r.size - 1
               /\ \A a \in 0 .. r.size - 1 :
                    r.data[a] = IF a < b.size THEN b.data[a] ELSE Gap
<1> DEFINE r == resize(b, address)
           new == NextUnit(address)
<1>1. CASE Enough(b, address)
  <2>1. r = b /\ b.size >= address /\ b.data # NoData
    BY <1>1 DEF resize, Enough
  <2>2. \A a \in 0 .. r.size - 1 : a < b.size
    BY <2>1 DEF Sized
  <2> QED
    BY <2>1, <2>2, <1>1 DEF Sized
<1>2. CASE ~Enough(b, address)
  <2>0. new \in Nat /\ MaxData \in Nat /\ new <= MaxData
    BY <1>2, UnitAbove, Constants
  <2>1. r = [b EXCEPT !.data = Grown(b, new), !.size = new]
    BY <1>2, <2>0 DEF resize
  <2>2. r = [data |-> Grown(b, new), size |-> new, start |-> b.start, end |-> b.end]
    BY <2>1 DEF Sized, IsBlob
  <2>3. DOMAIN Grown(b, new) = 0 .. new - 1
    BY DEF Grown
  <2>4. new \in Nat \ {0} /\ address < new /\ \E k \in Nat : new = k * Alloc
    BY UnitAbove
  <2>5. IsBlob(r)
    BY <1>2, ResizeBlob DEF Sized
  <2>6. Grown(b, new) # NoData
    BY <2>3, <2>4, NothingThere
  <2>7. Sized(r)
    BY <2>2, <2>3, <2>4, <2>5, <2>6 DEF Sized
  <2>8. r.size >= b.size
    <3>1. CASE b.data = NoData
      BY <3>1, <2>2, <2>4 DEF Sized
    <3>2. CASE ~(b.size >= address)
      BY <3>2, <2>2, <2>4 DEF Sized
    <3> QED
      BY <3>1, <3>2, <1>2 DEF Enough
  <2>9. \A a \in 0 .. r.size - 1 :
            r.data[a] = IF a < b.size THEN b.data[a] ELSE Gap
    BY <2>2 DEF Grown
  <2> QED
    BY <2>2, <2>3, <2>4, <2>6, <2>7, <2>8, <2>9, <1>2
<1> QED
  BY <1>1, <1>2

LEMMA StoredThere ==
    ASSUME NEW data, NEW a, NEW cells
    PROVE  /\ DOMAIN Stored(data, a, cells) = DOMAIN data
           /\ \A x \in DOMAIN data : Stored(data, a, cells)[x] =
                IF x - a + 1 \in 1 .. Len(cells) /\ cells[x - a + 1] # Nul
                THEN cells[x - a + 1] ELSE data[x]
BY DEF Stored

\* Storing and moving the addresses leaves a blob a blob.
Filled(r, a, cells, start, end) ==
    [r EXCEPT !.data = Stored(r.data, a, cells), !.start = start, !.end = end]

LEMMA StoredBlob ==
    ASSUME NEW r, NEW a, NEW cells, NEW start \in Nat, NEW end \in Nat, IsBlob(r)
    PROVE  LET b == Filled(r, a, cells, start, end)
           IN  /\ IsBlob(b) /\ b.data = Stored(r.data, a, cells)
               /\ b.size = r.size /\ b.start = start /\ b.end = end
               /\ Sized(r) => Sized(b)
<1> DEFINE b == Filled(r, a, cells, start, end)
<1>0. b = [r EXCEPT !.data = Stored(r.data, a, cells), !.start = start, !.end = end]
  BY DEF Filled
<1> HIDE DEF b
<1>1. b = [data |-> Stored(r.data, a, cells), size |-> r.size,
           start |-> start, end |-> end]
  BY <1>0 DEF IsBlob
<1>2. DOMAIN b.data = DOMAIN r.data
  BY <1>1, StoredThere
<1>3. IsBlob(b)
  BY <1>1, <1>2 DEF IsBlob
<1>4. ASSUME Sized(r) PROVE Sized(b)
  <2>1. CASE r.data = NoData
    <3>1. b.data = NoData
      BY <2>1, <1>1, NothingThere DEF Stored, NoData
    <3> QED
      BY <2>1, <3>1, <1>1, <1>3, <1>4 DEF Sized
  <2>2. CASE r.data # NoData
    <3>1. r.size # 0 /\ r.size \in Nat /\ DOMAIN r.data = 0 .. r.size - 1
      BY <2>2, <1>4 DEF Sized
    <3>2. b.data # NoData
      BY <3>1, <1>2, NothingThere
    <3> QED
      BY <3>1, <3>2, <1>1, <1>2, <1>3, <1>4 DEF Sized
  <2> QED
    BY <2>1, <2>2
<1> QED
  BY <1>1, <1>3, <1>4 DEF b

(***************************************************************************)
(* The image of a HEX file, record by record.                              *)
(***************************************************************************)
LEMMA HexNone ==
    ASSUME NEW f, NEW a
    PROVE  HexImage(f, 0, a) = Gap
<1>1. {i \in 1 .. 0 : Covers(f.lines[i], a)} = {}
  OBVIOUS
<1> QED
  BY <1>1 DEF HexImage

LEMMA HexGiven ==
    ASSUME NEW f, NEW m, NEW a, HexImage(f, m, a) # Gap
    PROVE  \E i \in 1 .. m : Covers(f.lines[i], a)
BY DEF HexImage

LEMMA HexStep ==
    ASSUME NEW f, NEW m \in Nat, NEW a
    PROVE  HexImage(f, m + 1, a) =
             IF Covers(f.lines[m + 1], a)
             THEN f.lines[m + 1].bytes[a - f.lines[m + 1].addr + 1]
             ELSE HexImage(f, m, a)
<1> DEFINE S(k) == {i \in 1 .. k : Covers(f.lines[i], a)}
<1>1. CASE Covers(f.lines[m + 1], a)
  <2>1. m + 1 \in S(m + 1) /\ \A j \in S(m + 1) : j \in Nat /\ j <= m + 1
    BY <1>1
  <2>2. Last(S(m + 1)) = m + 1
    <3> DEFINE T == S(m + 1)
    <3>1. m + 1 \in T /\ \A j \in T : j \in Nat /\ j <= m + 1
      BY <2>1
    <3> HIDE DEF T
    <3>2. \A i \in T : (\A j \in T : j <= i) => i = m + 1
      BY <3>1
    <3>3. Last(T) \in T /\ \A j \in T : j <= Last(T)
      BY <3>1 DEF Last
    <3>4. Last(T) = m + 1
      BY <3>2, <3>3
    <3> QED
      BY <3>4 DEF T
  <2> QED
    BY <1>1, <2>1, <2>2 DEF HexImage
<1>2. CASE ~Covers(f.lines[m + 1], a)
  <2>1. S(m + 1) = S(m)
    BY <1>2
  <2> QED
    BY <1>2, <2>1 DEF HexImage
<1> QED
  BY <1>1, <1>2

(***************************************************************************)
(* What each loader has made of the part of a file it has read.            *)
(***************************************************************************)
\* mnflash_ihex_load after n records.
HexLoads(b, f, n) ==
    /\ f.format = "hex" /\ n \in 0 .. Len(f.lines) /\ Sized(b)
    /\ \A i \in 1 .. n : Acceptable(f.lines[i])
    /\ \A i \in 1 .. n : f.lines[i].type = "data" =>
            /\ b.data # NoData
            /\ f.lines[i].addr + f.lines[i].len <= b.size
            /\ b.start <= f.lines[i].addr
            /\ Ascending(f) => f.lines[i].addr + f.lines[i].len <= b.end
    /\ Whole(f) => \A a \in DOMAIN b.data : b.data[a] = HexImage(f, n, a)

\* parseIntelHex after n records; its memory is there from the beginning.
ParseLoads(b, f, n) ==
    /\ f.format = "hex" /\ n \in 0 .. Len(f.lines)
    /\ IsBlob(b) /\ DOMAIN b.data = 0 .. DataBuffer - 1
    /\ \A i \in 1 .. Len(f.lines) : Complete(f.lines[i])
    /\ \A i \in 1 .. n : f.lines[i].mark /\ f.lines[i].type = "data" =>
            /\ b.start <= f.lines[i].addr
            /\ f.lines[i].addr + f.lines[i].len <= b.end
    /\ \A a \in DOMAIN b.data : b.data[a] = HexImage(f, n, a)

\* mnflash_elf_load after n sections.
SectionGood(f, i) ==
    Part(f, i) = <<>> \/ f.sections[sections[i]].sound

ElfPlaced(b, f, n) ==
    LET text == f.sections[".text"].addr
    IN  /\ Sized(b) /\ b.data # NoData
        /\ b.start = text /\ b.end = text + Len(Joined(f, n)) /\ b.end <= b.size
        /\ \A a \in DOMAIN b.data : b.data[a] = ElfImage(f, n, a)

ElfLoads(b, f, n) ==
    /\ IsBlob(b) /\ n \in 0 .. 5
    /\ n = 0 => b = mnflash_firmware_new
    /\ n > 0 => /\ f.format = "elf" /\ f.executable
                /\ \A i \in 1 .. n : SectionGood(f, i)
                /\ PlacedAlike(f) => ElfPlaced(b, f, n)

\* mnflash_raw_load after n words.
RawVectors(f) ==
    /\ Len(f.words) >= CheckInts
    /\ \A i \in 1 .. CheckInts : f.words[i] = "rjmp"

RawLoads(b, f, n) ==
    /\ f.format = "raw" /\ n \in 0 .. Len(f.words) /\ Sized(b)
    /\ b.start = 0 /\ b.end = n /\ n <= b.size /\ b.size <= MaxData
    /\ n < Len(f.words) =>
            /\ \E k \in Nat : b.size = (2 * k) * Alloc
            /\ \E k \in Nat : n = k * Alloc
            /\ b.size \in {n, n + Alloc}
    /\ n > 0 => RawVectors(f)
    /\ \A a \in DOMAIN b.data :
            b.data[a] = IF a < n THEN f.words[a + 1] ELSE Gap

(***************************************************************************)
(* mnflash_ihex_load.                                                      *)
(***************************************************************************)
LEMMA HexBegins ==
    ASSUME NEW f, OnDisk(f), f.format = "hex"
    PROVE  HexLoads(mnflash_firmware_new, f, 0)
<1>1. 0 \in 0 .. Len(f.lines)
  BY HexFile, LenProperties
<1>2. mnflash_firmware_new.data = NoData /\ Sized(mnflash_firmware_new)
  BY NothingThere
<1>3. \A a \in DOMAIN mnflash_firmware_new.data :
          mnflash_firmware_new.data[a] = HexImage(f, 0, a)
  BY <1>2, NothingThere
<1> QED
  BY <1>1, <1>2, <1>3 DEF HexLoads

\* The bytes of a record, none of them left out.
BytesOf(l, cells) ==
    /\ Len(cells) = l.len
    /\ \A i \in 1 .. l.len : cells[i] = l.bytes[i] /\ cells[i] # Nul

\* A data record: the digits of a whole one are its bytes.
LEMMA HexReadsData ==
    ASSUME NEW f, OnDisk(f), NEW n \in Nat, NEW b, NEW cells,
           HexLoads(b, f, n), n < Len(f.lines),
           Acceptable(f.lines[n + 1]),
           f.lines[n + 1].type = "data",
           Whole(f) => BytesOf(f.lines[n + 1], cells)
    PROVE  LET l == f.lines[n + 1]
               r == resize(b, l.addr + l.len)
           IN  /\ HexLoads(Filled(r, l.addr, cells, LowestStart(b, l.addr),
                                  l.addr + l.len), f, n + 1)
               /\ InBounds(r.data, l.addr, l.len)
<1> DEFINE l == f.lines[n + 1]
           room == resize(b, l.addr + l.len)
           new == Filled(room, l.addr, cells, LowestStart(b, l.addr), l.addr + l.len)
<1>1. f.format = "hex" /\ Sized(b) /\ Len(f.lines) \in Nat
  BY HexFile, LenProperties DEF HexLoads
<1>2. n + 1 \in 1 .. Len(f.lines)
  BY <1>1
<1>3. l.addr \in Nat /\ l.len \in Nat /\ l.addr + l.len < MaxData
  BY <1>1, <1>2, HexFile
<1>4. NextUnit(l.addr + l.len) <= MaxData
  BY <1>3, UnitAbove
<1> HIDE DEF l
<1>5. /\ Sized(room) /\ room.data # NoData
      /\ room.size >= l.addr + l.len /\ room.size >= b.size
      /\ DOMAIN room.data = 0 .. room.size - 1
      /\ \A a \in 0 .. room.size - 1 :
            room.data[a] = IF a < b.size THEN b.data[a] ELSE Gap
  BY <1>1, <1>3, <1>4, ResizeRoom
<1> HIDE DEF room
<1>6. LowestStart(b, l.addr) \in Nat /\ LowestStart(b, l.addr) <= l.addr
      /\ (b.data # NoData => LowestStart(b, l.addr) <= b.start)
  BY <1>1, <1>3 DEF LowestStart, Sized, IsBlob
<1>8. /\ Sized(new) /\ new.data = Stored(room.data, l.addr, cells)
      /\ new.size = room.size /\ new.start = LowestStart(b, l.addr)
      /\ new.end = l.addr + l.len
  <2>1. l.addr + l.len \in Nat /\ LowestStart(b, l.addr) \in Nat /\ IsBlob(room)
    BY <1>3, <1>5, <1>6 DEF Sized
  <2> QED
    BY <2>1, <1>5, StoredBlob
<1> HIDE DEF new
<1>9. DOMAIN new.data = 0 .. room.size - 1 /\ room.size \in Nat \ {0}
      /\ b.size \in Nat
  BY <1>1, <1>5, <1>8, StoredThere DEF Sized
<1>10. new.data # NoData
  BY <1>9, NothingThere
<1>11. InBounds(room.data, l.addr, l.len)
  BY <1>3, <1>5, <1>9 DEF InBounds
<1>12. ASSUME NEW i \in 1 .. n + 1
       PROVE  Acceptable(f.lines[i])
  <2>1. CASE i = n + 1
    BY <2>1
  <2>2. CASE i \in 1 .. n
    BY <2>2 DEF HexLoads
  <2> QED
    BY <2>1, <2>2
<1>13. ASSUME NEW i \in 1 .. n + 1, f.lines[i].type = "data"
       PROVE  /\ f.lines[i].addr + f.lines[i].len <= new.size
              /\ new.start <= f.lines[i].addr
              /\ Ascending(f) => f.lines[i].addr + f.lines[i].len <= new.end
  <2>1. CASE i = n + 1
    BY <2>1, <1>3, <1>5, <1>6, <1>8 DEF l
  <2>2. CASE i \in 1 .. n
    <3>1. /\ b.data # NoData
          /\ f.lines[i].addr + f.lines[i].len <= b.size
          /\ b.start <= f.lines[i].addr
      BY <2>2, <1>13 DEF HexLoads
    <3>2. i \in DOMAIN f.lines /\ n + 1 \in DOMAIN f.lines /\ i < n + 1
      BY <2>2, <1>1, <1>2, HexFile, LenProperties
    <3>3. f.lines[i].addr \in Nat /\ f.lines[i].len \in Nat
      BY <1>1, <1>2, <2>2, HexFile
    <3>4. Ascending(f) => f.lines[i].addr + f.lines[i].len <= l.addr
      BY <3>2, <1>1, <1>13 DEF Ascending, l
    <3>5. b.start \in Nat
      BY <1>1 DEF Sized, IsBlob
    <3>6. f.lines[i].addr + f.lines[i].len <= new.size
      BY <3>1, <3>3, <1>5, <1>8, <1>9
    <3>7. new.start <= f.lines[i].addr
      BY <3>1, <3>3, <3>5, <1>6, <1>8
    <3>8. Ascending(f) => f.lines[i].addr + f.lines[i].len <= new.end
      BY <3>3, <3>4, <1>3, <1>8, SMTT(30)
    <3> QED
      BY <3>6, <3>7, <3>8
  <2> QED
    BY <2>1, <2>2
<1>14. ASSUME Whole(f), NEW a \in DOMAIN new.data
       PROVE  new.data[a] = HexImage(f, n + 1, a)
  <2>1. a \in 0 .. room.size - 1 /\ a \in DOMAIN room.data
    BY <1>5, <1>9
  <2>2. l.mark /\ l.type = "data"
    BY DEF Acceptable, l
  <2>3. Covers(l, a) <=> a - l.addr + 1 \in 1 .. l.len
    <3>1. a \in Nat
      BY <2>1, <1>9
    <3>2. Covers(l, a) <=> a \in l.addr .. l.addr + l.len - 1
      BY <2>2 DEF Covers
    <3> QED
      BY <3>1, <3>2, <1>3, SMTT(30)
  <2>4. Len(cells) = l.len /\ \A i \in 1 .. l.len :
            cells[i] = l.bytes[i] /\ cells[i] # Nul
    BY <1>14 DEF l, BytesOf
  <2>5. new.data[a] = IF Covers(l, a) THEN l.bytes[a - l.addr + 1]
                      ELSE room.data[a]
    BY <2>1, <2>3, <2>4, <1>8, StoredThere
  <2>6. ~Covers(l, a) => room.data[a] = HexImage(f, n, a)
    <3>1. CASE a < b.size
      <4>1. a \in DOMAIN b.data
        BY <3>1, <2>1, <1>1, <1>9 DEF Sized
      <4> QED
        BY <4>1, <3>1, <2>1, <1>5, <1>14 DEF HexLoads
    <3>2. CASE ~(a < b.size)
      <4>1. room.data[a] = Gap
        BY <3>2, <2>1, <1>5
      <4>2. ASSUME NEW i \in 1 .. n, Covers(f.lines[i], a) PROVE FALSE
        <5>1. f.lines[i].type = "data"
          BY <4>2 DEF Covers
        <5>2. f.lines[i].addr \in Nat /\ f.lines[i].len \in Nat
          <6>1. i \in 1 .. Len(f.lines)
            BY <1>1
          <6> QED
            BY <6>1, <1>1, HexFile
        <5>3. f.lines[i].addr + f.lines[i].len <= b.size
          BY <5>1 DEF HexLoads
        <5>4. a < f.lines[i].addr + f.lines[i].len
          BY <4>2, <5>2, <2>1, <1>9, SMTT(30) DEF Covers
        <5> QED
          BY <5>2, <5>3, <5>4, <3>2, <2>1, <1>9, SMTT(30)
      <4> QED
        BY <4>1, <4>2, HexGiven
    <3> QED
      BY <3>1, <3>2
  <2> QED
    BY <2>5, <2>6, HexStep DEF l
<1>15. HexLoads(new, f, n + 1)
  <2>1. n + 1 \in 0 .. Len(f.lines)
    BY <1>2
  <2> QED
    BY <2>1, <1>1, <1>8, <1>10, <1>12, <1>13, <1>14 DEF HexLoads
<1> QED
  BY <1>11, <1>15 DEF room, l, new

\* A record of another type.
LEMMA HexReadsOther ==
    ASSUME NEW f, OnDisk(f), NEW n \in Nat, NEW b,
           HexLoads(b, f, n), n < Len(f.lines),
           Acceptable(f.lines[n + 1]),
           f.lines[n + 1].type # "data"
    PROVE  HexLoads(b, f, n + 1)
<1>1. f.format = "hex" /\ Sized(b) /\ Len(f.lines) \in Nat
  BY HexFile, LenProperties DEF HexLoads
<1>2. n + 1 \in 0 .. Len(f.lines) /\ \A i \in 1 .. n + 1 : i = n + 1 \/ i \in 1 .. n
  BY <1>1
<1>3. \A a : HexImage(f, n + 1, a) = HexImage(f, n, a)
  BY HexStep DEF Covers
<1> QED
  BY <1>1, <1>2, <1>3 DEF HexLoads

\* What a HEX file is taken for, and what of it is uploaded.
LEMMA HexEnds ==
    ASSUME NEW f, OnDisk(f), NEW b, HexLoads(b, f, Len(f.lines))
    PROVE  /\ Sound(f)
           /\ Whole(f) => \A a \in DOMAIN b.data :
                /\ b.data[a] = FileImage(f, a)
                /\ FileImage(f, a) # Gap =>
                        a >= b.start /\ (Ascending(f) => a < b.end)
<1>1. f.format = "hex" /\ Sized(b) /\ Len(f.lines) \in Nat
      /\ DOMAIN f.lines = 1 .. Len(f.lines)
  BY HexFile, LenProperties DEF HexLoads
<1>2. Sound(f)
  BY <1>1 DEF HexLoads, Acceptable, Sound
<1>3. ASSUME NEW a \in DOMAIN b.data, FileImage(f, a) # Gap
      PROVE  a >= b.start /\ (Ascending(f) => a < b.end)
  <2>1. PICK i \in 1 .. Len(f.lines) : Covers(f.lines[i], a)
    BY <1>1, <1>3, HexGiven DEF FileImage
  <2>2. f.lines[i].addr \in Nat /\ f.lines[i].len \in Nat
    BY <1>1, HexFile
  <2>3. b.start <= f.lines[i].addr
        /\ (Ascending(f) => f.lines[i].addr + f.lines[i].len <= b.end)
    BY <2>1 DEF HexLoads, Covers
  <2>4. a \in f.lines[i].addr .. f.lines[i].addr + f.lines[i].len - 1
    BY <2>1 DEF Covers
  <2>5. b.start \in Nat /\ b.end \in Nat
    BY <1>1 DEF Sized, IsBlob
  <2> QED
    BY <2>2, <2>3, <2>4, <2>5, SMTT(30)
<1>4. ASSUME Whole(f), NEW a \in DOMAIN b.data PROVE b.data[a] = FileImage(f, a)
  BY <1>1, <1>4 DEF HexLoads, FileImage
<1> QED
  BY <1>2, <1>3, <1>4

(***************************************************************************)
(* mnflash_elf_load.                                                       *)
(***************************************************************************)
LEMMA SectionNames ==
    /\ sections[1] = ".text" /\ sections[2] = ".data" /\ sections[3] = ".payload"
    /\ sections[4] = ".payloadvectors" /\ sections[5] = ".signature"
    /\ Len(sections) = 5 /\ \A i \in 1 .. 5 : sections[i] \in Names
    /\ \A n \in Names : \E i \in 1 .. 5 : n = sections[i]
<1>1. /\ sections[1] = ".text" /\ sections[2] = ".data" /\ sections[3] = ".payload"
      /\ sections[4] = ".payloadvectors" /\ sections[5] = ".signature"
      /\ Len(sections) = 5
  BY DEF sections
<1>2. \A i \in 1 .. 5 : i = 1 \/ i = 2 \/ i = 3 \/ i = 4 \/ i = 5
  OBVIOUS
<1>3. \A i \in 1 .. 5 : sections[i] \in Names
  BY <1>1, <1>2 DEF Names
<1>4. \A n \in Names : \E i \in 1 .. 5 : n = sections[i]
  BY <1>1 DEF Names
<1> QED
  BY <1>1, <1>3, <1>4

LEMMA SectionCells ==
    ASSUME NEW f, OnDisk(f), f.format = "elf", NEW i \in 1 .. 5
    PROVE  /\ Part(f, i) \in Seq(Bytes) /\ Len(Part(f, i)) \in Nat
           /\ Part(f, i) # <<>> => Len(Part(f, i)) > 0
           /\ f.sections[sections[i]].addr \in Nat
<1>1. Part(f, i) \in Seq(Bytes) /\ f.sections[sections[i]].addr \in Nat
  BY ElfFile, SectionNames DEF Part
<1> QED
  BY <1>1, EmptySeq, LenProperties

\* The sections one behind the other.
LEMMA JoinedGrows ==
    ASSUME NEW f, OnDisk(f), f.format = "elf"
    PROVE  /\ Joined(f, 0) = <<>> /\ Joined(f, 5) = Joined(f, 4)
           /\ \A n \in 0 .. 4 : Joined(f, n) \in Seq(Bytes)
           /\ \A n \in 0 .. 3 :
                Joined(f, n + 1) = Joined(f, n) \o Part(f, n + 1)
<1>1. Part(f, 1) \in Seq(Bytes) /\ Part(f, 2) \in Seq(Bytes) /\ Part(f, 3) \in Seq(Bytes)
      /\ Part(f, 4) \in Seq(Bytes)
  BY SectionCells
<1>2. /\ Joined(f, 0) = <<>> /\ Joined(f, 1) = Part(f, 1) /\ Joined(f, 2) = Part(f, 1) \o Part(f, 2)
      /\ Joined(f, 3) = Part(f, 1) \o Part(f, 2) \o Part(f, 3)
      /\ Joined(f, 4) = Part(f, 1) \o Part(f, 2) \o Part(f, 3) \o Part(f, 4)
      /\ Joined(f, 5) = Part(f, 1) \o Part(f, 2) \o Part(f, 3) \o Part(f, 4)
  <2>1. Joined(f, 0) = <<>> /\ Joined(f, 1) = Part(f, 1)
    BY DEF Joined
  <2>2. Joined(f, 2) = Part(f, 1) \o Part(f, 2)
    BY DEF Joined
  <2>3. Joined(f, 3) = Part(f, 1) \o Part(f, 2) \o Part(f, 3)
    BY DEF Joined
  <2>4. Joined(f, 4) = Part(f, 1) \o Part(f, 2) \o Part(f, 3) \o Part(f, 4)
    BY DEF Joined
  <2>5. Joined(f, 5) = Part(f, 1) \o Part(f, 2) \o Part(f, 3) \o Part(f, 4)
    BY DEF Joined
  <2> QED
    BY <2>1, <2>2, <2>3, <2>4, <2>5
<1>3. <<>> \in Seq(Bytes) /\ <<>> \o Part(f, 1) = Part(f, 1)
  BY <1>1, EmptySeq, ConcatEmptySeq
<1>4. Part(f, 1) \o Part(f, 2) \in Seq(Bytes)
  BY <1>1, ConcatProperties
<1>5. Part(f, 1) \o Part(f, 2) \o Part(f, 3) \in Seq(Bytes)
  BY <1>1, <1>4, ConcatProperties
<1>6. Part(f, 1) \o Part(f, 2) \o Part(f, 3) \o Part(f, 4) \in Seq(Bytes)
  BY <1>1, <1>5, ConcatProperties
<1>7. ASSUME NEW n \in 0 .. 4 PROVE Joined(f, n) \in Seq(Bytes)
  <2>1. n = 0 \/ n = 1 \/ n = 2 \/ n = 3 \/ n = 4
    OBVIOUS
  <2> QED
    BY <2>1, <1>1, <1>2, <1>3, <1>4, <1>5, <1>6
<1>8. ASSUME NEW n \in 0 .. 3 PROVE Joined(f, n + 1) = Joined(f, n) \o Part(f, n + 1)
  <2>1. n = 0 \/ n = 1 \/ n = 2 \/ n = 3
    OBVIOUS
  <2>2. CASE n = 0
    <3>1. n + 1 = 1
      BY <2>2
    <3> QED
      BY <3>1, <2>2, <1>2, <1>3
  <2>3. CASE n = 1
    <3>1. n + 1 = 2
      BY <2>3
    <3> QED
      BY <3>1, <2>3, <1>2
  <2>4. CASE n = 2
    <3>1. n + 1 = 3
      BY <2>4
    <3> QED
      BY <3>1, <2>4, <1>2
  <2>5. CASE n = 3
    <3>1. n + 1 = 4
      BY <2>5
    <3> QED
      BY <3>1, <2>5, <1>2
  <2> QED
    BY <2>1, <2>2, <2>3, <2>4, <2>5
<1> QED
  BY <1>2, <1>7, <1>8

\* Whole units that hold what is linked hold what is loaded.
LEMMA UnitsHold ==
    ASSUME NEW linked \in Nat \ {0}, NEW loaded \in Nat \ {0}, NEW k \in Nat,
           (loaded - 1) \div Alloc <= (linked - 1) \div Alloc,
           linked <= k * Alloc
    PROVE  loaded <= k * Alloc
<1> DEFINE q1 == (loaded - 1) \div Alloc
           q2 == (linked - 1) \div Alloc
<1>1. q1 \in Nat /\ loaded - 1 < q1 * Alloc + Alloc
  BY Quotient, Constants
<1>2. q2 \in Nat /\ q2 * Alloc <= linked - 1
  BY Quotient, Constants
<1>3. q1 <= q2
  OBVIOUS
<1> HIDE DEF q1, q2
<1>4. q2 * Alloc \in Nat /\ k * Alloc \in Nat
  BY <1>2, Constants, Products
<1>5. q2 < k
  BY <1>2, <1>4, Constants, Products
<1>6. (q1 + 1) * Alloc <= k * Alloc
  BY <1>1, <1>2, <1>3, <1>5, Constants, Products
<1>7. (q1 + 1) * Alloc = q1 * Alloc + Alloc /\ q1 * Alloc \in Nat
  BY <1>1, Constants, Products
<1> QED
  BY <1>1, <1>4, <1>6, <1>7, Constants

\* A section appended to those before it.
LEMMA ElfFills ==
    ASSUME NEW f, OnDisk(f), f.format = "elf", NEW n \in 0 .. 3, NEW room,
           Sized(room), room.data # NoData,
           \A a \in DOMAIN room.data : room.data[a] = ElfImage(f, n, a),
           f.sections[".text"].addr + Len(Joined(f, n))
             + Len(Part(f, n + 1)) <= room.size
    PROVE  LET text  == f.sections[".text"].addr
               cells == Part(f, n + 1)
               at    == text + Len(Joined(f, n))
           IN  /\ ElfPlaced(Filled(room, at, cells, text, at + Len(cells)), f, n + 1)
               /\ InBounds(room.data, at, Len(cells))
<1> DEFINE text  == f.sections[".text"].addr
           cells == Part(f, n + 1)
           old   == Joined(f, n)
           at    == text + Len(old)
           new   == Filled(room, at, cells, text, at + Len(cells))
<1>1. text \in Nat
  BY ElfFile DEF Names
<1>2. cells \in Seq(Bytes) /\ Len(cells) \in Nat
  BY SectionCells
<1>3. old \in Seq(Bytes)
  BY JoinedGrows, SMTT(30)
<1>4. Len(old) \in Nat
  BY <1>3, LenProperties
<1>5. Joined(f, n + 1) = old \o cells
  BY JoinedGrows
<1>6. at + Len(cells) <= room.size /\ room.size \in Nat
      /\ DOMAIN room.data = 0 .. room.size - 1 /\ IsBlob(room)
  BY DEF Sized
<1>6a. \A a \in DOMAIN room.data : room.data[a] = ElfImage(f, n, a)
  OBVIOUS
<1> HIDE DEF text, cells, old
<1>7. at \in Nat /\ at + Len(cells) \in Nat
  BY <1>1, <1>2, <1>4
<1>8. /\ Len(old \o cells) = Len(old) + Len(cells)
      /\ \A i \in 1 .. Len(old) + Len(cells) : (old \o cells)[i] =
            IF i <= Len(old) THEN old[i] ELSE cells[i - Len(old)]
  BY <1>2, <1>3, ConcatProperties
<1>9. /\ Sized(new) /\ new.data = Stored(room.data, at, cells)
      /\ new.size = room.size /\ new.start = text /\ new.end = at + Len(cells)
  BY <1>1, <1>6, <1>7, StoredBlob
<1> HIDE DEF new
<1>10. DOMAIN new.data = DOMAIN room.data
  BY <1>9, StoredThere
<1>11. new.data # NoData
  BY <1>10, NothingThere, <1>6 DEF Sized
<1>12. InBounds(room.data, at, Len(cells))
  BY <1>2, <1>6, <1>7, SMTT(30) DEF InBounds
<1>13. ASSUME NEW a \in DOMAIN new.data PROVE new.data[a] = ElfImage(f, n + 1, a)
  <2> DEFINE i == a - text + 1
  <2>1. a \in Nat /\ a \in DOMAIN room.data
    BY <1>6, <1>10
  <2>2. a - at + 1 = i - Len(old) /\ i \in Int
    BY <2>1, <1>1, <1>4
  <2>3. ElfImage(f, n, a) = IF i \in 1 .. Len(old) THEN old[i] ELSE Gap
    BY DEF ElfImage, text, old
  <2>4. ElfImage(f, n + 1, a) =
            IF i \in 1 .. Len(old) + Len(cells) THEN (old \o cells)[i] ELSE Gap
    BY <1>5, <1>8 DEF ElfImage, text
  <2> HIDE DEF i, at
  <2>5. CASE i - Len(old) \in 1 .. Len(cells)
    <3>1. cells[i - Len(old)] \in Bytes
      BY <2>5, <1>2, ElementOfSeq
    <3>2. cells[i - Len(old)] # Nul
      BY <3>1, FilesAssumption
    <3>3. new.data[a] = cells[i - Len(old)]
      BY <3>2, <2>1, <2>2, <2>5, <1>9, StoredThere
    <3>4. i \in 1 .. Len(old) + Len(cells) /\ ~(i <= Len(old))
      BY <2>2, <2>5, <1>2, <1>4
    <3> QED
      BY <3>3, <3>4, <2>4, <1>8
  <2>6. CASE ~(i - Len(old) \in 1 .. Len(cells))
    <3>1. new.data[a] = room.data[a]
      BY <2>1, <2>2, <2>6, <1>9, StoredThere
    <3>2. i \in 1 .. Len(old) + Len(cells) <=> i \in 1 .. Len(old)
      BY <2>2, <2>6, <1>2, <1>4
    <3>3. ElfImage(f, n + 1, a) = ElfImage(f, n, a)
      BY <3>2, <2>3, <2>4, <2>2, <1>8, <1>2, <1>4
    <3>4. room.data[a] = ElfImage(f, n, a)
      BY <2>1, <1>6a
    <3> QED
      BY <3>1, <3>3, <3>4
  <2> QED
    BY <2>5, <2>6
<1>14. ElfPlaced(new, f, n + 1)
  <2>1. Len(Joined(f, n + 1)) = Len(old) + Len(cells)
    BY <1>5, <1>8
  <2>2. new.end = text + Len(Joined(f, n + 1))
    <3>1. at + Len(cells) = text + (Len(old) + Len(cells))
      BY <1>1, <1>2, <1>4
    <3>2. new.end = at + Len(cells)
      BY <1>9
    <3> QED
      BY <3>1, <3>2, <2>1
  <2>3. new.end <= new.size
    BY <1>6, <1>9
  <2> QED
    BY <2>2, <2>3, <1>9, <1>11, <1>13 DEF ElfPlaced, text
<1> QED
  BY <1>12, <1>14 DEF text, cells, old, new

LEMMA JoinedLengths ==
    ASSUME NEW f, OnDisk(f), f.format = "elf"
    PROVE  /\ \A n \in 0 .. 4 : Len(Joined(f, n)) \in Nat
           /\ Len(Joined(f, 0)) = 0
           /\ \A n \in 0 .. 3 :
                Len(Joined(f, n + 1)) = Len(Joined(f, n)) + Len(Part(f, n + 1))
           /\ \A n \in 0 .. 3 : Len(Joined(f, n + 1)) <= Len(Joined(f, 4))
<1>1. \A n \in 0 .. 4 : Len(Joined(f, n)) \in Nat
  BY JoinedGrows, LenProperties
<1>2. Len(Joined(f, 0)) = 0
  BY JoinedGrows, EmptySeq
<1>3. ASSUME NEW n \in 0 .. 3
      PROVE  /\ Len(Joined(f, n + 1)) = Len(Joined(f, n)) + Len(Part(f, n + 1))
             /\ Len(Part(f, n + 1)) \in Nat
  <2>1. Joined(f, n) \in Seq(Bytes) /\ Part(f, n + 1) \in Seq(Bytes)
        /\ Len(Part(f, n + 1)) \in Nat
    <3>1. n \in 0 .. 4 /\ n + 1 \in 1 .. 5
      OBVIOUS
    <3> QED
      BY <3>1, JoinedGrows, SectionCells
  <2> QED
    BY <2>1, JoinedGrows, ConcatProperties
<1>4. /\ Len(Joined(f, 1)) <= Len(Joined(f, 2))
      /\ Len(Joined(f, 2)) <= Len(Joined(f, 3))
      /\ Len(Joined(f, 3)) <= Len(Joined(f, 4))
  <2>1. /\ Len(Joined(f, 1 + 1)) = Len(Joined(f, 1)) + Len(Part(f, 1 + 1))
        /\ Len(Joined(f, 2 + 1)) = Len(Joined(f, 2)) + Len(Part(f, 2 + 1))
        /\ Len(Joined(f, 3 + 1)) = Len(Joined(f, 3)) + Len(Part(f, 3 + 1))
        /\ Len(Part(f, 1 + 1)) \in Nat /\ Len(Part(f, 2 + 1)) \in Nat
        /\ Len(Part(f, 3 + 1)) \in Nat
    BY <1>3
  <2> QED
    BY <2>1, <1>1
<1>5. ASSUME NEW n \in 0 .. 3 PROVE Len(Joined(f, n + 1)) <= Len(Joined(f, 4))
  <2>1. n + 1 = 1 \/ n + 1 = 2 \/ n + 1 = 3 \/ n + 1 = 4
    OBVIOUS
  <2>2. /\ Len(Joined(f, 1)) \in Nat /\ Len(Joined(f, 2)) \in Nat
        /\ Len(Joined(f, 3)) \in Nat /\ Len(Joined(f, 4)) \in Nat
    BY <1>1
  <2>3. /\ Len(Joined(f, 1)) <= Len(Joined(f, 4))
        /\ Len(Joined(f, 2)) <= Len(Joined(f, 4))
        /\ Len(Joined(f, 4)) <= Len(Joined(f, 4))
    BY <2>2, <1>4
  <2> QED
    BY <2>1, <2>3, <1>4
<1> QED
  BY <1>1, <1>2, <1>3, <1>5

\* A section that is empty, and the signature, change nothing.
LEMMA ElfSkips ==
    ASSUME NEW f, OnDisk(f), f.format = "elf", f.executable,
           NEW n \in 0 .. 4, NEW b, ElfLoads(b, f, n), SectionGood(f, n + 1),
           Part(f, n + 1) = <<>> \/ sections[n + 1] = ".signature"
    PROVE  ElfLoads(b, f, n + 1)
<1>1. n + 1 \in 0 .. 5 /\ n + 1 > 0 /\ n + 1 # 0
      /\ \A i \in 1 .. n + 1 : i = n + 1 \/ (n > 0 /\ i \in 1 .. n)
  OBVIOUS
<1>2. \A i \in 1 .. n + 1 : SectionGood(f, i)
  BY <1>1 DEF ElfLoads
<1>3. ASSUME PlacedAlike(f) PROVE ElfPlaced(b, f, n + 1)
  <2>1. n > 0
    <3>1. Part(f, 1) # <<>>
      BY <1>3 DEF PlacedAlike
    <3>2. ASSUME n = 0 PROVE FALSE
      <4>1. n + 1 = 1
        BY <3>2
      <4> QED
        BY <4>1, <3>1, SectionNames
    <3> QED
      BY <3>2
  <2>2. ElfPlaced(b, f, n)
    BY <2>1, <1>3 DEF ElfLoads
  <2>3. Joined(f, n + 1) = Joined(f, n)
    <3>1. CASE n = 4
      <4>1. n + 1 = 5
        BY <3>1
      <4> QED
        BY <3>1, <4>1, JoinedGrows
    <3>2. CASE n \in 1 .. 3
      <4>1. n + 1 = 2 \/ n + 1 = 3 \/ n + 1 = 4
        BY <3>2
      <4>2. sections[n + 1] # ".signature"
        BY <4>1, SectionNames
      <4>3. Part(f, n + 1) = <<>>
        BY <4>2
      <4>4. Joined(f, n) \in Seq(Bytes)
            /\ Joined(f, n + 1) = Joined(f, n) \o Part(f, n + 1)
        <5>1. n \in 0 .. 4 /\ n \in 0 .. 3
          BY <3>2
        <5> QED
          BY <5>1, JoinedGrows
      <4> QED
        BY <4>3, <4>4, ConcatEmptySeq
    <3> QED
      BY <2>1, <3>1, <3>2
  <2>4. \A a : ElfImage(f, n + 1, a) = ElfImage(f, n, a)
    BY <2>3 DEF ElfImage
  <2> QED
    BY <2>2, <2>3, <2>4 DEF ElfPlaced
<1> QED
  BY <1>1, <1>2, <1>3 DEF ElfLoads

\* elf_add_section_to_blob.
LEMMA ElfAppends ==
    ASSUME NEW f, OnDisk(f), f.format = "elf", f.executable,
           NEW n \in 0 .. 3, NEW b, ElfLoads(b, f, n), SectionGood(f, n + 1),
           Part(f, n + 1) # <<>>
    PROVE  LET name  == sections[n + 1]
               cells == Part(f, n + 1)
               addr  == f.sections[name].addr
               at    == IF name = ".text" THEN addr ELSE b.end
               room  == resize(b, (IF name = ".data" THEN b.end ELSE addr) + Len(cells))
               new   == Filled(room, at, cells,
                               IF name = ".text" THEN addr ELSE room.start,
                               at + Len(cells))
           IN  /\ ElfLoads(new, f, n + 1)
               /\ PlacedAlike(f) => InBounds(room.data, at, Len(cells))
<1> DEFINE name    == sections[n + 1]
           cells   == Part(f, n + 1)
           addr    == f.sections[name].addr
           at      == IF name = ".text" THEN addr ELSE b.end
           address == (IF name = ".data" THEN b.end ELSE addr) + Len(cells)
           room    == resize(b, address)
           start   == IF name = ".text" THEN addr ELSE room.start
           new     == Filled(room, at, cells, start, at + Len(cells))
           text    == f.sections[".text"].addr
<1>1. /\ IsBlob(b) /\ b.end \in Nat /\ addr \in Nat /\ Len(cells) \in Nat
      /\ Len(cells) > 0 /\ text \in Nat
  <2>1. text \in Nat
    BY ElfFile DEF Names
  <2>2. IsBlob(b) /\ b.end \in Nat
    BY DEF ElfLoads, IsBlob
  <2>3. n + 1 \in 1 .. 5
    OBVIOUS
  <2> QED
    BY <2>1, <2>2, <2>3, SectionCells
<1>2. (n = 0 <=> name = ".text") /\ (n = 1 <=> name = ".data")
  <2>1. n + 1 = 1 \/ n + 1 = 2 \/ n + 1 = 3 \/ n + 1 = 4
    OBVIOUS
  <2>2. n + 1 = 1 => name = ".text"
    BY SectionNames
  <2>3. n + 1 = 2 => name = ".data"
    BY SectionNames
  <2>4. n + 1 = 3 => name = ".payload"
    BY SectionNames
  <2>5. n + 1 = 4 => name = ".payloadvectors"
    BY SectionNames
  <2> QED
    BY <2>1, <2>2, <2>3, <2>4, <2>5
<1>2a. n = 0 => addr = text
  BY <1>2
<1> HIDE DEF addr, cells, text
<1>3. address \in Nat /\ at \in Nat /\ at + Len(cells) \in Nat
  BY <1>1
<1>4. IsBlob(room) /\ room.start = b.start
  BY <1>1, <1>3, ResizeBlob
<1>5. start \in Nat
  BY <1>1, <1>4 DEF IsBlob
<1>6. IsBlob(new)
  BY <1>3, <1>4, <1>5, StoredBlob
<1>7. ASSUME PlacedAlike(f)
      PROVE  ElfPlaced(new, f, n + 1) /\ InBounds(room.data, at, Len(cells))
  <2> DEFINE old == Len(Joined(f, n))
             all == Len(Joined(f, 4))
             loaded == text + Len(Joined(f, n + 1))
  <2>1. /\ old \in Nat /\ all \in Nat
        /\ n = 0 => old = 0
        /\ Len(Joined(f, n + 1)) = old + Len(cells)
        /\ old + Len(cells) <= all
    BY JoinedLengths, SMTT(30) DEF cells
  <2>2. text + all < MaxData
    BY <1>7 DEF PlacedAlike, LoadedTo, text
  <2>3. n > 0 => ElfPlaced(b, f, n)
    BY <1>7 DEF ElfLoads
  <2>4. Sized(b) /\ at = text + old /\ start = text
    <3>1. CASE n = 0
      <4>1. b = mnflash_firmware_new
        BY <3>1 DEF ElfLoads
      <4> QED
        BY <3>1, <4>1, <2>1, <1>1, <1>2, <1>2a, NothingThere
    <3>2. CASE n > 0
      BY <3>2, <2>3, <1>2, <1>4 DEF ElfPlaced, text
    <3> QED
      BY <3>1, <3>2
  <2>5. address < MaxData /\ (n \in {2, 3} => /\ address = addr + Len(cells)
            /\ (loaded - 1) \div Alloc <= (address - 1) \div Alloc)
    <3>1. CASE n \in {2, 3}
      <4>1. n + 1 \in {3, 4} /\ address = addr + Len(cells)
        BY <3>1, <1>2
      <4> QED
        BY <4>1, <1>7 DEF PlacedAlike, Linked, LoadedTo, addr, cells, text
    <3>2. CASE n \in {0, 1}
      <4>1. address = text + old + Len(cells)
        BY <3>2, <2>1, <2>4, <1>2, <1>2a, <1>1
      <4> QED
        BY <3>2, <4>1, <2>1, <2>2, <1>1, Constants, SMTT(30)
    <3> QED
      BY <3>1, <3>2
  <2> HIDE DEF address, at, start
  <2>6. NextUnit(address) <= MaxData
    BY <2>5, <1>3, UnitAbove
  <2>7. /\ Sized(room) /\ room.data # NoData
        /\ room.size >= address /\ room.size >= b.size
        /\ DOMAIN room.data = 0 .. room.size - 1
        /\ \A a \in 0 .. room.size - 1 :
              room.data[a] = IF a < b.size THEN b.data[a] ELSE Gap
    BY <1>3, <2>4, <2>6, ResizeRoom
  <2> HIDE DEF room
  <2>8. text + old + Len(cells) <= room.size
    <3>1. CASE n \in {2, 3}
      <4>1. PICK k \in Nat : room.size = k * Alloc
        BY <2>7 DEF Sized
      <4>2. loaded \in Nat \ {0} /\ address \in Nat \ {0}
        BY <3>1, <2>1, <2>5, <1>1
      <4>3. loaded = text + old + Len(cells)
        BY <2>1, <1>1
      <4>4. loaded <= k * Alloc
        BY <3>1, <4>1, <4>2, <2>5, <2>7, UnitsHold
      <4> QED
        BY <4>1, <4>3, <4>4
    <3>2. CASE n \in {0, 1}
      <4>1. address = text + old + Len(cells)
        BY <3>2, <2>1, <2>4, <1>2, <1>2a, <1>1 DEF address, at
      <4> QED
        BY <4>1, <2>7
    <3> QED
      BY <3>1, <3>2
  <2>9. ASSUME NEW a \in DOMAIN room.data
        PROVE  room.data[a] = ElfImage(f, n, a)
    <3>1. a \in Nat /\ room.data[a] = IF a < b.size THEN b.data[a] ELSE Gap
      BY <2>7 DEF Sized
    <3>2. b.size \in Nat /\ (b.size # 0 => DOMAIN b.data = 0 .. b.size - 1)
      BY <2>4 DEF Sized
    <3>3. CASE n = 0
      <4>1. b.size = 0
        BY <3>3, NothingThere DEF ElfLoads
      <4>2. ElfImage(f, 0, a) = Gap
        BY JoinedLengths, SMTT(30) DEF ElfImage
      <4> QED
        BY <3>1, <3>3, <4>1, <4>2
    <3>4. CASE n > 0 /\ a < b.size
      <4>1. a \in DOMAIN b.data
        BY <3>1, <3>2, <3>4
      <4> QED
        BY <4>1, <3>1, <3>4, <2>3 DEF ElfPlaced
    <3>5. CASE n > 0 /\ ~(a < b.size)
      <4>1. text + old <= b.size
        BY <3>5, <2>3 DEF ElfPlaced, text
      <4>2. ~(a - text + 1 \in 1 .. old)
        BY <4>1, <3>1, <3>2, <3>5, <2>1, <1>1, SMTT(30)
      <4>3. ElfImage(f, n, a) = Gap
        BY <4>2 DEF ElfImage, text
      <4> QED
        BY <3>1, <3>5, <4>3
    <3> QED
      BY <3>3, <3>4, <3>5
  <2>10. new = Filled(room, text + old, cells, text, text + old + Len(cells))
    BY <2>4
  <2> QED
    BY <2>4, <2>7, <2>8, <2>9, <2>10, ElfFills DEF text, cells
<1>8. ElfLoads(new, f, n + 1)
  <2>1. n + 1 \in 0 .. 5 /\ n + 1 > 0 /\ n + 1 # 0
        /\ \A i \in 1 .. n + 1 : i = n + 1 \/ (n > 0 /\ i \in 1 .. n)
    OBVIOUS
  <2>2. \A i \in 1 .. n + 1 : SectionGood(f, i)
    BY <2>1 DEF ElfLoads
  <2> HIDE DEF new
  <2> QED
    BY <2>1, <2>2, <1>6, <1>7 DEF ElfLoads
<1> QED
  BY <1>7, <1>8 DEF addr, cells

\* What an ELF file is taken for, and what of it is uploaded.
LEMMA ElfEnds ==
    ASSUME NEW f, OnDisk(f), NEW b, ElfLoads(b, f, 5)
    PROVE  /\ Sound(f) /\ f.format = "elf"
           /\ PlacedAlike(f) => \A a \in DOMAIN b.data :
                /\ b.data[a] = FileImage(f, a)
                /\ FileImage(f, a) # Gap => a >= b.start /\ a < b.end
<1>1. f.format = "elf" /\ f.executable /\ \A i \in 1 .. 5 : SectionGood(f, i)
  BY DEF ElfLoads
<1>2. Sound(f)
  <2>1. ASSUME NEW name \in DOMAIN f.sections
        PROVE  f.sections[name].cells = <<>> \/ f.sections[name].sound
    <3>1. PICK i \in 1 .. 5 : name = sections[i]
      BY <1>1, ElfFile, SectionNames
    <3> QED
      BY <3>1, <1>1 DEF SectionGood, Part
  <2> QED
    BY <2>1, <1>1 DEF Sound
<1>3. ASSUME PlacedAlike(f), NEW a \in DOMAIN b.data
      PROVE  /\ b.data[a] = FileImage(f, a)
             /\ FileImage(f, a) # Gap => a >= b.start /\ a < b.end
  <2>1. ElfPlaced(b, f, 5)
    BY <1>3 DEF ElfLoads
  <2>2. Joined(f, 5) = Joined(f, 4)
    BY <1>1, JoinedGrows
  <2>3. FileImage(f, a) = ElfImage(f, 5, a)
    BY <2>2, <1>1 DEF FileImage, ElfImage
  <2>4. Len(Joined(f, 5)) \in Nat /\ f.sections[".text"].addr \in Nat
    BY <2>2, <1>1, JoinedLengths, ElfFile DEF Names
  <2>5. a \in Nat
    BY <2>1 DEF ElfPlaced, Sized
  <2>6. ASSUME FileImage(f, a) # Gap PROVE a >= b.start /\ a < b.end
    <3>1. a - f.sections[".text"].addr + 1 \in 1 .. Len(Joined(f, 5))
      BY <2>3, <2>6 DEF ElfImage
    <3> QED
      BY <3>1, <2>1, <2>4, <2>5 DEF ElfPlaced
  <2> QED
    BY <2>1, <2>3, <2>6 DEF ElfPlaced
<1> QED
  BY <1>1, <1>2, <1>3

(***************************************************************************)
(* mnflash_raw_load.                                                       *)
(***************************************************************************)
\* A piece of f's words, as the loop reads them: a unit, or what is left.
IsChunk(chunk, f, n) ==
    /\ Len(chunk) \in 1 .. Alloc /\ n + Len(chunk) <= Len(f.words)
    /\ n + Len(chunk) < Len(f.words) => Len(chunk) = Alloc
    /\ n = 0 /\ Len(f.words) >= Alloc => Len(chunk) = Alloc
    /\ \A i \in 1 .. Len(chunk) : chunk[i] = f.words[n + i]

LEMMA ChunkRead ==
    ASSUME NEW f, OnDisk(f), f.format = "raw", NEW n \in Nat, n < Len(f.words)
    PROVE  IsChunk(SubSeq(f.words, n + 1,
                          IF n + 1 + BufSize - 1 < Len(f.words)
                          THEN n + 1 + BufSize - 1 ELSE Len(f.words)), f, n)
<1> DEFINE last == IF n + 1 + BufSize - 1 < Len(f.words)
                   THEN n + 1 + BufSize - 1 ELSE Len(f.words)
           chunk == SubSeq(f.words, n + 1, last)
<1>1. /\ Len(f.words) \in Nat \ {0} /\ Alloc \in Nat \ {0} /\ BufSize = Alloc
      /\ \A i \in 1 .. Len(f.words) : f.words[i] \in Bytes
  BY RawFile, Constants
<1>2. last \in Int /\ n + 1 <= last /\ last <= Len(f.words) /\ last <= n + Alloc
      /\ (last < Len(f.words) => last = n + Alloc)
      /\ (n = 0 /\ Len(f.words) >= Alloc => last = Alloc)
  BY <1>1
<1> HIDE DEF last
<1>3. \A i \in n + 1 .. last : f.words[i] \in Bytes
  BY <1>1, <1>2
<1>4. Len(chunk) = IF n + 1 <= last THEN last - (n + 1) + 1 ELSE 0
  BY <1>2, <1>3, SubSeqProperties
<1>5. \A i \in 1 .. last - (n + 1) + 1 : chunk[i] = f.words[n + 1 + i - 1]
  BY <1>2, <1>3, SubSeqProperties
<1> HIDE DEF chunk
<1>6. Len(chunk) = last - n
  BY <1>2, <1>4
<1>7. ASSUME NEW i \in 1 .. Len(chunk) PROVE chunk[i] = f.words[n + i]
  <2>1. n + 1 + i - 1 = n + i /\ i \in 1 .. last - (n + 1) + 1
    BY <1>2, <1>6
  <2> QED
    BY <2>1, <1>5
<1>8. IsChunk(chunk, f, n)
  BY <1>1, <1>2, <1>6, <1>7 DEF IsChunk
<1> QED
  BY <1>8 DEF chunk, last

LEMMA RawBegins ==
    ASSUME NEW f, OnDisk(f), f.format = "raw"
    PROVE  RawLoads(mnflash_firmware_new, f, 0)
<1>1. 0 = (2 * 0) * Alloc /\ 0 = 0 * Alloc /\ MaxData >= 0
  BY Constants
<1>2. 0 \in 0 .. Len(f.words) /\ ~(0 > 0)
  BY RawFile
<1> QED
  BY <1>1, <1>2, NothingThere DEF RawLoads

\* Two units are taken at a time, so a file that is not too long is never
\* given up.
LEMMA RawRoom ==
    ASSUME NEW f, OnDisk(f), f.format = "raw", NEW n \in Nat, NEW b, NEW chunk,
           RawLoads(b, f, n), n < Len(f.words), IsChunk(chunk, f, n),
           Len(f.words) <= MaxData
    PROVE  Enough(b, n + Len(chunk)) \/ NextUnit(n + Len(chunk)) <= MaxData
<1> DEFINE m == Len(chunk)
<1>1. Len(f.words) \in Nat /\ Alloc \in Nat \ {0} /\ MaxData \in Nat
  BY RawFile, Constants
<1>2. m \in 1 .. Alloc /\ n + m <= Len(f.words)
  BY DEF IsChunk
<1> HIDE DEF m
<1>3. b.size \in {n, n + Alloc} /\ Sized(b)
  BY DEF RawLoads
<1>4. CASE b.size = n + Alloc
  <2>1. b.data # NoData
    BY <1>1, <1>4, <1>3 DEF Sized
  <2>2. b.size >= n + m
    BY <1>1, <1>2, <1>4
  <2> QED
    BY <2>1, <2>2 DEF Enough, m
<1>5. CASE b.size = n
  <2>1. PICK k \in Nat : n = (2 * k) * Alloc
    BY <1>5 DEF RawLoads
  <2>2. PICK u \in Nat : MaxData = (2 * u) * Alloc
    BY MaxDataUnits
  <2> DEFINE i == 2 * k
             j == 2 * u
  <2>3. i \in Nat /\ j \in Nat /\ i * Alloc < j * Alloc
    BY <2>1, <2>2, <1>1, <1>2
  <2>4. i < j => i + 1 + 1 <= j
    OBVIOUS
  <2>5. n = i * Alloc /\ MaxData = j * Alloc
    BY <2>1, <2>2
  <2> HIDE DEF i, j
  <2>6. i + 1 + 1 <= j
    BY <2>3, <2>4, <1>1, Products
  <2>7. (i + 1 + 1) * Alloc <= j * Alloc
    BY <2>3, <2>6, <1>1, Products
  <2>8. (i + 1 + 1) * Alloc = n + Alloc + Alloc
    BY <2>3, <2>5, <1>1, Products
  <2>9. NextUnit(n + m) <= n + m + Alloc /\ NextUnit(n + m) \in Nat
    BY <1>2, UnitAbove
  <2> QED
    BY <2>5, <2>7, <2>8, <2>9, <1>1, <1>2 DEF m
<1> QED
  BY <1>3, <1>4, <1>5

LEMMA RawReads ==
    ASSUME NEW f, OnDisk(f), f.format = "raw", NEW n \in Nat, NEW b, NEW chunk,
           RawLoads(b, f, n), n < Len(f.words), IsChunk(chunk, f, n),
           n = 0 => RawVectors(f),
           resize(b, n + Len(chunk)).data # NoData
    PROVE  LET room == resize(b, n + Len(chunk))
           IN  /\ RawLoads(Filled(room, n, chunk, 0, n + Len(chunk)),
                           f, n + Len(chunk))
               /\ InBounds(room.data, n, Len(chunk))
<1> DEFINE m    == Len(chunk)
           now  == n + m
           room == resize(b, now)
           new  == Filled(room, n, chunk, 0, now)
<1>1. Len(f.words) \in Nat \ {0} /\ Alloc \in Nat \ {0} /\ MaxData \in Nat
  BY RawFile, Constants
<1>2. m \in 1 .. Alloc /\ n + m <= Len(f.words)
      /\ (n + m < Len(f.words) => m = Alloc)
      /\ \A i \in 1 .. m : chunk[i] = f.words[n + i]
  BY DEF IsChunk
<1> HIDE DEF m
<1>3. now \in Nat \ {0} /\ now <= Len(f.words) /\ n < now
  BY <1>1, <1>2
<1>4. /\ Sized(b) /\ IsBlob(b) /\ n <= b.size /\ b.size <= MaxData
      /\ \A a \in DOMAIN b.data :
            b.data[a] = IF a < n THEN f.words[a + 1] ELSE Gap
  BY DEF RawLoads, Sized
<1>5. Enough(b, now) \/ NextUnit(now) <= MaxData
  <2>1. ASSUME ~Enough(b, now), NextUnit(now) > MaxData PROVE FALSE
    <3>1. room = [b EXCEPT !.data = NoData]
      BY <2>1 DEF resize
    <3>2. room.data = NoData
      BY <3>1, <1>4 DEF IsBlob
    <3> QED
      BY <3>2 DEF m
  <2>2. NextUnit(now) \in Nat
    BY <1>3, UnitAbove
  <2> QED
    BY <2>1, <2>2, <1>1
<1> HIDE DEF now
<1>6. /\ Sized(room) /\ room.data # NoData
      /\ room.size = IF Enough(b, now) THEN b.size ELSE NextUnit(now)
      /\ room.size >= now /\ room.size >= b.size
      /\ DOMAIN room.data = 0 .. room.size - 1
      /\ \A a \in 0 .. room.size - 1 :
            room.data[a] = IF a < b.size THEN b.data[a] ELSE Gap
  BY <1>3, <1>4, <1>5, ResizeRoom
<1> HIDE DEF room
<1>7. IsBlob(room) /\ room.size \in Nat /\ b.size \in Nat
  BY <1>4, <1>6 DEF Sized
<1>8. /\ Sized(new) /\ new.data = Stored(room.data, n, chunk)
      /\ new.size = room.size /\ new.start = 0 /\ new.end = now
  BY <1>3, <1>6, <1>7, StoredBlob
<1> HIDE DEF new
<1>9. InBounds(room.data, n, m)
  BY <1>2, <1>6, <1>7 DEF InBounds, now
<1>10. room.size <= MaxData
  BY <1>4, <1>5, <1>6
<1>11. ASSUME now < Len(f.words)
       PROVE  /\ \E k \in Nat : room.size = (2 * k) * Alloc
              /\ \E k \in Nat : now = k * Alloc
              /\ room.size \in {now, now + Alloc}
  <2>1. m = Alloc /\ now = n + Alloc
    BY <1>2, <1>11 DEF now
  <2>2. PICK k \in Nat : b.size = (2 * k) * Alloc
    BY <1>1, <1>2, <1>11 DEF RawLoads, now
  <2>3. PICK u \in Nat : n = u * Alloc
    BY <1>1, <1>2, <1>11 DEF RawLoads, now
  <2>4. b.size \in {n, n + Alloc}
    BY <1>1, <1>2, <1>11 DEF RawLoads, now
  <2>5. now = (u + 1) * Alloc
    BY <2>1, <2>3, <1>1, Products
  <2>6. CASE b.size = n + Alloc
    <3>1. Enough(b, now)
      BY <2>1, <2>6, <1>1, <1>4 DEF Enough, Sized
    <3> QED
      BY <3>1, <2>1, <2>2, <2>5, <2>6, <1>6
  <2>7. CASE b.size = n
    <3>1. ~Enough(b, now)
      BY <2>1, <2>7, <1>1 DEF Enough
    <3>2. room.size = NextUnit(now)
      BY <3>1, <1>6
    <3>3. PICK v \in Nat : NextUnit(now) = v * Alloc
      BY <1>3, UnitAbove
    <3>4. now < NextUnit(now) /\ NextUnit(now) <= now + Alloc
      BY <1>3, UnitAbove
    <3>5. (u + 1) * Alloc < v * Alloc
      BY <3>3, <3>4, <2>5
    <3>6. u + 1 < v
      BY <3>5, <1>1, Products
    <3>7. (u + 1 + 1) * Alloc <= v * Alloc
      BY <3>6, <1>1, Products
    <3>8. (u + 1 + 1) * Alloc = now + Alloc
      BY <2>5, <1>1, Products
    <3>9. room.size = now + Alloc
      BY <3>2, <3>3, <3>4, <3>7, <3>8, <1>1, <1>3
    <3>10. room.size = (2 * k) * Alloc + Alloc + Alloc
      BY <3>9, <2>1, <2>2, <2>7
    <3>11. (2 * (k + 1)) * Alloc = (2 * k) * Alloc + Alloc + Alloc
      <4> DEFINE i == 2 * k
      <4>1. 2 * (k + 1) = i + 1 + 1 /\ i \in Nat
        OBVIOUS
      <4> HIDE DEF i
      <4>2. (i + 1 + 1) * Alloc = i * Alloc + Alloc + Alloc
        BY <4>1, <1>1, Products
      <4> QED
        BY <4>1, <4>2 DEF i
    <3>12. room.size = (2 * (k + 1)) * Alloc /\ k + 1 \in Nat /\ u + 1 \in Nat
      BY <3>10, <3>11
    <3>13. /\ \E w \in Nat : room.size = (2 * w) * Alloc
           /\ \E w \in Nat : now = w * Alloc
      BY <3>12, <2>5, Zenon
    <3> QED
      BY <3>9, <3>13
  <2> QED
    BY <2>4, <2>6, <2>7
<1>12. ASSUME NEW a \in DOMAIN new.data
       PROVE  new.data[a] = IF a < now THEN f.words[a + 1] ELSE Gap
  <2>1. a \in DOMAIN room.data /\ a \in 0 .. room.size - 1 /\ a \in Nat
    BY <1>6, <1>7, <1>8, StoredThere
  <2>2. now = n + m
    BY DEF now
  <2>3. CASE a - n + 1 \in 1 .. m
    <3>1. chunk[a - n + 1] = f.words[a + 1]
      <4>1. n + (a - n + 1) = a + 1
        BY <2>1
      <4> QED
        BY <4>1, <2>3, <1>2
    <3>2. a + 1 \in 1 .. Len(f.words) /\ a < now
      BY <2>1, <2>2, <2>3, <1>1, <1>2
    <3>3. f.words[a + 1] # Nul
      BY <3>2, RawFile, FilesAssumption
    <3> QED
      BY <3>1, <3>2, <3>3, <2>1, <2>3, <1>8, StoredThere DEF m
  <2>4. CASE ~(a - n + 1 \in 1 .. m)
    <3>1. new.data[a] = room.data[a]
      BY <2>1, <2>4, <1>8, StoredThere DEF m
    <3>2. a < now <=> a < n
      BY <2>1, <2>2, <2>4, <1>2
    <3>3. CASE a < b.size
      <4>1. a \in DOMAIN b.data
        BY <3>3, <2>1, <1>4, <1>7 DEF Sized
      <4> QED
        BY <4>1, <3>1, <3>2, <3>3, <2>1, <1>4, <1>6
    <3>4. CASE ~(a < b.size)
      <4>1. ~(a < n)
        BY <3>4, <2>1, <1>4, <1>7
      <4> QED
        BY <4>1, <3>1, <3>2, <3>4, <2>1, <1>6
    <3> QED
      BY <3>3, <3>4
  <2> QED
    BY <2>3, <2>4
<1>13. RawVectors(f)
  <2>1. n = 0 \/ n > 0
    OBVIOUS
  <2> QED
    BY <2>1 DEF RawLoads
<1>14. RawLoads(new, f, now)
  <2>1. now \in 0 .. Len(f.words)
    BY <1>1, <1>3
  <2> QED
    BY <2>1, <1>6, <1>8, <1>10, <1>11, <1>12, <1>13 DEF RawLoads
<1> QED
  BY <1>9, <1>14 DEF m, now, room, new

\* What a raw file is taken for, and what of it is uploaded.
LEMMA RawEnds ==
    ASSUME NEW f, OnDisk(f), NEW b, RawLoads(b, f, Len(f.words))
    PROVE  /\ Sound(f)
           /\ \A a \in DOMAIN b.data :
                /\ b.data[a] = FileImage(f, a)
                /\ FileImage(f, a) # Gap => a >= b.start /\ a < b.end
<1>1. f.format = "raw" /\ Len(f.words) \in Nat \ {0}
      /\ DOMAIN f.words = 1 .. Len(f.words) /\ Sized(b)
  BY RawFile DEF RawLoads
<1>2. Sound(f)
  BY <1>1, Constants DEF RawLoads, RawVectors, Sound, Sized
<1>3. ASSUME NEW a \in DOMAIN b.data
      PROVE  /\ b.data[a] = FileImage(f, a)
             /\ FileImage(f, a) # Gap => a >= b.start /\ a < b.end
  <2>1. a \in Nat
    BY <1>1, NothingThere DEF Sized
  <2>2. a + 1 \in DOMAIN f.words <=> a < Len(f.words)
    BY <2>1, <1>1
  <2>3. FileImage(f, a) = IF a < Len(f.words) THEN f.words[a + 1] ELSE Gap
    BY <2>2, <1>1 DEF FileImage
  <2> QED
    BY <2>1, <2>3 DEF RawLoads
<1> QED
  BY <1>2, <1>3

(***************************************************************************)
(* parseIntelHex and parseRaw of micronucleus.                             *)
(***************************************************************************)
\* What will be uploaded is the file.
UploadThere(b, f) ==
    \A a \in DOMAIN b.data :
        /\ b.data[a] = FileImage(f, a)
        /\ FileImage(f, a) # Gap => a >= b.start /\ a < b.end

\* The buffer as main() has it before a file is parsed.
Unfilled(b) ==
    /\ IsBlob(b) /\ b.start = 1 /\ b.end = 0
    /\ DOMAIN b.data = 0 .. DataBuffer - 1
    /\ \A a \in DOMAIN b.data : b.data[a] = Gap

LEMMA ParseBegins ==
    ASSUME NEW f, OnDisk(f), f.format = "hex", NEW b, Unfilled(b),
           \A i \in DOMAIN f.lines : Complete(f.lines[i])
    PROVE  ParseLoads(b, f, 0)
<1>1. 0 \in 0 .. Len(f.lines) /\ DOMAIN f.lines = 1 .. Len(f.lines)
  BY HexFile, LenProperties
<1> QED
  BY <1>1, HexNone DEF ParseLoads, Unfilled

LEMMA Widened ==
    ASSUME NEW s \in Nat, NEW e \in Nat, NEW addr \in Nat, NEW len \in Nat
    PROVE  LET start == IF addr < s THEN addr ELSE s
               end   == IF addr + len > e THEN addr + len ELSE e
           IN  /\ start \in Nat /\ start <= addr /\ start <= s
               /\ end \in Nat /\ addr + len <= end /\ e <= end
OBVIOUS

LEMMA ParseReads ==
    ASSUME NEW f, OnDisk(f), NEW n \in Nat, NEW b,
           ParseLoads(b, f, n), n < Len(f.lines),
           f.lines[n + 1].mark, f.lines[n + 1].type = "data"
    PROVE  LET l   == f.lines[n + 1]
               new == [Extended(b, l.addr, l.addr + l.len) EXCEPT
                        !.data = Stored(@, l.addr, SubSeq(l.bytes, 1, l.len))]
           IN  /\ ParseLoads(new, f, n + 1)
               /\ InBounds(b.data, l.addr, l.len)
<1> DEFINE l     == f.lines[n + 1]
           cells == SubSeq(l.bytes, 1, l.len)
           new   == [Extended(b, l.addr, l.addr + l.len) EXCEPT
                        !.data = Stored(@, l.addr, cells)]
           start == IF l.addr < b.start THEN l.addr ELSE b.start
           end   == IF l.addr + l.len > b.end THEN l.addr + l.len ELSE b.end
<1>1. f.format = "hex" /\ Len(f.lines) \in Nat /\ n + 1 \in 1 .. Len(f.lines)
      /\ n + 1 \in 0 .. Len(f.lines)
  BY HexFile, LenProperties DEF ParseLoads
<1>2. /\ l.addr \in Nat /\ l.len \in Nat /\ l.bytes \in Seq(Bytes)
      /\ l.addr + l.len <= DataBuffer /\ DataBuffer \in Nat
      /\ Len(l.bytes) = l.len + 1
  BY <1>1, HexFile, Constants DEF ParseLoads, Complete
<1>3. l.mark /\ l.type = "data"
  OBVIOUS
<1>4. IsBlob(b) /\ b.start \in Nat /\ b.end \in Nat
      /\ DOMAIN b.data = 0 .. DataBuffer - 1
  BY DEF ParseLoads, IsBlob
<1>5. new = [data |-> Stored(b.data, l.addr, cells), size |-> b.size,
             start |-> start, end |-> end]
  <2>1. Extended(b, l.addr, l.addr + l.len) =
            [data |-> b.data, size |-> b.size, start |-> start, end |-> end]
    <3>1. Extended(b, l.addr, l.addr + l.len) =
            [b EXCEPT !.start = start, !.end = end]
      BY DEF Extended
    <3> HIDE DEF start, end, l
    <3> QED
      BY <3>1, <1>4 DEF IsBlob
  <2> HIDE DEF start, end, cells, l
  <2> QED
    BY <2>1
<1> HIDE DEF l, new
<1>6. Len(cells) = l.len /\ \A i \in 1 .. l.len : cells[i] = l.bytes[i]
      /\ cells[i] # Nul
  <2>1. \A i \in 1 .. l.len : l.bytes[i] \in Bytes
    BY <1>2, ElementOfSeq
  <2>2. Len(cells) = IF 1 <= l.len THEN l.len - 1 + 1 ELSE 0
    BY <2>1, <1>2, SubSeqProperties
  <2>3. \A i \in 1 .. l.len - 1 + 1 : cells[i] = l.bytes[1 + i - 1]
    BY <2>1, <1>2, SubSeqProperties
  <2> HIDE DEF cells
  <2>4. Len(cells) = l.len
    BY <2>2, <1>2
  <2>5. ASSUME NEW i \in 1 .. l.len PROVE cells[i] = l.bytes[i] /\ cells[i] # Nul
    <3>1. 1 + i - 1 = i /\ i \in 1 .. l.len - 1 + 1
      BY <1>2
    <3> QED
      BY <3>1, <2>1, <2>3, FilesAssumption
  <2> QED
    BY <2>4, <2>5
<1> HIDE DEF cells
<1>7. /\ start \in Nat /\ start <= l.addr /\ start <= b.start
      /\ end \in Nat /\ l.addr + l.len <= end /\ b.end <= end
  BY <1>2, <1>4, Widened, Zenon
<1> HIDE DEF start, end
<1>8. new.data = Stored(b.data, l.addr, cells) /\ new.start = start /\ new.end = end
      /\ DOMAIN new.data = DOMAIN b.data /\ new.size = b.size
  BY <1>5, StoredThere
<1>9. IsBlob(new)
  BY <1>4, <1>5, <1>7, <1>8 DEF IsBlob
<1>10. InBounds(b.data, l.addr, l.len)
  BY <1>2, <1>4, SMTT(30) DEF InBounds
<1>11. ASSUME NEW i \in 1 .. n + 1, f.lines[i].mark, f.lines[i].type = "data"
       PROVE  /\ new.start <= f.lines[i].addr
              /\ f.lines[i].addr + f.lines[i].len <= new.end
  <2>1. CASE i = n + 1
    BY <2>1, <1>7, <1>8 DEF l
  <2>2. CASE i \in 1 .. n
    <3>1. b.start <= f.lines[i].addr
          /\ f.lines[i].addr + f.lines[i].len <= b.end
      BY <2>2, <1>11 DEF ParseLoads
    <3>2. i \in 1 .. Len(f.lines)
      BY <2>2, <1>1
    <3>3. f.lines[i].addr \in Nat /\ f.lines[i].len \in Nat
      BY <3>2, <1>1, HexFile
    <3> QED
      BY <3>1, <3>3, <1>4, <1>7, <1>8, SMTT(30)
  <2> QED
    BY <2>1, <2>2
<1>12. ASSUME NEW a \in DOMAIN new.data
       PROVE  new.data[a] = HexImage(f, n + 1, a)
  <2>1. a \in DOMAIN b.data /\ a \in Nat
    BY <1>4, <1>8
  <2>2. Covers(l, a) <=> a - l.addr + 1 \in 1 .. l.len
    <3>1. Covers(l, a) <=> a \in l.addr .. l.addr + l.len - 1
      BY <1>3 DEF Covers
    <3>2. l.addr \in Nat /\ l.len \in Nat /\ a \in Nat
      BY <1>2, <2>1
    <3> QED
      BY <3>1, <3>2
  <2>3. new.data[a] = IF Covers(l, a) THEN l.bytes[a - l.addr + 1] ELSE b.data[a]
    BY <2>1, <2>2, <1>6, <1>8, StoredThere
  <2>4. b.data[a] = HexImage(f, n, a)
    BY <2>1 DEF ParseLoads
  <2> QED
    BY <2>3, <2>4, HexStep DEF l
<1>13. ParseLoads(new, f, n + 1)
  BY <1>1, <1>4, <1>8, <1>9, <1>11, <1>12 DEF ParseLoads
<1> QED
  BY <1>10, <1>13 DEF l, new, cells

LEMMA ParseSkips ==
    ASSUME NEW f, OnDisk(f), NEW n \in Nat, NEW b,
           ParseLoads(b, f, n), n < Len(f.lines),
           ~(f.lines[n + 1].mark /\ f.lines[n + 1].type = "data")
    PROVE  ParseLoads(b, f, n + 1)
<1>1. f.format = "hex" /\ Len(f.lines) \in Nat
  BY HexFile, LenProperties DEF ParseLoads
<1>2. n + 1 \in 0 .. Len(f.lines) /\ \A i \in 1 .. n + 1 : i = n + 1 \/ i \in 1 .. n
  BY <1>1
<1>3. \A a : HexImage(f, n + 1, a) = HexImage(f, n, a)
  BY HexStep DEF Covers
<1> QED
  BY <1>1, <1>2, <1>3 DEF ParseLoads

LEMMA ParseEnds ==
    ASSUME NEW f, OnDisk(f), NEW b, ParseLoads(b, f, Len(f.lines))
    PROVE  UploadThere(b, f)
<1>1. f.format = "hex" /\ IsBlob(b)
  BY DEF ParseLoads
<1>2. ASSUME NEW a \in DOMAIN b.data, FileImage(f, a) # Gap
      PROVE  a >= b.start /\ a < b.end
  <2>1. PICK i \in 1 .. Len(f.lines) : Covers(f.lines[i], a)
    BY <1>1, <1>2, HexGiven DEF FileImage
  <2>2. f.lines[i].addr \in Nat /\ f.lines[i].len \in Nat
    BY <1>1, HexFile
  <2>3. b.start <= f.lines[i].addr
        /\ f.lines[i].addr + f.lines[i].len <= b.end
    BY <2>1 DEF ParseLoads, Covers
  <2>4. a \in f.lines[i].addr .. f.lines[i].addr + f.lines[i].len - 1
    BY <2>1 DEF Covers
  <2>5. b.start \in Nat /\ b.end \in Nat
    BY <1>1 DEF IsBlob
  <2> QED
    BY <2>2, <2>3, <2>4, <2>5, SMTT(30)
<1>3. \A a \in DOMAIN b.data : b.data[a] = FileImage(f, a)
  BY <1>1 DEF ParseLoads, FileImage
<1> QED
  BY <1>2, <1>3 DEF UploadThere

LEMMA RawParses ==
    ASSUME NEW f, OnDisk(f), f.format = "raw", NEW b, Unfilled(b)
    PROVE  LET new == [b EXCEPT !.data  = Stored(@, 0, f.words),
                                !.start = 0, !.end = Len(f.words)]
           IN  /\ IsBlob(new) /\ UploadThere(new, f)
               /\ Len(f.words) <= DataBuffer => InBounds(b.data, 0, Len(f.words))
<1> DEFINE new == Filled(b, 0, f.words, 0, Len(f.words))
<1>1. Len(f.words) \in Nat /\ DOMAIN f.words = 1 .. Len(f.words)
      /\ DataBuffer \in Nat /\ \A i \in 1 .. Len(f.words) : f.words[i] # Nul
  BY RawFile, Constants, FilesAssumption
<1>2. IsBlob(b) /\ DOMAIN b.data = 0 .. DataBuffer - 1
      /\ \A a \in DOMAIN b.data : b.data[a] = Gap
  BY DEF Unfilled
<1>3. /\ IsBlob(new) /\ new.data = Stored(b.data, 0, f.words)
      /\ new.start = 0 /\ new.end = Len(f.words)
  BY <1>1, <1>2, StoredBlob
<1>4. [b EXCEPT !.data  = Stored(@, 0, f.words),
                !.start = 0, !.end = Len(f.words)] = new
  BY DEF Filled
<1> HIDE DEF new
<1>5. ASSUME NEW a \in DOMAIN new.data
      PROVE  /\ new.data[a] = FileImage(f, a)
             /\ FileImage(f, a) # Gap => a >= new.start /\ a < new.end
  <2>1. a \in DOMAIN b.data /\ a \in Nat /\ a - 0 + 1 = a + 1
    <3>1. a \in DOMAIN b.data
      BY <1>3, StoredThere
    <3>2. a \in Nat
      BY <3>1, <1>1, <1>2
    <3> QED
      BY <3>1, <3>2
  <2>2. a + 1 \in 1 .. Len(f.words) <=> a < Len(f.words)
    BY <2>1, <1>1
  <2>3. FileImage(f, a) = IF a < Len(f.words) THEN f.words[a + 1] ELSE Gap
    BY <2>2, <1>1 DEF FileImage
  <2>4. new.data[a] = IF a < Len(f.words) THEN f.words[a + 1] ELSE Gap
    BY <2>1, <2>2, <1>1, <1>2, <1>3, StoredThere
  <2> QED
    BY <2>1, <2>3, <2>4, <1>3
<1>6. Len(f.words) <= DataBuffer => InBounds(b.data, 0, Len(f.words))
  BY <1>1, <1>2 DEF InBounds
<1> QED
  BY <1>3, <1>4, <1>5, <1>6 DEF UploadThere

(***************************************************************************)
(* The inductive invariant.                                                *)
(***************************************************************************)
\* Which file is looked at by which program.
SearchInv ==
    /\ disk \in Disks /\ Len(search) \in Nat /\ pos \in Nat \ {0}
    /\ nth \in 1 .. Len(search) + 1
    /\ \/ tool = "mnflash" /\ pc \in {"stat", "elf", "hex", "raw", "loaded", "refused"}
       \/ /\ tool = "micronucleus" /\ nth = 1 /\ search[1] \in DOMAIN disk
          /\ pc \in {"parseIntelHex", "parseRaw", "fits", "ready", "refused"}
    /\ pc \notin {"stat", "refused"} =>
            nth \in 1 .. Len(search) /\ search[nth] \in DOMAIN disk
    /\ IsBlob(blob) /\ DOMAIN linebuf = Cells /\ outside \in BOOLEAN

\* What a loader that is through a file has made of it.
LoadedThere(b, f) ==
    /\ Sound(f)
    /\ Whole(f) /\ PlacedAlike(f) => \A a \in DOMAIN b.data :
        /\ b.data[a] = FileImage(f, a)
        /\ FileImage(f, a) # Gap => a >= b.start /\ (Ascending(f) => a < b.end)

\* What the loader at work has made of the part it has read, and what those
\* before it have seen of the file.
StageInv ==
    /\ pc = "elf" => ElfLoads(blob, file, pos - 1)
    /\ pc = "hex" =>
            /\ file.format = "elf" => ~Sound(file)
            /\ IF file.format = "hex" THEN HexLoads(blob, file, pos - 1)
               ELSE pos = 1
    /\ pc = "raw" =>
            /\ file.format = "elf" => ~Sound(file)
            /\ file.format = "hex" /\ Whole(file) => ~Sound(file)
            /\ IF file.format = "raw" THEN RawLoads(blob, file, pos - 1)
               ELSE pos = 1
    /\ pc = "loaded" => LoadedThere(blob, file)
    /\ pc = "parseIntelHex" => ParseLoads(blob, file, pos - 1)
    /\ pc = "parseRaw" => file.format = "raw" /\ Unfilled(blob)
    /\ pc \in {"fits", "ready"} => UploadThere(blob, file)

\* No file that was passed over was sound.
TriedInv ==
    tool = "mnflash" => \A j \in 1 .. nth - 1 :
        search[j] \in DOMAIN disk /\ Whole(disk[search[j]])
            => ~Sound(disk[search[j]])

LoaderInv == SearchInv /\ StageInv /\ TriedInv /\ StoresInside

LEMMA FileThere ==
    ASSUME SearchInv, pc \notin {"stat", "refused"}
    PROVE  OnDisk(file) /\ search[nth] \in DOMAIN disk /\ file = disk[search[nth]]
BY DiskFiles DEF SearchInv, file

\* A loader at work stays with its file.
LEMMA SameFile ==
    ASSUME UNCHANGED <<tool, disk, search, nth>>
    PROVE  /\ file' = file
           /\ TriedInv => TriedInv'
           /\ StoresInside /\ UNCHANGED outside => StoresInside'
BY DEF file, TriedInv, StoresInside

\* A store stays inside when the files are as StoresInside demands.
LEMMA StoreInside ==
    ASSUME UNCHANGED <<tool, disk, search, nth>>, StoresInside,
           search[nth] \in DOMAIN disk, NEW inside \in BOOLEAN,
           outside' = (outside \/ ~inside),
           /\ PlacedAlike(file)
           /\ tool = "micronucleus" /\ file.format = "raw" =>
                    Len(file.words) <= DataBuffer
           => inside
    PROVE  StoresInside'
<1>1. file' = file /\ disk' = disk /\ tool' = tool
  BY SameFile
<1>2. (\A n \in DOMAIN disk : PlacedAlike(disk[n])) => PlacedAlike(file)
  BY DEF file
<1>3. /\ \A n \in DOMAIN disk : PlacedAlike(disk[n])
      /\ tool = "micronucleus" /\ file.format = "raw" => Len(file.words) <= DataBuffer
      => ~outside /\ inside
  BY <1>2 DEF StoresInside
<1> QED
  BY <1>1, <1>3 DEF StoresInside

LEMMA LoaderInit ==
    ASSUME Init
    PROVE  LoaderInv
<1>1. disk \in Disks /\ nth = 1 /\ pos = 1 /\ ~outside /\ outside \in BOOLEAN
      /\ DOMAIN linebuf = Cells
  BY DEF Init
<1>2. TriedInv /\ StoresInside
  BY <1>1 DEF TriedInv, StoresInside
<1>3. CASE /\ tool = "mnflash" /\ pc = "stat"
           /\ \E info \in Devices : search \in locate(disk, info)
           /\ blob = mnflash_firmware_new
  <2>1. Len(search) \in Nat
    <3>1. PICK info \in Devices : search \in locate(disk, info)
      BY <1>3
    <3>2. CASE search = NamesFor(info)
      <4>1. Len(prefixes) = 2 /\ Len(extensions) = 4
        BY DEF prefixes, extensions
      <4>2. 2 * 4 \in Nat
        OBVIOUS
      <4>3. DOMAIN NamesFor(info) = 1 .. 2 * 4
        BY <4>1 DEF NamesFor
      <4>4. Len(prefixes) * Len(extensions) \in Nat
        BY <4>1
      <4> HIDE DEF prefixes, extensions
      <4>5. Len(NamesFor(info)) = Len(prefixes) * Len(extensions)
        BY <4>4 DEF NamesFor
      <4> QED
        BY <3>2, <4>4, <4>5
    <3>3. CASE search \in {<<name>> : name \in DOMAIN disk}
      <4>1. PICK name \in DOMAIN disk : search = <<name>>
        BY <3>3
      <4> QED
        BY <4>1
    <3> QED
      BY <3>1, <3>2, <3>3 DEF locate
  <2>2. IsBlob(blob)
    BY <1>3, NothingThere DEF Sized
  <2> QED
    BY <1>1, <1>2, <1>3, <2>1, <2>2 DEF LoaderInv, SearchInv, StageInv
<1>4. CASE /\ tool = "micronucleus"
           /\ search \in {<<name>> : name \in DOMAIN disk}
           /\ LET f == disk[search[1]]
              IN  \/ /\ f.format = "hex" /\ pc = "parseIntelHex"
                     /\ \A n \in DOMAIN f.lines : Complete(f.lines[n])
                  \/ f.format = "raw" /\ pc = "parseRaw"
           /\ blob = [data |-> [a \in 0 .. DataBuffer - 1 |-> Gap],
                      size |-> DataBuffer, start |-> 1, end |-> 0]
  <2>1. PICK name \in DOMAIN disk : search = <<name>>
    BY <1>4
  <2>2. Len(search) = 1 /\ search[1] \in DOMAIN disk
    BY <2>1
  <2>3. Unfilled(blob) /\ IsBlob(blob)
    BY <1>4 DEF Unfilled, IsBlob
  <2>4. SearchInv
    <3>1. nth \in 1 .. Len(search) /\ nth \in 1 .. Len(search) + 1
      BY <1>1, <2>2
    <3> QED
      BY <1>1, <1>4, <2>2, <2>3, <3>1 DEF SearchInv
  <2>5. OnDisk(file) /\ file = disk[search[1]]
    BY <1>1, <1>4, <2>4, FileThere
  <2>6. StageInv
    <3>1. CASE file.format = "hex" /\ pc = "parseIntelHex"
      <4>1. \A n \in DOMAIN file.lines : Complete(file.lines[n])
        BY <1>4, <2>5, <3>1
      <4>2. ParseLoads(blob, file, 0) /\ pos - 1 = 0
        BY <1>1, <2>3, <2>5, <3>1, <4>1, ParseBegins
      <4> QED
        BY <3>1, <4>2 DEF StageInv
    <3>2. CASE file.format = "raw" /\ pc = "parseRaw"
      BY <2>3, <3>2 DEF StageInv
    <3> QED
      BY <1>4, <2>5, <3>1, <3>2
  <2> QED
    BY <1>2, <2>4, <2>6 DEF LoaderInv
<1> QED
  BY <1>3, <1>4 DEF Init

(***************************************************************************)
(* Every step keeps it.                                                    *)
(***************************************************************************)
\* mnflash may go on to another file: only its stores count.
LEMMA OtherFile ==
    ASSUME StoresInside, tool = "mnflash", UNCHANGED <<tool, disk, outside>>
    PROVE  StoresInside'
BY DEF StoresInside

LEMMA SearchSteps ==
    ASSUME LoaderInv, Stat \/ NotFound
    PROVE  LoaderInv'
<1>1. SearchInv /\ TriedInv /\ StoresInside
  BY DEF LoaderInv
<1>2. tool = "mnflash" /\ pc = "stat" /\ UNCHANGED <<tool, disk, search, linebuf, outside>>
  BY <1>1 DEF SearchInv, Stat, NotFound
<1>3. StoresInside'
  BY <1>1, <1>2, OtherFile
<1>4. IsBlob(mnflash_firmware_new)
  BY NothingThere DEF Sized
<1>5. CASE NotFound
  <2>1. pc' = "refused" /\ UNCHANGED <<nth, pos, blob>>
    BY <1>5 DEF NotFound
  <2>2. SearchInv' /\ TriedInv' /\ StageInv'
    BY <2>1, <1>1, <1>2 DEF SearchInv, TriedInv, StageInv
  <2> QED
    BY <2>2, <1>3 DEF LoaderInv
<1>6. CASE Stat /\ search[nth] \in DOMAIN disk
  <2>1. pc' = "elf" /\ nth' = nth /\ nth <= Len(search) /\ pos' = 1
        /\ blob' = mnflash_firmware_new
    BY <1>6 DEF Stat
  <2>2. SearchInv'
    <3>1. nth \in 1 .. Len(search)
      BY <2>1, <1>1 DEF SearchInv
    <3> QED
      BY <2>1, <3>1, <1>1, <1>2, <1>4, <1>6 DEF SearchInv
  <2>3. \A f : ElfLoads(mnflash_firmware_new, f, 0)
    BY <1>4 DEF ElfLoads
  <2>4. StageInv'
    BY <2>1, <2>3 DEF StageInv
  <2>5. TriedInv'
    BY <2>1, <1>1, <1>2 DEF TriedInv
  <2> QED
    BY <2>2, <2>4, <2>5, <1>3 DEF LoaderInv
<1>7. CASE Stat /\ search[nth] \notin DOMAIN disk
  <2>1. pc' = "stat" /\ nth' = nth + 1 /\ nth <= Len(search) /\ pos' = 1
        /\ blob' = mnflash_firmware_new
    BY <1>7, <1>2 DEF Stat
  <2>2. nth' \in 1 .. Len(search) + 1 /\ nth \in 1 .. Len(search)
    BY <2>1, <1>1 DEF SearchInv
  <2>3. SearchInv'
    BY <2>1, <2>2, <1>1, <1>2, <1>4 DEF SearchInv
  <2>4. StageInv'
    BY <2>1 DEF StageInv
  <2>5. \A j \in 1 .. nth' - 1 : j = nth \/ j \in 1 .. nth - 1
    BY <2>1, <2>2
  <2>6. TriedInv'
    BY <2>5, <1>1, <1>2, <1>7 DEF TriedInv
  <2> QED
    BY <2>3, <2>4, <2>6, <1>3 DEF LoaderInv
<1> QED
  BY <1>5, <1>6, <1>7

\* What the steps of the loaders have in common.
LEMMA LoaderFrame ==
    ASSUME LoaderInv, UNCHANGED <<tool, disk, search, nth>>,
           pc \notin {"stat", "refused"}
    PROVE  /\ SearchInv /\ StageInv /\ TriedInv' /\ StoresInside
           /\ file' = file /\ OnDisk(file) /\ search[nth] \in DOMAIN disk
           /\ UNCHANGED outside => StoresInside'
           /\ pos \in Nat \ {0} /\ pos - 1 \in Nat /\ pos - 1 + 1 = pos
<1>1. SearchInv /\ StageInv /\ TriedInv /\ StoresInside
  BY DEF LoaderInv
<1>2. pos \in Nat \ {0}
  BY <1>1 DEF SearchInv
<1> QED
  BY <1>1, <1>2, SameFile, FileThere

LEMMA ElfGivesUp ==
    ASSUME LoaderInv, ElfFails
    PROVE  LoaderInv'
<1>1. pc = "elf" /\ ~ElfGood /\ pc' = "hex" /\ pos' = 1
      /\ blob' = mnflash_firmware_new /\ linebuf' = [i \in Cells |-> Rest]
      /\ UNCHANGED <<tool, disk, search, nth, outside>>
  BY DEF ElfFails, Refused, GoTo
<1>2. /\ SearchInv /\ StageInv /\ TriedInv' /\ StoresInside'
      /\ file' = file /\ OnDisk(file) /\ search[nth] \in DOMAIN disk
  BY <1>1, LoaderFrame
<1>3. IsBlob(mnflash_firmware_new)
  BY NothingThere DEF Sized
<1>4. SearchInv'
  BY <1>1, <1>2, <1>3 DEF SearchInv
<1>5. file.format = "elf" => ~Sound(file)
  <2>1. ASSUME file.format = "elf", Sound(file) PROVE FALSE
    <3>1. file.executable /\ \A n \in DOMAIN file.sections :
              file.sections[n].cells = <<>> \/ file.sections[n].sound
      BY <2>1 DEF Sound
    <3>2. pos <= Len(sections) => sections[pos] \in DOMAIN file.sections
      <4>1. pos <= 5 => pos \in 1 .. 5
        BY <1>2 DEF SearchInv
      <4> QED
        BY <4>1, <2>1, <1>2, ElfFile, SectionNames
    <3> QED
      BY <3>1, <3>2, <2>1, <1>1 DEF ElfGood
  <2> QED
    BY <2>1
<1>6. file.format = "hex" => HexLoads(mnflash_firmware_new, file, 0)
  BY <1>2, HexBegins
<1>7. StageInv'
  BY <1>1, <1>2, <1>5, <1>6 DEF StageInv
<1> QED
  BY <1>2, <1>4, <1>7 DEF LoaderInv

LEMMA ElfAddsSection ==
    ASSUME LoaderInv, ElfSection
    PROVE  LoaderInv'
<1> DEFINE i     == pos
           name  == sections[pos]
           s     == file.sections[name]
           at    == IF name = ".text" THEN s.addr ELSE blob.end
           room  == resize(blob, (IF name = ".data" THEN blob.end ELSE s.addr)
                                 + Len(s.cells))
           new   == Filled(room, at, s.cells,
                           IF name = ".text" THEN s.addr ELSE room.start,
                           at + Len(s.cells))
<1>1. pc = "elf" /\ ElfGood /\ pos <= Len(sections) /\ pos' = pos + 1
      /\ UNCHANGED <<tool, disk, search, nth, pc, linebuf>>
  BY DEF ElfSection
<1>2. /\ SearchInv /\ StageInv /\ TriedInv' /\ StoresInside
      /\ file' = file /\ OnDisk(file) /\ search[nth] \in DOMAIN disk
      /\ UNCHANGED outside => StoresInside'
      /\ pos \in Nat \ {0} /\ pos - 1 \in Nat /\ pos - 1 + 1 = pos
  BY <1>1, LoaderFrame
<1>3. pos - 1 \in 0 .. 4 /\ pos' - 1 = pos /\ pos' \in Nat \ {0}
  BY <1>1, <1>2, SectionNames
<1>4. ElfLoads(blob, file, pos - 1)
  BY <1>1, <1>2 DEF StageInv
<1>5. file.format = "elf" /\ file.executable /\ SectionGood(file, pos)
      /\ Part(file, pos) = s.cells
  BY <1>1 DEF ElfGood, SectionGood, Part
<1>6. CASE s.cells = <<>> \/ name = ".signature"
  <2>1. blob' = blob /\ outside' = outside
    BY <1>6 DEF ElfSection
  <2>2. ElfLoads(blob, file, pos - 1 + 1)
    BY <1>2, <1>3, <1>4, <1>5, <1>6, ElfSkips
  <2>3. SearchInv' /\ StageInv'
    BY <2>1, <2>2, <1>1, <1>2, <1>3 DEF SearchInv, StageInv
  <2> QED
    BY <2>1, <2>3, <1>2 DEF LoaderInv
<1>7. CASE ~(s.cells = <<>> \/ name = ".signature")
  <2>1. blob' = new /\ outside' = (outside \/ ~InBounds(room.data, at, Len(s.cells)))
    BY <1>7 DEF ElfSection, Filled
  <2>2. pos - 1 \in 0 .. 3
    BY <1>3, <1>7, SectionNames
  <2>3. /\ ElfLoads(new, file, pos - 1 + 1)
        /\ PlacedAlike(file) => InBounds(room.data, at, Len(s.cells))
    BY <2>2, <1>2, <1>4, <1>5, <1>7, ElfAppends
  <2> HIDE DEF new, room, at
  <2>4. StoresInside'
    BY <2>1, <2>3, <1>1, <1>2, StoreInside DEF InBounds
  <2>5. IsBlob(new)
    BY <2>3 DEF ElfLoads
  <2>6. SearchInv'
    BY <2>1, <2>5, <1>1, <1>2, <1>3 DEF SearchInv, InBounds
  <2>7. StageInv'
    BY <2>1, <2>3, <1>1, <1>2, <1>3 DEF StageInv
  <2> QED
    BY <2>4, <2>6, <2>7, <1>2 DEF LoaderInv
<1> QED
  BY <1>6, <1>7

\* mnflash_raw_load does not come to the end of a file of another format.
LEMMA TextIsRead ==
    ASSUME StageInv, pc = "raw", file.format # "raw"
    PROVE  Chunk # <<>>
<1>1. pos = 1 /\ Words = <<"text">>
  BY DEF StageInv, Words
<1>2. Len(Words) = 1 /\ Words[1] = "text"
  BY <1>1
<1>3. Chunk = SubSeq(Words, 1, 1)
  BY <1>1, <1>2, Constants DEF Chunk
<1>4. Len(SubSeq(Words, 1, 1)) = 1
  <2>1. \A k \in 1 .. 1 : Words[k] \in {"text"}
    BY <1>2
  <2> QED
    BY <2>1, SubSeqProperties
<1>5. ASSUME Chunk = <<>> PROVE FALSE
  BY <1>3, <1>4, <1>5
<1> QED
  BY <1>5

\* A loader that is through.
LEMMA LoaderEnds ==
    ASSUME LoaderInv, ElfEnd \/ HexEnd \/ RawEnd
    PROVE  LoaderInv'
<1>1. pc' = "loaded" /\ UNCHANGED <<tool, disk, search, nth, pos, blob, linebuf, outside>>
      /\ pc \in {"elf", "hex", "raw"}
  BY DEF ElfEnd, HexEnd, RawEnd, Loaded
<1>2. /\ SearchInv /\ StageInv /\ TriedInv' /\ StoresInside'
      /\ file' = file /\ OnDisk(file) /\ search[nth] \in DOMAIN disk
      /\ pos \in Nat \ {0} /\ pos - 1 \in Nat /\ pos - 1 + 1 = pos
  BY <1>1, LoaderFrame
<1>3. SearchInv'
  BY <1>1, <1>2 DEF SearchInv
<1>4. LoadedThere(blob, file)
  <2>1. CASE ElfEnd
    <3>1. ElfLoads(blob, file, pos - 1)
      BY <2>1, <1>2 DEF ElfEnd, StageInv
    <3>2. pos - 1 = 5
      BY <2>1, <3>1, <1>2, SectionNames DEF ElfEnd, ElfLoads
    <3> QED
      BY <3>1, <3>2, <1>2, ElfEnds DEF LoadedThere
  <2>2. CASE HexEnd
    <3>1. HexLoads(blob, file, pos - 1) /\ pos > Len(file.lines)
      BY <2>2, <1>2 DEF HexEnd, StageInv, IsHex
    <3>2. Len(file.lines) \in Nat
      BY <3>1, <1>2, HexFile, LenProperties DEF HexLoads
    <3>3. pos - 1 = Len(file.lines)
      BY <3>1, <3>2, <1>2 DEF HexLoads
    <3> QED
      BY <3>1, <3>3, <1>2, HexEnds DEF LoadedThere
  <2>3. CASE RawEnd
    <3>1. Chunk = <<>> /\ pc = "raw"
      BY <2>3 DEF RawEnd
    <3>2. CASE file.format = "raw"
      <4>1. RawLoads(blob, file, pos - 1)
        BY <3>1, <3>2, <1>2 DEF StageInv
      <4>2. Len(file.words) \in Nat
        BY <3>2, <1>2, RawFile
      <4>3. ASSUME pos - 1 < Len(file.words) PROVE FALSE
        <5>1. IsChunk(Chunk, file, pos - 1)
          BY <4>3, <3>2, <1>2, ChunkRead DEF Chunk, Words
        <5> QED
          BY <5>1, <3>1, EmptySeq, Constants DEF IsChunk
      <4>4. pos - 1 = Len(file.words)
        BY <4>1, <4>2, <4>3, <1>2 DEF RawLoads
      <4> QED
        BY <4>1, <4>4, <1>2, RawEnds DEF LoadedThere
    <3>3. CASE file.format # "raw"
      BY <3>1, <3>3, <1>2, TextIsRead
    <3> QED
      BY <3>2, <3>3
  <2> QED
    BY <2>1, <2>2, <2>3
<1>5. StageInv'
  BY <1>1, <1>2, <1>4 DEF StageInv
<1> QED
  BY <1>2, <1>3, <1>5 DEF LoaderInv

\* The digits of a record that was not cut short.
LEMMA DigitsOfWhole ==
    ASSUME OnDisk(file), file.format = "hex", pos \in 1 .. Len(file.lines),
           Complete(line), NEW cells \in Digits
    PROVE  BytesOf(line, cells)
<1>1. /\ line.len \in Nat /\ line.bytes \in Seq(Bytes)
      /\ Len(line.bytes) <= LineCells /\ LineCells \in Nat
  BY HexFile, Constants DEF line
<1>2. Len(line.bytes) = line.len + 1
  BY DEF Complete
<1>3. /\ cells \in [1 .. line.len -> {Buffer[i] : i \in Cells} \cup {Nul}]
      /\ \A i \in 1 .. line.len :
            cells[i] = Buffer[i - 1] \/ (Buffer[i - 1] = Rest /\ cells[i] = Nul)
  BY DEF Digits
<1> DEFINE S == {Buffer[i] : i \in Cells} \cup {Nul}
<1>4. cells \in [1 .. line.len -> S]
  BY <1>3
<1> HIDE DEF S
<1>5. cells \in Seq(S)
  BY <1>1, <1>4, SeqDef
<1>6. Len(cells) = line.len
  BY <1>1, <1>4, <1>5, LenProperties
<1>7. ASSUME NEW i \in 1 .. line.len
      PROVE  cells[i] = line.bytes[i] /\ cells[i] # Nul
  <2>1. i - 1 \in Cells /\ i - 1 < Len(line.bytes) /\ i - 1 + 1 = i
        /\ i \in 1 .. Len(line.bytes)
    BY <1>1, <1>2 DEF Cells
  <2>2. Buffer[i - 1] = line.bytes[i]
    BY <2>1 DEF Buffer
  <2>3. line.bytes[i] \in Bytes
    BY <2>1, <1>1, ElementOfSeq
  <2> QED
    BY <2>2, <2>3, <1>3, FilesAssumption
<1> QED
  BY <1>6, <1>7 DEF BytesOf

LEMMA HexReadsRecord ==
    ASSUME LoaderInv, HexData
    PROVE  LoaderInv'
<1> DEFINE room == resize(blob, line.addr + line.len)
           low  == LowestStart(blob, line.addr)
           top  == line.addr + line.len
<1>1. /\ pc = "hex" /\ HexGood /\ pos <= Len(file.lines) /\ line.type = "data"
      /\ linebuf' = Buffer /\ pos' = pos + 1
      /\ outside' = (outside \/ ~InBounds(room.data, line.addr, line.len))
      /\ UNCHANGED <<tool, disk, search, nth, pc>>
  BY DEF HexData
<1>2. PICK cells \in Digits :
        blob' = [room EXCEPT !.data  = Stored(room.data, line.addr, cells),
                             !.start = low, !.end = top]
  BY DEF HexData
<1> DEFINE new == Filled(room, line.addr, cells, low, top)
<1>3. blob' = new
  BY <1>2 DEF Filled
<1>4. /\ SearchInv /\ StageInv /\ TriedInv' /\ StoresInside
      /\ file' = file /\ OnDisk(file) /\ search[nth] \in DOMAIN disk
      /\ pos \in Nat \ {0} /\ pos - 1 \in Nat /\ pos - 1 + 1 = pos
  BY <1>1, LoaderFrame
<1>5. file.format = "hex" /\ Acceptable(line)
  BY <1>1 DEF HexGood, IsHex
<1>6. Len(file.lines) \in Nat /\ DOMAIN file.lines = 1 .. Len(file.lines)
  BY <1>4, <1>5, HexFile, LenProperties
<1>7. pos \in 1 .. Len(file.lines) /\ pos - 1 < Len(file.lines)
      /\ pos' - 1 = pos /\ pos' \in Nat \ {0}
  BY <1>1, <1>4, <1>6
<1>8. HexLoads(blob, file, pos - 1)
  BY <1>1, <1>4, <1>5 DEF StageInv
<1>9. Whole(file) => BytesOf(line, cells)
  <2>1. Whole(file) => Complete(line)
    BY <1>5, <1>6, <1>7 DEF Whole, Acceptable, line
  <2> QED
    BY <2>1, <1>4, <1>5, <1>7, DigitsOfWhole
<1>10. /\ HexLoads(new, file, pos - 1 + 1)
       /\ InBounds(room.data, line.addr, line.len)
  <2> DEFINE n == pos - 1
  <2>1. n \in Nat /\ n < Len(file.lines) /\ n + 1 = pos
    BY <1>4, <1>7
  <2>2. file.lines[n + 1] = line
    BY <2>1 DEF line
  <2>3. HexLoads(blob, file, n)
    BY <1>8
  <2> HIDE DEF n
  <2>4. /\ HexLoads(new, file, n + 1)
        /\ InBounds(room.data, line.addr, line.len)
    BY <2>1, <2>2, <2>3, <1>1, <1>4, <1>5, <1>9, HexReadsData
  <2> QED
    BY <2>4 DEF n
<1> HIDE DEF new, room, low, top
<1>11. StoresInside'
  BY <1>1, <1>4, <1>10, StoreInside DEF InBounds
<1>12. IsBlob(new)
  BY <1>10 DEF HexLoads, Sized
<1>13. SearchInv'
  <2>1. DOMAIN Buffer = Cells
    BY DEF Buffer
  <2> QED
    BY <2>1, <1>1, <1>3, <1>4, <1>7, <1>12 DEF SearchInv, InBounds
<1>14. StageInv'
  BY <1>1, <1>3, <1>4, <1>5, <1>7, <1>10 DEF StageInv
<1> QED
  BY <1>4, <1>11, <1>13, <1>14 DEF LoaderInv

LEMMA HexPassesRecord ==
    ASSUME LoaderInv, HexOther
    PROVE  LoaderInv'
<1>1. /\ pc = "hex" /\ HexGood /\ pos <= Len(file.lines) /\ line.type # "data"
      /\ linebuf' = Buffer /\ pos' = pos + 1
      /\ UNCHANGED <<tool, disk, search, nth, pc, blob, outside>>
  BY DEF HexOther
<1>2. /\ SearchInv /\ StageInv /\ TriedInv' /\ StoresInside'
      /\ file' = file /\ OnDisk(file) /\ search[nth] \in DOMAIN disk
      /\ pos \in Nat \ {0} /\ pos - 1 \in Nat /\ pos - 1 + 1 = pos
  BY <1>1, LoaderFrame
<1>3. file.format = "hex" /\ Acceptable(line)
  BY <1>1 DEF HexGood, IsHex
<1>4. Len(file.lines) \in Nat
  BY <1>2, <1>3, HexFile, LenProperties
<1>5. pos - 1 < Len(file.lines) /\ pos' - 1 = pos /\ pos' \in Nat \ {0}
  BY <1>1, <1>2, <1>4
<1>6. HexLoads(blob, file, pos - 1)
  BY <1>1, <1>2, <1>3 DEF StageInv
<1>7. HexLoads(blob, file, pos - 1 + 1)
  <2>1. file.lines[pos - 1 + 1] = line
    BY <1>2 DEF line
  <2> QED
    BY <2>1, <1>1, <1>2, <1>3, <1>5, <1>6, HexReadsOther
<1>8. SearchInv'
  <2>1. DOMAIN Buffer = Cells
    BY DEF Buffer
  <2> QED
    BY <2>1, <1>1, <1>2, <1>5 DEF SearchInv
<1>9. StageInv'
  BY <1>1, <1>2, <1>3, <1>5, <1>7 DEF StageInv
<1> QED
  BY <1>2, <1>8, <1>9 DEF LoaderInv

LEMMA HexGivesUp ==
    ASSUME LoaderInv, HexFails
    PROVE  LoaderInv'
<1>1. pc = "hex" /\ ~HexGood /\ pc' = "raw" /\ pos' = 1
      /\ blob' = mnflash_firmware_new /\ linebuf' = [i \in Cells |-> Rest]
      /\ UNCHANGED <<tool, disk, search, nth, outside>>
  BY DEF HexFails, Refused, GoTo
<1>2. /\ SearchInv /\ StageInv /\ TriedInv' /\ StoresInside'
      /\ file' = file /\ OnDisk(file) /\ search[nth] \in DOMAIN disk
      /\ pos \in Nat \ {0} /\ pos - 1 \in Nat /\ pos - 1 + 1 = pos
  BY <1>1, LoaderFrame
<1>3. IsBlob(mnflash_firmware_new)
  BY NothingThere DEF Sized
<1>4. SearchInv'
  BY <1>1, <1>2, <1>3 DEF SearchInv
<1>5. file.format = "hex" /\ Whole(file) => ~Sound(file)
  <2>1. ASSUME file.format = "hex", Whole(file), Sound(file) PROVE FALSE
    <3>1. Len(file.lines) \in Nat /\ DOMAIN file.lines = 1 .. Len(file.lines)
      BY <2>1, <1>2, HexFile, LenProperties
    <3>2. pos <= Len(file.lines)
          /\ ~(/\ Acceptable(line)
               /\ line.type = "data" =>
                    resize(blob, line.addr + line.len).data # NoData)
      BY <2>1, <1>1 DEF HexGood, IsHex
    <3>3. pos \in 1 .. Len(file.lines)
      BY <3>1, <3>2, <1>2
    <3>4. /\ line.addr \in Nat /\ line.len \in Nat /\ line.type \in Types
          /\ line.addr + line.len < MaxData
      BY <3>3, <2>1, <1>2, HexFile DEF line
    <3>5. line.mark /\ line.type # "unknown"
          /\ (Complete(line) => line.bytes[line.len + 1] = "sum")
      BY <3>1, <3>3, <2>1 DEF Sound, line
    <3>6. Complete(line)
      BY <3>1, <3>3, <3>5, <2>1 DEF Whole, line
    <3>7. 2 * Len(line.bytes) >= line.len
      BY <3>4, <3>6 DEF Complete
    <3>8. line.type \in {"data", "end", "extend", "start"}
      BY <3>4, <3>5 DEF Types
    <3>9. Acceptable(line)
      BY <3>5, <3>7, <3>8 DEF Acceptable
    <3>10. Sized(blob)
      BY <2>1, <1>1, <1>2 DEF StageInv, HexLoads
    <3>11. resize(blob, line.addr + line.len).data # NoData
      <4> DEFINE address == line.addr + line.len
      <4>1. address \in Nat /\ NextUnit(address) <= MaxData
        BY <3>4, UnitAbove
      <4> HIDE DEF address
      <4> QED
        BY <4>1, <3>10, ResizeRoom DEF address
    <3> QED
      BY <3>2, <3>5, <3>9, <3>11
  <2> QED
    BY <2>1
<1>6. file.format = "elf" => ~Sound(file)
  BY <1>1, <1>2 DEF StageInv
<1>7. file.format = "raw" => RawLoads(mnflash_firmware_new, file, 0)
  BY <1>2, RawBegins
<1>8. StageInv'
  BY <1>1, <1>2, <1>5, <1>6, <1>7 DEF StageInv
<1> QED
  BY <1>2, <1>4, <1>8 DEF LoaderInv

LEMMA RawReadsChunk ==
    ASSUME LoaderInv, RawChunk
    PROVE  LoaderInv'
<1> DEFINE now  == pos - 1
           room == resize(blob, now + Len(Chunk))
           new  == Filled(room, now, Chunk, 0, now + Len(Chunk))
<1>1. /\ pc = "raw" /\ Chunk # <<>> /\ ChunkGood
      /\ blob' = new
      /\ outside' = (outside \/ ~InBounds(room.data, now, Len(Chunk)))
      /\ pos' = pos + Len(Chunk)
      /\ UNCHANGED <<tool, disk, search, nth, pc, linebuf>>
  BY DEF RawChunk, Filled
<1>2. /\ SearchInv /\ StageInv /\ TriedInv' /\ StoresInside
      /\ file' = file /\ OnDisk(file) /\ search[nth] \in DOMAIN disk
      /\ pos \in Nat \ {0} /\ now \in Nat /\ now + 1 = pos
  BY <1>1, LoaderFrame
<1>3. file.format = "raw"
  <2>1. ASSUME file.format # "raw" PROVE FALSE
    <3>1. pos = 1 /\ Words = <<"text">>
      BY <2>1, <1>1, <1>2 DEF StageInv, Words
    <3>2. Chunk = SubSeq(Words, 1, 1)
      BY <3>1, Constants DEF Chunk
    <3>3. Len(SubSeq(Words, 1, 1)) = 1
      <4>1. \A k \in 1 .. 1 : Words[k] \in {"text"}
        BY <3>1
      <4> QED
        BY <4>1, SubSeqProperties
    <3>4. Len(Chunk) >= CheckInts
      BY <3>1, <1>1 DEF ChunkGood
    <3> QED
      BY <3>2, <3>3, <3>4, Constants
  <2> QED
    BY <2>1
<1>4. RawLoads(blob, file, now) /\ Words = file.words
  BY <1>1, <1>2, <1>3 DEF StageInv, Words
<1>5. Len(file.words) \in Nat
  BY <1>2, <1>3, RawFile
<1>6. now < Len(file.words)
  <2>1. ASSUME ~(now < Len(file.words)) PROVE FALSE
    <3>1. Chunk = SubSeq(Words, pos, Len(Words))
      BY <2>1, <1>2, <1>4, <1>5, Constants DEF Chunk
    <3>2. Len(Words) < pos /\ Len(Words) \in Int
      BY <2>1, <1>2, <1>4, <1>5
    <3>3. SubSeq(Words, pos, Len(Words)) = <<>>
      BY <3>2, <1>2, SubSeqEmpty
    <3> QED
      BY <3>1, <3>3, <1>1
  <2> QED
    BY <2>1
<1>7. IsChunk(Chunk, file, now)
  BY <1>2, <1>3, <1>4, <1>6, ChunkRead DEF Chunk
<1>8. Len(Chunk) \in Nat \ {0}
  BY <1>7, Constants DEF IsChunk
<1>9. now = 0 => RawVectors(file)
  <2>1. ASSUME now = 0 PROVE RawVectors(file)
    <3>1. pos = 1 /\ Len(Chunk) >= CheckInts /\ HasVectors(Chunk)
      BY <2>1, <1>1, <1>2 DEF ChunkGood
    <3>2. CheckInts \in Nat /\ 2 <= CheckInts /\ Len(Chunk) <= Len(file.words)
      BY <2>1, <1>5, <1>7, <1>8, Constants DEF IsChunk
    <3>3. \A i \in 1 .. CheckInts : Chunk[i] = file.words[i]
      <4>1. ASSUME NEW i \in 1 .. CheckInts PROVE Chunk[i] = file.words[i]
        <5>1. i \in 1 .. Len(Chunk) /\ now + i = i
          BY <2>1, <3>1, <3>2, <1>8
        <5> QED
          BY <5>1, <1>7 DEF IsChunk
      <4> QED
        BY <4>1
    <3>4. Chunk[2] = "rjmp"
      <4>1. ASSUME Chunk[2] # "rjmp" PROVE FALSE
        <5>1. \A i \in 1 .. CheckInts :
                  Chunk[2 * i - 1] = "rjmp" /\ Chunk[2 * i - 1] = "jmp"
          BY <4>1, <3>1 DEF HasVectors
        <5>2. 1 \in 1 .. CheckInts
          BY <3>2
        <5>3. "rjmp" = "jmp"
          BY <5>1, <5>2
        <5> QED
          BY <5>3
      <4> QED
        BY <4>1
    <3>5. \A i \in 1 .. CheckInts : Chunk[i] = "rjmp"
      BY <3>1, <3>4 DEF HasVectors
    <3>6. Len(file.words) >= CheckInts
      BY <3>1, <3>2, <1>5, <1>8
    <3> QED
      BY <3>3, <3>5, <3>6 DEF RawVectors
  <2> QED
    BY <2>1
<1>10. room.data # NoData
  BY <1>1 DEF ChunkGood
<1>11. /\ RawLoads(new, file, now + Len(Chunk))
       /\ InBounds(room.data, now, Len(Chunk))
  <2>1. PICK n : n = now
    OBVIOUS
  <2>2. PICK c : c = Chunk
    OBVIOUS
  <2>3. PICK f : f = file
    OBVIOUS
  <2>4. PICK b : b = blob
    OBVIOUS
  <2>5. /\ OnDisk(f) /\ f.format = "raw" /\ n \in Nat /\ RawLoads(b, f, n)
        /\ n < Len(f.words) /\ IsChunk(c, f, n)
        /\ n = 0 => RawVectors(f)
        /\ resize(b, n + Len(c)).data # NoData
    BY <2>1, <2>2, <2>3, <2>4, <1>2, <1>3, <1>4, <1>6, <1>7, <1>9, <1>10
  <2>6. /\ RawLoads(Filled(resize(b, n + Len(c)), n, c, 0, n + Len(c)), f, n + Len(c))
        /\ InBounds(resize(b, n + Len(c)).data, n, Len(c))
    BY <2>5, RawReads
  <2> QED
    BY <2>1, <2>2, <2>3, <2>4, <2>6
<1>12. pos' \in Nat \ {0} /\ pos' - 1 = now + Len(Chunk)
  BY <1>1, <1>2, <1>8
<1> HIDE DEF new, room
<1>13. StoresInside'
  BY <1>1, <1>2, <1>11, StoreInside DEF InBounds
<1>14. IsBlob(new)
  BY <1>11 DEF RawLoads, Sized
<1>15. SearchInv'
  BY <1>1, <1>2, <1>12, <1>14 DEF SearchInv, InBounds
<1>16. StageInv'
  BY <1>1, <1>2, <1>3, <1>11, <1>12 DEF StageInv
<1> QED
  BY <1>2, <1>13, <1>15, <1>16 DEF LoaderInv

\* A sound raw file is not passed over.
LEMMA RawTaken ==
    ASSUME SearchInv, StageInv, pc = "raw", OnDisk(file), Chunk # <<>>,
           file.format = "raw", Sound(file)
    PROVE  ChunkGood
<1> DEFINE n == pos - 1
<1>1. RawLoads(blob, file, n) /\ Words = file.words /\ Len(file.words) \in Nat
  BY RawFile DEF StageInv, Words
<1>2. n \in Nat /\ pos = n + 1 /\ pos \in Nat
  BY DEF SearchInv
<1>3. /\ Len(file.words) >= CheckInts /\ Len(file.words) <= MaxData
      /\ \A i \in 1 .. CheckInts : file.words[i] = "rjmp"
  BY DEF Sound
<1>4. n < Len(file.words)
  <2>1. ASSUME ~(n < Len(file.words)) PROVE FALSE
    <3>1. Chunk = SubSeq(Words, pos, Len(Words))
      BY <2>1, <1>1, <1>2, Constants DEF Chunk
    <3>2. Len(Words) < pos /\ Len(Words) \in Int
      BY <2>1, <1>1, <1>2
    <3>3. SubSeq(Words, pos, Len(Words)) = <<>>
      BY <3>2, <1>2, SubSeqEmpty
    <3> QED
      BY <3>1, <3>3
  <2> QED
    BY <2>1
<1>5. IsChunk(Chunk, file, n)
  BY <1>1, <1>2, <1>4, ChunkRead DEF Chunk
<1>6. Enough(blob, n + Len(Chunk)) \/ NextUnit(n + Len(Chunk)) <= MaxData
  <2>1. PICK c : c = Chunk
    OBVIOUS
  <2>2. IsChunk(c, file, n)
    BY <2>1, <1>5
  <2> HIDE DEF n
  <2>3. Enough(blob, n + Len(c)) \/ NextUnit(n + Len(c)) <= MaxData
    BY <2>2, <1>1, <1>2, <1>3, <1>4, RawRoom
  <2> QED
    BY <2>1, <2>3
<1>7. Len(Chunk) \in Nat \ {0} /\ n + Len(Chunk) \in Nat
  BY <1>2, <1>5, Constants DEF IsChunk
<1>8. resize(blob, n + Len(Chunk)).data # NoData
  <2> DEFINE address == n + Len(Chunk)
  <2>1. Sized(blob) /\ address \in Nat
    BY <1>1, <1>7 DEF RawLoads
  <2>2. Enough(blob, address) \/ NextUnit(address) <= MaxData
    BY <1>6
  <2> HIDE DEF address, n
  <2> QED
    BY <2>1, <2>2, ResizeRoom DEF address
<1>9. pos = 1 => Len(Chunk) >= CheckInts /\ HasVectors(Chunk)
  <2>1. ASSUME pos = 1 PROVE Len(Chunk) >= CheckInts /\ HasVectors(Chunk)
    <3>1. n = 0
      BY <2>1
    <3>2. Len(Chunk) >= CheckInts
      BY <3>1, <1>1, <1>3, <1>5, <1>7, Constants DEF IsChunk
    <3>3. \A i \in 1 .. CheckInts : Chunk[i] = "rjmp"
      <4>1. ASSUME NEW i \in 1 .. CheckInts PROVE Chunk[i] = "rjmp"
        <5>1. i \in 1 .. Len(Chunk) /\ n + i = i
          BY <3>1, <3>2, <1>7, Constants
        <5> QED
          BY <5>1, <1>3, <1>5 DEF IsChunk
      <4> QED
        BY <4>1
    <3>4. 2 \in 1 .. CheckInts
      BY Constants
    <3> QED
      BY <3>2, <3>3, <3>4 DEF HasVectors
  <2> QED
    BY <2>1
<1> QED
  BY <1>8, <1>9 DEF ChunkGood

LEMMA RawGivesUp ==
    ASSUME LoaderInv, RawFails
    PROVE  LoaderInv'
<1>1. pc = "raw" /\ Chunk # <<>> /\ ~ChunkGood /\ pc' = "stat" /\ pos' = 1
      /\ nth' = nth + 1
      /\ blob' = mnflash_firmware_new /\ linebuf' = [i \in Cells |-> Rest]
      /\ UNCHANGED <<tool, disk, search, outside>>
  BY DEF RawFails, Refused, GoTo
<1>2. SearchInv /\ StageInv /\ TriedInv /\ StoresInside
  BY DEF LoaderInv
<1>3. OnDisk(file) /\ file = disk[search[nth]] /\ tool = "mnflash"
      /\ nth \in 1 .. Len(search)
  BY <1>1, <1>2, FileThere DEF SearchInv
<1>4. Whole(file) => ~Sound(file)
  <2>1. file.format \in {"hex", "elf", "raw"}
    BY <1>3, FormatOf
  <2>2. CASE file.format = "raw"
    BY <2>2, <1>1, <1>2, <1>3, RawTaken
  <2>3. CASE file.format # "raw"
    BY <2>1, <2>3, <1>1, <1>2 DEF StageInv
  <2> QED
    BY <2>2, <2>3
<1>5. nth' \in 1 .. Len(search) + 1
      /\ \A j \in 1 .. nth' - 1 : j = nth \/ j \in 1 .. nth - 1
  BY <1>1, <1>2, <1>3 DEF SearchInv
<1>6. IsBlob(mnflash_firmware_new)
  BY NothingThere DEF Sized
<1>7. SearchInv'
  BY <1>1, <1>2, <1>3, <1>5, <1>6 DEF SearchInv
<1>8. TriedInv'
  BY <1>1, <1>2, <1>3, <1>4, <1>5 DEF TriedInv
<1>9. StageInv'
  BY <1>1 DEF StageInv
<1>10. StoresInside'
  BY <1>1, <1>2, <1>3, OtherFile
<1> QED
  BY <1>7, <1>8, <1>9, <1>10 DEF LoaderInv

LEMMA ParserReads ==
    ASSUME LoaderInv, ParseLine
    PROVE  LoaderInv'
<1>1. pc = "parseIntelHex" /\ pos <= Len(file.lines) /\ pos' = pos + 1
      /\ UNCHANGED <<tool, disk, search, nth, pc, linebuf>>
  BY DEF ParseLine
<1>2. /\ SearchInv /\ StageInv /\ TriedInv' /\ StoresInside
      /\ file' = file /\ OnDisk(file) /\ search[nth] \in DOMAIN disk
      /\ UNCHANGED outside => StoresInside'
      /\ pos \in Nat \ {0} /\ pos - 1 \in Nat /\ pos - 1 + 1 = pos
  BY <1>1, LoaderFrame
<1>3. ParseLoads(blob, file, pos - 1)
  BY <1>1, <1>2 DEF StageInv
<1>4. Len(file.lines) \in Nat
  BY <1>2, <1>3, HexFile, LenProperties DEF ParseLoads
<1>5. pos - 1 < Len(file.lines) /\ pos' - 1 = pos /\ pos' \in Nat \ {0}
      /\ file.lines[pos - 1 + 1] = line
  BY <1>1, <1>2, <1>4 DEF line
<1>6. CASE ~(line.mark /\ line.type = "data")
  <2>1. blob' = blob /\ outside' = outside
    BY <1>6 DEF ParseLine
  <2>2. ParseLoads(blob, file, pos - 1 + 1)
    BY <1>2, <1>3, <1>5, <1>6, ParseSkips
  <2>3. SearchInv' /\ StageInv'
    BY <2>1, <2>2, <1>1, <1>2, <1>5 DEF SearchInv, StageInv
  <2> QED
    BY <2>1, <2>3, <1>2 DEF LoaderInv
<1>7. CASE line.mark /\ line.type = "data"
  <2> DEFINE new == [Extended(blob, line.addr, line.addr + line.len) EXCEPT
                       !.data = Stored(@, line.addr, SubSeq(line.bytes, 1, line.len))]
  <2>1. blob' = new
        /\ outside' = (outside \/ ~InBounds(blob.data, line.addr, line.len))
    BY <1>7 DEF ParseLine
  <2>2. /\ ParseLoads(new, file, pos - 1 + 1)
        /\ InBounds(blob.data, line.addr, line.len)
    <3>1. PICK n : n = pos - 1
      OBVIOUS
    <3>2. n \in Nat /\ n < Len(file.lines) /\ file.lines[n + 1] = line
          /\ ParseLoads(blob, file, n)
      BY <3>1, <1>2, <1>3, <1>5
    <3>3. LET l == file.lines[n + 1]
              next == [Extended(blob, l.addr, l.addr + l.len) EXCEPT
                         !.data = Stored(@, l.addr, SubSeq(l.bytes, 1, l.len))]
          IN  ParseLoads(next, file, n + 1) /\ InBounds(blob.data, l.addr, l.len)
      BY <3>2, <1>2, <1>7, ParseReads
    <3> QED
      BY <3>1, <3>2, <3>3
  <2> HIDE DEF new
  <2>3. StoresInside'
    BY <2>1, <2>2, <1>1, <1>2, StoreInside DEF InBounds
  <2>4. IsBlob(new)
    BY <2>2 DEF ParseLoads
  <2>5. SearchInv'
    BY <2>1, <2>4, <1>1, <1>2, <1>5 DEF SearchInv, InBounds
  <2>6. StageInv'
    BY <2>1, <2>2, <1>1, <1>2, <1>5 DEF StageInv
  <2> QED
    BY <2>3, <2>5, <2>6, <1>2 DEF LoaderInv
<1> QED
  BY <1>6, <1>7

LEMMA ParserRaw ==
    ASSUME LoaderInv, ParseRaw
    PROVE  LoaderInv'
<1> DEFINE new == [blob EXCEPT !.data  = Stored(@, 0, file.words),
                               !.start = 0, !.end = Len(file.words)]
<1>1. pc = "parseRaw" /\ pc' = "fits" /\ blob' = new
      /\ outside' = (outside \/ ~InBounds(blob.data, 0, Len(file.words)))
      /\ UNCHANGED <<tool, disk, search, nth, pos, linebuf>>
  BY DEF ParseRaw
<1>2. /\ SearchInv /\ StageInv /\ TriedInv' /\ StoresInside
      /\ file' = file /\ OnDisk(file) /\ search[nth] \in DOMAIN disk
  BY <1>1, LoaderFrame
<1>3. file.format = "raw" /\ Unfilled(blob) /\ tool = "micronucleus"
  BY <1>1, <1>2 DEF StageInv, SearchInv
<1>4. /\ IsBlob(new) /\ UploadThere(new, file)
      /\ Len(file.words) <= DataBuffer => InBounds(blob.data, 0, Len(file.words))
  BY <1>2, <1>3, RawParses
<1> HIDE DEF new
<1>5. StoresInside'
  BY <1>1, <1>2, <1>3, <1>4, StoreInside DEF InBounds
<1>6. SearchInv'
  BY <1>1, <1>2, <1>3, <1>4 DEF SearchInv, InBounds
<1>7. StageInv'
  BY <1>1, <1>2, <1>4 DEF StageInv
<1> QED
  BY <1>2, <1>5, <1>6, <1>7 DEF LoaderInv

LEMMA ParserEnds ==
    ASSUME LoaderInv, ParseEnd \/ Fits
    PROVE  LoaderInv'
<1>1. UNCHANGED <<tool, disk, search, nth, pos, blob, linebuf, outside>>
      /\ pc \in {"parseIntelHex", "fits"}
  BY DEF ParseEnd, Fits
<1>2. /\ SearchInv /\ StageInv /\ TriedInv' /\ StoresInside'
      /\ file' = file /\ OnDisk(file) /\ search[nth] \in DOMAIN disk
      /\ pos \in Nat \ {0}
  BY <1>1, LoaderFrame
<1>3. CASE ParseEnd
  <2>1. pc = "parseIntelHex" /\ pc' = "fits" /\ pos > Len(file.lines)
    BY <1>3 DEF ParseEnd
  <2>2. ParseLoads(blob, file, pos - 1)
    BY <2>1, <1>2 DEF StageInv
  <2>3. Len(file.lines) \in Nat
    BY <2>2, <1>2, HexFile, LenProperties DEF ParseLoads
  <2>4. pos - 1 = Len(file.lines)
    BY <2>1, <2>2, <2>3, <1>2 DEF ParseLoads
  <2>5. UploadThere(blob, file)
    BY <2>2, <2>4, <1>2, ParseEnds
  <2>6. SearchInv' /\ StageInv'
    BY <2>1, <2>5, <1>1, <1>2 DEF SearchInv, StageInv
  <2> QED
    BY <2>6, <1>2 DEF LoaderInv
<1>4. CASE Fits
  <2>1. pc = "fits" /\ pc' \in {"refused", "ready"}
    BY <1>4 DEF Fits
  <2>2. SearchInv' /\ StageInv'
    BY <2>1, <1>1, <1>2 DEF SearchInv, StageInv
  <2> QED
    BY <2>2, <1>2 DEF LoaderInv
<1> QED
  BY <1>3, <1>4

LEMMA LoaderStep ==
    ASSUME LoaderInv, [Next]_vars
    PROVE  LoaderInv'
<1>1. CASE UNCHANGED vars
  BY <1>1 DEF vars, LoaderInv, SearchInv, StageInv, TriedInv, StoresInside, file
<1>2. CASE Stat \/ NotFound
  BY <1>2, SearchSteps
<1>3. CASE ElfFails
  BY <1>3, ElfGivesUp
<1>4. CASE ElfSection
  BY <1>4, ElfAddsSection
<1>5. CASE ElfEnd \/ HexEnd \/ RawEnd
  BY <1>5, LoaderEnds
<1>6. CASE HexData
  BY <1>6, HexReadsRecord
<1>7. CASE HexOther
  BY <1>7, HexPassesRecord
<1>8. CASE HexFails
  BY <1>8, HexGivesUp
<1>9. CASE RawChunk
  BY <1>9, RawReadsChunk
<1>10. CASE RawFails
  BY <1>10, RawGivesUp
<1>11. CASE ParseLine
  BY <1>11, ParserReads
<1>12. CASE ParseRaw
  BY <1>12, ParserRaw
<1>13. CASE ParseEnd \/ Fits
  BY <1>13, ParserEnds
<1> QED
  BY <1>1, <1>2, <1>3, <1>4, <1>5, <1>6, <1>7, <1>8, <1>9, <1>10, <1>11, <1>12,
     <1>13 DEF Next, Finished

(***************************************************************************)
(* ELF files whose payload is stored behind the room made for it.          *)
(***************************************************************************)
\* After n sections there is no more memory than one of them has asked for.
RoomMade(b, f, n) ==
    n > 0 /\ f.format = "elf" /\ Part(f, 1) # <<>> =>
        /\ b.end = LoadedTo(f, n) /\ b.size \in Nat
        /\ \E j \in 1 .. n :
            j <= 4 /\ Part(f, j) # <<>> /\ b.size <= NextUnit(Asked(f, j))

OverrunInv ==
    /\ pc = "elf" => RoomMade(blob, file, pos - 1)
    /\ \A i \in {3, 4} :
        OverrunsAt(file, i) /\ (pc = "loaded" \/ (pc = "elf" /\ i < pos))
            => outside

LEMMA ResizeSize ==
    ASSUME NEW b, IsBlob(b), NEW address
    PROVE  resize(b, address).size \in {b.size, NextUnit(address)}
<1> DEFINE new == NextUnit(address)
<1>1. b = [data |-> b.data, size |-> b.size, start |-> b.start, end |-> b.end]
  BY DEF IsBlob
<1> HIDE DEF new
<1>2. /\ [b EXCEPT !.data = NoData].size = b.size
      /\ [b EXCEPT !.data = Grown(b, new), !.size = new].size = new
  BY <1>1
<1> QED
  BY <1>2 DEF resize, new

\* Sections that are not there, and the signature, need no room.
LEMMA NoRoom ==
    ASSUME NEW f, OnDisk(f), f.format = "elf", NEW n \in 0 .. 4, NEW b,
           RoomMade(b, f, n),
           Part(f, n + 1) = <<>> \/ sections[n + 1] = ".signature"
    PROVE  /\ RoomMade(b, f, n + 1)
           /\ \A i \in {3, 4} : i = n + 1 => ~OverrunsAt(f, i)
<1>1. n = 4 \/ Part(f, n + 1) = <<>>
  <2>1. n + 1 = 1 \/ n + 1 = 2 \/ n + 1 = 3 \/ n + 1 = 4 \/ n = 4
    OBVIOUS
  <2>2. n # 4 => sections[n + 1] # ".signature"
    BY <2>1, SectionNames
  <2> QED
    BY <2>2
<1>2. ASSUME Part(f, 1) # <<>> PROVE RoomMade(b, f, n + 1)
  <2>1. n > 0
    <3>1. ASSUME n = 0 PROVE FALSE
      <4>1. n + 1 = 1
        BY <3>1
      <4> QED
        BY <4>1, <3>1, <1>1, <1>2
    <3> QED
      BY <3>1
  <2>2. Len(Joined(f, n + 1)) = Len(Joined(f, n))
    <3>1. CASE n = 4
      <4>1. n + 1 = 5
        BY <3>1
      <4> QED
        BY <3>1, <4>1, JoinedGrows
    <3>2. CASE n # 4
      <4>1. n \in 0 .. 3 /\ Part(f, n + 1) = <<>>
        BY <3>2, <1>1
      <4>2. Len(Joined(f, n + 1)) = Len(Joined(f, n)) + Len(Part(f, n + 1))
        BY <4>1, JoinedLengths
      <4>3. Len(Joined(f, n)) \in Nat /\ Len(<<>>) = 0
        BY JoinedLengths, SMTT(30)
      <4> QED
        BY <4>1, <4>2, <4>3
    <3> QED
      BY <3>1, <3>2
  <2>3. \A j \in 1 .. n : j \in 1 .. n + 1
    OBVIOUS
  <2> QED
    BY <2>1, <2>2, <2>3, <1>2 DEF RoomMade, LoadedTo
<1>3. ASSUME NEW i \in {3, 4}, i = n + 1 PROVE ~OverrunsAt(f, i)
  <2>1. n # 4
    BY <1>3
  <2> QED
    BY <2>1, <1>1, <1>3 DEF OverrunsAt
<1> QED
  BY <1>2, <1>3 DEF RoomMade

\* A section that is loaded: what it asks for is the most there is, or was
\* there; a store that ends behind that is not inside the memory.
LEMMA RoomAsked ==
    ASSUME NEW f, OnDisk(f), f.format = "elf", NEW n \in 0 .. 3, NEW b,
           IsBlob(b), n = 0 => b = mnflash_firmware_new, RoomMade(b, f, n),
           Part(f, n + 1) # <<>>
    PROVE  LET name  == sections[n + 1]
               cells == Part(f, n + 1)
               addr  == f.sections[name].addr
               at    == IF name = ".text" THEN addr ELSE b.end
               room  == resize(b, (IF name = ".data" THEN b.end ELSE addr) + Len(cells))
               new   == Filled(room, at, cells,
                               IF name = ".text" THEN addr ELSE room.start,
                               at + Len(cells))
           IN  /\ RoomMade(new, f, n + 1)
               /\ \A i \in {3, 4} : i = n + 1 /\ OverrunsAt(f, i)
                    => ~InBounds(room.data, at, Len(cells))
<1> DEFINE name    == sections[n + 1]
           cells   == Part(f, n + 1)
           addr    == f.sections[name].addr
           at      == IF name = ".text" THEN addr ELSE b.end
           address == (IF name = ".data" THEN b.end ELSE addr) + Len(cells)
           room    == resize(b, address)
           start   == IF name = ".text" THEN addr ELSE room.start
           new     == Filled(room, at, cells, start, at + Len(cells))
<1>1. /\ b.end \in Nat /\ b.start \in Nat /\ addr \in Nat
      /\ Len(cells) \in Nat /\ Len(cells) > 0
  <2>1. n + 1 \in 1 .. 5
    OBVIOUS
  <2> QED
    BY <2>1, SectionCells DEF IsBlob
<1>2. /\ name = ".text" <=> n = 0
      /\ name = ".data" <=> n = 1
      /\ n = 0 => addr = f.sections[".text"].addr
  <2>1. n + 1 = 1 \/ n + 1 = 2 \/ n + 1 = 3 \/ n + 1 = 4
    OBVIOUS
  <2> QED
    BY <2>1, SectionNames
<1> SUFFICES ASSUME Part(f, 1) # <<>>
             PROVE  /\ RoomMade(new, f, n + 1)
                    /\ \A i \in {3, 4} : i = n + 1 /\ OverrunsAt(f, i)
                         => ~InBounds(room.data, at, Len(cells))
  BY DEF RoomMade, OverrunsAt
<1>3. /\ Len(Joined(f, n)) \in Nat /\ Len(Joined(f, 0)) = 0
      /\ Len(Joined(f, n + 1)) = Len(Joined(f, n)) + Len(cells)
  BY JoinedLengths, SMTT(30)
<1>4. f.sections[".text"].addr \in Nat
  BY ElfFile DEF Names
<1> HIDE DEF cells, addr
<1>5. at \in Nat /\ at + Len(cells) = LoadedTo(f, n + 1)
  <2>1. CASE n = 0
    <3>1. at = f.sections[".text"].addr
      BY <2>1, <1>2
    <3>2. Len(Joined(f, n + 1)) = Len(cells)
      BY <2>1, <1>1, <1>3
    <3> HIDE DEF at
    <3> QED
      BY <3>1, <3>2, <1>4 DEF LoadedTo
  <2>2. CASE n > 0
    <3>1. at = f.sections[".text"].addr + Len(Joined(f, n))
      BY <2>2, <1>2 DEF RoomMade, LoadedTo
    <3>2. LoadedTo(f, n + 1)
            = f.sections[".text"].addr + (Len(Joined(f, n)) + Len(cells))
      BY <1>3 DEF LoadedTo
    <3>3. Len(cells) \in Nat /\ Len(Joined(f, n)) \in Nat
      BY <1>1, <1>3
    <3> HIDE DEF at
    <3>4. at \in Nat
      BY <3>1, <3>3, <1>4
    <3> QED
      BY <3>1, <3>2, <3>3, <3>4, <1>4
  <2> QED
    BY <2>1, <2>2
<1>6. address \in Nat /\ address = Asked(f, n + 1)
  <2>1. CASE n \in {0, 1}
    <3>1. address = at + Len(cells) /\ n + 1 \notin {3, 4}
      BY <2>1, <1>2
    <3> QED
      BY <3>1, <1>1, <1>5 DEF Asked
  <2>2. CASE n \in {2, 3}
    <3>1. address = addr + Len(cells) /\ n + 1 \in {3, 4}
      BY <2>2, <1>2
    <3>2. addr + Len(cells) = Linked(f, n + 1)
      BY DEF Linked, addr, cells
    <3> QED
      BY <3>1, <3>2, <1>1 DEF Asked
  <2> QED
    BY <2>1, <2>2
<1> HIDE DEF address, at
<1>7. /\ room.size \in {b.size, NextUnit(address)} /\ IsBlob(room)
      /\ room.start = b.start
  BY <1>6, ResizeSize, ResizeBlob
<1>8. NextUnit(address) \in Nat
  BY <1>6, UnitAbove
<1> HIDE DEF room
<1>9. /\ room.size \in Nat
      /\ \E j \in 1 .. n + 1 :
            j <= 4 /\ Part(f, j) # <<>> /\ room.size <= NextUnit(Asked(f, j))
  <2>1. CASE room.size = NextUnit(address)
    <3>1. n + 1 \in 1 .. n + 1 /\ n + 1 <= 4
      OBVIOUS
    <3> QED
      BY <2>1, <3>1, <1>6, <1>8
  <2>2. CASE room.size = b.size /\ n > 0
    <3>1. PICK j \in 1 .. n :
            j <= 4 /\ Part(f, j) # <<>> /\ b.size <= NextUnit(Asked(f, j))
      BY <2>2 DEF RoomMade
    <3>2. j \in 1 .. n + 1
      BY <3>1
    <3> QED
      BY <2>2, <3>1, <3>2 DEF RoomMade
  <2>3. CASE room.size = b.size /\ n = 0
    <3>1. room.size = 0 /\ Part(f, 1) # <<>> /\ n + 1 = 1
      BY <2>3, NothingThere
    <3>2. 1 \in 1 .. n + 1 /\ 1 <= 4
      BY <2>3
    <3> QED
      BY <3>1, <3>2, <1>6, <1>8
  <2> QED
    BY <1>7, <2>1, <2>2, <2>3
<1>10. start \in Nat
  BY <1>1, <1>7
<1>11. new.size = room.size /\ new.end = at + Len(cells)
  <2>1. at + Len(cells) \in Nat
    BY <1>1, <1>5
  <2> HIDE DEF start
  <2> QED
    BY <2>1, <1>5, <1>7, <1>10, StoredBlob
<1> HIDE DEF new, start
<1>12. RoomMade(new, f, n + 1)
  BY <1>5, <1>9, <1>11 DEF RoomMade
<1>13. ASSUME NEW i \in {3, 4}, i = n + 1, OverrunsAt(f, i),
              InBounds(room.data, at, Len(cells))
       PROVE  FALSE
  <2>1. at + Len(cells) - 1 \in at .. at + Len(cells) - 1
    BY <1>1, <1>5
  <2>2. at + Len(cells) - 1 \in DOMAIN room.data
    BY <2>1, <1>13 DEF InBounds
  <2>3. at + Len(cells) <= room.size
    BY <2>2, <1>1, <1>5, <1>7, <1>9 DEF IsBlob
  <2>4. PICK j \in 1 .. n + 1 :
          j <= 4 /\ Part(f, j) # <<>> /\ room.size <= NextUnit(Asked(f, j))
    BY <1>9
  <2>5. NextUnit(Asked(f, j)) < LoadedTo(f, n + 1)
    BY <2>4, <1>13 DEF OverrunsAt
  <2>6. NextUnit(Asked(f, j)) \in Int
    <3>1. Asked(f, j) \in Nat
      <4>1. j \in 1 .. 4 /\ j \in 1 .. 5 /\ j \in 0 .. 4
        BY <2>4
      <4>2. Len(Part(f, j)) \in Nat /\ f.sections[sections[j]].addr \in Nat
        BY <4>1, SectionCells
      <4>3. Len(Joined(f, j)) \in Nat
        BY <4>1, JoinedLengths
      <4> QED
        BY <4>2, <4>3, <1>4 DEF Asked, Linked, LoadedTo
    <3> QED
      BY <3>1, UnitAbove
  <2> QED
    BY <2>3, <2>4, <2>5, <2>6, <1>1, <1>5, <1>9
<1> QED
  BY <1>12, <1>13 DEF cells, addr

LEMMA SectionRoom ==
    ASSUME LoaderInv, OverrunInv, ElfSection
    PROVE  OverrunInv'
<1> DEFINE name  == sections[pos]
           s     == file.sections[name]
           at    == IF name = ".text" THEN s.addr ELSE blob.end
           room  == resize(blob, (IF name = ".data" THEN blob.end ELSE s.addr)
                                 + Len(s.cells))
           new   == Filled(room, at, s.cells,
                           IF name = ".text" THEN s.addr ELSE room.start,
                           at + Len(s.cells))
<1>1. pc = "elf" /\ ElfGood /\ pos <= Len(sections) /\ pos' = pos + 1
      /\ UNCHANGED <<tool, disk, search, nth, pc, linebuf>>
  BY DEF ElfSection
<1>2. /\ SearchInv /\ StageInv /\ file' = file /\ OnDisk(file)
      /\ pos \in Nat \ {0} /\ pos - 1 \in Nat /\ pos - 1 + 1 = pos
  BY <1>1, LoaderFrame
<1>3. pos - 1 \in 0 .. 4 /\ pos' - 1 = pos /\ pos' \in Nat \ {0}
  BY <1>1, <1>2, SectionNames
<1>4. /\ file.format = "elf" /\ Part(file, pos) = s.cells
      /\ IsBlob(blob) /\ (pos - 1 = 0 => blob = mnflash_firmware_new)
      /\ RoomMade(blob, file, pos - 1)
  BY <1>1, <1>2 DEF ElfGood, Part, StageInv, ElfLoads, OverrunInv
<1>5. /\ RoomMade(blob', file, pos)
      /\ \A i \in {3, 4} : i = pos /\ OverrunsAt(file, i) => outside'
  <2>1. CASE s.cells = <<>> \/ name = ".signature"
    <3>1. blob' = blob
      BY <2>1 DEF ElfSection
    <3> QED
      BY <2>1, <3>1, <1>2, <1>3, <1>4, NoRoom
  <2>2. CASE ~(s.cells = <<>> \/ name = ".signature")
    <3>1. blob' = new /\ outside' = (outside \/ ~InBounds(room.data, at, Len(s.cells)))
      BY <2>2 DEF ElfSection, Filled
    <3>2. pos - 1 \in 0 .. 3
      BY <1>3, <2>2, SectionNames
    <3>3. /\ RoomMade(new, file, pos - 1 + 1)
          /\ \A i \in {3, 4} : i = pos - 1 + 1 /\ OverrunsAt(file, i)
               => ~InBounds(room.data, at, Len(s.cells))
      BY <3>2, <1>2, <1>4, <2>2, RoomAsked
    <3> HIDE DEF new, room, at
    <3> QED
      BY <3>1, <3>3, <1>2
  <2> QED
    BY <2>1, <2>2
<1>6. outside => outside'
  BY DEF ElfSection
<1>7. \A i \in {3, 4} : i < pos' => i < pos \/ i = pos
  BY <1>1, <1>2
<1> HIDE DEF s, name
<1> QED
  BY <1>1, <1>2, <1>3, <1>5, <1>6, <1>7 DEF OverrunInv

LEMMA OverrunStep ==
    ASSUME LoaderInv, OverrunInv, [Next]_vars
    PROVE  OverrunInv'
<1>1. SearchInv /\ StageInv
  BY DEF LoaderInv
<1>2. CASE pc' \notin {"elf", "loaded"}
  BY <1>2 DEF OverrunInv
<1>3. CASE UNCHANGED vars \/ Finished
  BY <1>3 DEF Finished, vars, OverrunInv, file
<1>4. CASE Stat /\ pc' = "elf"
  <2>1. pos' - 1 = 0 /\ pos' = 1
    BY <1>4 DEF Stat
  <2> QED
    BY <1>4, <2>1 DEF OverrunInv, RoomMade
<1>5. CASE ElfEnd
  <2>1. /\ pc = "elf" /\ pc' = "loaded" /\ pos > 5 /\ pos \in Nat
        /\ UNCHANGED <<disk, search, nth, outside>>
    BY <1>1, <1>5, SectionNames DEF ElfEnd, Loaded, SearchInv
  <2>2. file' = file /\ \A i \in {3, 4} : i < pos
    BY <2>1 DEF file
  <2> QED
    BY <2>1, <2>2 DEF OverrunInv
<1>6. CASE HexEnd \/ RawEnd
  <2>1. pc' = "loaded" /\ UNCHANGED <<disk, search, nth>>
    BY <1>6 DEF HexEnd, RawEnd, Loaded
  <2>2. file' = file /\ file.format # "elf"
    <3>1. RawEnd => pc = "raw" /\ Chunk = <<>>
      BY DEF RawEnd
    <3>2. RawEnd => file.format = "raw"
      BY <3>1, <1>1, TextIsRead
    <3> QED
      BY <2>1, <3>2, <1>6 DEF file, HexEnd, IsHex
  <2> QED
    BY <2>1, <2>2 DEF OverrunInv, OverrunsAt
<1>7. CASE ElfSection
  BY <1>7, SectionRoom
<1>8. CASE Next /\ ~ElfSection /\ ~ElfEnd /\ ~HexEnd /\ ~RawEnd /\ ~Finished
           /\ ~(Stat /\ pc' = "elf")
  <2>1. pc' \notin {"elf", "loaded"}
    <3>1. CASE Stat
      BY <3>1, <1>8 DEF Stat
    <3>2. CASE NotFound \/ ElfFails \/ HexFails \/ RawFails
      BY <3>2 DEF NotFound, ElfFails, HexFails, RawFails, Refused, GoTo
    <3>3. CASE HexData \/ HexOther \/ RawChunk
      BY <3>3 DEF HexData, HexOther, RawChunk
    <3>4. CASE ParseLine \/ ParseRaw \/ ParseEnd \/ Fits
      BY <3>4 DEF ParseLine, ParseRaw, ParseEnd, Fits
    <3> QED
      BY <1>8, <3>1, <3>2, <3>3, <3>4 DEF Next
  <2> QED
    BY <2>1, <1>2
<1> QED
  BY <1>3, <1>4, <1>5, <1>6, <1>7, <1>8

\* The inductive invariant.
ImagesInv == LoaderInv /\ OverrunInv

LEMMA ImagesInit == Init => ImagesInv
<1> SUFFICES ASSUME Init PROVE ImagesInv
  OBVIOUS
<1>1. pc \notin {"elf", "loaded"}
  BY DEF Init
<1> QED
  BY <1>1, LoaderInit DEF ImagesInv, OverrunInv

LEMMA ImagesStep ==
    ASSUME ImagesInv, [Next]_vars
    PROVE  ImagesInv'
BY LoaderStep, OverrunStep DEF ImagesInv

(***************************************************************************)
(* Theorems.                                                               *)
(***************************************************************************)
\* The inductive invariant: at every point of every loader the memory holds
\* what the part of the file read so far describes.
THEOREM ImagesSafe == Spec => []ImagesInv
BY ImagesInit, ImagesStep, PTL DEF Spec

\* The loaders stay in their files and their blobs are blobs.
THEOREM ImagesTyping == Spec => []ImagesTypeOK
<1>1. ImagesInv => ImagesTypeOK
  BY DEF ImagesInv, LoaderInv, SearchInv, IsBlob, ImagesTypeOK, Stages
<1> QED
  BY <1>1, ImagesSafe, PTL

\* No loader stores outside the memory it has, whatever addresses the records
\* of a HEX file have and however many words a raw file, as long as the payload
\* of every ELF file is linked the way it is loaded; and an ELF file whose
\* payload ends behind the room made for it is not loaded without such a store.
THEOREM InBoundsAlways == Spec => []StoresInBounds
<1>1. ImagesInv => StoresInBounds
  BY DEF ImagesInv, LoaderInv, OverrunInv, Overruns, StoresInBounds
<1> QED
  BY <1>1, ImagesSafe, PTL

\* The image is the one the file describes, whichever program reads it.
THEOREM ImageIsFile == Spec => []ImageAsFile
<1>1. ImagesInv => ImageAsFile
  BY DEF ImagesInv, LoaderInv, StageInv, LoadedThere, UploadThere, ImageAsFile, Done
<1> QED
  BY <1>1, ImagesSafe, PTL

\* Nothing of a file lies outside what is uploaded of it.
THEOREM RangeIsFile == Spec => []RangeCoversFile
<1>1. ImagesInv => RangeCoversFile
  <2> SUFFICES ASSUME ImagesInv, Done, Whole(file), PlacedAlike(file),
                      NEW a \in DOMAIN blob.data, FileImage(file, a) # Gap
               PROVE  /\ a >= blob.start
                      /\ Ascending(file) \/ tool = "micronucleus" => a < blob.end
    BY DEF RangeCoversFile
  <2>1. CASE pc = "loaded"
    BY <2>1 DEF ImagesInv, LoaderInv, SearchInv, StageInv, LoadedThere
  <2>2. CASE pc = "ready"
    BY <2>2 DEF ImagesInv, LoaderInv, StageInv, UploadThere
  <2> QED
    BY <2>1, <2>2 DEF Done
<1> QED
  BY <1>1, ImagesSafe, PTL

\* What mnflash loads has been read by the loader of its own format, which
\* found nothing wrong with what it looks at (Sound: records that are cut short,
\* or too short for an address, are not refused), and no such file before it
\* was passed over.
THEOREM SoundFileFirst == Spec => []FirstSoundFile
<1>1. ImagesInv => FirstSoundFile
  BY DEF ImagesInv, LoaderInv, StageInv, LoadedThere, TriedInv, FirstSoundFile
<1> QED
  BY <1>1, ImagesSafe, PTL

=============================================================================
