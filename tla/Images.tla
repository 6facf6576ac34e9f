------------------------------- MODULE Images -------------------------------
(***************************************************************************)
(* How the two host programs turn a file into the memory image they upload:*)
(* mnflash (lib/firmware.c tries load-elf.c, load-ihex.c and load-raw.c in *)
(* turn, all of them filling the blob of firmware-blob.c) and micronucleus *)
(* (parseIntelHex and parseRaw of examples/micronucleus.c).                *)
(*                                                                         *)
(* A cell of an image stands for a byte of a HEX or ELF file and for a word*)
(* of a raw file.  Files are taken apart into what the loaders look at: the*)
(* records of a HEX file, the sections of an ELF file, the words of a raw  *)
(* one; a text never looks like a vector table, nor a binary like a record.*)
(***************************************************************************)
EXTENDS Integers, Sequences, FiniteSets

CONSTANTS
    Bytes,        \* what a cell of a file may hold
    Disks,        \* what a disk may hold: functions from names to files
    Devices,      \* device info: [device, wiring]
    Alloc,        \* FIRMWARE_ALLOC_SIZE
    MaxData,      \* FIRMWARE_MAX_DATA_SIZE
    BufSize,      \* of mnflash_raw_load
    CheckInts,    \* vectors it looks at
    LineCells,    \* bytes of a record that fit in linebuf
    DataBuffer,   \* size of micronucleus' dataBuffer
    FlashSize     \* flash_size of the device micronucleus has found

\* A chunk of a raw file is a unit of memory, and there is an even number of
\* units: 4096 bytes, 1024 * 4096 bytes.
ASSUME SizeAssumption ==
    /\ {Alloc, FlashSize, LineCells} \subseteq Nat \ {0}
    /\ MaxData \in Nat /\ MaxData % (2 * Alloc) = 0 /\ DataBuffer \in Nat
    /\ BufSize = Alloc /\ CheckInts \in 2 .. BufSize

Gap  == "gap"      \* 0xFF: unprogrammed flash
Rest == "rest"     \* what an earlier line, or nobody, left in linebuf
Nul  == "nul"      \* the end of the string in linebuf

Types  == {"data", "end", "extend", "start", "unknown"}
Records ==
    [mark : BOOLEAN, type : Types, addr : Nat, len : Nat, bytes : Seq(Bytes)]
Names == {".text", ".data", ".payload", ".payloadvectors", ".signature"}
Sections == [addr : Nat, cells : Seq(Bytes), sound : BOOLEAN]
Files ==
    [format : {"hex"}, lines : Seq(Records)]
        \cup [format : {"elf"}, executable : BOOLEAN, sections : [Names -> Sections]]
        \cup [format : {"raw"}, words : Seq(Bytes) \ {<<>>}]

\* A record has 16 bits of address and fits into a line; an empty file is a
\* HEX file.
ASSUME FilesAssumption ==
    /\ Nul \notin Bytes /\ Rest \notin Bytes
    /\ \A d \in Disks : \A n \in DOMAIN d :
        /\ d[n] \in Files
        /\ d[n].format = "hex" => \A i \in DOMAIN d[n].lines :
            LET l == d[n].lines[i]
            IN  /\ Len(l.bytes) <= LineCells /\ l.len <= LineCells
                /\ l.addr + l.len < MaxData /\ l.addr + l.len <= DataBuffer

VARIABLES
    tool,      \* which program runs
    disk,      \* the files there are
    search,    \* the names that are tried, in this order
    nth,       \* the name being tried
    pc,        \* the loader at work
    pos,       \* how far it is in the file
    blob,      \* mnflash_firmware_t, or dataBuffer with its two addresses
    linebuf,   \* bytes 9, 11, .. of the line buffer of mnflash_ihex_load
    outside    \* history: something was stored outside the allocated memory

vars == <<tool, disk, search, nth, pc, pos, blob, linebuf, outside>>

Cells == 0 .. LineCells - 1
Stages == {"stat", "elf", "hex", "raw", "loaded", "refused",
           "parseIntelHex", "parseRaw", "fits", "ready"}

(***************************************************************************)
(* firmware-blob.c                                                         *)
(***************************************************************************)
NoData == [a \in {} |-> Gap]        \* blob->data == NULL

mnflash_firmware_new == [data |-> NoData, size |-> 0, start |-> 0, end |-> 0]

NextUnit(address) == (address \div Alloc + 1) * Alloc

\* realloc and memset: what is there is kept, the rest looks unprogrammed.
Grown(b, size) ==
    [a \in 0 .. size - 1 |-> IF a < b.size THEN b.data[a] ELSE Gap]

Enough(b, address) == b.size >= address /\ b.data # NoData

\* Mutant: no spare unit; an address inside the last one is not allocated.
resize_Short(b, address) ==
    LET new == NextUnit(address) - Alloc
    IN  IF Enough(b, address) THEN b
        ELSE IF new > MaxData THEN [b EXCEPT !.data = NoData]
        ELSE [b EXCEPT !.data = Grown(b, new), !.size = new]

\* Mutant: the memory that was there is filled anew.
resize_Fresh(b, address) ==
    LET new == NextUnit(address)
    IN  IF Enough(b, address) THEN b
        ELSE IF new > MaxData THEN [b EXCEPT !.data = NoData]
        ELSE [b EXCEPT !.data = [a \in 0 .. new - 1 |-> Gap], !.size = new]

\* Mutant: data_size is not what was allocated.
resize_SizeAsked(b, address) ==
    LET new == NextUnit(address)
    IN  IF Enough(b, address) THEN b
        ELSE IF new > MaxData THEN [b EXCEPT !.data = NoData]
        ELSE [b EXCEPT !.data = Grown(b, new), !.size = address]

\* mnflash_firmware_resize: room for the cells below address; too much gives
\* the image up.
resize(b, address) ==
    LET new == NextUnit(address)
    IN  IF Enough(b, address) THEN b
        ELSE IF new > MaxData THEN [b EXCEPT !.data = NoData]
        ELSE [b EXCEPT !.data = Grown(b, new), !.size = new]

\* Stores at address a, 1 .. Len(cells) cells on; Nul leaves a cell as it is.
Stored(data, a, cells) ==
    [x \in DOMAIN data |->
        IF x - a + 1 \in 1 .. Len(cells) /\ cells[x - a + 1] # Nul
        THEN cells[x - a + 1] ELSE data[x]]

InBounds(data, a, n) == a .. a + n - 1 \subseteq DOMAIN data

(***************************************************************************)
(* firmware.c: which file.                                                 *)
(***************************************************************************)
target_list ==
    <<[device |-> 4,  wiring |-> 1, target |-> "tiny-85-1"],
      [device |-> 4,  wiring |-> 2, target |-> "tiny-85-2"],
      [device |-> 7,  wiring |-> 1, target |-> "tiny-861-c12"],
      [device |-> 14, wiring |-> 1, target |-> "tiny-167-c12"]>>

get_target_name(info) ==
    LET Same(t) == t.device = info.device /\ t.wiring = info.wiring
        found   == SelectSeq(target_list, Same)
    IN  IF found = <<>> THEN "unknown" ELSE found[1].target

extensions == <<".elf", ".hex", ".bin", ".raw">>
prefixes   == <<"", "target-">>

\* The names mnflash_load_firmware_from_dir tries for a device, in order.
NamesFor(info) ==
    [i \in 1 .. Len(prefixes) * Len(extensions) |->
        [prefix    |-> prefixes[(i - 1) \div Len(extensions) + 1],
         target    |-> get_target_name(info),
         extension |-> extensions[((i - 1) % Len(extensions)) + 1]]]

\* mnflash_firmware_locate: a file, or a directory to look in.
locate(d, info) == {<<name>> : name \in DOMAIN d} \cup {NamesFor(info)}

file == disk[search[nth]]
Complete(line) == Len(line.bytes) = line.len + 1

\* micronucleus is given one file and told its type; a HEX file that ends
\* lines early sends its parser on into the next line and is left out.
Init ==
    /\ disk \in Disks
    /\ \/ /\ tool = "mnflash" /\ pc = "stat"
          /\ \E info \in Devices : search \in locate(disk, info)
          /\ blob = mnflash_firmware_new
       \/ /\ tool = "micronucleus"
          /\ search \in {<<name>> : name \in DOMAIN disk}
          /\ LET f == disk[search[1]]
             IN  \/ /\ f.format = "hex" /\ pc = "parseIntelHex"
                    /\ \A n \in DOMAIN f.lines : Complete(f.lines[n])
                 \/ f.format = "raw" /\ pc = "parseRaw"
          /\ blob = [data |-> [a \in 0 .. DataBuffer - 1 |-> Gap],
                     size |-> DataBuffer, start |-> 1, end |-> 0]
    /\ nth = 1 /\ pos = 1
    /\ linebuf = [i \in Cells |-> Rest]
    /\ outside = FALSE

\* The next name: a file that is there goes through the loaders.
Stat ==
    /\ pc = "stat" /\ nth <= Len(search)
    /\ IF search[nth] \in DOMAIN disk THEN pc' = "elf" /\ UNCHANGED nth
       ELSE nth' = nth + 1 /\ UNCHANGED pc
    /\ pos' = 1 /\ blob' = mnflash_firmware_new
    /\ UNCHANGED <<tool, disk, search, linebuf, outside>>

NotFound ==
    /\ pc = "stat" /\ nth > Len(search)
    /\ pc' = "refused"
    /\ UNCHANGED <<tool, disk, search, nth, pos, blob, linebuf, outside>>

\* A loader that fails gives its blob back; the next one, or the next file,
\* has its turn.
GoTo(stage) ==
    /\ pc' = stage
    /\ pos' = 1
    /\ blob' = mnflash_firmware_new
    /\ linebuf' = [i \in Cells |-> Rest]

Refused(stage) ==
    /\ GoTo(stage)
    /\ nth' = IF stage = "stat" THEN nth + 1 ELSE nth
    /\ UNCHANGED <<tool, disk, search, outside>>

Loaded ==
    /\ pc' = "loaded"
    /\ UNCHANGED <<tool, disk, search, nth, pos, blob, linebuf, outside>>

(***************************************************************************)
(* load-elf.c                                                              *)
(***************************************************************************)
\* The last one does not get into the image.
sections == <<".text", ".data", ".payload", ".payloadvectors", ".signature">>

\* An AVR executable whose section, if it has any, is a program's, or data,
\* as it should be.
ElfGood ==
    /\ file.format = "elf" /\ file.executable
    /\ pos <= Len(sections) =>
           LET s == file.sections[sections[pos]] IN s.cells = <<>> \/ s.sound

ElfFails == pc = "elf" /\ ~ElfGood /\ Refused("hex")

\* elf_add_section_to_blob: makes room for the section where it is linked
\* (.data: behind the ones before) and appends it to them.  What becomes of a
\* program that has stored outside its memory is not followed: the store is
\* lost and noted.
ElfSection ==
    /\ pc = "elf" /\ ElfGood /\ pos <= Len(sections)
    /\ LET s    == file.sections[sections[pos]]
           text == sections[pos] = ".text"
           at   == IF text THEN s.addr ELSE blob.end
           room == resize(blob, (IF sections[pos] = ".data" THEN blob.end
                                 ELSE s.addr) + Len(s.cells))
       IN  IF s.cells = <<>> \/ sections[pos] = ".signature"
           THEN UNCHANGED <<blob, outside>>
           ELSE /\ blob' = [room EXCEPT
                             !.data  = Stored(room.data, at, s.cells),
                             !.start = IF text THEN s.addr ELSE @,
                             !.end   = at + Len(s.cells)]
                /\ outside' = (outside \/ ~InBounds(room.data, at, Len(s.cells)))
    /\ pos' = pos + 1
    /\ UNCHANGED <<tool, disk, search, nth, pc, linebuf>>

ElfEnd == pc = "elf" /\ ElfGood /\ pos > Len(sections) /\ Loaded

(***************************************************************************)
(* load-ihex.c                                                             *)
(***************************************************************************)
IsHex == file.format = "hex"
line  == file.lines[pos]

\* Mutant: the checksum is not looked at.
Acceptable_AnySum(l) ==
    /\ l.mark
    /\ 2 * Len(l.bytes) >= l.len
    /\ l.type \in {"data", "end", "extend", "start"}

\* What mnflash_ihex_load takes for a record: begins like one, is not shorter
\* than its length demands, counted in characters and not in bytes; a sum that
\* is right, when the line has exactly the length to hold one; a known type.
\* A record that gives an address need not be long enough for it: hex2word
\* never fails.
Acceptable(l) ==
    /\ l.mark
    /\ 2 * Len(l.bytes) >= l.len
    /\ Complete(l) => l.bytes[l.len + 1] = "sum"
    /\ l.type \in {"data", "end", "extend", "start"}

HexGood ==
    /\ IsHex
    /\ pos <= Len(file.lines) =>
           /\ Acceptable(line)
           /\ line.type = "data" =>
                  resize(blob, line.addr + line.len).data # NoData

\* fgets: the line and the end of the string; behind it is what was there.
Buffer ==
    [i \in Cells |->
        IF i < Len(line.bytes) THEN line.bytes[i + 1]
        ELSE IF i = Len(line.bytes) THEN Nul ELSE linebuf[i]]

\* hex2byte for each byte the record should have.  What nobody has written
\* yet may or may not look like digits.
Digits ==
    {c \in [1 .. line.len -> {Buffer[i] : i \in Cells} \cup {Nul}] :
        \A i \in 1 .. line.len :
            c[i] = Buffer[i - 1] \/ (Buffer[i - 1] = Rest /\ c[i] = Nul)}

\* Mutant: the lowest address is that of the first record.
LowestStart_First(b, addr) == IF b.data = NoData THEN addr ELSE b.start

LowestStart(b, addr) ==
    IF b.data = NoData \/ addr < b.start THEN addr ELSE b.start

\* A data record; addr_offset is 0 in every line, whatever came before.
HexData ==
    /\ pc = "hex" /\ HexGood /\ pos <= Len(file.lines)
    /\ line.type = "data"
    /\ LET room == resize(blob, line.addr + line.len)
       IN  /\ \E cells \in Digits :
               blob' = [room EXCEPT
                         !.data  = Stored(room.data, line.addr, cells),
                         !.start = LowestStart(blob, line.addr),
                         !.end   = line.addr + line.len]
           /\ outside' = (outside \/ ~InBounds(room.data, line.addr, line.len))
    /\ linebuf' = Buffer
    /\ pos' = pos + 1
    /\ UNCHANGED <<tool, disk, search, nth, pc>>

\* End of file does not end the loop; addresses of the other types get no
\* further than this line, and an entry address is only shown.
HexOther ==
    /\ pc = "hex" /\ HexGood /\ pos <= Len(file.lines)
    /\ line.type # "data"
    /\ linebuf' = Buffer
    /\ pos' = pos + 1
    /\ UNCHANGED <<tool, disk, search, nth, pc, blob, outside>>

HexFails == pc = "hex" /\ ~HexGood /\ Refused("raw")

HexEnd == pc = "hex" /\ IsHex /\ pos > Len(file.lines) /\ Loaded

(***************************************************************************)
(* load-raw.c                                                              *)
(***************************************************************************)
Words == IF file.format = "raw" THEN file.words ELSE <<"text">>
Chunk == SubSeq(Words, pos, IF pos + BufSize - 1 < Len(Words)
                            THEN pos + BufSize - 1 ELSE Len(Words))

\* Words of two bytes if the second vector is an rjmp; for four-byte vectors
\* every one would have to be an rjmp and a jmp.
HasVectors(words) ==
    IF words[2] = "rjmp"
    THEN \A i \in 1 .. CheckInts : words[i] = "rjmp"
    ELSE /\ Len(words) >= 2 * CheckInts
         /\ \A i \in 1 .. CheckInts :
                words[2 * i - 1] = "rjmp" /\ words[2 * i - 1] = "jmp"

ChunkGood ==
    /\ resize(blob, pos - 1 + Len(Chunk)).data # NoData
    /\ pos = 1 => Len(Chunk) >= CheckInts /\ HasVectors(Chunk)

RawChunk ==
    /\ pc = "raw" /\ Chunk # <<>> /\ ChunkGood
    /\ LET now  == pos - 1
           room == resize(blob, now + Len(Chunk))
       IN  /\ blob' = [room EXCEPT !.data  = Stored(room.data, now, Chunk),
                                   !.start = 0,
                                   !.end   = now + Len(Chunk)]
           /\ outside' = (outside \/ ~InBounds(room.data, now, Len(Chunk)))
           /\ pos' = pos + Len(Chunk)
    /\ UNCHANGED <<tool, disk, search, nth, pc, linebuf>>

RawFails == pc = "raw" /\ Chunk # <<>> /\ ~ChunkGood /\ Refused("stat")

RawEnd == pc = "raw" /\ Chunk = <<>> /\ Loaded

(***************************************************************************)
(* micronucleus.c                                                          *)
(***************************************************************************)
Extended(b, base, end) ==
    [b EXCEPT !.start = IF base < @ THEN base ELSE @,
              !.end   = IF end > @ THEN end ELSE @]

\* parseIntelHex, from one colon to the next; a wrong sum is only shown.
ParseLine ==
    /\ pc = "parseIntelHex" /\ pos <= Len(file.lines)
    /\ IF line.mark /\ line.type = "data"
       THEN /\ blob' = [Extended(blob, line.addr, line.addr + line.len) EXCEPT
                         !.data = Stored(@, line.addr,
                                         SubSeq(line.bytes, 1, line.len))]
            /\ outside' = (outside \/ ~InBounds(blob.data, line.addr, line.len))
       ELSE UNCHANGED <<blob, outside>>
    /\ pos' = pos + 1
    /\ UNCHANGED <<tool, disk, search, nth, pc, linebuf>>

\* parseRaw, byte by byte up to the end of the file.
ParseRaw ==
    /\ pc = "parseRaw"
    /\ blob' = [blob EXCEPT !.data  = Stored(@, 0, file.words),
                            !.start = 0, !.end = Len(file.words)]
    /\ outside' = (outside \/ ~InBounds(blob.data, 0, Len(file.words)))
    /\ pc' = "fits"
    /\ UNCHANGED <<tool, disk, search, nth, pos, linebuf>>

ParseEnd ==
    /\ pc = "parseIntelHex" /\ pos > Len(file.lines)
    /\ pc' = "fits"
    /\ UNCHANGED <<tool, disk, search, nth, pos, blob, linebuf, outside>>

\* main(): no data in the file, or too much for the device.
Fits ==
    /\ pc = "fits"
    /\ pc' = IF blob.start >= blob.end \/ blob.end > FlashSize
             THEN "refused" ELSE "ready"
    /\ UNCHANGED <<tool, disk, search, nth, pos, blob, linebuf, outside>>

Finished == pc \in {"loaded", "refused", "ready"} /\ UNCHANGED vars

Next ==
    \/ Stat \/ NotFound
    \/ ElfFails \/ ElfSection \/ ElfEnd
    \/ HexData \/ HexOther \/ HexFails \/ HexEnd
    \/ RawChunk \/ RawFails \/ RawEnd
    \/ ParseLine \/ ParseRaw \/ ParseEnd \/ Fits
    \/ Finished

Spec == Init /\ [][Next]_vars

(***************************************************************************)
(* Properties: what the file says, read as a whole.                        *)
(***************************************************************************)
ImagesTypeOK ==
    /\ tool \in {"mnflash", "micronucleus"} /\ pc \in Stages
    /\ nth \in 1 .. Len(search) + 1 /\ pos \in Nat \ {0}
    /\ pc \in Stages \ {"stat", "refused"} => search[nth] \in DOMAIN disk
    /\ blob.start \in Nat /\ blob.end \in Nat
    /\ DOMAIN blob.data \in {{}, 0 .. blob.size - 1}
    /\ DOMAIN linebuf = Cells /\ outside \in BOOLEAN

Covers(l, a) == l.mark /\ l.type = "data" /\ a \in l.addr .. l.addr + l.len - 1

Last(n) == CHOOSE i \in n : \A j \in n : j <= i

\* The image the first m records of a HEX file describe: of those for an
\* address the last.
HexImage(f, m, a) ==
    LET n == {i \in 1 .. m : Covers(f.lines[i], a)}
        l == f.lines[Last(n)]
    IN  IF n = {} THEN Gap ELSE l.bytes[a - l.addr + 1]

Part(f, i) == f.sections[sections[i]].cells

Joined(f, i) ==
    CASE i = 0 -> <<>>
      [] i = 1 -> Part(f, 1)
      [] i = 2 -> Part(f, 1) \o Part(f, 2)
      [] i = 3 -> Part(f, 1) \o Part(f, 2) \o Part(f, 3)
      [] OTHER -> Part(f, 1) \o Part(f, 2) \o Part(f, 3) \o Part(f, 4)

\* The first n sections of an ELF file, one behind the other as they are loaded.
ElfImage(f, n, a) ==
    LET i == a - f.sections[".text"].addr + 1
    IN  IF i \in 1 .. Len(Joined(f, n)) THEN Joined(f, n)[i] ELSE Gap

FileImage(f, a) ==
    CASE f.format = "hex" -> HexImage(f, Len(f.lines), a)
      [] f.format = "elf" -> ElfImage(f, 4, a)
      [] f.format = "raw" -> IF a + 1 \in DOMAIN f.words THEN f.words[a + 1]
                             ELSE Gap

\* No record was cut short and none moves the addresses behind it.
Whole(f) ==
    f.format = "hex" => \A i \in DOMAIN f.lines :
        f.lines[i].mark => Complete(f.lines[i]) /\ f.lines[i].type # "extend"

Ascending(f) ==
    f.format = "hex" => \A i, j \in DOMAIN f.lines :
        i < j /\ f.lines[i].type = "data" /\ f.lines[j].type = "data"
            => f.lines[i].addr + f.lines[i].len <= f.lines[j].addr

\* Where section i of an ELF file ends where it is linked, where it is loaded,
\* and where mnflash makes room for it.
Linked(f, i)   == f.sections[sections[i]].addr + Len(Part(f, i))
LoadedTo(f, i) == f.sections[".text"].addr + Len(Joined(f, i))
Asked(f, i)    == IF i \in {3, 4} THEN Linked(f, i) ELSE LoadedTo(f, i)

\* The linker script puts .payload right behind .text but loads it behind
\* .data, the vectors likewise: both last cells are in one unit of memory, and
\* none is behind the largest image.
PlacedAlike(f) ==
    f.format = "elf" =>
        /\ Part(f, 1) # <<>> /\ LoadedTo(f, 4) < MaxData
        /\ \A i \in {3, 4} : Part(f, i) # <<>> =>
                /\ (LoadedTo(f, i) - 1) \div Alloc <= (Linked(f, i) - 1) \div Alloc
                /\ Linked(f, i) < MaxData

\* Section i ends behind all the units that were asked for.
OverrunsAt(f, i) ==
    /\ f.format = "elf" /\ Part(f, 1) # <<>> /\ Part(f, i) # <<>>
    /\ \A j \in 1 .. i : Part(f, j) # <<>> => NextUnit(Asked(f, j)) < LoadedTo(f, i)

Overruns(f) == \E i \in {3, 4} : OverrunsAt(f, i)

Done == pc \in {"loaded", "ready"}

\* Nothing is stored outside the memory when every ELF file there is has its
\* payload linked the way it is loaded, and a raw file that micronucleus reads
\* fits into its buffer.
StoresInside ==
    /\ \A n \in DOMAIN disk : PlacedAlike(disk[n])
    /\ tool = "micronucleus" /\ file.format = "raw" => Len(file.words) <= DataBuffer
    => ~outside

\* At whichever side of an allocation unit a record, a chunk or a section ends,
\* no loader stores outside the memory it has as long as ELF files are placed
\* alike; and the other way round, mnflash never loads an ELF file whose payload
\* ends behind the room it has made (for where the section is linked, while it
\* is stored behind .data) without having stored outside its memory.
StoresInBounds ==
    /\ StoresInside
    /\ pc = "loaded" /\ Overruns(file) => outside

\* Both programs take the same image out of a file, and it is the one the
\* file describes: records in any order and with gaps, growing memory, pieces
\* of a raw file and sections included; what no record gives stays 0xFF.
ImageAsFile ==
    Done /\ Whole(file) /\ PlacedAlike(file) =>
        \A a \in DOMAIN blob.data : blob.data[a] = FileImage(file, a)

\* What is uploaded is what lies between start and end: nothing of the file
\* is before start, and nothing behind end unless mnflash has read records
\* that do not ascend.
RangeCoversFile ==
    Done /\ Whole(file) /\ PlacedAlike(file) =>
        \A a \in DOMAIN blob.data :
            FileImage(file, a) # Gap =>
                /\ a >= blob.start
                /\ Ascending(file) \/ tool = "micronucleus" => a < blob.end

\* What mnflash asks of a file: every record begins like one, is of a known
\* type and, when the line is as long as it says, has the right sum (one that
\* is cut short, or too short for the address it gives, passes); the vectors
\* of a raw file are jumps; sections are of the kind their names stand for.
Sound(f) ==
    CASE f.format = "hex" ->
             \A i \in DOMAIN f.lines :
                /\ f.lines[i].mark /\ f.lines[i].type # "unknown"
                /\ Complete(f.lines[i]) =>
                       f.lines[i].bytes[f.lines[i].len + 1] = "sum"
      [] f.format = "elf" ->
             /\ f.executable
             /\ \A n \in DOMAIN f.sections :
                    f.sections[n].cells = <<>> \/ f.sections[n].sound
      [] f.format = "raw" ->
             /\ Len(f.words) >= CheckInts /\ Len(f.words) <= MaxData
             /\ \A i \in 1 .. CheckInts : f.words[i] = "rjmp"

\* mnflash loads no file that is not sound in this sense, not even as one of
\* another format, and of the files a directory has for a device it takes the
\* first sound one, unless records of it are cut short or move addresses.
FirstSoundFile ==
    tool = "mnflash" =>
        /\ pc = "loaded" => Sound(file)
        /\ pc \in {"loaded", "refused"} =>
            \A j \in 1 .. nth - 1 :
                search[j] \in DOMAIN disk /\ Whole(disk[search[j]])
                    => ~Sound(disk[search[j]])

=============================================================================
