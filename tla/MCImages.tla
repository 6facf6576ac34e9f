------------------------------ MODULE MCImages ------------------------------
(***************************************************************************)
(* HEX files of up to three lines, raw files and ELF files around an       *)
(* allocation unit of four cells, each on a disk of its own, and disks with*)
(* two files one of which may be damaged.                                  *)
(***************************************************************************)
EXTENDS Images

MCBytes == {"a", "b", "c", "d", "e", "f", "g", "h", "i", "k", "l", "m", "n",
            "sum", "bad", "rjmp", "jmp", "code", "text", "data", "payload",
            "vectors", "signature"}

Record(type, addr, cells, sum) ==
    [mark |-> TRUE, type |-> type, addr |-> addr, len |-> Len(cells),
     bytes |-> Append(cells, sum)]
Data(addr, cells) == Record("data", addr, cells, "sum")

Lines ==
    {Data(0, <<"a", "b">>), Data(2, <<"c", "d">>), Data(1, <<"e", "f", "g">>),
     Data(6, <<"h", "i">>),
     Record("data", 3, <<"k">>, "bad"),
     [mark |-> TRUE, type |-> "data", addr |-> 1, len |-> 4, bytes |-> <<"l", "m">>],
     Record("end", 0, <<>>, "sum"), Record("extend", 0, <<"n">>, "sum"),
     Record("extend", 0, <<>>, "sum"), Record("start", 0, <<"n", "n">>, "sum"),
     Record("unknown", 0, <<>>, "sum"),
     [mark |-> FALSE, type |-> "data", addr |-> 0, len |-> 0, bytes |-> <<"sum">>]}

Hex(lines) == [format |-> "hex", lines |-> lines]
Raw(words) == [format |-> "raw", words |-> words]
HexFiles   == {Hex(l) : l \in UNION {[1 .. n -> Lines] : n \in 0 .. 3}}

Fill(n)  == [i \in 1 .. n |-> "code"]
RawFiles == {Raw(v \o Fill(n)) : n \in (0 .. 6) \cup {10, 14, 15},
             v \in {<<"rjmp", "rjmp">>, <<"code", "rjmp">>, <<"jmp", "code">>}}
                \cup {Raw(<<"rjmp">>)}

Section(addr, n, name) ==
    [addr |-> addr, cells |-> [i \in 1 .. n |-> name], sound |-> TRUE]
Elf(addr, text, data, payload, vectors) ==
    [format |-> "elf", executable |-> TRUE,
     sections |-> [n \in {".text", ".data", ".payload", ".payloadvectors",
                           ".signature"} |->
        CASE n = ".text" -> Section(addr, text, "text")
          [] n = ".data" -> Section(96, data, "data")
          [] n = ".payload" -> Section(addr + text, payload, "payload")
          [] n = ".payloadvectors" ->
                Section(addr + text + payload, vectors, "vectors")
          [] n = ".signature" -> Section(0, 3, "signature")]]
ElfFiles ==
    {Elf(a, t, d, p, IF p = 0 THEN 0 ELSE 1) :
        a \in {0, 2}, t \in 1 .. 4, d \in 0 .. 1, p \in {0, 1, 3}}
    \cup {Elf(a, t, d, p, 0) :                \* much data: the payload is
        a \in {0, 2}, t \in 2 .. 3, d \in 4 .. 6, p \in 1 .. 2} \* far from its place
BadElfFiles ==
    {[Elf(0, 2, 1, 1, 1) EXCEPT !.executable = FALSE],
     [Elf(0, 2, 1, 1, 1) EXCEPT !.sections[".payload"].sound = FALSE]}

Name(prefix, extension) ==
    [prefix |-> prefix, target |-> "tiny-85-1", extension |-> extension]
Known == {Name("", ".elf"), Name("", ".hex"), Name("target-", ".elf"),
          Name("target-", ".bin")}
Choice == {Hex(<<Data(2, <<"c", "d">>), Data(0, <<"a", "b">>)>>),
           Hex(<<Data(0, <<"a", "b">>), Record("data", 3, <<"k">>, "bad")>>),
           Raw(<<"rjmp", "rjmp", "code">>), Raw(<<"jmp", "code", "jmp", "code">>),
           Elf(0, 2, 0, 1, 1)} \cup BadElfFiles

MCDisks ==
    {[n \in {Name("my-", ".image")} |-> f] : f \in HexFiles \cup RawFiles \cup ElfFiles}
        \cup UNION {[two -> Choice] : two \in {x \in SUBSET Known : Cardinality(x) = 2}}

MCDevices == {[device |-> 4, wiring |-> 1], [device |-> 4, wiring |-> 2],
              [device |-> 9, wiring |-> 1]}
=============================================================================
