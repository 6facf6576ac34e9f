------------------------------ MODULE UsbDriver ------------------------------
(***************************************************************************)
(* The USB driver of the bootloader (vUSB, control endpoint only): the     *)
(* interrupt routine that receives and answers packets                     *)
(* (usbdrv/asmcommon.inc) and usbPoll, called from the main loop           *)
(* (usbdrv/usbdrv.c).  They share two receive buffers, one transmit buffer *)
(* and a handful of bytes, without a lock.                                 *)
(*                                                                         *)
(* The routine runs from the token of a transaction to its handshake; the  *)
(* main loop is stopped meanwhile, so a transaction is one step and every  *)
(* statement of usbPoll that the routine can come in front of is another.  *)
(* The host controller is the environment.  With LossyBus = TRUE a packet  *)
(* in either direction may get lost (also because the bootloader had       *)
(* interrupts off) and a transfer may time out; with MissedTokens = TRUE   *)
(* the token alone may be lost and the data behind it be heard.            *)
(***************************************************************************)
EXTENDS Naturals

CONSTANTS
    LastId,       \* transfers are numbered 0 .. LastId in turn
    Kinds,        \* kinds of request that are sent
    ReplyLengths, \* bytes usbFunctionSetup and usbDriverSetup answer with
    Block,        \* bytes in a full data packet
    MaxBytes,     \* the longest reply
    MaxPackets,   \* data packets of the longest control-write
    MaxErrors,    \* tries of a transaction that gets no answer
    LossyBus,
    MissedTokens

ASSUME DriverAssumption ==
    /\ LastId \in Nat
    /\ Kinds \subseteq {"read", "write", "command", "address"}
    /\ Block \in Nat \ {0} /\ MaxBytes \in Nat /\ MaxPackets \in Nat
    /\ MaxErrors \in Nat \ {0}
    /\ ReplyLengths \subseteq 0 .. MaxBytes
    /\ LossyBus \in BOOLEAN /\ MissedTokens \in BOOLEAN
    /\ MissedTokens => LossyBus

VARIABLES
    rxBuf,        \* usbRxBuf: what the two halves hold
    inputBuf,     \* usbInputBufOffset: the half that is receiving
    rxFull,       \* usbRxLen # 0
    rxToken,      \* usbRxToken
    currentTok,   \* usbCurrentTok
    txLen,        \* usbTxLen: Nak or the packet waiting in usbTxBuf
    txToggle,     \* usbTxBuf[0]
    deviceAddr,   \* usbDeviceAddr
    newDeviceAddr,
    msgLen,       \* usbMsgLen: bytes of the reply left, or NoMsg
    rw,           \* usbMsgFlags
    serving,      \* the request usbFunctionSetup or usbDriverSetup saw last
    written,      \* data packets of the page so far
    pc,           \* where usbPoll is
    reading,      \* the half usbProcessRx was called with
    host,         \* the transfer the host controller works on
    hostAddr,     \* the address it believes the device to have
    busReset,     \* it holds the bus in SE0
    missed,       \* history: a token was missed and the data behind it heard
    taken,        \* history: packet acknowledged and not yet processed
    refused       \* history: a SETUP was answered with NAK

isr  == <<rxBuf, inputBuf, rxFull, rxToken, currentTok>>
tx   == <<txLen, txToggle, msgLen, newDeviceAddr>>
app  == <<rw, serving, written>>
main == <<pc, reading>>
bus  == <<host, hostAddr, busReset, missed>>
vars == <<isr, tx, app, main, bus, deviceAddr, taken, refused>>

Ids   == 0 .. LastId
NoMsg == MaxBytes + 1
None  == [id |-> 0, kind |-> "none", n |-> 0]
Addrs == {0, 1}

Requests ==
    [id : Ids, kind : Kinds \cap {"read"}, n : ReplyLengths]
        \cup [id : Ids, kind : Kinds \cap {"write"}, n : 1 .. MaxPackets]
        \cup [id : Ids, kind : Kinds \cap {"command", "address"}, n : {0}]

\* What travels after a token: a SETUP's request, the k-th packet of a
\* control-write, an empty packet, or something for another device.
Packet ==
    [type : {"setup"}, req : Requests, k : {0}]
        \cup [type : {"out"}, req : Requests, k : 1 .. MaxPackets]
        \cup [type : {"empty", "foreign"}, req : {None}, k : {0}]

Foreign == [type |-> "foreign", req |-> None, k |-> 0]
Empty   == [type |-> "empty", req |-> None, k |-> 0]

\* A packet of a reply: bytes from .. from+len-1 for request id.
Reply == [id : Ids, from : 0 .. MaxBytes, len : 0 .. Block, toggle : {0, 1}]
Nak   == [id |-> 0, from |-> 0, len |-> Block + 1, toggle |-> 0]

Stages == {"idle", "setup", "out", "in", "statusIn", "statusOut"}
Transfer == [req : Requests \cup {None}, stage : Stages,
             done : 0 .. MaxBytes + MaxPackets, errors : 0 .. MaxErrors - 1]

TypeOK ==
    /\ rxBuf \in [{0, 1} -> Packet]
    /\ inputBuf \in {0, 1} /\ reading \in {0, 1}
    /\ rxFull \in BOOLEAN
    /\ rxToken \in {"setup", "out"}
    /\ currentTok \in {"none", "setup", "out"}
    /\ txLen \in {Nak} \cup Reply
    /\ txToggle \in {0, 1}
    /\ deviceAddr \in Addrs /\ newDeviceAddr \in Addrs /\ hostAddr \in Addrs
    /\ msgLen \in 0 .. NoMsg
    /\ rw \in BOOLEAN
    /\ serving \in Requests \cup {None}
    /\ written \in 0 .. MaxPackets
    /\ pc \in {"poll", "process", "free", "build", "reset"}
    /\ host \in Transfer
    /\ busReset \in {"no", "held", "once", "twice"}
    /\ taken \in Packet
    /\ refused \in BOOLEAN /\ missed \in BOOLEAN

Quiet == [req |-> None, stage |-> "idle", done |-> 0, errors |-> 0]

Init ==
    /\ rxBuf = [b \in {0, 1} |-> Empty] /\ inputBuf = 0 /\ reading = 0
    /\ rxFull = FALSE /\ rxToken = "out" /\ currentTok = "none"
    /\ txLen = Nak /\ txToggle = 0 /\ msgLen = NoMsg
    /\ deviceAddr = 0 /\ newDeviceAddr = 0 /\ hostAddr = 0
    /\ rw = FALSE /\ serving = None /\ written = 0
    /\ pc = "poll"
    /\ host = Quiet /\ busReset = "no"
    /\ taken = Empty /\ refused = FALSE /\ missed = FALSE

(***************************************************************************)
(* The interrupt routine.                                                  *)
(***************************************************************************)
\* What a token leaves in usbCurrentTok: for another address, nothing.
Token(tok, addr) == IF addr = deviceAddr THEN tok ELSE "none"

\* Mutant: usbRxLen is not looked at.
Answer_Always(cur) == IF cur = "none" THEN "nothing" ELSE "ack"

\* The handshake handleData gives to a data packet under token cur.
Answer(cur) ==
    CASE cur = "none" -> "nothing"
      [] cur # "none" /\ rxFull -> "nak"
      [] cur # "none" /\ ~rxFull -> "ack"

\* Mutant: the packet of a status stage is kept.
Keeps_Empty(cur, p) == Answer(cur) = "ack"

\* It keeps a packet it acknowledges, except an empty one.
Keeps(cur, p) == Answer(cur) = "ack" /\ p.type # "empty"

\* Packet p arrives while usbCurrentTok is cur.  The bytes of any packet go to
\* the half that is receiving; only a packet that is kept swaps the halves.
Receive(cur, p) ==
    /\ currentTok' = cur
    /\ rxBuf' = [rxBuf EXCEPT ![inputBuf] = p]
    /\ IF Keeps(cur, p)
       THEN /\ rxFull' = TRUE
            /\ rxToken' = cur
            /\ inputBuf' = 1 - inputBuf
            /\ taken' = p
       ELSE UNCHANGED <<rxFull, rxToken, inputBuf, taken>>
    /\ refused' = (refused \/ (p.type = "setup" /\ Answer(cur) = "nak"))
    /\ UNCHANGED <<tx, app, main, deviceAddr>>

\* handleIn has something to send: not before the last packet received has
\* been dealt with.
Sends(addr) == addr = deviceAddr /\ ~rxFull /\ txLen # Nak

\* An IN token arrives.  The packet is given up as it is sent, and a new
\* address is taken over; the host's ACK is a packet to ignore.
Transmit(addr) ==
    /\ IF Sends(addr)
       THEN /\ txLen' = Nak /\ deviceAddr' = newDeviceAddr
            /\ currentTok' \in {"none"} \cup (IF MissedTokens THEN {currentTok}
                                            ELSE {})
       ELSE /\ UNCHANGED <<txLen, deviceAddr>>
            /\ currentTok' = IF addr = deviceAddr THEN currentTok ELSE "none"
    /\ UNCHANGED <<rxBuf, inputBuf, rxFull, rxToken, txToggle, msgLen,
                   newDeviceAddr, app, main, taken, refused>>

(***************************************************************************)
(* usbPoll.                                                                *)
(***************************************************************************)
\* usbRxLen is looked at; the half to read is the one not receiving.
Poll ==
    /\ pc = "poll"
    /\ IF rxFull THEN pc' = "process" /\ reading' = 1 - inputBuf
       ELSE pc' = "build" /\ UNCHANGED reading
    /\ UNCHANGED <<isr, tx, app, bus, deviceAddr, taken, refused>>

\* The request a SETUP packet asks for; what is no request reads as any.
Asked(p) == IF p.type = "setup" THEN {p.req} ELSE Requests

\* Mutant: the toggle goes on from the transfer before.
ProcessSetup_KeepToggle ==
    /\ pc = "process" /\ rxToken = "setup"
    /\ txLen' = Nak
    /\ \E r \in Asked(rxBuf[reading]) :
        /\ serving' = r
        /\ written' = 0
        /\ rw' = (r.kind = "write")
        /\ msgLen' = IF r.kind = "write" THEN NoMsg ELSE r.n
        /\ newDeviceAddr' = IF r.kind = "address" THEN 1 ELSE newDeviceAddr
    /\ taken' = Empty
    /\ pc' = "free"
    /\ UNCHANGED <<txToggle, isr, reading, bus, deviceAddr, refused>>

\* Mutant: a pending reply is not given up.
ProcessSetup_KeepReply ==
    /\ pc = "process" /\ rxToken = "setup"
    /\ txToggle' = 0
    /\ \E r \in Asked(rxBuf[reading]) :
        /\ serving' = r
        /\ written' = 0
        /\ rw' = (r.kind = "write")
        /\ msgLen' = IF r.kind = "write" THEN NoMsg ELSE r.n
        /\ newDeviceAddr' = IF r.kind = "address" THEN 1 ELSE newDeviceAddr
    /\ taken' = Empty
    /\ pc' = "free"
    /\ UNCHANGED <<txLen, isr, reading, bus, deviceAddr, refused>>

\* Mutant: the page goes on where the one before stopped.
ProcessSetup_KeepPage ==
    /\ pc = "process" /\ rxToken = "setup"
    /\ txToggle' = 0
    /\ txLen' = Nak
    /\ \E r \in Asked(rxBuf[reading]) :
        /\ serving' = r
        /\ rw' = (r.kind = "write")
        /\ msgLen' = IF r.kind = "write" THEN NoMsg ELSE r.n
        /\ newDeviceAddr' = IF r.kind = "address" THEN 1 ELSE newDeviceAddr
    /\ taken' = Empty
    /\ pc' = "free"
    /\ UNCHANGED <<written, isr, reading, bus, deviceAddr, refused>>

\* A request: a pending reply is given up, the toggle starts anew, and the
\* answer of usbFunctionSetup or usbDriverSetup says what happens next.
ProcessSetup ==
    /\ pc = "process" /\ rxToken = "setup"
    /\ txToggle' = 0
    /\ txLen' = Nak
    /\ \E r \in Asked(rxBuf[reading]) :
        /\ serving' = r
        /\ written' = 0
        /\ rw' = (r.kind = "write")
        /\ msgLen' = IF r.kind = "write" THEN NoMsg ELSE r.n
        /\ newDeviceAddr' = IF r.kind = "address" THEN 1 ELSE newDeviceAddr
    /\ taken' = Empty
    /\ pc' = "free"
    /\ UNCHANGED <<isr, reading, bus, deviceAddr, refused>>

\* A packet under a SETUP token that is not eight bytes long.
IgnoreSetup ==
    /\ pc = "process" /\ rxToken = "setup"
    /\ rxBuf[reading].type = "foreign"
    /\ taken' = Empty
    /\ pc' = "free"
    /\ UNCHANGED <<isr, tx, app, reading, bus, deviceAddr, refused>>

\* Mutant: nothing notices that the page is complete.
ProcessOut_Endless ==
    /\ pc = "process" /\ rxToken = "out"
    /\ IF rw
       THEN /\ written' = written + 1
            /\ msgLen' = IF written' = 0 THEN 0 ELSE msgLen
       ELSE UNCHANGED <<written, msgLen>>
    /\ taken' = Empty
    /\ pc' = "free"
    /\ UNCHANGED <<isr, txLen, txToggle, newDeviceAddr, rw, serving, reading,
                   bus, deviceAddr, refused>>

\* Data goes to usbFunctionWrite, whose result at the end of the page makes
\* the driver answer the status stage.
ProcessOut ==
    /\ pc = "process" /\ rxToken = "out"
    /\ IF rw
       THEN /\ written' = (written + 1) % serving.n
            /\ msgLen' = IF written' = 0 THEN 0 ELSE msgLen
       ELSE UNCHANGED <<written, msgLen>>
    /\ taken' = Empty
    /\ pc' = "free"
    /\ UNCHANGED <<isr, txLen, txToggle, newDeviceAddr, rw, serving, reading,
                   bus, deviceAddr, refused>>

\* usbRxLen = 0: the buffer is available again.
FreeBuffer ==
    /\ pc = "free"
    /\ rxFull' = FALSE
    /\ pc' = "build"
    /\ UNCHANGED <<rxBuf, inputBuf, rxToken, currentTok, tx, app, reading, bus,
                   deviceAddr, taken, refused>>

\* Mutant: usbMsgLen is not counted down.
Build_Again ==
    /\ pc = "build"
    /\ IF txLen = Nak /\ msgLen # NoMsg
       THEN LET want == IF msgLen > Block THEN Block ELSE msgLen
            IN  /\ txToggle' = 1 - txToggle
                /\ txLen' = [id |-> serving.id, len |-> want,
                             from |-> IF serving.kind = "read"
                                      THEN serving.n - msgLen ELSE 0,
                             toggle |-> txToggle']
                /\ msgLen' = IF want < Block THEN NoMsg ELSE msgLen
       ELSE UNCHANGED <<txLen, txToggle, msgLen>>
    /\ pc' = "reset"
    /\ UNCHANGED <<isr, newDeviceAddr, app, reading, bus, deviceAddr, taken,
                   refused>>

\* Mutant: the limit of a packet is forgotten.
Build_Whole ==
    /\ pc = "build"
    /\ IF txLen = Nak /\ msgLen # NoMsg
       THEN LET want == msgLen
            IN  /\ txToggle' = 1 - txToggle
                /\ txLen' = [id |-> serving.id, len |-> want,
                             from |-> IF serving.kind = "read"
                                      THEN serving.n - msgLen ELSE 0,
                             toggle |-> txToggle']
                /\ msgLen' = IF want < Block THEN NoMsg ELSE msgLen - want
       ELSE UNCHANGED <<txLen, txToggle, msgLen>>
    /\ pc' = "reset"
    /\ UNCHANGED <<isr, newDeviceAddr, app, reading, bus, deviceAddr, taken,
                   refused>>

\* usbBuildTxBlock, when the transmit buffer is free and a reply is pending.
Build ==
    /\ pc = "build"
    /\ IF txLen = Nak /\ msgLen # NoMsg
       THEN LET want == IF msgLen > Block THEN Block ELSE msgLen
            IN  /\ txToggle' = 1 - txToggle
                /\ txLen' = [id |-> serving.id, len |-> want,
                             from |-> IF serving.kind = "read"
                                      THEN serving.n - msgLen ELSE 0,
                             toggle |-> txToggle']
                /\ msgLen' = IF want < Block THEN NoMsg ELSE msgLen - want
       ELSE UNCHANGED <<txLen, txToggle, msgLen>>
    /\ pc' = "reset"
    /\ UNCHANGED <<isr, newDeviceAddr, app, reading, bus, deviceAddr, taken,
                   refused>>

\* Mutant: an address that is assigned but not taken over survives.
CheckReset_KeepNew ==
    /\ pc = "reset"
    /\ IF busReset # "no"
       THEN /\ deviceAddr' = 0 /\ UNCHANGED newDeviceAddr
            /\ busReset' = IF busReset = "held" THEN "once" ELSE "twice"
       ELSE UNCHANGED <<newDeviceAddr, deviceAddr, busReset>>
    /\ pc' = "poll"
    /\ UNCHANGED <<isr, txLen, txToggle, msgLen, app, reading, host, hostAddr,
                   missed, taken, refused>>

\* The end of usbPoll looks for a bus reset.
CheckReset ==
    /\ pc = "reset"
    /\ IF busReset # "no"
       THEN /\ newDeviceAddr' = 0 /\ deviceAddr' = 0
            /\ busReset' = IF busReset = "held" THEN "once" ELSE "twice"
       ELSE UNCHANGED <<newDeviceAddr, deviceAddr, busReset>>
    /\ pc' = "poll"
    /\ UNCHANGED <<isr, txLen, txToggle, msgLen, app, reading, host, hostAddr,
                   missed, taken, refused>>

(***************************************************************************)
(* The host controller.                                                    *)
(***************************************************************************)
device == <<isr, tx, app, main, deviceAddr, taken, refused>>

Losses == {"none"} \cup (IF LossyBus THEN {"data", "answer"} ELSE {})
                  \cup (IF MissedTokens /\ ~missed THEN {"token"} ELSE {})

Idle == [host EXCEPT !.stage = "idle", !.done = 0, !.errors = 0]

\* No answer, or one that makes no sense: a few tries, then the transfer fails.
Failed == IF host.errors + 1 = MaxErrors THEN Idle
          ELSE [host EXCEPT !.errors = @ + 1]

InStage(s) == host.stage = s /\ busReset = "no"

\* The device takes part in a transaction that brings it packet p.
Deliver(tok, p, loss) ==
    IF loss = "data"
    THEN /\ currentTok' = Token(tok, hostAddr)
         /\ UNCHANGED <<rxBuf, inputBuf, rxFull, rxToken, tx, app, main,
                        deviceAddr, taken, refused>>
    ELSE Receive(IF loss = "token" THEN currentTok ELSE Token(tok, hostAddr), p)

\* What the host hears of the device's handshake.
Heard(tok, loss) ==
    CASE loss \in {"data", "answer"} -> "nothing"
      [] loss = "token" -> Answer(currentTok)
      [] OTHER -> Answer(Token(tok, hostAddr))

NewTransfer ==
    /\ InStage("idle")
    /\ \E r \in Requests :
        /\ r.id = (IF host.req.id = LastId THEN 0 ELSE host.req.id + 1)
        /\ r.kind = "address" => hostAddr = 0
        /\ host' = [req |-> r, stage |-> "setup", done |-> 0, errors |-> 0]
    /\ UNCHANGED <<device, hostAddr, busReset, missed>>

\* A SETUP may not be refused: NAK is an error like silence.
SetupTransaction ==
    /\ InStage("setup")
    /\ \E loss \in Losses :
        /\ missed' = (missed \/ loss = "token")
        /\ Deliver("setup", [type |-> "setup", req |-> host.req, k |-> 0], loss)
        /\ host' = IF Heard("setup", loss) = "ack"
                   THEN [host EXCEPT !.errors = 0, !.stage =
                            CASE host.req.kind = "read"  -> "in"
                              [] host.req.kind = "write" -> "out"
                              [] OTHER                   -> "statusIn"]
                   ELSE Failed
    /\ UNCHANGED <<hostAddr, busReset>>

\* The next data packet of a control-write, tried again as long as it is NAKed.
OutTransaction ==
    /\ InStage("out")
    /\ \E loss \in Losses :
        /\ missed' = (missed \/ loss = "token")
        /\ Deliver("out", [type |-> "out", req |-> host.req, k |-> host.done + 1],
                   loss)
        /\ host' = CASE Heard("out", loss) = "ack" ->
                          [host EXCEPT !.errors = 0, !.done = @ + 1,
                                       !.stage = IF host.done + 1 = host.req.n
                                                 THEN "statusIn" ELSE "out"]
                     [] Heard("out", loss) = "nak" -> [host EXCEPT !.errors = 0]
                     [] Heard("out", loss) = "nothing" -> Failed
    /\ UNCHANGED <<hostAddr, busReset>>

\* The status stage of a read: an empty packet.
StatusOut ==
    /\ InStage("statusOut")
    /\ \E loss \in Losses :
        /\ missed' = (missed \/ loss = "token")
        /\ Deliver("out", Empty, loss)
        /\ host' = CASE Heard("out", loss) = "ack" -> Idle
                     [] Heard("out", loss) = "nak" -> [host EXCEPT !.errors = 0]
                     [] Heard("out", loss) = "nothing" -> Failed
    /\ UNCHANGED <<hostAddr, busReset>>

\* The toggle of the packet the host waits for: DATA1 first.
Expected == IF host.stage = "in" THEN 1 - ((host.done \div Block) % 2) ELSE 1

\* What the host makes of reply r: the wrong toggle is a repetition; a short
\* packet, or as many bytes as it has asked for, ends the data stage.
After(r) ==
    CASE r.toggle # Expected -> {[host EXCEPT !.errors = 0]}
      [] r.toggle = Expected /\ host.stage = "statusIn" -> {Idle}
      [] r.toggle = Expected /\ host.stage = "in" ->
            IF host.done + r.len > MaxBytes THEN {Failed}
            ELSE {[host EXCEPT !.errors = 0, !.done = @ + r.len, !.stage = s] :
                    s \in CASE r.len < Block -> {"statusOut"}
                           [] r.len = Block /\ host.done + r.len < host.req.n -> {"in"}
                           [] OTHER -> {"in", "statusOut"}}

\* An IN token, for data or for the status of a write.
InTransaction ==
    /\ InStage("in") \/ InStage("statusIn")
    /\ Transmit(hostAddr)
    /\ host' \in CASE hostAddr # deviceAddr -> {Failed}
                   [] hostAddr = deviceAddr /\ ~Sends(hostAddr) ->
                         {[host EXCEPT !.errors = 0]}
                   [] hostAddr = deviceAddr /\ Sends(hostAddr) -> After(txLen)
    /\ hostAddr' = IF /\ host.stage = "statusIn" /\ host.req.kind = "address"
                      /\ host'.stage = "idle" /\ Sends(hostAddr)
                   THEN 1 ELSE hostAddr
    /\ UNCHANGED <<busReset, missed>>

\* The IN token, or what the device sends for it, is lost.
LostIn ==
    /\ LossyBus
    /\ InStage("in") \/ InStage("statusIn")
    /\ Transmit(hostAddr) \/ UNCHANGED device
    /\ host' = Failed
    /\ UNCHANGED <<hostAddr, busReset, missed>>

\* A transfer runs into its timeout.
TimeOut ==
    /\ LossyBus
    /\ host.stage # "idle" /\ busReset = "no"
    /\ host' = Idle
    /\ UNCHANGED <<device, hostAddr, busReset, missed>>

\* Mutant: the token before stays in force.
Ignored_Stale == currentTok

\* ignorePacket: what is not for this device leaves no token in usbCurrentTok.
Ignored == "none"

\* A transaction of another device on the same bus.
OtherDevice ==
    /\ busReset = "no"
    /\ \E tok \in {Ignored} \cup (IF MissedTokens /\ ~missed THEN {currentTok} ELSE {}) :
         /\ Receive(tok, Foreign)
         /\ missed' = (missed \/ tok # Ignored)
    /\ UNCHANGED <<host, hostAddr, busReset>>

BeginReset ==
    /\ busReset = "no"
    /\ busReset' = "held" /\ hostAddr' = 0 /\ host' = Idle
    /\ UNCHANGED <<device, missed>>

\* The reset lasts for several turns of the main loop, unless that stands still.
EndReset ==
    /\ busReset = "twice" \/ (LossyBus /\ busReset # "no")
    /\ busReset' = "no"
    /\ UNCHANGED <<device, host, hostAddr, missed>>

usbPoll ==
    Poll \/ ProcessSetup \/ IgnoreSetup \/ ProcessOut \/ FreeBuffer \/ Build
         \/ CheckReset
Transaction ==
    SetupTransaction \/ OutTransaction \/ StatusOut \/ InTransaction

Next ==
    \/ usbPoll \/ Transaction
    \/ NewTransfer \/ LostIn \/ TimeOut \/ OtherDevice \/ BeginReset \/ EndReset

Spec == Init /\ [][Next]_vars

\* main() calls usbPoll for ever; a host controller goes on with a transfer
\* until it is complete and lets go of the bus some time.
FairSpec == Spec /\ WF_vars(usbPoll) /\ WF_vars(Transaction) /\ WF_vars(EndReset)

(***************************************************************************)
(* Properties.                                                             *)
(***************************************************************************)
\* What usbProcessRx is reading is the packet the interrupt routine has last
\* acknowledged, and stays so while further packets come in: the halves are
\* not swapped before the buffer is free, and no acknowledged packet is lost.
HandOff ==
    /\ pc = "process" => rxFull /\ rxBuf[reading] = taken
    /\ taken # Empty => rxFull

\* usbRxToken belongs to the packet it is used for, whatever travelled between:
\* a data packet for another device is never taken for a request.
TokenMatch ==
    pc = "process" => rxToken = rxBuf[reading].type

\* Each data packet reaches usbFunctionWrite once, in its order, while the
\* request it belongs to is the one being served.
PacketsInOrder ==
    pc = "process" /\ rxToken = "out" =>
        /\ rw /\ serving = rxBuf[reading].req
        /\ rxBuf[reading].k = written + 1

\* On a bus without errors every transaction is answered, and a SETUP is never
\* NAKed: the packets that end a read are not kept.
NeverRefused == ~refused /\ host.errors = 0

\* Device and host agree on the address before every transaction, also while
\* a new one is assigned and after a bus reset.
AddressAgreed == busReset = "no" => deviceAddr = hostAddr

\* A reset of the bus makes the device forget both its address and one that
\* was assigned and never taken over, also when the request for it was still
\* in the receive buffer: two turns of usbPoll are enough.
ResetForgets == busReset = "twice" => deviceAddr = 0 /\ newDeviceAddr = 0

Sent == txLen # Nak /\ txLen' = Nak /\ pc' = pc

\* As long as no token was missed, what is sent belongs to the transfer the
\* host is working on, even if the one before was given up with its reply still in the buffer, or usbPoll
\* builds another packet of it after the next SETUP has arrived.
NoStaleReply == [][Sent /\ ~missed => txLen.id = host.req.id]_vars

\* The host puts a reply together from consecutive blocks, none twice and none
\* left out, and takes it for complete when it is.
ReplyInOrder ==
    [][host.stage = "in" /\ host'.stage \in {"in", "statusOut"} /\ host' # host
        => /\ txLen.from = host.done /\ txLen.id = host.req.id
           /\ host'.stage = "statusOut" => host'.done = host.req.n]_vars

\* Every transfer ends, also one whose reply fills its last packet, if
\* usbPoll is called again and again.
Completes == host.stage # "idle" ~> host.stage = "idle"

=============================================================================
