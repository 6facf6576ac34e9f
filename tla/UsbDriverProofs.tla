-------------------------- MODULE UsbDriverProofs --------------------------
(***************************************************************************)
(* The driver's type invariant, the handing over of packets between the    *)
(* interrupt routine and usbPoll on any bus, and its conversation with the *)
(* host controller on a bus without errors, for all values of the          *)
(* constants.                                                              *)
(***************************************************************************)
EXTENDS UsbDriver, Integers, TLAPS

(***************************************************************************)
(* The inductive invariant.                                                *)
(***************************************************************************)
DeviceTyped ==
    /\ rxBuf \in [{0, 1} -> Packet]
    /\ inputBuf \in {0, 1} /\ reading \in {0, 1}
    /\ rxFull \in BOOLEAN
    /\ rxToken \in {"setup", "out"}
    /\ currentTok \in {"none", "setup", "out"}
    /\ txLen \in {Nak} \cup Reply
    /\ txToggle \in {0, 1}
    /\ deviceAddr \in Addrs /\ newDeviceAddr \in Addrs
    /\ msgLen \in 0 .. NoMsg
    /\ rw \in BOOLEAN
    /\ serving \in Requests \cup {None}
    /\ written \in 0 .. MaxPackets
    /\ pc \in {"poll", "process", "free", "build", "reset"}
    /\ taken \in Packet
    /\ refused \in BOOLEAN

HostTyped ==
    /\ host \in Transfer
    /\ hostAddr \in Addrs
    /\ busReset \in {"no", "held", "once", "twice"}
    /\ missed \in BOOLEAN

\* Every variable fits the one it is computed from: a page has a length, a
\* reply is not longer than its request, a transfer has the stages of its kind.
ServingInv ==
    /\ rw => serving \in Requests /\ serving.kind = "write"
    /\ serving.kind = "read" /\ msgLen # NoMsg => msgLen =< serving.n

StageInv ==
    /\ host.stage # "idle" => host.req \in Requests
    /\ host.stage = "setup" => host.done = 0
    /\ host.stage = "in" => host.req.kind = "read"
    /\ host.stage = "out" => host.req.kind = "write" /\ host.done < host.req.n
    /\ host.stage = "statusIn" => host.req.kind # "read"

ShapeInv == ServingInv /\ StageInv

\* The two halves of the buffer: the packet that was acknowledged and is not
\* yet processed is in the half that is not receiving.
HandInv ==
    /\ taken # Empty => rxFull
    /\ rxFull /\ pc # "free" => taken # Empty /\ rxBuf[1 - inputBuf] = taken
    /\ pc = "process" => rxFull /\ reading = 1 - inputBuf
    /\ pc = "free" => rxFull /\ taken = Empty

\* Only a missed token puts a packet under the token of another.
TokenInv ==
    /\ ~MissedTokens => ~missed
    /\ ~missed /\ taken # Empty =>
            taken.type \in {"setup", "out"} /\ rxToken = taken.type

\* The SETUP packet of the transfer the host works on.
RequestPacket == [type |-> "setup", req |-> host.req, k |-> 0]

\* Once its SETUP is acknowledged, the transfer the host works on waits in the
\* buffer or is the one being served, and no reply is left from another.
ServedInv ==
    ~missed /\ host.stage \in {"in", "out", "statusIn"} =>
        \/ taken = RequestPacket
        \/ /\ taken.type # "setup" /\ serving = host.req
           /\ txLen = Nak \/ txLen.id = host.req.id

BusInv == HandInv /\ TokenInv /\ ServedInv

(***************************************************************************)
(* The part of the invariant for a bus without errors.                     *)
(***************************************************************************)
ErrInv == ~refused /\ host.errors = 0 /\ ~missed

\* The receive buffer is free whenever the next packet may be a SETUP.
FullInv ==
    host.stage \in {"idle", "setup", "statusOut"} /\ busReset = "no" => ~rxFull

\* The device has been given an address that it may not use yet.
Assigned == host.stage = "statusIn" /\ host.req.kind = "address" /\ taken = Empty

\* Device and host agree on the address now and after the next answer; two
\* turns of usbPoll after the beginning of a reset nothing of it is left.
AddrInv ==
    /\ busReset = "no" =>
            /\ deviceAddr = hostAddr
            /\ newDeviceAddr = IF Assigned THEN 1 ELSE hostAddr
    /\ busReset # "no" => hostAddr = 0 /\ host.stage = "idle"
    /\ busReset = "once" => deviceAddr = 0 /\ (pc \in {"build", "reset"} => ~rxFull)
    /\ busReset = "twice" => deviceAddr = 0 /\ newDeviceAddr = 0 /\ ~rxFull

\* A data packet in the buffer is the next of the page being received.
OutInv ==
    taken.type = "out" => rw /\ serving = taken.req /\ taken.k = written + 1

\* The device has n - d bytes of a reply left, the next packet of which has
\* toggle t and waits to be built or to be sent.
Pending(n, d, t) ==
    \/ txLen = Nak /\ msgLen = n - d /\ txToggle = 1 - t
    \/ /\ txLen.from = d /\ txLen.toggle = t /\ txToggle = t
       /\ txLen.len = IF n - d < Block THEN n - d ELSE Block
       /\ msgLen = IF n - d < Block THEN NoMsg ELSE n - d - Block

\* A read: the host has whole blocks, and the device the rest.
ReadInv ==
    host.stage = "in" =>
        /\ host.done \in 0 .. host.req.n /\ host.done % Block = 0
        /\ taken = RequestPacket => host.done = 0
        /\ taken # RequestPacket =>
               Pending(host.req.n, host.done, 1 - ((host.done \div Block) % 2))

\* A transfer without a reply: the device counts the packets as the host does,
\* and the answer for the status stage waits once it has everything.
WriteInv ==
    host.stage \in {"out", "statusIn"} =>
        /\ taken = RequestPacket =>
               host.done = 0 /\ (host.stage = "statusIn" => host.req.kind # "write")
        /\ host.stage = "statusIn" /\ host.req.kind = "write" => host.done = host.req.n
        /\ taken # RequestPacket =>
               IF host.req.kind = "write" /\ (host.stage = "out" \/ taken # Empty)
               THEN /\ txLen = Nak /\ msgLen = NoMsg /\ txToggle = 0 /\ rw
                    /\ host.done = IF taken = Empty THEN written ELSE written + 1
               ELSE Pending(0, 0, 1)

CleanInv ==
    ErrInv /\ FullInv /\ AddrInv /\ OutInv /\ ReadInv /\ WriteInv

(***************************************************************************)
(* Lemmas about requests and packets.                                      *)
(***************************************************************************)
LEMMA RequestFacts ==
  /\ \A r \in Requests : /\ r.id \in Ids /\ r.n \in Nat
                         /\ r.kind \in {"read", "write", "command", "address"}
                         /\ r.kind = "write" => r.n \in 1 .. MaxPackets
                         /\ r.kind # "write" => r.n \in 0 .. MaxBytes
                         /\ r.kind \in {"command", "address"} => r.n = 0
                         /\ r # None
  /\ None \notin Requests /\ None.kind = "none" /\ None.id \in Ids
  /\ NoMsg \in Nat /\ NoMsg > MaxBytes
PROOF
  <1>1. /\ MaxBytes \in Nat /\ MaxPackets \in Nat /\ LastId \in Nat
        /\ ReplyLengths \subseteq 0 .. MaxBytes
    BY DriverAssumption
  <1>2. ASSUME NEW r \in Requests
        PROVE  /\ r.id \in Ids /\ r.n \in Nat
               /\ r.kind \in {"read", "write", "command", "address"}
               /\ r.kind = "write" => r.n \in 1 .. MaxPackets
               /\ r.kind # "write" => r.n \in 0 .. MaxBytes
               /\ r.kind \in {"command", "address"} => r.n = 0
    <2>1. CASE r \in [id : Ids, kind : Kinds \cap {"read"}, n : ReplyLengths]
      <3>1. r.id \in Ids /\ r.kind = "read" /\ r.n \in ReplyLengths
        BY <2>1
      <3>2. r.n \in 0 .. MaxBytes
        BY <1>1, <3>1
      <3> QED BY <1>1, <3>1, <3>2
    <2>2. CASE r \in [id : Ids, kind : Kinds \cap {"write"}, n : 1 .. MaxPackets]
      BY <1>1, <2>2
    <2>3. CASE r \in [id : Ids, kind : Kinds \cap {"command", "address"}, n : {0}]
      BY <1>1, <2>3
    <2> QED BY <2>1, <2>2, <2>3 DEF Requests
  <1>3. None.kind = "none" /\ None.id \in Ids
    BY <1>1 DEF None, Ids
  <1>4. NoMsg \in Nat /\ NoMsg > MaxBytes
    BY <1>1 DEF NoMsg
  <1> QED BY <1>2, <1>3, <1>4

LEMMA PacketFacts ==
  /\ \A r \in Requests : [type |-> "setup", req |-> r, k |-> 0] \in Packet
  /\ \A r \in Requests, k \in 1 .. MaxPackets :
        [type |-> "out", req |-> r, k |-> k] \in Packet
  /\ Empty \in Packet /\ Foreign \in Packet
  /\ Empty.type = "empty" /\ Foreign.type = "foreign"
  /\ \A p \in Packet : /\ p.type \in {"setup", "out", "empty", "foreign"}
                       /\ p.type \in {"setup", "out"} => p.req \in Requests
                       /\ p.type = "setup" =>
                            p = [type |-> "setup", req |-> p.req, k |-> 0]
                       /\ p.type = "empty" <=> p = Empty
  BY DEF Packet, Empty, Foreign, None

LEMMA AskedTyped ==
  ASSUME NEW p \in Packet PROVE Asked(p) \subseteq Requests
  BY PacketFacts DEF Asked

\* The handshake is one of three.
LEMMA AnswerFacts ==
  ASSUME rxFull \in BOOLEAN, NEW cur
  PROVE  /\ Answer(cur) = "ack" <=> cur # "none" /\ ~rxFull
         /\ Answer(cur) = "nak" <=> cur # "none" /\ rxFull
         /\ Answer(cur) = "nothing" <=> cur = "none"
  BY DEF Answer

(***************************************************************************)
(* Types.                                                                  *)
(***************************************************************************)
LEMMA TypesSplit == TypeOK <=> DeviceTyped /\ HostTyped
  BY DEF TypeOK, DeviceTyped, HostTyped

\* Receiving a packet keeps the device's types.
LEMMA ReceiveTyped ==
  ASSUME DeviceTyped, NEW cur \in {"none", "setup", "out"}, NEW p \in Packet,
         Receive(cur, p)
  PROVE  DeviceTyped'
PROOF
  <1> USE DEF DeviceTyped
  <1>1. rxBuf' \in [{0, 1} -> Packet] /\ currentTok' \in {"none", "setup", "out"}
    BY DEF Receive
  <1>2. /\ rxFull' \in BOOLEAN /\ rxToken' \in {"setup", "out"}
        /\ inputBuf' \in {0, 1} /\ taken' \in Packet
    <2>1. CASE Keeps(cur, p)
      <3>1. cur # "none"
        BY <2>1, AnswerFacts DEF Keeps
      <3> QED BY <2>1, <3>1 DEF Receive
    <2>2. CASE ~Keeps(cur, p)
      BY <2>2 DEF Receive
    <2> QED BY <2>1, <2>2
  <1>3. UNCHANGED <<tx, app, main, deviceAddr>> /\ refused' \in BOOLEAN
    BY DEF Receive
  <1> QED BY <1>1, <1>2, <1>3 DEF tx, app, main

LEMMA TokenTyped ==
  ASSUME NEW tok \in {"setup", "out"}, NEW a
  PROVE  Token(tok, a) \in {"none", tok}
  BY DEF Token

LEMMA DeliverTyped ==
  ASSUME DeviceTyped, NEW tok \in {"setup", "out"}, NEW p \in Packet, NEW loss,
         Deliver(tok, p, loss)
  PROVE  DeviceTyped'
PROOF
  <1>1. CASE loss = "data"
    BY <1>1, TokenTyped DEF Deliver, DeviceTyped, tx, app, main
  <1>2. CASE loss # "data"
    <2> DEFINE cur == IF loss = "token" THEN currentTok ELSE Token(tok, hostAddr)
    <2>1. cur \in {"none", "setup", "out"}
      BY TokenTyped DEF DeviceTyped
    <2>2. Receive(cur, p)
      BY <1>2 DEF Deliver
    <2> HIDE DEF cur
    <2> QED BY <2>1, <2>2, ReceiveTyped
  <1> QED BY <1>1, <1>2

LEMMA TransmitTyped ==
  ASSUME DeviceTyped, NEW a, Transmit(a)
  PROVE  DeviceTyped'
  BY DEF Transmit, DeviceTyped, app, main

\* What usbBuildTxBlock takes from a reply fits a packet and leaves a rest.
LEMMA BuildTyped ==
  ASSUME DeviceTyped, ServingInv, Build
  PROVE  DeviceTyped' /\ ServingInv'
PROOF
  <1>1. CASE txLen = Nak /\ msgLen # NoMsg
    <2> DEFINE want == IF msgLen > Block THEN Block ELSE msgLen
               from == IF serving.kind = "read" THEN serving.n - msgLen ELSE 0
    <2>1. msgLen \in 0 .. MaxBytes /\ MaxBytes \in Nat /\ Block \in Nat \ {0}
      BY <1>1, DriverAssumption DEF DeviceTyped, NoMsg
    <2>2. want \in 0 .. Block /\ msgLen - want \in 0 .. msgLen
      BY <2>1
    <2>3. serving.id \in Ids
      BY RequestFacts DEF DeviceTyped
    <2>4. from \in 0 .. MaxBytes
      <3>1. CASE serving.kind = "read"
        <4>1. serving \in Requests
          BY <3>1, RequestFacts DEF DeviceTyped
        <4>2. serving.n \in 0 .. MaxBytes
          BY <3>1, <4>1, RequestFacts
        <4>3. msgLen =< serving.n
          BY <1>1, <3>1 DEF ServingInv
        <4> QED BY <2>1, <3>1, <4>2, <4>3
      <3> QED BY <2>1, <3>1
    <2>5. txToggle' \in {0, 1} /\ txToggle' = 1 - txToggle
      BY <1>1 DEF Build, DeviceTyped
    <2>6. /\ txLen' = [id |-> serving.id, len |-> want, from |-> from,
                       toggle |-> txToggle']
          /\ msgLen' = IF want < Block THEN NoMsg ELSE msgLen - want
      BY <1>1 DEF Build
    <2> HIDE DEF want, from
    <2>7. txLen' \in Reply
      BY <2>2, <2>3, <2>4, <2>5, <2>6 DEF Reply
    <2>8. msgLen' \in 0 .. NoMsg /\ (msgLen' # NoMsg => msgLen' =< msgLen)
      BY <2>1, <2>2, <2>6, RequestFacts DEF NoMsg
    <2>9. /\ UNCHANGED <<isr, newDeviceAddr, app, reading, deviceAddr, taken, refused>>
          /\ pc' = "reset"
      BY DEF Build
    <2>10. DeviceTyped'
      BY <2>5, <2>7, <2>8, <2>9 DEF DeviceTyped, isr, app
    <2>11. ServingInv'
      <3>1. UNCHANGED <<rw, serving>>
        BY <2>9 DEF app
      <3>2. ASSUME serving.kind = "read", msgLen' # NoMsg PROVE msgLen' =< serving.n
        <4>1. msgLen =< serving.n
          BY <1>1, <3>2 DEF ServingInv
        <4>2. serving.n \in Nat
          BY <3>2, RequestFacts DEF DeviceTyped
        <4> QED BY <2>1, <2>8, <3>2, <4>1, <4>2
      <3> QED BY <3>1, <3>2 DEF ServingInv
    <2> QED BY <2>10, <2>11
  <1>2. CASE ~(txLen = Nak /\ msgLen # NoMsg)
    BY <1>2 DEF Build, DeviceTyped, ServingInv, isr, app
  <1> QED BY <1>1, <1>2

LEMMA ProcessSetupTyped ==
  ASSUME DeviceTyped, ServingInv, ProcessSetup
  PROVE  DeviceTyped' /\ ServingInv'
PROOF
  <1>1. rxBuf[reading] \in Packet
    BY DEF DeviceTyped
  <1>2. PICK r \in Asked(rxBuf[reading]) :
            /\ serving' = r
            /\ written' = 0
            /\ rw' = (r.kind = "write")
            /\ msgLen' = IF r.kind = "write" THEN NoMsg ELSE r.n
            /\ newDeviceAddr' = IF r.kind = "address" THEN 1 ELSE newDeviceAddr
    BY DEF ProcessSetup
  <1>3. r \in Requests
    BY <1>1, AskedTyped
  <1>4. msgLen' \in 0 .. NoMsg /\ newDeviceAddr' \in Addrs /\ written' \in 0 .. MaxPackets
    BY <1>2, <1>3, RequestFacts, DriverAssumption DEF NoMsg, Addrs, DeviceTyped
  <1>5. /\ txToggle' = 0 /\ txLen' = Nak /\ taken' = Empty /\ pc' = "free"
        /\ UNCHANGED <<isr, reading, deviceAddr, refused>>
    BY DEF ProcessSetup
  <1>6. DeviceTyped'
    BY <1>2, <1>3, <1>4, <1>5, PacketFacts DEF DeviceTyped, isr
  <1>7. rw' => serving' \in Requests /\ serving'.kind = "write"
    BY <1>2, <1>3
  <1>8. serving'.kind = "read" => msgLen' = serving'.n /\ serving'.n \in Nat
    BY <1>2, <1>3, RequestFacts
  <1>9. ServingInv'
    BY <1>7, <1>8 DEF ServingInv
  <1> QED BY <1>6, <1>9

LEMMA ProcessOutTyped ==
  ASSUME DeviceTyped, ServingInv, ProcessOut
  PROVE  DeviceTyped' /\ ServingInv'
PROOF
  <1>1. written' \in 0 .. MaxPackets /\ msgLen' \in 0 .. NoMsg
        /\ (msgLen' # msgLen => rw)
    <2>1. CASE rw
      <3>1. serving.n \in 1 .. MaxPackets
        BY <2>1, RequestFacts DEF ServingInv
      <3>2. written \in Nat /\ MaxPackets \in Nat
        BY DriverAssumption DEF DeviceTyped
      <3>3. (written + 1) % serving.n \in 0 .. serving.n - 1
        BY <3>1, <3>2
      <3>4. written' = (written + 1) % serving.n
            /\ msgLen' = IF written' = 0 THEN 0 ELSE msgLen
        BY <2>1 DEF ProcessOut
      <3> QED BY <2>1, <3>1, <3>2, <3>3, <3>4, RequestFacts DEF DeviceTyped
    <2>2. CASE ~rw
      BY <2>2 DEF ProcessOut, DeviceTyped
    <2> QED BY <2>1, <2>2
  <1>2. /\ taken' = Empty /\ pc' = "free"
        /\ UNCHANGED <<isr, txLen, txToggle, newDeviceAddr, rw, serving, reading,
                       deviceAddr, refused>>
    BY DEF ProcessOut
  <1>3. DeviceTyped'
    BY <1>1, <1>2, PacketFacts DEF DeviceTyped, isr
  <1>4. ServingInv'
    BY <1>1, <1>2 DEF ServingInv
  <1> QED BY <1>3, <1>4

\* The other steps of usbPoll.
LEMMA PollTyped ==
  ASSUME DeviceTyped, ServingInv, Poll \/ IgnoreSetup \/ FreeBuffer \/ CheckReset
  PROVE  DeviceTyped' /\ ServingInv'
PROOF
  <1>1. CASE Poll
    BY <1>1 DEF Poll, DeviceTyped, ServingInv, isr, tx, app
  <1>2. CASE IgnoreSetup
    BY <1>2, PacketFacts DEF IgnoreSetup, DeviceTyped, ServingInv, isr, tx, app
  <1>3. CASE FreeBuffer
    BY <1>3, ZenonT(30) DEF FreeBuffer, DeviceTyped, ServingInv, tx, app
  <1>4. CASE CheckReset
    BY <1>4 DEF CheckReset, DeviceTyped, ServingInv, isr, app, Addrs
  <1> QED BY <1>1, <1>2, <1>3, <1>4

\* A bus reset and the end of one are no business of the device's types.
LEMMA DriverStepTyped ==
  ASSUME TypeOK, ShapeInv, [Next]_vars
  PROVE  DeviceTyped' /\ ServingInv'
PROOF
  <1>1. DeviceTyped /\ HostTyped /\ ServingInv /\ StageInv
    BY TypesSplit DEF ShapeInv
  <1>2. CASE usbPoll
    BY <1>1, <1>2, BuildTyped, ProcessSetupTyped, ProcessOutTyped, PollTyped
       DEF usbPoll
  <1>3. CASE UNCHANGED device
    BY <1>1, <1>3 DEF device, isr, tx, app, main, DeviceTyped, ServingInv
  <1>4. CASE Transmit(hostAddr)
    <2>1. UNCHANGED <<msgLen, rw, serving>>
      BY <1>4 DEF Transmit, app
    <2> QED BY <1>1, <1>4, <2>1, TransmitTyped DEF ServingInv
  <1>5. ASSUME NEW tok \in {"setup", "out"}, NEW p \in Packet, NEW loss,
               Deliver(tok, p, loss)
        PROVE  DeviceTyped' /\ ServingInv'
    <2>1. UNCHANGED <<msgLen, rw, serving>>
      BY <1>5 DEF Deliver, Receive, tx, app
    <2> QED BY <1>1, <1>5, <2>1, DeliverTyped DEF ServingInv
  <1>6. CASE SetupTransaction
    <2>1. [type |-> "setup", req |-> host.req, k |-> 0] \in Packet
      BY <1>1, <1>6, PacketFacts DEF SetupTransaction, InStage, StageInv
    <2> QED BY <1>5, <1>6, <2>1 DEF SetupTransaction
  <1>7. CASE OutTransaction
    <2>1. host.req \in Requests /\ host.req.n \in 1 .. MaxPackets /\ host.done < host.req.n
      BY <1>1, <1>7, RequestFacts DEF OutTransaction, InStage, StageInv
    <2>2. host.done \in Nat
      BY <1>1, DriverAssumption DEF HostTyped, Transfer
    <2>3. host.done + 1 \in 1 .. MaxPackets
      BY <2>1, <2>2, DriverAssumption
    <2>4. [type |-> "out", req |-> host.req, k |-> host.done + 1] \in Packet
      BY <2>1, <2>3, PacketFacts
    <2> QED BY <1>5, <1>7, <2>4 DEF OutTransaction
  <1>8. CASE StatusOut
    BY <1>5, <1>8, PacketFacts DEF StatusOut
  <1>9. CASE OtherDevice
    <2>1. PICK tok \in {"none", "setup", "out"} : Receive(tok, Foreign)
      BY <1>1, <1>9 DEF OtherDevice, Ignored, DeviceTyped
    <2>2. UNCHANGED <<msgLen, rw, serving>>
      BY <2>1 DEF Receive, tx, app
    <2> QED BY <1>1, <2>1, <2>2, ReceiveTyped, PacketFacts DEF ServingInv
  <1>10. CASE InTransaction \/ LostIn
    BY <1>3, <1>4, <1>10 DEF InTransaction, LostIn
  <1>11. CASE NewTransfer \/ TimeOut \/ BeginReset \/ EndReset \/ UNCHANGED vars
    BY <1>3, <1>11
       DEF NewTransfer, TimeOut, BeginReset, EndReset, vars, device
  <1> QED
    BY <1>2, <1>6, <1>7, <1>8, <1>9, <1>10, <1>11 DEF Next, Transaction

\* h is the transfer of the host in stage s with d done and no errors.
Goes(h, s, d) ==
    /\ h \in Transfer /\ h.req = host.req
    /\ h.stage = s /\ h.done = d /\ h.errors = 0

LEMMA HostFacts ==
  ASSUME HostTyped
  PROVE  /\ host \in [req : Requests \cup {None}, stage : Stages,
                     done : 0 .. MaxBytes + MaxPackets, errors : 0 .. MaxErrors - 1]
         /\ 0 \in 0 .. MaxErrors - 1 /\ MaxErrors \in Nat
         /\ 0 \in 0 .. MaxBytes + MaxPackets
         /\ "idle" \in Stages
         /\ host.stage \in Stages /\ host.done \in 0 .. MaxBytes + MaxPackets
         /\ host.errors \in Nat
         /\ host.done \in Nat
PROOF
  <1>1. host \in [req : Requests \cup {None}, stage : Stages,
                  done : 0 .. MaxBytes + MaxPackets, errors : 0 .. MaxErrors - 1]
    BY DEF HostTyped, Transfer
  <1>2. /\ 0 \in 0 .. MaxErrors - 1 /\ MaxErrors \in Nat
        /\ 0 \in 0 .. MaxBytes + MaxPackets
    BY DriverAssumption
  <1> QED BY <1>1, <1>2 DEF Stages

\* Changing some fields of a transfer.
LEMMA Moved ==
  ASSUME HostTyped, NEW s \in Stages, NEW d \in 0 .. MaxBytes + MaxPackets
  PROVE  /\ Goes([host EXCEPT !.stage = s, !.done = d, !.errors = 0], s, d)
         /\ Goes([host EXCEPT !.errors = 0, !.done = d, !.stage = s], s, d)
         /\ Goes([host EXCEPT !.errors = 0, !.stage = s], s, host.done)
PROOF
  <1>1. Goes([host EXCEPT !.stage = s, !.done = d, !.errors = 0], s, d)
    BY HostFacts DEF Goes, Transfer
  <1>2. Goes([host EXCEPT !.errors = 0, !.done = d, !.stage = s], s, d)
    BY HostFacts DEF Goes, Transfer
  <1>3. Goes([host EXCEPT !.errors = 0, !.stage = s], s, host.done)
    BY HostFacts DEF Goes, Transfer
  <1> QED BY <1>1, <1>2, <1>3

LEMMA NoError ==
  ASSUME HostTyped
  PROVE  Goes([host EXCEPT !.errors = 0], host.stage, host.done)
  BY HostFacts DEF Goes, Transfer

\* What the host controller makes of silence.
LEMMA GivesUp ==
  ASSUME HostTyped
  PROVE  /\ Goes(Idle, "idle", 0)
         /\ Failed \in Transfer
         /\ \/ Failed = Idle
            \/ /\ Failed.req = host.req /\ Failed.stage = host.stage
               /\ Failed.done = host.done
PROOF
  <1>1. Goes(Idle, "idle", 0)
    BY Moved, HostFacts DEF Idle
  <1>2. CASE host.errors + 1 = MaxErrors
    BY <1>1, <1>2 DEF Failed, Goes
  <1>3. CASE host.errors + 1 # MaxErrors
    <2>1. host.errors + 1 \in 0 .. MaxErrors - 1
      BY <1>3, HostFacts
    <2>2. Failed = [host EXCEPT !.errors = host.errors + 1]
      BY <1>3 DEF Failed
    <2>3. /\ Failed \in Transfer /\ Failed.req = host.req
          /\ Failed.stage = host.stage /\ Failed.done = host.done
      BY <2>1, <2>2, HostFacts DEF Transfer
    <2> QED BY <1>1, <2>3
  <1> QED BY <1>2, <1>3

\* A transfer that goes on as it is, or is given up, keeps its shape.
LEMMA SameShape ==
  ASSUME HostTyped, StageInv,
         \/ host' \in {Idle, Failed, [host EXCEPT !.errors = 0]}
         \/ UNCHANGED host
  PROVE  host' \in Transfer /\ StageInv'
PROOF
  <1>1. host \in Transfer
    BY DEF HostTyped
  <1>2. host' \in Transfer
    BY <1>1, GivesUp, NoError DEF Goes
  <1>3. /\ host'.req = host.req
        /\ \/ host'.stage = "idle"
           \/ host'.stage = host.stage /\ host'.done = host.done
    BY GivesUp, NoError DEF Goes
  <1> QED BY <1>2, <1>3 DEF StageInv

LEMMA SetupHostTyped ==
  ASSUME HostTyped, StageInv, SetupTransaction
  PROVE  host' \in Transfer /\ StageInv'
PROOF
  <1>1. PICK loss \in Losses :
            host' = IF Heard("setup", loss) = "ack"
                    THEN [host EXCEPT !.errors = 0, !.stage =
                            CASE host.req.kind = "read"  -> "in"
                              [] host.req.kind = "write" -> "out"
                              [] OTHER                   -> "statusIn"]
                    ELSE Failed
    BY DEF SetupTransaction
  <1>2. CASE Heard("setup", loss) = "ack"
    <2> DEFINE s == CASE host.req.kind = "read"  -> "in"
                      [] host.req.kind = "write" -> "out"
                      [] OTHER                   -> "statusIn"
    <2>1. /\ s \in {"in", "out", "statusIn"}
          /\ s = "in" => host.req.kind = "read"
          /\ s = "out" => host.req.kind = "write"
          /\ s = "statusIn" => host.req.kind # "read"
      OBVIOUS
    <2>2. host' = [host EXCEPT !.errors = 0, !.stage = s]
      BY <1>1, <1>2
    <2> HIDE DEF s
    <2>3. host \in Transfer /\ host.req \in Requests /\ host.done = 0
      BY DEF HostTyped, SetupTransaction, InStage, StageInv
    <2>4. /\ host' \in Transfer /\ host'.req = host.req /\ host'.done = 0
          /\ host'.stage = s
      <3>1. s \in Stages /\ 0 \in 0 .. MaxBytes + MaxPackets
        BY <2>1, DriverAssumption DEF Stages
      <3> QED BY <2>2, <2>3, <3>1, Moved DEF Goes
    <2>5. host.req.kind = "write" => 0 < host.req.n
      BY <2>3, RequestFacts
    <2> QED BY <2>1, <2>3, <2>4, <2>5 DEF StageInv
  <1>3. CASE Heard("setup", loss) # "ack"
    BY <1>1, <1>3, SameShape
  <1> QED BY <1>2, <1>3

LEMMA OutHostTyped ==
  ASSUME HostTyped, StageInv, rxFull \in BOOLEAN, OutTransaction
  PROVE  host' \in Transfer /\ StageInv'
PROOF
  <1>1. PICK loss \in Losses :
            host' = CASE Heard("out", loss) = "ack" ->
                          [host EXCEPT !.errors = 0, !.done = @ + 1,
                                       !.stage = IF host.done + 1 = host.req.n
                                                 THEN "statusIn" ELSE "out"]
                     [] Heard("out", loss) = "nak" -> [host EXCEPT !.errors = 0]
                     [] Heard("out", loss) = "nothing" -> Failed
    BY DEF OutTransaction
  <1>2. Heard("out", loss) \in {"ack", "nak", "nothing"}
    BY AnswerFacts DEF Heard, Answer
  <1>3. CASE Heard("out", loss) = "ack"
    <2> DEFINE s == IF host.done + 1 = host.req.n THEN "statusIn" ELSE "out"
    <2>1. host' = [host EXCEPT !.errors = 0, !.done = host.done + 1, !.stage = s]
      BY <1>1, <1>3
    <2>2. /\ host \in Transfer /\ host.req \in Requests /\ host.req.kind = "write"
          /\ host.done < host.req.n
      BY DEF HostTyped, OutTransaction, InStage, StageInv
    <2>3. host.req.n \in 1 .. MaxPackets /\ host.done \in Nat
      BY <2>2, RequestFacts, DriverAssumption DEF Transfer
    <2>4. /\ s \in {"statusIn", "out"}
          /\ s = "out" => host.done + 1 < host.req.n
          /\ host.done + 1 \in 0 .. MaxBytes + MaxPackets
      BY <2>2, <2>3, DriverAssumption
    <2> HIDE DEF s
    <2>5. /\ host' \in Transfer /\ host'.req = host.req
          /\ host'.done = host.done + 1 /\ host'.stage = s
      <3>1. s \in Stages
        BY <2>4 DEF Stages
      <3> QED BY <2>1, <2>4, <3>1, Moved DEF Goes
    <2>6. StageInv'
      BY <2>2, <2>4, <2>5 DEF StageInv
    <2> QED BY <2>5, <2>6
  <1>4. CASE Heard("out", loss) # "ack"
    BY <1>1, <1>2, <1>4, SameShape
  <1> QED BY <1>3, <1>4

LEMMA StatusOutHostTyped ==
  ASSUME HostTyped, StageInv, rxFull \in BOOLEAN, StatusOut
  PROVE  host' \in Transfer /\ StageInv'
PROOF
  <1>1. PICK loss \in Losses :
            host' = CASE Heard("out", loss) = "ack" -> Idle
                     [] Heard("out", loss) = "nak" -> [host EXCEPT !.errors = 0]
                     [] Heard("out", loss) = "nothing" -> Failed
    BY DEF StatusOut
  <1>2. Heard("out", loss) \in {"ack", "nak", "nothing"}
    BY AnswerFacts DEF Heard, Answer
  <1> QED BY <1>1, <1>2, SameShape

\* What the host makes of a reply: the same transfer, a failed one, the end of
\* it, or the next block of a read.
LEMMA AfterCases ==
  ASSUME HostTyped, DeviceTyped, StageInv, txLen # Nak,
         host.stage \in {"in", "statusIn"}, NEW h \in After(txLen)
  PROVE  \/ txLen.toggle # Expected /\ h = [host EXCEPT !.errors = 0]
         \/ txLen.toggle = Expected /\ host.stage = "statusIn" /\ h = Idle
         \/ /\ txLen.toggle = Expected /\ host.stage = "in"
            /\ host.done + txLen.len > MaxBytes /\ h = Failed
         \/ /\ txLen.toggle = Expected /\ host.stage = "in"
            /\ host.done + txLen.len =< MaxBytes
            /\ \E s \in {"in", "statusOut"} :
                 /\ h = [host EXCEPT !.errors = 0, !.done = host.done + txLen.len,
                                     !.stage = s]
                 /\ txLen.len < Block => s = "statusOut"
                 /\ txLen.len = Block /\ host.done + txLen.len < host.req.n => s = "in"
PROOF
  <1>1. CASE txLen.toggle # Expected
    BY <1>1 DEF After
  <1>2. CASE txLen.toggle = Expected /\ host.stage = "statusIn"
    BY <1>2 DEF After
  <1>3. CASE txLen.toggle = Expected /\ host.stage = "in"
    <2> DEFINE S == CASE txLen.len < Block -> {"statusOut"}
                      [] txLen.len = Block /\ host.done + txLen.len < host.req.n -> {"in"}
                      [] OTHER -> {"in", "statusOut"}
    <2>1. txLen.len \in Nat /\ Block \in Nat /\ host.done \in Nat /\ MaxBytes \in Nat
      BY DriverAssumption DEF DeviceTyped, Reply, HostTyped, Transfer
    <2>2. /\ S \subseteq {"in", "statusOut"}
          /\ txLen.len < Block => S = {"statusOut"}
          /\ txLen.len = Block /\ host.done + txLen.len < host.req.n => S = {"in"}
      BY <2>1
    <2>3. CASE host.done + txLen.len > MaxBytes
      BY <1>3, <2>3 DEF After
    <2>4. CASE ~(host.done + txLen.len > MaxBytes)
      <3>1. h \in {[host EXCEPT !.errors = 0, !.done = host.done + txLen.len,
                                !.stage = s] : s \in S}
        BY <1>3, <2>4 DEF After
      <3> HIDE DEF S
      <3>2. host.done + txLen.len =< MaxBytes
        BY <2>1, <2>4
      <3> QED BY <1>3, <2>2, <3>1, <3>2
    <2> QED BY <2>3, <2>4
  <1> QED BY <1>1, <1>2, <1>3

\* The cases of an IN transaction.
LEMMA InCases ==
  ASSUME InTransaction
  PROVE  \/ hostAddr # deviceAddr /\ host' = Failed
         \/ /\ hostAddr = deviceAddr /\ ~Sends(hostAddr)
            /\ host' = [host EXCEPT !.errors = 0]
         \/ hostAddr = deviceAddr /\ Sends(hostAddr) /\ host' \in After(txLen)
PROOF
  <1>1. host' \in CASE hostAddr # deviceAddr -> {Failed}
                    [] hostAddr = deviceAddr /\ ~Sends(hostAddr) ->
                          {[host EXCEPT !.errors = 0]}
                    [] hostAddr = deviceAddr /\ Sends(hostAddr) -> After(txLen)
    BY DEF InTransaction
  <1>2. CASE hostAddr # deviceAddr
    BY <1>1, <1>2
  <1>3. CASE hostAddr = deviceAddr /\ ~Sends(hostAddr)
    BY <1>1, <1>3
  <1>4. CASE hostAddr = deviceAddr /\ Sends(hostAddr)
    <2>1. host' \in After(txLen)
      BY <1>1, <1>4
    <2> QED BY <1>4, <2>1
  <1> QED BY <1>2, <1>3, <1>4

LEMMA InHostTyped ==
  ASSUME HostTyped, DeviceTyped, StageInv, InTransaction
  PROVE  host' \in Transfer /\ StageInv'
PROOF
  <1>1. CASE host' \in {Failed, Idle, [host EXCEPT !.errors = 0]}
    BY <1>1, SameShape
  <1>2. CASE host' \notin {Failed, Idle, [host EXCEPT !.errors = 0]}
    <2>1. txLen # Nak /\ host' \in After(txLen)
      BY <1>2, InCases DEF Sends
    <2>2. host.stage \in {"in", "statusIn"}
      BY DEF InTransaction, InStage
    <2>3. /\ host.stage = "in" /\ host.done + txLen.len =< MaxBytes
          /\ \E s \in {"in", "statusOut"} :
                host' = [host EXCEPT !.errors = 0, !.done = host.done + txLen.len,
                                     !.stage = s]
      BY <1>2, <2>1, <2>2, AfterCases
    <2>4. txLen.len \in Nat /\ host.done \in Nat
      BY <2>1, DriverAssumption DEF DeviceTyped, Reply, HostTyped, Transfer
    <2>5. host.done + txLen.len \in 0 .. MaxBytes + MaxPackets
      BY <2>3, <2>4, DriverAssumption
    <2>6. host \in Transfer /\ host.req \in Requests /\ host.req.kind = "read"
      BY <2>3 DEF HostTyped, StageInv
    <2>7. /\ host' \in Transfer /\ host'.req = host.req
          /\ host'.stage \in {"in", "statusOut"}
      <3>1. {"in", "statusOut"} \subseteq Stages
        BY DEF Stages
      <3>2. PICK s \in {"in", "statusOut"} :
                host' = [host EXCEPT !.errors = 0, !.done = host.done + txLen.len,
                                     !.stage = s]
        BY <2>3
      <3>3. Goes(host', s, host.done + txLen.len)
        BY <2>5, <3>1, <3>2, Moved
      <3> QED BY <3>3 DEF Goes
    <2> QED BY <2>6, <2>7 DEF StageInv
  <1> QED BY <1>1, <1>2

LEMMA HostStepTyped ==
  ASSUME TypeOK, ShapeInv, [Next]_vars
  PROVE  HostTyped' /\ StageInv'
PROOF
  <1>1. DeviceTyped /\ HostTyped /\ StageInv /\ rxFull \in BOOLEAN
    BY TypesSplit DEF ShapeInv, DeviceTyped
  <1>2. host' \in Transfer /\ StageInv'
    <2>1. CASE NewTransfer
      <3>1. PICK r \in Requests :
                host' = [req |-> r, stage |-> "setup", done |-> 0, errors |-> 0]
        BY <2>1 DEF NewTransfer
      <3>2. host' \in Transfer
        BY <3>1, DriverAssumption DEF Transfer, Stages
      <3> QED BY <3>1, <3>2 DEF StageInv
    <2>2. CASE SetupTransaction
      BY <1>1, <2>2, SetupHostTyped
    <2>3. CASE OutTransaction
      BY <1>1, <2>3, OutHostTyped
    <2>4. CASE StatusOut
      BY <1>1, <2>4, StatusOutHostTyped
    <2>5. CASE InTransaction
      BY <1>1, <2>5, InHostTyped
    <2>6. CASE LostIn \/ TimeOut \/ BeginReset
      BY <1>1, <2>6, SameShape DEF LostIn, TimeOut, BeginReset
    <2>7. CASE UNCHANGED host
      BY <1>1, <2>7, SameShape
    <2>8. CASE usbPoll \/ OtherDevice \/ EndReset \/ UNCHANGED vars
      BY <2>7, <2>8
         DEF usbPoll, Poll, ProcessSetup, IgnoreSetup, ProcessOut, FreeBuffer,
             Build, CheckReset, OtherDevice, EndReset, bus, vars
    <2> QED
      BY <2>1, <2>2, <2>3, <2>4, <2>5, <2>6, <2>8 DEF Next, Transaction
  <1>3. hostAddr' \in Addrs /\ busReset' \in {"no", "held", "once", "twice"}
    <2>1. CASE usbPoll
      BY <1>1, <2>1
         DEF usbPoll, Poll, ProcessSetup, IgnoreSetup, ProcessOut, FreeBuffer,
             Build, CheckReset, bus, HostTyped
    <2>2. CASE Transaction \/ NewTransfer \/ LostIn \/ TimeOut \/ OtherDevice
      BY <1>1, <2>2
         DEF Transaction, SetupTransaction, OutTransaction, StatusOut,
             InTransaction, NewTransfer, LostIn, TimeOut, OtherDevice, HostTyped, Addrs
    <2>3. CASE BeginReset \/ EndReset \/ UNCHANGED vars
      BY <1>1, <2>3 DEF BeginReset, EndReset, vars, bus, HostTyped, Addrs
    <2> QED BY <2>1, <2>2, <2>3 DEF Next
  <1>4. missed' \in BOOLEAN
    <2>1. CASE UNCHANGED missed
      BY <1>1, <2>1 DEF HostTyped
    <2>2. CASE SetupTransaction \/ OutTransaction \/ StatusOut \/ OtherDevice
      BY <1>1, <2>2
         DEF SetupTransaction, OutTransaction, StatusOut, OtherDevice, HostTyped
    <2>3. CASE usbPoll \/ InTransaction \/ NewTransfer \/ LostIn \/ TimeOut
               \/ BeginReset \/ EndReset \/ UNCHANGED vars
      BY <2>1, <2>3
         DEF usbPoll, Poll, ProcessSetup, IgnoreSetup, ProcessOut, FreeBuffer,
             Build, CheckReset, InTransaction, NewTransfer, LostIn, TimeOut,
             BeginReset, EndReset, bus, vars
    <2> QED BY <2>2, <2>3 DEF Next, Transaction
  <1> QED BY <1>2, <1>3, <1>4 DEF HostTyped

LEMMA InitTyped == Init => TypeOK /\ ShapeInv
PROOF
  <1> SUFFICES ASSUME Init PROVE TypeOK /\ ShapeInv
    OBVIOUS
  <1>1. DeviceTyped
    <2>1. rxBuf \in [{0, 1} -> Packet] /\ taken \in Packet
      BY PacketFacts DEF Init
    <2>2. msgLen \in 0 .. NoMsg /\ written \in 0 .. MaxPackets
      BY RequestFacts, DriverAssumption DEF Init
    <2> QED BY <2>1, <2>2 DEF Init, DeviceTyped, Addrs
  <1>2. Quiet \in Transfer
    BY DriverAssumption DEF Quiet, Transfer, Stages
  <1>3. HostTyped
    BY <1>2 DEF Init, HostTyped, Addrs
  <1>4. ShapeInv
    BY RequestFacts DEF Init, ShapeInv, ServingInv, StageInv, Quiet
  <1> QED BY <1>1, <1>3, <1>4, TypesSplit

\* Every variable of driver and host controller stays in its type, whatever is
\* lost on the bus.
THEOREM DriverTyped == Spec => [](TypeOK /\ ShapeInv)
PROOF
  <1>1. TypeOK /\ ShapeInv /\ [Next]_vars => (TypeOK /\ ShapeInv)'
    <2> SUFFICES ASSUME TypeOK, ShapeInv, [Next]_vars
                 PROVE  TypeOK' /\ ShapeInv'
      OBVIOUS
    <2>1. DeviceTyped' /\ HostTyped' /\ ServingInv' /\ StageInv'
      BY DriverStepTyped, HostStepTyped
    <2> QED BY <2>1 DEF ShapeInv, TypeOK, DeviceTyped, HostTyped
  <1> QED BY <1>1, InitTyped, PTL DEF Spec

(***************************************************************************)
(* The receive buffer.                                                     *)
(***************************************************************************)
LEMMA ReceiveHand ==
  ASSUME DeviceTyped, HandInv, NEW cur, NEW p \in Packet, Receive(cur, p)
  PROVE  HandInv'
PROOF
  <1>1. inputBuf \in {0, 1} /\ rxBuf \in [{0, 1} -> Packet] /\ rxFull \in BOOLEAN
    BY DEF DeviceTyped
  <1>2. /\ rxBuf' = [rxBuf EXCEPT ![inputBuf] = p]
        /\ pc' = pc /\ reading' = reading
    BY DEF Receive, main
  <1>3. CASE Keeps(cur, p)
    <2>1. ~rxFull /\ p # Empty
      BY <1>1, <1>3, AnswerFacts, PacketFacts DEF Keeps
    <2>2. rxFull' /\ inputBuf' = 1 - inputBuf /\ taken' = p
      BY <1>3 DEF Receive
    <2>3. rxBuf'[1 - inputBuf'] = p
      BY <1>1, <1>2, <2>2
    <2> QED BY <1>2, <2>1, <2>2, <2>3 DEF HandInv
  <1>4. CASE ~Keeps(cur, p)
    <2>1. UNCHANGED <<rxFull, inputBuf, taken>>
      BY <1>4 DEF Receive
    <2>2. rxBuf'[1 - inputBuf] = rxBuf[1 - inputBuf]
      BY <1>1, <1>2
    <2> QED BY <1>2, <2>1, <2>2 DEF HandInv
  <1> QED BY <1>3, <1>4

\* The packet of a transaction of the host is one, also when it gets lost.
LEMMA DeliverHand ==
  ASSUME DeviceTyped, HandInv, NEW tok, NEW p \in Packet, NEW loss,
         Deliver(tok, p, loss)
  PROVE  HandInv'
PROOF
  <1>1. CASE loss = "data"
    BY <1>1 DEF Deliver, HandInv, main
  <1>2. CASE loss # "data"
    BY <1>2, ReceiveHand DEF Deliver
  <1> QED BY <1>1, <1>2

\* The packets of the host are packets.
LEMMA HostPackets ==
  ASSUME HostTyped, StageInv
  PROVE  /\ host.stage = "setup" => RequestPacket \in Packet
         /\ host.stage = "out" =>
              [type |-> "out", req |-> host.req, k |-> host.done + 1] \in Packet
PROOF
  <1>1. CASE host.stage = "setup"
    BY <1>1, PacketFacts DEF StageInv, RequestPacket
  <1>2. CASE host.stage = "out"
    <2>1. host.req \in Requests /\ host.req.n \in 1 .. MaxPackets /\ host.done < host.req.n
      BY <1>2, RequestFacts DEF StageInv
    <2>2. host.done + 1 \in 1 .. MaxPackets
      BY <2>1, HostFacts, DriverAssumption
    <2> QED BY <1>2, <2>1, <2>2, PacketFacts
  <1> QED BY <1>1, <1>2

LEMMA HandKept ==
  ASSUME TypeOK, ShapeInv, HandInv, [Next]_vars
  PROVE  HandInv'
PROOF
  <1>1. DeviceTyped /\ HostTyped /\ StageInv
    BY TypesSplit DEF ShapeInv
  <1>2. CASE UNCHANGED <<rxBuf, inputBuf, rxFull, pc, reading, taken>>
    BY <1>2 DEF HandInv
  <1>3. CASE usbPoll
    <2>1. inputBuf \in {0, 1} /\ rxFull \in BOOLEAN
      BY <1>1 DEF DeviceTyped
    <2>2. CASE Poll
      BY <2>1, <2>2 DEF Poll, HandInv, isr
    <2>3. CASE ProcessSetup \/ IgnoreSetup \/ ProcessOut
      BY <2>3 DEF ProcessSetup, IgnoreSetup, ProcessOut, HandInv, isr
    <2>4. CASE FreeBuffer
      BY <2>4 DEF FreeBuffer, HandInv
    <2>5. CASE Build \/ CheckReset
      BY <2>5 DEF Build, CheckReset, HandInv, isr
    <2> QED BY <1>3, <2>2, <2>3, <2>4, <2>5 DEF usbPoll
  <1>4. CASE SetupTransaction
    BY <1>1, <1>4, DeliverHand, HostPackets
       DEF SetupTransaction, InStage, RequestPacket
  <1>5. CASE OutTransaction
    BY <1>1, <1>5, DeliverHand, HostPackets DEF OutTransaction, InStage
  <1>6. CASE StatusOut
    BY <1>1, <1>6, DeliverHand, PacketFacts DEF StatusOut
  <1>7. CASE OtherDevice
    BY <1>1, <1>7, ReceiveHand, PacketFacts DEF OtherDevice
  <1>8. CASE InTransaction \/ LostIn
    BY <1>2, <1>8 DEF InTransaction, LostIn, Transmit, device, isr, main
  <1>9. CASE NewTransfer \/ TimeOut \/ BeginReset \/ EndReset \/ UNCHANGED vars
    BY <1>2, <1>9
       DEF NewTransfer, TimeOut, BeginReset, EndReset, vars, device, isr, main
  <1> QED
    BY <1>3, <1>4, <1>5, <1>6, <1>7, <1>8, <1>9 DEF Next, Transaction

(***************************************************************************)
(* Tokens.                                                                 *)
(***************************************************************************)
\* As long as no token is missed, a packet comes under its own.
LEMMA LossFacts ==
  ASSUME NEW loss \in Losses
  PROVE  loss \in {"none", "data", "answer", "token"}
         /\ (loss \in {"data", "answer"} => LossyBus)
         /\ (loss = "token" => MissedTokens)
  BY DEF Losses

LEMMA DeliverToken ==
  ASSUME DeviceTyped, TokenInv, NEW tok \in {"setup", "out"}, NEW p \in Packet,
         p.type \in {tok, "empty"}, NEW loss \in Losses,
         missed' = (missed \/ loss = "token"), Deliver(tok, p, loss)
  PROVE  TokenInv'
PROOF
  <1>1. CASE missed'
    BY <1>1, LossFacts DEF TokenInv
  <1>2. CASE ~missed'
    <2>1. ~missed /\ loss # "token"
      BY <1>2
    <2>2. CASE loss = "data"
      BY <2>1, <2>2 DEF Deliver, TokenInv
    <2>3. CASE loss # "data"
      <3>1. Receive(Token(tok, hostAddr), p)
        BY <2>1, <2>3 DEF Deliver
      <3>2. CASE Keeps(Token(tok, hostAddr), p)
        <4>1. Token(tok, hostAddr) = tok /\ p.type = tok
          BY <3>2, AnswerFacts DEF Keeps, Token, DeviceTyped
        <4> QED BY <1>2, <2>1, <3>1, <3>2, <4>1 DEF Receive, TokenInv
      <3>3. CASE ~Keeps(Token(tok, hostAddr), p)
        BY <1>2, <2>1, <3>1, <3>3 DEF Receive, TokenInv
      <3> QED BY <3>2, <3>3
    <2> QED BY <2>2, <2>3
  <1> QED BY <1>1, <1>2

\* What other devices hear does not concern this one.
LEMMA OtherDeviceIgnored ==
  ASSUME DeviceTyped, OtherDevice, ~missed'
  PROVE  /\ ~missed
         /\ UNCHANGED <<inputBuf, rxFull, rxToken, taken, refused, tx, app, main,
                        deviceAddr, host, hostAddr, busReset>>
PROOF
  <1>1. Receive("none", Foreign) /\ ~missed
    BY DEF OtherDevice, Ignored
  <1>2. ~Keeps("none", Foreign) /\ Foreign.type = "foreign"
    BY AnswerFacts, PacketFacts DEF Keeps, DeviceTyped
  <1>3. refused' = refused
    BY <1>1, <1>2 DEF Receive, DeviceTyped
  <1> QED BY <1>1, <1>2, <1>3 DEF Receive, OtherDevice

LEMMA TokenKept ==
  ASSUME TypeOK, ShapeInv, TokenInv, [Next]_vars
  PROVE  TokenInv'
PROOF
  <1>1. DeviceTyped /\ HostTyped /\ StageInv
    BY TypesSplit DEF ShapeInv
  <1>2. CASE UNCHANGED <<missed, taken, rxToken>>
    BY <1>2 DEF TokenInv
  <1>3. CASE usbPoll
    <2>1. UNCHANGED <<missed, rxToken>> /\ taken' \in {taken, Empty}
      BY <1>3 DEF usbPoll, Poll, ProcessSetup, IgnoreSetup, ProcessOut,
                  FreeBuffer, Build, CheckReset, isr, bus
    <2> QED BY <2>1 DEF TokenInv
  <1>4. CASE SetupTransaction
    <2>1. PICK loss \in Losses : /\ missed' = (missed \/ loss = "token")
                                 /\ Deliver("setup", RequestPacket, loss)
      BY <1>4 DEF SetupTransaction, RequestPacket
    <2>2. RequestPacket \in Packet /\ RequestPacket.type = "setup"
      BY <1>1, <1>4, HostPackets DEF SetupTransaction, InStage, RequestPacket
    <2> QED BY <1>1, <2>1, <2>2, DeliverToken
  <1>5. CASE OutTransaction
    <2> DEFINE p == [type |-> "out", req |-> host.req, k |-> host.done + 1]
    <2>1. PICK loss \in Losses : /\ missed' = (missed \/ loss = "token")
                                 /\ Deliver("out", p, loss)
      BY <1>5 DEF OutTransaction
    <2>2. p \in Packet /\ p.type = "out"
      BY <1>1, <1>5, HostPackets DEF OutTransaction, InStage
    <2> HIDE DEF p
    <2> QED BY <1>1, <2>1, <2>2, DeliverToken
  <1>6. CASE StatusOut
    <2>1. PICK loss \in Losses : /\ missed' = (missed \/ loss = "token")
                                 /\ Deliver("out", Empty, loss)
      BY <1>6 DEF StatusOut
    <2> QED BY <1>1, <2>1, DeliverToken, PacketFacts
  <1>7. CASE OtherDevice
    <2>1. CASE missed'
      <3>1. MissedTokens \/ missed
        BY <1>7, <2>1 DEF OtherDevice
      <3> QED BY <2>1, <3>1 DEF TokenInv
    <2>2. CASE ~missed'
      BY <1>1, <1>2, <1>7, <2>2, OtherDeviceIgnored, Zenon DEF HostTyped, TokenInv
    <2> QED BY <2>1, <2>2
  <1>8. CASE InTransaction \/ LostIn
    BY <1>2, <1>8 DEF InTransaction, LostIn, Transmit, device, isr
  <1>9. CASE NewTransfer \/ TimeOut \/ BeginReset \/ EndReset \/ UNCHANGED vars
    BY <1>2, <1>9
       DEF NewTransfer, TimeOut, BeginReset, EndReset, vars, device, isr, bus
  <1> QED
    BY <1>3, <1>4, <1>5, <1>6, <1>7, <1>8, <1>9 DEF Next, Transaction

(***************************************************************************)
(* The request being served.                                               *)
(***************************************************************************)
\* An acknowledged SETUP waits in the buffer.
LEMMA SetupServed ==
  ASSUME DeviceTyped, HostTyped, StageInv, SetupTransaction
  PROVE  ServedInv'
PROOF
  <1>1. PICK loss \in Losses :
            /\ missed' = (missed \/ loss = "token")
            /\ Deliver("setup", RequestPacket, loss)
            /\ host' = IF Heard("setup", loss) = "ack"
                       THEN [host EXCEPT !.errors = 0, !.stage =
                               CASE host.req.kind = "read"  -> "in"
                                 [] host.req.kind = "write" -> "out"
                                 [] OTHER                   -> "statusIn"]
                       ELSE Failed
    BY DEF SetupTransaction, RequestPacket
  <1>2. CASE Heard("setup", loss) = "ack" /\ loss # "token"
    <2>1. loss \notin {"data", "answer"} /\ Answer(Token("setup", hostAddr)) = "ack"
      BY <1>2 DEF Heard
    <2>2. Receive(Token("setup", hostAddr), RequestPacket)
      BY <1>1, <1>2, <2>1 DEF Deliver
    <2>3. taken' = RequestPacket
      BY <2>1, <2>2 DEF Receive, Keeps, RequestPacket
    <2>4. host'.req = host.req
      BY <1>1, <1>2, HostFacts
    <2> QED BY <2>3, <2>4 DEF ServedInv, RequestPacket
  <1>3. CASE Heard("setup", loss) # "ack"
    <2>1. host'.stage \in {"setup", "idle"}
      BY <1>1, <1>3, GivesUp DEF Goes, SetupTransaction, InStage
    <2> QED BY <2>1 DEF ServedInv
  <1>4. CASE loss = "token"
    BY <1>1, <1>4 DEF ServedInv
  <1> QED BY <1>2, <1>3, <1>4

LEMMA OutServed ==
  ASSUME DeviceTyped, HostTyped, StageInv, HandInv, ServedInv, OutTransaction
  PROVE  ServedInv'
PROOF
  <1> DEFINE p == [type |-> "out", req |-> host.req, k |-> host.done + 1]
  <1>1. PICK loss \in Losses :
            missed' = (missed \/ loss = "token") /\ Deliver("out", p, loss)
    BY DEF OutTransaction
  <1>2. p.type = "out"
    OBVIOUS
  <1> HIDE DEF p
  <1>3. host.stage = "out" /\ host'.req = host.req
    <2>1. host' \in {Idle, Failed, [host EXCEPT !.errors = 0],
                     [host EXCEPT !.errors = 0, !.done = @ + 1,
                          !.stage = IF host.done + 1 = host.req.n
                                    THEN "statusIn" ELSE "out"]}
      <3>1. PICK l : host' = CASE Heard("out", l) = "ack" ->
                          [host EXCEPT !.errors = 0, !.done = @ + 1,
                                       !.stage = IF host.done + 1 = host.req.n
                                                 THEN "statusIn" ELSE "out"]
                     [] Heard("out", l) = "nak" -> [host EXCEPT !.errors = 0]
                     [] Heard("out", l) = "nothing" -> Failed
        BY DEF OutTransaction
      <3>2. Heard("out", l) \in {"ack", "nak", "nothing"}
        BY AnswerFacts DEF Heard, Answer, DeviceTyped
      <3> QED BY <3>1, <3>2
    <2>2. host.stage = "out"
      BY DEF OutTransaction, InStage
    <2> QED BY <2>1, <2>2, GivesUp, NoError, HostFacts DEF Goes
  <1>4. UNCHANGED <<serving, txLen>>
    BY <1>1 DEF Deliver, Receive, tx, app
  <1>5. CASE ~missed' /\ taken' = taken
    BY <1>1, <1>3, <1>4, <1>5 DEF ServedInv, RequestPacket
  <1>6. CASE ~missed' /\ taken' # taken
    <2>1. ~missed /\ Receive(Token("out", hostAddr), p)
      BY <1>1, <1>6 DEF Deliver
    <2>2. ~rxFull /\ taken' = p
      BY <1>6, <2>1, AnswerFacts DEF Receive, Keeps, DeviceTyped
    <2>3. taken # RequestPacket
      BY <2>2, PacketFacts DEF HandInv, RequestPacket
    <2>4. serving = host.req /\ (txLen = Nak \/ txLen.id = host.req.id)
      BY <1>3, <2>1, <2>3 DEF ServedInv
    <2> QED BY <1>2, <1>3, <1>4, <2>2, <2>4 DEF ServedInv
  <1>7. CASE missed'
    BY <1>7 DEF ServedInv
  <1> QED BY <1>5, <1>6, <1>7

\* usbPoll replaces a pending reply when it serves a request, and builds the
\* next packet of the one being served.
LEMMA PollServed ==
  ASSUME DeviceTyped, HostTyped, StageInv, HandInv, TokenInv, ServedInv, usbPoll
  PROVE  ServedInv'
PROOF
  <1> SUFFICES ASSUME ~missed', host'.stage \in {"in", "out", "statusIn"}
               PROVE  \/ taken' = RequestPacket'
                      \/ /\ taken'.type # "setup" /\ serving' = host'.req
                         /\ txLen' = Nak \/ txLen'.id = host'.req.id
    BY DEF ServedInv
  <1>1. UNCHANGED <<host, missed>>
    BY DEF usbPoll, Poll, ProcessSetup, IgnoreSetup, ProcessOut, FreeBuffer,
           Build, CheckReset, bus
  <1>2. \/ taken = RequestPacket
        \/ /\ taken.type # "setup" /\ serving = host.req
           /\ txLen = Nak \/ txLen.id = host.req.id
    BY <1>1 DEF ServedInv
  <1>3. RequestPacket' = RequestPacket
    BY <1>1 DEF RequestPacket
  <1>4. CASE Poll \/ FreeBuffer \/ CheckReset
    BY <1>1, <1>2, <1>3, <1>4 DEF Poll, FreeBuffer, CheckReset, tx, app
  <1>5. CASE pc = "process"
    <2>1. /\ ~missed /\ taken # Empty /\ rxBuf[reading] = taken
          /\ taken.type \in {"setup", "out"} /\ rxToken = taken.type
      BY <1>1, <1>5 DEF HandInv, TokenInv
    <2>2. CASE ProcessSetup
      <3>1. taken = RequestPacket
        BY <1>2, <2>1, <2>2 DEF ProcessSetup
      <3>2. Asked(rxBuf[reading]) = {host.req}
        BY <2>1, <3>1 DEF Asked, RequestPacket
      <3>3. serving' = host.req /\ txLen' = Nak /\ taken' = Empty
        BY <2>2, <3>2 DEF ProcessSetup
      <3> QED BY <1>1, <3>3, PacketFacts
    <2>3. CASE ProcessOut
      <3>1. rxToken = "out" /\ taken # RequestPacket
        <4>1. rxToken = "out" /\ taken.type = "out"
          BY <2>1, <2>3 DEF ProcessOut
        <4>2. RequestPacket.type = "setup"
          BY DEF RequestPacket
        <4> QED BY <4>1, <4>2
      <3>2. taken' = Empty /\ UNCHANGED <<serving, txLen>>
        BY <2>3 DEF ProcessOut
      <3> QED BY <1>1, <1>2, <3>1, <3>2, PacketFacts
    <2>4. ~IgnoreSetup
      BY <2>1 DEF IgnoreSetup
    <2>5. ~Build
      BY <1>5 DEF Build
    <2> QED BY <1>4, <2>2, <2>3, <2>4, <2>5 DEF usbPoll
  <1>6. CASE Build
    <2>1. UNCHANGED <<taken, serving>>
      BY <1>6 DEF Build, app
    <2>2. txLen' = txLen \/ txLen'.id = serving.id
      BY <1>6 DEF Build
    <2> QED BY <1>1, <1>2, <1>3, <2>1, <2>2
  <1> QED
    BY <1>4, <1>5, <1>6 DEF usbPoll, ProcessSetup, IgnoreSetup, ProcessOut

LEMMA ServedKept ==
  ASSUME TypeOK, ShapeInv, BusInv, [Next]_vars
  PROVE  ServedInv'
PROOF
  <1>1. /\ DeviceTyped /\ HostTyped /\ StageInv
        /\ HandInv /\ TokenInv /\ ServedInv
    BY TypesSplit DEF ShapeInv, BusInv
  <1>2. CASE host'.stage \notin {"in", "out", "statusIn"}
    BY <1>2 DEF ServedInv
  <1>3. CASE /\ UNCHANGED <<missed, taken, serving>> /\ txLen' \in {txLen, Nak}
             /\ host'.req = host.req
             /\ host'.stage \in {"in", "out", "statusIn"} =>
                    host.stage \in {"in", "out", "statusIn"}
    BY <1>1, <1>3 DEF ServedInv, RequestPacket
  <1>4. CASE StatusOut
    <2>1. PICK loss \in Losses :
              host' = CASE Heard("out", loss) = "ack" -> Idle
                       [] Heard("out", loss) = "nak" -> [host EXCEPT !.errors = 0]
                       [] Heard("out", loss) = "nothing" -> Failed
      BY <1>4 DEF StatusOut
    <2>2. Heard("out", loss) \in {"ack", "nak", "nothing"}
      BY <1>1, AnswerFacts DEF Heard, Answer, DeviceTyped
    <2>3. host'.stage \in {"idle", "statusOut"}
      BY <1>1, <1>4, <2>1, <2>2, GivesUp, NoError DEF Goes, StatusOut, InStage
    <2> QED BY <1>2, <2>3
  <1>5. CASE OtherDevice
    <2>1. CASE missed'
      BY <2>1 DEF ServedInv
    <2>2. CASE ~missed'
      <3>1. ~missed /\ UNCHANGED <<taken, serving, txLen, host>>
        BY <1>1, <1>5, <2>2, OtherDeviceIgnored DEF app, tx
      <3> QED BY <1>1, <2>2, <3>1 DEF ServedInv, RequestPacket
    <2> QED BY <2>1, <2>2
  <1>6. CASE InTransaction \/ LostIn
    <2>1. UNCHANGED <<missed, taken, serving>> /\ txLen' \in {txLen, Nak}
      BY <1>6 DEF InTransaction, LostIn, Transmit, device, app, tx
    <2>2. host.stage \in {"in", "out", "statusIn"}
      BY <1>6 DEF InTransaction, LostIn, InStage
    <2>3. host'.req = host.req
      <3>1. CASE LostIn
        BY <1>1, <3>1, GivesUp DEF LostIn, Goes
      <3>2. CASE host' \in {Failed, Idle, [host EXCEPT !.errors = 0]}
        BY <1>1, <3>2, GivesUp, NoError DEF Goes
      <3>3. CASE InTransaction /\ host' \notin {Failed, Idle, [host EXCEPT !.errors = 0]}
        <4>1. txLen # Nak /\ host' \in After(txLen)
          BY <3>3, InCases DEF Sends
        <4>2. host.stage \in {"in", "statusIn"}
          BY <3>3 DEF InTransaction, InStage
        <4>3. \E s \in {"in", "statusOut"} :
                host' = [host EXCEPT !.errors = 0, !.done = host.done + txLen.len,
                                     !.stage = s]
          BY <1>1, <3>3, <4>1, <4>2, AfterCases
        <4> QED BY <1>1, <4>3, HostFacts
      <3> QED BY <1>6, <3>1, <3>2, <3>3
    <2> QED BY <1>3, <2>1, <2>2, <2>3
  <1>7. CASE NewTransfer \/ TimeOut \/ BeginReset
    <2>1. host'.stage \in {"setup", "idle"}
      BY <1>1, <1>7, GivesUp DEF NewTransfer, TimeOut, BeginReset, Goes
    <2> QED BY <1>2, <2>1
  <1>8. CASE EndReset \/ UNCHANGED vars
    BY <1>3, <1>8 DEF EndReset, vars, device, isr, tx, app, bus
  <1>9. CASE usbPoll \/ SetupTransaction \/ OutTransaction
    BY <1>1, <1>9, PollServed, SetupServed, OutServed
  <1> QED BY <1>4, <1>5, <1>6, <1>7, <1>8, <1>9 DEF Next, Transaction

(***************************************************************************)
(* Any bus.                                                                *)
(***************************************************************************)
\* On any bus, packets are handed over under their tokens, and the device
\* serves the transfer the host works on.
THEOREM AnyBus == Spec => [](TypeOK /\ ShapeInv /\ BusInv)
PROOF
  <1>1. Init => BusInv
    BY PacketFacts
       DEF Init, BusInv, HandInv, TokenInv, ServedInv, Quiet
  <1>2. TypeOK /\ ShapeInv /\ BusInv /\ [Next]_vars => BusInv'
    BY HandKept, TokenKept, ServedKept DEF BusInv
  <1> QED BY <1>1, <1>2, DriverTyped, PTL DEF Spec

\* What usbProcessRx reads is the packet that was acknowledged last, whatever
\* arrives meanwhile and whatever is lost on the bus.
THEOREM HandsOver == Spec => []HandOff
PROOF
  <1>1. BusInv => HandOff
    BY DEF BusInv, HandInv, HandOff
  <1> QED BY <1>1, AnyBus, PTL

\* usbRxToken is the token of the packet it is used for, as long as the
\* receiver does not miss one.
THEOREM TokensMatch == ~MissedTokens => (Spec => []TokenMatch)
PROOF
  <1> SUFFICES ASSUME ~MissedTokens PROVE Spec => []TokenMatch
    OBVIOUS
  <1>1. BusInv => TokenMatch
    BY DEF BusInv, HandInv, TokenInv, TokenMatch
  <1> QED BY <1>1, AnyBus, PTL

\* Nothing of a transfer that was given up is sent into the next one, although
\* its reply may still be in the transmit buffer when that begins.
THEOREM NothingStale == Spec => NoStaleReply
PROOF
  <1>1. ASSUME TypeOK, ShapeInv, BusInv, [Next]_vars, Sent, ~missed
        PROVE  txLen.id = host.req.id
    <2>1. InTransaction \/ LostIn
      <3>1. txLen' # txLen /\ pc' = pc /\ txLen' = Nak
        BY <1>1 DEF Sent
      <3>2. ~usbPoll
        BY <3>1 DEF usbPoll, Poll, ProcessSetup, IgnoreSetup, ProcessOut,
                    FreeBuffer, Build, CheckReset, tx
      <3>3. ~(SetupTransaction \/ OutTransaction \/ StatusOut)
        BY <3>1
           DEF SetupTransaction, OutTransaction, StatusOut, Deliver, Receive, tx
      <3>4. ~(OtherDevice \/ NewTransfer \/ TimeOut \/ BeginReset \/ EndReset
              \/ UNCHANGED vars)
        BY <3>1
           DEF OtherDevice, NewTransfer, TimeOut, BeginReset, EndReset, Receive,
               vars, device, tx
      <3> QED BY <1>1, <3>2, <3>3, <3>4 DEF Next, Transaction
    <2>2. Sends(hostAddr) /\ host.stage \in {"in", "statusIn"}
      BY <1>1, <2>1
         DEF InTransaction, LostIn, Transmit, InStage, Sent, device, tx
    <2>3. taken = Empty
      BY <1>1, <2>2 DEF BusInv, HandInv, Sends
    <2>4. taken # RequestPacket
      BY <2>3, PacketFacts DEF RequestPacket
    <2> QED BY <1>1, <2>2, <2>4 DEF BusInv, ServedInv, Sends
  <1>2. TypeOK /\ ShapeInv /\ BusInv /\ [Next]_vars =>
            [Sent /\ ~missed => txLen.id = host.req.id]_vars
    BY <1>1
  <1> QED BY <1>2, AnyBus, PTL DEF Spec, NoStaleReply

(***************************************************************************)
(* A bus without errors: what a transaction does.                          *)
(***************************************************************************)
\* Everything the proofs below may assume of a state.
AllInv ==
    /\ DeviceTyped /\ HostTyped /\ ServingInv /\ StageInv
    /\ HandInv /\ TokenInv /\ ServedInv /\ CleanInv

\* A packet of the host reaches the device under its token and is answered.
LEMMA CleanDelivery ==
  ASSUME ~LossyBus, AllInv, busReset = "no", NEW tok \in {"setup", "out"}, NEW p,
         NEW loss \in Losses, Deliver(tok, p, loss)
  PROVE  /\ Receive(tok, p) /\ loss = "none"
         /\ Heard(tok, loss) = IF rxFull THEN "nak" ELSE "ack"
PROOF
  <1>1. loss = "none"
    BY DriverAssumption DEF Losses
  <1>2. Token(tok, hostAddr) = tok
    BY DEF AllInv, CleanInv, AddrInv, Token
  <1>3. Receive(tok, p)
    BY <1>1, <1>2 DEF Deliver
  <1>4. Heard(tok, loss) = Answer(tok)
    BY <1>1, <1>2 DEF Heard
  <1>5. Answer(tok) = IF rxFull THEN "nak" ELSE "ack"
    BY AnswerFacts DEF AllInv, DeviceTyped
  <1> QED BY <1>1, <1>3, <1>4, <1>5

\* What a packet that is kept, and one that is not, changes.
LEMMA ReceiveCases ==
  ASSUME AllInv, NEW tok \in {"setup", "out"}, NEW p \in Packet, Receive(tok, p)
  PROVE  /\ UNCHANGED <<tx, app, pc, deviceAddr>>
         /\ rxFull \/ p.type = "empty" => UNCHANGED <<rxFull, taken>>
         /\ ~rxFull /\ p.type # "empty" => rxFull' /\ taken' = p
         /\ ~rxFull \/ p.type # "setup" => refused' = refused
PROOF
  <1>1. Answer(tok) = IF rxFull THEN "nak" ELSE "ack"
    BY AnswerFacts DEF AllInv, DeviceTyped
  <1>2. Keeps(tok, p) <=> ~rxFull /\ p.type # "empty"
    BY <1>1 DEF Keeps
  <1>3. ~rxFull \/ p.type # "setup" => refused' = refused
    BY <1>1 DEF Receive, AllInv, DeviceTyped
  <1> QED BY <1>2, <1>3 DEF Receive, main

LEMMA CleanSetup ==
  ASSUME ~LossyBus, AllInv, SetupTransaction
  PROVE  /\ rxFull' /\ taken' = RequestPacket
         /\ UNCHANGED <<tx, app, pc, deviceAddr, refused, missed, hostAddr, busReset>>
         /\ host'.req = host.req /\ host'.done = 0 /\ host'.errors = 0
         /\ host.req \in Requests
         /\ host'.stage = CASE host.req.kind = "read"  -> "in"
                            [] host.req.kind = "write" -> "out"
                            [] OTHER                   -> "statusIn"
PROOF
  <1>1. host.stage = "setup" /\ busReset = "no" /\ ~rxFull
    BY DEF SetupTransaction, InStage, AllInv, CleanInv, FullInv
  <1> DEFINE s == CASE host.req.kind = "read"  -> "in"
                    [] host.req.kind = "write" -> "out"
                    [] OTHER                   -> "statusIn"
  <1>2. PICK loss \in Losses :
            /\ missed' = (missed \/ loss = "token")
            /\ Deliver("setup", RequestPacket, loss)
            /\ host' = IF Heard("setup", loss) = "ack"
                       THEN [host EXCEPT !.errors = 0, !.stage = s] ELSE Failed
    BY DEF SetupTransaction, RequestPacket
  <1>3. /\ Receive("setup", RequestPacket) /\ loss = "none"
        /\ Heard("setup", loss) = "ack"
    BY <1>1, <1>2, CleanDelivery
  <1>4. RequestPacket \in Packet /\ RequestPacket.type = "setup"
    BY <1>1, HostPackets DEF AllInv, RequestPacket
  <1>5. /\ rxFull' /\ taken' = RequestPacket
        /\ UNCHANGED <<tx, app, pc, deviceAddr, refused>>
    BY <1>1, <1>3, <1>4, ReceiveCases
  <1>6. missed' = missed /\ UNCHANGED <<hostAddr, busReset>>
    BY <1>2, <1>3 DEF SetupTransaction, AllInv, HostTyped
  <1>7. s \in {"in", "out", "statusIn"}
    OBVIOUS
  <1>8. host' = [host EXCEPT !.errors = 0, !.stage = s]
    BY <1>2, <1>3
  <1>9. HostTyped /\ host.done = 0 /\ host.req \in Requests
    BY <1>1 DEF AllInv, StageInv
  <1> HIDE DEF s
  <1>10. /\ host'.req = host.req /\ host'.done = 0 /\ host'.errors = 0
         /\ host'.stage = s
    BY <1>8, <1>9, HostFacts
  <1> QED BY <1>5, <1>6, <1>9, <1>10 DEF s

LEMMA CleanOut ==
  ASSUME ~LossyBus, AllInv, OutTransaction
  PROVE  /\ UNCHANGED <<tx, app, pc, deviceAddr, refused, missed, hostAddr, busReset>>
         /\ host'.req = host.req /\ host'.errors = 0
         /\ host.stage = "out" /\ busReset = "no"
         /\ rxFull => /\ UNCHANGED <<rxFull, taken>>
                      /\ host'.stage = "out" /\ host'.done = host.done
         /\ ~rxFull =>
                /\ rxFull' /\ host'.done = host.done + 1
                /\ taken' = [type |-> "out", req |-> host.req, k |-> host.done + 1]
                /\ host'.stage = IF host.done + 1 = host.req.n
                                 THEN "statusIn" ELSE "out"
PROOF
  <1> DEFINE p == [type |-> "out", req |-> host.req, k |-> host.done + 1]
             s == IF host.done + 1 = host.req.n THEN "statusIn" ELSE "out"
  <1>1. host.stage = "out" /\ busReset = "no"
    BY DEF OutTransaction, InStage
  <1>2. PICK loss \in Losses :
            /\ missed' = (missed \/ loss = "token")
            /\ Deliver("out", p, loss)
            /\ host' = CASE Heard("out", loss) = "ack" ->
                          [host EXCEPT !.errors = 0, !.done = host.done + 1, !.stage = s]
                     [] Heard("out", loss) = "nak" -> [host EXCEPT !.errors = 0]
                     [] Heard("out", loss) = "nothing" -> Failed
    BY DEF OutTransaction
  <1>3. /\ Receive("out", p) /\ loss = "none"
        /\ Heard("out", loss) = IF rxFull THEN "nak" ELSE "ack"
    BY <1>1, <1>2, CleanDelivery
  <1>4. p \in Packet /\ p.type = "out"
    BY <1>1, HostPackets DEF AllInv
  <1>5. missed' = missed /\ UNCHANGED <<hostAddr, busReset>>
    BY <1>2, <1>3 DEF OutTransaction, AllInv, HostTyped
  <1> HIDE DEF p, s
  <1>6. /\ UNCHANGED <<tx, app, pc, deviceAddr, refused>>
        /\ rxFull => UNCHANGED <<rxFull, taken>>
        /\ ~rxFull => rxFull' /\ taken' = p
    BY <1>3, <1>4, ReceiveCases
  <1>7. HostTyped
    BY DEF AllInv
  <1>8. CASE rxFull
    <2>1. host' = [host EXCEPT !.errors = 0]
      BY <1>2, <1>3, <1>8
    <2>2. Goes(host', host.stage, host.done)
      BY <1>7, <2>1, NoError
    <2> QED BY <1>1, <1>5, <1>6, <1>8, <2>2 DEF Goes
  <1>9. CASE ~rxFull
    <2>1. host' = [host EXCEPT !.errors = 0, !.done = host.done + 1, !.stage = s]
      BY <1>2, <1>3, <1>9
    <2>2. /\ host'.req = host.req /\ host'.errors = 0
          /\ host'.done = host.done + 1 /\ host'.stage = s
      BY <1>7, <2>1, HostFacts
    <2> QED BY <1>1, <1>5, <1>6, <1>9, <2>2 DEF p, s
  <1> QED BY <1>8, <1>9

LEMMA CleanStatusOut ==
  ASSUME ~LossyBus, AllInv, StatusOut
  PROVE  /\ UNCHANGED <<tx, app, pc, deviceAddr, refused, missed, hostAddr, busReset>>
         /\ UNCHANGED <<rxFull, taken>> /\ ~rxFull
         /\ host' = Idle
PROOF
  <1>1. host.stage = "statusOut" /\ busReset = "no" /\ ~rxFull
    BY DEF StatusOut, InStage, AllInv, CleanInv, FullInv
  <1>2. PICK loss \in Losses :
            /\ missed' = (missed \/ loss = "token")
            /\ Deliver("out", Empty, loss)
            /\ host' = CASE Heard("out", loss) = "ack" -> Idle
                     [] Heard("out", loss) = "nak" -> [host EXCEPT !.errors = 0]
                     [] Heard("out", loss) = "nothing" -> Failed
    BY DEF StatusOut
  <1>3. /\ Receive("out", Empty) /\ loss = "none" /\ Heard("out", loss) = "ack"
    BY <1>1, <1>2, CleanDelivery
  <1>4. host' = Idle
    BY <1>2, <1>3
  <1>5. missed' = missed /\ UNCHANGED <<hostAddr, busReset>>
    BY <1>2, <1>3 DEF StatusOut, AllInv, HostTyped
  <1>6. /\ UNCHANGED <<tx, app, pc, deviceAddr, refused>>
        /\ UNCHANGED <<rxFull, taken>>
    BY <1>1, <1>3, ReceiveCases, PacketFacts
  <1> QED BY <1>1, <1>4, <1>5, <1>6

\* One more block: the rest stays whole and the toggle changes.
LEMMA NextBlock ==
  ASSUME NEW d \in Nat, d % Block = 0
  PROVE  /\ (d + Block) % Block = 0
         /\ (1 - (((d + Block) \div Block) % 2)) = 1 - (1 - ((d \div Block) % 2))
PROOF
  <1>1. Block \in Nat \ {0}
    BY DriverAssumption
  <1> DEFINE q == d \div Block
             r == (d + Block) \div Block
             m == (d + Block) % Block
  <1>2. q \in Int /\ d = Block * q
    BY <1>1
  <1>3. r \in Int /\ m \in 0 .. Block - 1 /\ d + Block = Block * r + m
    BY <1>1
  <1> HIDE DEF q, r, m
  <1>4. Block * (q + 1 - r) = m
    BY <1>1, <1>2, <1>3
  <1>5. ASSUME NEW x \in Int, Block * x \in 0 .. Block - 1 PROVE x = 0
    <2>1. CASE x >= 1
      <3>1. Block * x >= Block
        BY <1>1, <2>1
      <3> QED BY <1>1, <1>5, <3>1
    <2>2. CASE x =< -1
      <3>1. Block * x < 0
        BY <1>1, <2>2
      <3> QED BY <1>1, <1>5, <3>1
    <2> QED BY <2>1, <2>2
  <1>6. q + 1 - r = 0
    BY <1>2, <1>3, <1>4, <1>5
  <1>7. r = q + 1
    BY <1>2, <1>3, <1>6
  <1>8. m = 0
    BY <1>1, <1>4, <1>6
  <1>9. 1 - ((q + 1) % 2) = 1 - (1 - (q % 2))
    BY <1>2
  <1> QED BY <1>7, <1>8, <1>9 DEF q, r, m

\* A packet is sent only when nothing is waiting in the receive buffer; it is
\* the next block of a read, or the answer for the status stage.
LEMMA CleanSends ==
  ASSUME ~LossyBus, AllInv, host.stage \in {"in", "statusIn"}, Sends(hostAddr)
  PROVE  /\ ~rxFull /\ taken = Empty /\ taken # RequestPacket /\ txLen # Nak
         /\ txLen.toggle = Expected
         /\ host.stage = "in" =>
                /\ host.done \in Nat /\ host.req.n \in 0 .. MaxBytes
                /\ host.done =< host.req.n /\ host.done % Block = 0
                /\ txLen.from = host.done /\ txToggle = Expected
                /\ txLen.len = IF host.req.n - host.done < Block
                               THEN host.req.n - host.done ELSE Block
                /\ msgLen = IF host.req.n - host.done < Block THEN NoMsg
                            ELSE host.req.n - host.done - Block
PROOF
  <1>1. ~rxFull /\ txLen # Nak
    BY DEF Sends
  <1>2. taken = Empty
    BY <1>1 DEF AllInv, HandInv
  <1>3. taken # RequestPacket
    BY <1>2, PacketFacts DEF RequestPacket
  <1>4. CASE host.stage = "in"
    <2>1. /\ host.done \in 0 .. host.req.n /\ host.done % Block = 0
          /\ Pending(host.req.n, host.done, 1 - ((host.done \div Block) % 2))
      BY <1>3, <1>4 DEF AllInv, CleanInv, ReadInv
    <2>2. Expected = 1 - ((host.done \div Block) % 2)
      BY <1>4 DEF Expected
    <2>3. host.req.n \in 0 .. MaxBytes
      BY <1>4, RequestFacts DEF AllInv, StageInv
    <2> HIDE DEF Expected
    <2>4. Pending(host.req.n, host.done, Expected)
      BY <2>1, <2>2
    <2> QED BY <1>1, <1>2, <1>3, <2>1, <2>3, <2>4 DEF Pending
  <1>5. CASE host.stage = "statusIn"
    <2>1. Pending(0, 0, 1)
      BY <1>2, <1>3, <1>5 DEF AllInv, CleanInv, WriteInv
    <2>2. Expected = 1
      BY <1>5 DEF Expected
    <2> QED BY <1>1, <1>2, <1>3, <1>5, <2>1, <2>2 DEF Pending
  <1> QED BY <1>4, <1>5

\* A block read: the host counts it, and goes on until it has all of them.
LEMMA CleanBlock ==
  ASSUME ~LossyBus, AllInv, host.stage = "in", Sends(hostAddr),
         NEW h \in After(txLen)
  PROVE  /\ h.req = host.req /\ h.errors = 0
         /\ h.done = host.done + txLen.len /\ h.stage \in {"in", "statusOut"}
         /\ h.stage = "in" => txLen.len = Block
         /\ h.stage = "statusOut" => h.done = host.req.n
PROOF
  <1>1. /\ host.done \in Nat /\ host.req.n \in 0 .. MaxBytes
        /\ host.done =< host.req.n /\ txLen # Nak
        /\ txLen.toggle = Expected
        /\ txLen.len = IF host.req.n - host.done < Block
                       THEN host.req.n - host.done ELSE Block
    BY CleanSends
  <1>2. Block \in Nat \ {0} /\ MaxBytes \in Nat
    BY DriverAssumption
  <1>3. txLen.len \in Nat /\ host.done + txLen.len =< MaxBytes
        /\ txLen.len =< Block
    BY <1>1, <1>2
  <1>4. PICK s \in {"in", "statusOut"} :
           /\ h = [host EXCEPT !.errors = 0, !.done = host.done + txLen.len, !.stage = s]
           /\ txLen.len < Block => s = "statusOut"
           /\ txLen.len = Block /\ host.done + txLen.len < host.req.n => s = "in"
    BY <1>1, <1>2, <1>3, AfterCases DEF AllInv
  <1>5. /\ h.req = host.req /\ h.errors = 0 /\ h.stage = s
        /\ h.done = host.done + txLen.len
    BY <1>4, HostFacts DEF AllInv
  <1>6. s = "in" => txLen.len = Block
    BY <1>2, <1>3, <1>4
  <1>7. s = "statusOut" => host.done + txLen.len = host.req.n
    BY <1>1, <1>2, <1>3, <1>4
  <1> QED BY <1>4, <1>5, <1>6, <1>7

(***************************************************************************)
(* A bus without errors: the invariant.                                    *)
(***************************************************************************)
\* A transfer that is not in one of its data stages.
LEMMA NoData ==
  ASSUME host'.stage \in {"idle", "setup", "statusOut"}
  PROVE  ReadInv' /\ WriteInv'
  BY DEF ReadInv, WriteInv

\* Nothing the invariant speaks of changes.
LEMMA CleanFrame ==
  ASSUME AllInv,
         UNCHANGED <<rxFull, taken, pc, tx, app, deviceAddr, refused, missed,
                     hostAddr, busReset>>,
         host'.req = host.req, host'.stage = host.stage, host'.done = host.done,
         host'.errors = 0
  PROVE  CleanInv'
PROOF
  <1>1. CleanInv
    BY DEF AllInv
  <1>2. UNCHANGED <<txLen, txToggle, msgLen, newDeviceAddr, rw, serving, written,
                    RequestPacket>>
    BY DEF tx, app, RequestPacket
  <1>3. ErrInv' /\ FullInv' /\ OutInv'
    BY <1>1, <1>2 DEF CleanInv, ErrInv, FullInv, OutInv
  <1>4. AddrInv'
    BY <1>1, <1>2 DEF CleanInv, AddrInv, Assigned
  <1>5. ReadInv'
    BY <1>1, <1>2 DEF CleanInv, ReadInv, Pending
  <1>6. WriteInv'
    BY <1>1, <1>2 DEF CleanInv, WriteInv, Pending
  <1> QED BY <1>3, <1>4, <1>5, <1>6 DEF CleanInv

LEMMA SetupKeepsClean ==
  ASSUME ~LossyBus, AllInv, SetupTransaction
  PROVE  CleanInv'
PROOF
  <1>1. host.stage = "setup" /\ busReset = "no"
    BY DEF SetupTransaction, InStage
  <1>2. CleanInv /\ taken'.type = "setup" /\ RequestPacket' = RequestPacket
    BY CleanSetup DEF AllInv, RequestPacket
  <1>3. /\ host'.stage \in {"in", "out", "statusIn"}
        /\ host'.stage = "in" => host.req.kind = "read"
        /\ host'.stage = "statusIn" => host.req.kind # "write"
    BY CleanSetup
  <1>4. taken' = RequestPacket' /\ taken' # Empty
    BY <1>2, CleanSetup, PacketFacts
  <1>5. ErrInv' /\ FullInv' /\ OutInv'
    BY <1>2, <1>3, CleanSetup DEF CleanInv, ErrInv, FullInv, OutInv
  <1>6. AddrInv'
    BY <1>1, <1>2, <1>4, CleanSetup DEF CleanInv, AddrInv, Assigned, tx
  <1>7. ReadInv'
    <2>1. host'.stage = "in" => host.req.n \in Nat
      BY CleanSetup, RequestFacts
    <2>2. host'.req = host.req /\ host'.done = 0
      BY CleanSetup
    <2>3. 0 % Block = 0
      BY DriverAssumption
    <2> QED BY <1>4, <2>1, <2>2, <2>3 DEF ReadInv
  <1>8. WriteInv'
    <2>1. host'.req = host.req /\ host'.done = 0
      BY CleanSetup
    <2> QED BY <1>3, <1>4, <2>1 DEF WriteInv
  <1> QED BY <1>5, <1>6, <1>7, <1>8 DEF CleanInv

LEMMA OutKeepsClean ==
  ASSUME ~LossyBus, AllInv, OutTransaction
  PROVE  CleanInv'
PROOF
  <1>1. CASE rxFull
    BY <1>1, CleanOut, CleanFrame
  <1>2. CASE ~rxFull
    <2>1. /\ host.stage = "out" /\ busReset = "no" /\ taken = Empty
          /\ taken # RequestPacket /\ host.req.kind = "write" /\ CleanInv
      BY <1>2, CleanOut, PacketFacts
         DEF AllInv, HandInv, StageInv, RequestPacket
    <2>2. /\ txLen = Nak /\ msgLen = NoMsg /\ txToggle = 0 /\ rw
          /\ host.done = written /\ serving = host.req
      BY <2>1 DEF CleanInv, WriteInv, AllInv, ServedInv, ErrInv
    <2>3. /\ UNCHANGED <<txLen, msgLen, txToggle, newDeviceAddr, rw, serving, written>>
          /\ UNCHANGED <<pc, deviceAddr, refused, missed, hostAddr, busReset>>
          /\ host'.req = host.req /\ host'.errors = 0 /\ rxFull'
          /\ host'.done = host.done + 1
          /\ taken' = [type |-> "out", req |-> host.req, k |-> host.done + 1]
          /\ host'.stage = IF host.done + 1 = host.req.n THEN "statusIn" ELSE "out"
      BY <1>2, CleanOut DEF tx, app
    <2>4. /\ taken'.type = "out" /\ taken'.req = host.req /\ taken'.k = host.done + 1
      BY <2>3
    <2>5. taken' # RequestPacket' /\ taken' # Empty
      <3>1. RequestPacket'.type = "setup"
        BY DEF RequestPacket
      <3> QED BY <2>4, <3>1, PacketFacts
    <2>6. ErrInv' /\ FullInv' /\ OutInv'
      BY <2>1, <2>2, <2>3, <2>4 DEF CleanInv, ErrInv, FullInv, OutInv
    <2>7. AddrInv'
      BY <2>1, <2>3 DEF CleanInv, AddrInv, Assigned
    <2>8. ReadInv'
      BY <2>3 DEF ReadInv
    <2>9. WriteInv'
      <3>1. host'.stage = "statusIn" => host'.done = host'.req.n
        BY <2>3
      <3>2. host'.done = written' + 1 /\ host'.req.kind = "write"
        BY <2>1, <2>2, <2>3
      <3> QED BY <2>2, <2>3, <2>5, <3>1, <3>2 DEF WriteInv
    <2> QED BY <2>6, <2>7, <2>8, <2>9 DEF CleanInv
  <1> QED BY <1>1, <1>2

LEMMA StatusOutKeepsClean ==
  ASSUME ~LossyBus, AllInv, StatusOut
  PROVE  CleanInv'
PROOF
  <1>1. host.stage = "statusOut" /\ busReset = "no" /\ CleanInv
    BY DEF StatusOut, InStage, AllInv
  <1>2. host'.stage = "idle" /\ host'.errors = 0
    BY CleanStatusOut, GivesUp DEF AllInv, Goes
  <1>3. ErrInv' /\ FullInv' /\ OutInv'
    BY <1>1, <1>2, CleanStatusOut DEF CleanInv, ErrInv, FullInv, OutInv, app
  <1>4. AddrInv'
    BY <1>1, <1>2, CleanStatusOut DEF CleanInv, AddrInv, Assigned, tx
  <1>5. ReadInv' /\ WriteInv'
    BY <1>2, NoData
  <1> QED BY <1>3, <1>4, <1>5 DEF CleanInv

LEMMA InKeepsClean ==
  ASSUME ~LossyBus, AllInv, InTransaction
  PROVE  CleanInv'
PROOF
  <1>1. /\ host.stage \in {"in", "statusIn"} /\ busReset = "no" /\ CleanInv
        /\ HostTyped /\ DeviceTyped /\ StageInv
    BY DEF InTransaction, InStage, AllInv
  <1>2. hostAddr = deviceAddr
    BY <1>1 DEF CleanInv, AddrInv
  <1>3. /\ UNCHANGED <<rxFull, taken, pc, txToggle, msgLen, newDeviceAddr, app,
                       refused, missed, busReset>>
    BY DEF InTransaction, Transmit, main
  <1>4. CASE ~Sends(hostAddr)
    <2>1. host' = [host EXCEPT !.errors = 0]
      BY <1>2, <1>4, InCases
    <2>2. Goes(host', host.stage, host.done)
      BY <1>1, <2>1, NoError
    <2>3. UNCHANGED <<txLen, deviceAddr, hostAddr>>
      BY <1>4 DEF InTransaction, Transmit
    <2> QED BY <1>3, <2>2, <2>3, CleanFrame DEF Goes, tx
  <1>5. CASE Sends(hostAddr)
    <2>1. /\ ~rxFull /\ taken = Empty /\ taken # RequestPacket /\ txLen # Nak
          /\ txLen.toggle = Expected
      BY <1>1, <1>5, CleanSends
    <2>2. txLen' = Nak /\ deviceAddr' = newDeviceAddr /\ host' \in After(txLen)
      BY <1>2, <1>5, InCases DEF InTransaction, Transmit
    <2>3. OutInv'
      BY <1>1, <1>3 DEF CleanInv, OutInv, app
    <2>4. CASE host.stage = "statusIn"
      <3>1. host' = Idle
        BY <1>1, <2>1, <2>2, <2>4, AfterCases
      <3>2. host'.stage = "idle" /\ host'.errors = 0
        BY <1>1, <3>1, GivesUp DEF Goes
      <3>3. hostAddr' = IF host.req.kind = "address" THEN 1 ELSE hostAddr
        BY <1>5, <2>4, <3>2 DEF InTransaction
      <3>4. newDeviceAddr = IF host.req.kind = "address" THEN 1 ELSE hostAddr
        BY <1>1, <2>1, <2>4 DEF CleanInv, AddrInv, Assigned
      <3>5. ErrInv' /\ FullInv'
        BY <1>1, <1>3, <2>1, <3>2 DEF CleanInv, ErrInv, FullInv
      <3>6. AddrInv'
        BY <1>1, <1>3, <2>2, <3>2, <3>3, <3>4 DEF AddrInv, Assigned
      <3>7. ReadInv' /\ WriteInv'
        BY <3>2, NoData
      <3> QED BY <2>3, <3>5, <3>6, <3>7 DEF CleanInv
    <2>5. CASE host.stage = "in"
      <3>1. /\ host'.req = host.req /\ host'.errors = 0
            /\ host'.done = host.done + txLen.len
            /\ host'.stage \in {"in", "statusOut"}
            /\ host'.stage = "in" => txLen.len = Block
        BY <1>5, <2>2, <2>5, CleanBlock
      <3>2. hostAddr' = hostAddr
        BY <2>5 DEF InTransaction
      <3>3. newDeviceAddr = hostAddr
        BY <1>1, <2>5 DEF CleanInv, AddrInv, Assigned
      <3>4. ErrInv' /\ FullInv'
        BY <1>1, <1>3, <2>1, <3>1 DEF CleanInv, ErrInv, FullInv
      <3>5. AddrInv'
        BY <1>1, <1>3, <2>2, <3>1, <3>2, <3>3 DEF AddrInv, Assigned
      <3>6. WriteInv'
        BY <3>1 DEF WriteInv
      <3>7. ReadInv'
        <4>1. CASE host'.stage = "in"
          <5> DEFINE d == host.done
                     n == host.req.n
                     t == 1 - ((d \div Block) % 2)
                     u == 1 - (((d + Block) \div Block) % 2)
          <5>1. /\ d \in Nat /\ n \in 0 .. MaxBytes /\ d =< n /\ d % Block = 0
                /\ txToggle = Expected
                /\ txLen.len = IF n - d < Block THEN n - d ELSE Block
                /\ msgLen = IF n - d < Block THEN NoMsg ELSE n - d - Block
            BY <1>5, <2>5, CleanSends
          <5>2. Expected = t
            BY <2>5 DEF Expected
          <5>3. txToggle = t
            BY <5>1, <5>2
          <5>4. u = 1 - t /\ (d + Block) % Block = 0
            BY <5>1, NextBlock
          <5>5. t \in {0, 1}
            BY <1>1, <5>3 DEF DeviceTyped
          <5>6. Block \in Nat \ {0} /\ txLen.len = Block
            BY <3>1, <4>1, DriverAssumption
          <5>7. host'.done = d + Block /\ host'.req.n = n
            BY <3>1, <5>6
          <5> HIDE DEF d, n, t, u
          <5>8. n - d >= Block /\ d + Block \in 0 .. n /\ msgLen = n - (d + Block)
            BY <5>1, <5>6
          <5>9. txToggle = 1 - u
            BY <5>3, <5>4, <5>5
          <5>10. txLen' = Nak /\ msgLen' = msgLen /\ txToggle' = txToggle
            BY <1>3, <2>2
          <5>11. 1 - ((host'.done \div Block) % 2) = u
            BY <5>7 DEF u
          <5>12. /\ txLen' = Nak /\ msgLen' = host'.req.n - host'.done
                 /\ txToggle' = 1 - (1 - ((host'.done \div Block) % 2))
            BY <5>7, <5>8, <5>9, <5>10, <5>11
          <5>13. host'.done \in 0 .. host'.req.n /\ host'.done % Block = 0
            BY <5>4, <5>7, <5>8
          <5>14. taken' # RequestPacket'
            BY <1>3, <2>1, <3>1 DEF RequestPacket
          <5> QED BY <5>12, <5>13, <5>14 DEF ReadInv, Pending
        <4>2. CASE host'.stage # "in"
          BY <4>2 DEF ReadInv
        <4> QED BY <4>1, <4>2
      <3> QED BY <2>3, <3>4, <3>5, <3>6, <3>7 DEF CleanInv
    <2> QED BY <1>1, <2>4, <2>5
  <1> QED BY <1>4, <1>5

LEMMA BusKeepsClean ==
  ASSUME ~LossyBus, AllInv,
         NewTransfer \/ OtherDevice \/ BeginReset \/ EndReset \/ UNCHANGED vars
  PROVE  CleanInv'
PROOF
  <1>1. CleanInv /\ HostTyped /\ DeviceTyped
    BY DEF AllInv
  <1>2. CASE NewTransfer
    <2>1. /\ host.stage = "idle" /\ busReset = "no"
          /\ host'.stage = "setup" /\ host'.errors = 0
          /\ UNCHANGED <<device, hostAddr, busReset, missed>>
      BY <1>2 DEF NewTransfer, InStage
    <2>2. ErrInv' /\ FullInv' /\ OutInv'
      BY <1>1, <2>1 DEF CleanInv, ErrInv, FullInv, OutInv, device, isr, app
    <2>3. AddrInv'
      BY <1>1, <2>1 DEF CleanInv, AddrInv, Assigned, device, tx
    <2> QED BY <2>1, <2>2, <2>3, NoData DEF CleanInv
  <1>3. CASE OtherDevice
    <2>1. ~missed'
      BY <1>1, <1>3, DriverAssumption DEF OtherDevice, CleanInv, ErrInv, Ignored
    <2>2. UNCHANGED <<rxFull, taken, tx, app, pc, deviceAddr, refused, host, hostAddr,
                      busReset>>
      BY <1>1, <1>3, <2>1, OtherDeviceIgnored DEF main
    <2>3. missed' = missed /\ host'.errors = 0
      <3>1. missed \in BOOLEAN /\ ~missed /\ host.errors = 0
        BY <1>1 DEF CleanInv, ErrInv, HostTyped
      <3>2. missed' \in BOOLEAN
        BY <1>3 DEF OtherDevice
      <3> QED BY <2>1, <2>2, <3>1, <3>2
    <2> QED BY <2>2, <2>3, CleanFrame
  <1>4. CASE BeginReset
    <2>1. /\ busReset' = "held" /\ hostAddr' = 0 /\ host' = Idle
          /\ UNCHANGED <<device, missed>>
      BY <1>4 DEF BeginReset
    <2>2. host'.stage = "idle" /\ host'.errors = 0
      BY <1>1, <2>1, GivesUp DEF Goes
    <2>3. ErrInv' /\ FullInv' /\ OutInv'
      BY <1>1, <2>1, <2>2 DEF CleanInv, ErrInv, FullInv, OutInv, device, isr, app
    <2>4. AddrInv'
      BY <2>1, <2>2 DEF AddrInv
    <2> QED BY <2>2, <2>3, <2>4, NoData DEF CleanInv
  <1>5. CASE EndReset
    <2>1. /\ busReset = "twice" /\ busReset' = "no"
          /\ UNCHANGED <<device, host, hostAddr, missed>>
      BY <1>5 DEF EndReset
    <2>2. host.stage = "idle"
      BY <1>1, <2>1 DEF CleanInv, AddrInv
    <2>3. ErrInv' /\ FullInv' /\ OutInv'
      BY <1>1, <2>1 DEF CleanInv, ErrInv, FullInv, OutInv, AddrInv, device, isr, app
    <2>4. AddrInv'
      BY <1>1, <2>1, <2>2 DEF CleanInv, AddrInv, Assigned, device, tx
    <2> QED BY <2>1, <2>2, <2>3, <2>4, NoData DEF CleanInv
  <1>6. CASE UNCHANGED vars
    <2>1. host'.errors = 0
      BY <1>1, <1>6 DEF CleanInv, ErrInv, vars, bus
    <2> QED BY <1>6, <2>1, CleanFrame DEF vars, isr, main, bus
  <1> QED BY <1>2, <1>3, <1>4, <1>5, <1>6

\* What usbPoll is about to process is a packet of the host's transfer.
LEMMA InProcess ==
  ASSUME ~LossyBus, AllInv, pc = "process"
  PROVE  /\ rxFull /\ taken # Empty /\ rxBuf[reading] = taken
         /\ rxToken = taken.type /\ taken.type \in {"setup", "out"}
         /\ busReset = "no" =>
              /\ host.stage \in {"in", "out", "statusIn"}
              /\ taken.type = "setup" => taken = RequestPacket
              /\ taken.type = "out" =>
                    taken # RequestPacket /\ serving = host.req
PROOF
  <1>1. /\ rxFull /\ taken # Empty /\ rxBuf[reading] = taken
    BY DEF AllInv, HandInv
  <1>2. rxToken = taken.type /\ taken.type \in {"setup", "out"}
    BY <1>1 DEF AllInv, TokenInv, CleanInv, ErrInv
  <1>3. ASSUME busReset = "no"
        PROVE  /\ host.stage \in {"in", "out", "statusIn"}
               /\ taken.type = "setup" => taken = RequestPacket
               /\ taken.type = "out" =>
                     taken # RequestPacket /\ serving = host.req
    <2>1. host.stage \in {"in", "out", "statusIn"}
      BY <1>1, <1>3, HostFacts DEF AllInv, CleanInv, FullInv, Stages
    <2>2. \/ taken = RequestPacket
          \/ taken.type # "setup" /\ serving = host.req
      BY <2>1 DEF AllInv, ServedInv, CleanInv, ErrInv
    <2>3. RequestPacket.type = "setup"
      BY DEF RequestPacket
    <2> QED BY <2>1, <2>2, <2>3
  <1> QED BY <1>1, <1>2, <1>3

LEMMA ProcessSetupKeepsClean ==
  ASSUME ~LossyBus, AllInv, ProcessSetup
  PROVE  CleanInv'
PROOF
  <1>1. /\ CleanInv /\ DeviceTyped /\ HostTyped /\ StageInv
        /\ pc = "process" /\ rxToken = "setup"
    BY DEF AllInv, ProcessSetup
  <1>2. /\ rxFull /\ taken # Empty /\ rxBuf[reading] = taken /\ taken.type = "setup"
    BY <1>1, InProcess
  <1>3. /\ txToggle' = 0 /\ txLen' = Nak /\ taken' = Empty /\ pc' = "free"
        /\ UNCHANGED <<rxFull, host, hostAddr, busReset, missed, deviceAddr, refused>>
    BY DEF ProcessSetup, isr, bus
  <1>4. ErrInv' /\ FullInv' /\ OutInv'
    BY <1>1, <1>3, PacketFacts DEF CleanInv, ErrInv, FullInv, OutInv
  <1>5. CASE busReset # "no"
    <2>1. host.stage = "idle" /\ busReset # "twice"
      BY <1>1, <1>2, <1>5 DEF CleanInv, AddrInv
    <2>2. AddrInv'
      BY <1>1, <1>3, <1>5, <2>1 DEF CleanInv, AddrInv
    <2> QED BY <1>3, <1>4, <2>1, <2>2, NoData DEF CleanInv
  <1>6. CASE busReset = "no"
    <2>1. taken = RequestPacket /\ host.stage \in {"in", "out", "statusIn"}
      BY <1>1, <1>2, <1>6, InProcess
    <2>2. host.req \in Requests /\ rxBuf[reading].req = host.req
          /\ rxBuf[reading].type = "setup"
      BY <1>1, <1>2, <2>1 DEF StageInv, RequestPacket
    <2>3. Asked(rxBuf[reading]) = {host.req}
      BY <2>2 DEF Asked
    <2>4. /\ written' = 0 /\ (host.req.kind = "write" => rw')
          /\ msgLen' = IF host.req.kind = "write" THEN NoMsg ELSE host.req.n
          /\ newDeviceAddr' = IF host.req.kind = "address" THEN 1 ELSE newDeviceAddr
      BY <2>3 DEF ProcessSetup
    <2>5. taken' # RequestPacket'
      <3>1. RequestPacket'.type = "setup"
        BY DEF RequestPacket
      <3> QED BY <1>3, <3>1, PacketFacts
    <2>6. AddrInv'
      <3>1. host.req.kind = "address" => host.stage = "statusIn"
        BY <1>1, <2>1 DEF StageInv
      <3>2. newDeviceAddr = hostAddr /\ deviceAddr = hostAddr
        BY <1>1, <1>2, <1>6 DEF CleanInv, AddrInv, Assigned
      <3> QED BY <1>3, <1>6, <2>1, <2>4, <3>1, <3>2 DEF AddrInv, Assigned
    <2>7. ReadInv'
      <3>1. CASE host.stage = "in"
        <4>1. /\ host.done = 0 /\ host.done \in 0 .. host.req.n
              /\ host.done % Block = 0 /\ host.req.kind = "read"
          BY <1>1, <2>1, <3>1 DEF CleanInv, ReadInv, StageInv
        <4>2. host.req.n \in Nat
          BY <2>2, RequestFacts
        <4>3. msgLen' = host.req.n - host.done
          BY <2>4, <4>1, <4>2
        <4>4. txToggle' = 1 - (1 - ((host.done \div Block) % 2))
          <5>1. 0 \div Block = 0
            BY DriverAssumption
          <5> QED BY <1>3, <4>1, <5>1
        <4> QED BY <1>3, <2>5, <4>1, <4>3, <4>4 DEF ReadInv, Pending
      <3>2. CASE host.stage # "in"
        BY <1>3, <3>2 DEF ReadInv
      <3> QED BY <3>1, <3>2
    <2>8. WriteInv'
      <3>1. CASE host.stage = "out"
        <4>1. host.req.kind = "write" /\ host.done = 0
          BY <1>1, <2>1, <3>1 DEF CleanInv, WriteInv, StageInv
        <4> QED BY <1>3, <2>4, <2>5, <3>1, <4>1 DEF WriteInv
      <3>2. CASE host.stage = "statusIn"
        <4>1. host.req.kind \in {"command", "address"}
          BY <1>1, <2>1, <2>2, <3>2, RequestFacts DEF CleanInv, WriteInv, StageInv
        <4>2. msgLen' = 0
          BY <2>2, <2>4, <4>1, RequestFacts
        <4> QED BY <1>3, <2>5, <3>2, <4>1, <4>2 DEF WriteInv, Pending
      <3>3. CASE host.stage = "in"
        BY <1>3, <3>3 DEF WriteInv
      <3> QED BY <2>1, <3>1, <3>2, <3>3
    <2> QED BY <1>4, <2>6, <2>7, <2>8 DEF CleanInv
  <1> QED BY <1>5, <1>6

LEMMA ProcessOutKeepsClean ==
  ASSUME ~LossyBus, AllInv, ProcessOut
  PROVE  CleanInv'
PROOF
  <1>1. /\ CleanInv /\ DeviceTyped /\ HostTyped /\ StageInv /\ ServingInv
        /\ pc = "process" /\ rxToken = "out"
    BY DEF AllInv, ProcessOut
  <1>2. /\ rxFull /\ taken # Empty /\ taken.type = "out"
    BY <1>1, InProcess
  <1>3. /\ taken' = Empty /\ pc' = "free"
        /\ UNCHANGED <<rxFull, txLen, txToggle, newDeviceAddr, rw, host, hostAddr,
                       busReset, missed, deviceAddr, refused>>
    BY DEF ProcessOut, isr, bus
  <1>4. ErrInv' /\ FullInv' /\ OutInv'
    BY <1>1, <1>3, PacketFacts DEF CleanInv, ErrInv, FullInv, OutInv
  <1>5. CASE busReset # "no"
    <2>1. host.stage = "idle" /\ busReset # "twice"
      BY <1>1, <1>2, <1>5 DEF CleanInv, AddrInv
    <2>2. AddrInv'
      BY <1>1, <1>3, <1>5, <2>1 DEF CleanInv, AddrInv
    <2> QED BY <1>3, <1>4, <2>1, <2>2, NoData DEF CleanInv
  <1>6. CASE busReset = "no"
    <2>1. /\ taken # RequestPacket /\ host.stage \in {"in", "out", "statusIn"}
          /\ serving = host.req /\ rw /\ taken.k = written + 1
      BY <1>1, <1>2, <1>6, InProcess DEF CleanInv, OutInv
    <2>2. host.req \in Requests /\ host.req.kind = "write"
          /\ host.req.n \in 1 .. MaxPackets
      BY <1>1, <2>1, RequestFacts DEF ServingInv
    <2>3. host.stage \in {"out", "statusIn"}
      BY <1>1, <2>1, <2>2 DEF StageInv
    <2>4. /\ txLen = Nak /\ msgLen = NoMsg /\ txToggle = 0
          /\ host.done = written + 1
          /\ host.stage = "statusIn" => host.done = host.req.n
      BY <1>1, <1>2, <2>1, <2>2, <2>3 DEF CleanInv, WriteInv
    <2>5. /\ written' = (written + 1) % host.req.n
          /\ msgLen' = IF written' = 0 THEN 0 ELSE msgLen
      BY <2>1 DEF ProcessOut
    <2>6. taken' # RequestPacket'
      <3>1. RequestPacket'.type = "setup"
        BY DEF RequestPacket
      <3> QED BY <1>3, <3>1, PacketFacts
    <2>7. AddrInv'
      BY <1>1, <1>3, <1>6, <2>2 DEF CleanInv, AddrInv, Assigned
    <2>8. ReadInv'
      BY <1>3, <2>3 DEF ReadInv
    <2>9. WriteInv'
      <3>1. CASE host.stage = "out"
        <4>1. host.done \in Nat /\ host.done < host.req.n /\ host.done > 0
          BY <1>1, <2>4, <3>1, HostFacts DEF StageInv, DeviceTyped
        <4>2. written' = host.done /\ written' # 0
          BY <2>2, <2>4, <2>5, <4>1
        <4> QED BY <1>3, <2>1, <2>2, <2>4, <2>5, <2>6, <3>1, <4>2 DEF WriteInv
      <3>2. CASE host.stage = "statusIn"
        <4>1. written + 1 = host.req.n
          BY <2>4, <3>2
        <4>2. written' = 0 /\ msgLen' = 0
          BY <2>2, <2>5, <4>1
        <4> QED BY <1>3, <2>2, <2>4, <2>6, <3>2, <4>2 DEF WriteInv, Pending
      <3> QED BY <2>3, <3>1, <3>2
    <2> QED BY <1>4, <2>7, <2>8, <2>9 DEF CleanInv
  <1> QED BY <1>5, <1>6

\* usbBuildTxBlock takes the next block of what is pending.
LEMMA BuildPending ==
  ASSUME DeviceTyped, Build, NEW n \in 0 .. MaxBytes, NEW d \in 0 .. n,
         NEW t \in {0, 1}, Pending(n, d, t),
         serving.kind = "read" => serving.n = n,
         serving.kind # "read" => d = 0
  PROVE  /\ txLen'.from = d /\ txLen'.toggle = t /\ txToggle' = t
         /\ txLen'.len = IF n - d < Block THEN n - d ELSE Block
         /\ msgLen' = IF n - d < Block THEN NoMsg ELSE n - d - Block
PROOF
  <1>1. Block \in Nat \ {0} /\ MaxBytes \in Nat
    BY DriverAssumption
  <1>2. CASE txLen = Nak
    <2>1. Nak.len = Block + 1
      BY DEF Nak
    <2>2. msgLen = n - d /\ txToggle = 1 - t
      BY <1>1, <1>2, <2>1 DEF Pending
    <2>3. msgLen # NoMsg /\ msgLen \in Nat
      BY <1>1, <2>2 DEF NoMsg
    <2> DEFINE want == IF msgLen > Block THEN Block ELSE msgLen
               from == IF serving.kind = "read" THEN serving.n - msgLen ELSE 0
    <2>4. /\ txToggle' = 1 - txToggle
          /\ txLen' = [id |-> serving.id, len |-> want, from |-> from,
                       toggle |-> txToggle']
          /\ msgLen' = IF want < Block THEN NoMsg ELSE msgLen - want
      BY <1>2, <2>3 DEF Build
    <2>5. want = IF n - d < Block THEN n - d ELSE Block
      BY <1>1, <2>2
    <2>6. from = d
      BY <2>2
    <2> HIDE DEF want, from
    <2>7. txToggle' = t
      BY <2>2, <2>4
    <2>8. /\ txLen'.from = d /\ txLen'.toggle = t /\ txLen'.len = want
      BY <2>4, <2>6, <2>7
    <2>9. msgLen' = IF n - d < Block THEN NoMsg ELSE n - d - Block
      BY <1>1, <2>2, <2>4, <2>5
    <2> QED BY <2>5, <2>7, <2>8, <2>9
  <1>3. CASE txLen # Nak
    <2>1. UNCHANGED <<txLen, txToggle, msgLen>>
      BY <1>3 DEF Build
    <2> QED BY <1>3, <2>1 DEF Pending
  <1> QED BY <1>2, <1>3

LEMMA BuildKeepsClean ==
  ASSUME ~LossyBus, AllInv, Build
  PROVE  CleanInv'
PROOF
  <1>1. CleanInv /\ DeviceTyped /\ HostTyped /\ StageInv /\ pc = "build"
    BY DEF AllInv, Build
  <1>2. /\ pc' = "reset"
        /\ UNCHANGED <<rxFull, newDeviceAddr, rw, serving, written, host, hostAddr,
                       busReset, missed, deviceAddr, taken, refused>>
    BY DEF Build, isr, app, bus
  <1>3. RequestPacket' = RequestPacket
    BY <1>2 DEF RequestPacket
  <1>4. ErrInv' /\ FullInv' /\ OutInv'
    BY <1>1, <1>2 DEF CleanInv, ErrInv, FullInv, OutInv
  <1>5. AddrInv'
    BY <1>1, <1>2 DEF CleanInv, AddrInv, Assigned
  <1>6. ASSUME taken # RequestPacket, host.stage \in {"in", "out", "statusIn"}
        PROVE  serving = host.req /\ host.req \in Requests
    BY <1>1, <1>6 DEF AllInv, ServedInv, CleanInv, ErrInv, StageInv
  <1>7. ReadInv'
    <2>1. CASE host.stage = "in" /\ taken # RequestPacket
      <3> DEFINE n == host.req.n
                 d == host.done
                 t == 1 - ((d \div Block) % 2)
      <3>1. /\ d \in 0 .. n /\ d % Block = 0 /\ Pending(n, d, t)
        BY <1>1, <2>1 DEF CleanInv, ReadInv
      <3>2. serving.kind = "read" /\ serving.n = n /\ n \in 0 .. MaxBytes
        BY <1>1, <1>6, <2>1, RequestFacts DEF StageInv
      <3>3. t \in {0, 1}
        <4>1. d \div Block \in Int
          BY <3>1, <3>2, DriverAssumption
        <4> QED BY <4>1
      <3>4. /\ txLen'.from = d /\ txLen'.toggle = t /\ txToggle' = t
            /\ txLen'.len = IF n - d < Block THEN n - d ELSE Block
            /\ msgLen' = IF n - d < Block THEN NoMsg ELSE n - d - Block
        <4> HIDE DEF n, d, t
        <4> QED BY <1>1, <3>1, <3>2, <3>3, BuildPending
      <3> QED BY <1>2, <1>3, <2>1, <3>1, <3>4 DEF ReadInv, Pending
    <2>2. CASE host.stage # "in" \/ taken = RequestPacket
      BY <1>1, <1>2, <1>3, <2>2 DEF CleanInv, ReadInv
    <2> QED BY <2>1, <2>2
  <1>8. WriteInv'
    <2>1. CASE host.stage \notin {"out", "statusIn"} \/ taken = RequestPacket
      BY <1>1, <1>2, <1>3, <2>1 DEF CleanInv, WriteInv
    <2>2. CASE /\ host.stage \in {"out", "statusIn"} /\ taken # RequestPacket
               /\ host.req.kind = "write" /\ (host.stage = "out" \/ taken # Empty)
      <3>1. msgLen = NoMsg
        BY <1>1, <2>2 DEF CleanInv, WriteInv
      <3>2. UNCHANGED <<txLen, txToggle, msgLen>>
        BY <3>1 DEF Build
      <3> QED BY <1>1, <1>2, <1>3, <2>2, <3>2 DEF CleanInv, WriteInv
    <2>3. CASE /\ host.stage \in {"out", "statusIn"} /\ taken # RequestPacket
               /\ ~(host.req.kind = "write" /\ (host.stage = "out" \/ taken # Empty))
      <3>1. Pending(0, 0, 1)
        BY <1>1, <2>3 DEF CleanInv, WriteInv
      <3>2. serving.kind # "read"
        BY <1>1, <1>6, <2>3 DEF StageInv
      <3>3. /\ txLen'.from = 0 /\ txLen'.toggle = 1 /\ txToggle' = 1
            /\ txLen'.len = IF 0 - 0 < Block THEN 0 - 0 ELSE Block
            /\ msgLen' = IF 0 - 0 < Block THEN NoMsg ELSE 0 - 0 - Block
        <4>1. 0 \in 0 .. MaxBytes /\ 0 \in 0 .. 0 /\ 1 \in {0, 1}
          BY DriverAssumption
        <4> QED BY <1>1, <3>1, <3>2, <4>1, BuildPending
      <3> QED BY <1>1, <1>2, <1>3, <2>3, <3>3 DEF CleanInv, WriteInv, Pending
    <2> QED BY <2>1, <2>2, <2>3
  <1> QED BY <1>4, <1>5, <1>7, <1>8 DEF CleanInv

LEMMA PollKeepsClean ==
  ASSUME ~LossyBus, AllInv, usbPoll
  PROVE  CleanInv'
PROOF
  <1>1. CleanInv /\ DeviceTyped /\ HandInv
    BY DEF AllInv
  <1>2. CASE Poll \/ FreeBuffer \/ CheckReset
    <2>1. /\ UNCHANGED <<taken, txLen, txToggle, msgLen, app, host, hostAddr, missed,
                         refused, RequestPacket>>
          /\ rxFull' => rxFull
      BY <1>2 DEF Poll, FreeBuffer, CheckReset, isr, tx, bus, RequestPacket
    <2>2. OutInv' /\ ReadInv' /\ WriteInv' /\ ErrInv'
      BY <1>1, <2>1
         DEF CleanInv, OutInv, ReadInv, WriteInv, ErrInv, Pending, app
    <2>3. CASE Poll
      <3>1. /\ UNCHANGED <<rxFull, busReset, deviceAddr, newDeviceAddr>>
            /\ pc' \in {"build", "reset"} => ~rxFull
        BY <2>3 DEF Poll, isr, tx, bus
      <3> QED BY <1>1, <2>1, <2>2, <3>1 DEF CleanInv, FullInv, AddrInv, Assigned
    <2>4. CASE FreeBuffer
      <3>1. UNCHANGED <<busReset, deviceAddr, newDeviceAddr>> /\ ~rxFull'
        BY <2>4 DEF FreeBuffer, tx, bus
      <3> QED BY <1>1, <2>1, <2>2, <3>1 DEF CleanInv, FullInv, AddrInv, Assigned
    <2>5. CASE CheckReset
      <3>1. /\ pc = "reset" /\ pc' = "poll" /\ rxFull' = rxFull
            /\ IF busReset # "no"
               THEN /\ newDeviceAddr' = 0 /\ deviceAddr' = 0
                    /\ busReset' = IF busReset = "held" THEN "once" ELSE "twice"
               ELSE UNCHANGED <<newDeviceAddr, deviceAddr, busReset>>
        BY <2>5 DEF CheckReset, isr
      <3>2. FullInv'
        BY <1>1, <2>1, <3>1 DEF CleanInv, FullInv
      <3>3. AddrInv'
        <4>1. CASE busReset = "no"
          BY <1>1, <2>1, <3>1, <4>1 DEF CleanInv, AddrInv, Assigned
        <4>2. CASE busReset # "no"
          <5>1. busReset' = "twice" => ~rxFull
            BY <1>1, <3>1, <4>2 DEF CleanInv, AddrInv, AllInv, HostTyped
          <5>2. hostAddr = 0 /\ host.stage = "idle"
            BY <1>1, <4>2 DEF CleanInv, AddrInv
          <5> QED BY <2>1, <3>1, <4>2, <5>1, <5>2 DEF AddrInv
        <4> QED BY <4>1, <4>2
      <3> QED BY <2>2, <3>2, <3>3 DEF CleanInv
    <2> QED BY <1>2, <2>3, <2>4, <2>5
  <1>3. ~IgnoreSetup
    BY InProcess DEF IgnoreSetup
  <1> QED
    BY <1>2, <1>3, ProcessSetupKeepsClean, ProcessOutKeepsClean, BuildKeepsClean
       DEF usbPoll

LEMMA CleanKept ==
  ASSUME ~LossyBus, AllInv, [Next]_vars
  PROVE  CleanInv'
  BY SetupKeepsClean, OutKeepsClean, StatusOutKeepsClean, InKeepsClean,
     BusKeepsClean, PollKeepsClean
     DEF Next, Transaction, LostIn, TimeOut

LEMMA AllTogether ==
  TypeOK /\ ShapeInv /\ BusInv /\ CleanInv <=> AllInv
  BY TypesSplit DEF ShapeInv, BusInv, AllInv

LEMMA InitClean == Init => CleanInv
PROOF
  <1> SUFFICES ASSUME Init PROVE CleanInv
    OBVIOUS
  <1>1. host.stage = "idle" /\ host.errors = 0
    BY DEF Init, Quiet
  <1>2. taken.type # "out"
    BY PacketFacts DEF Init
  <1>3. AddrInv
    BY <1>1 DEF Init, AddrInv, Assigned
  <1> QED
    BY <1>1, <1>2, <1>3 DEF Init, CleanInv, ErrInv, FullInv, OutInv, ReadInv, WriteInv

(***************************************************************************)
(* A bus without errors: the theorems.                                     *)
(***************************************************************************)
\* On a bus without errors, driver and host controller agree on the address,
\* the packets of a page and the rest of a reply at every step.
THEOREM CleanBus == ~LossyBus => (Spec => [](TypeOK /\ ShapeInv /\ BusInv /\ CleanInv))
PROOF
  <1> SUFFICES ASSUME ~LossyBus
               PROVE  Spec => [](TypeOK /\ ShapeInv /\ BusInv /\ CleanInv)
    OBVIOUS
  <1>1. TypeOK /\ ShapeInv /\ BusInv /\ CleanInv /\ [Next]_vars => CleanInv'
    BY CleanKept, AllTogether
  <1> QED BY <1>1, InitClean, AnyBus, PTL DEF Spec

\* Every data packet reaches usbFunctionWrite once and in its order, while its
\* request is the one being served.
THEOREM WritesInOrder == ~LossyBus => (Spec => []PacketsInOrder)
PROOF
  <1> SUFFICES ASSUME ~LossyBus PROVE Spec => []PacketsInOrder
    OBVIOUS
  <1>1. BusInv /\ CleanInv => PacketsInOrder
    BY DEF BusInv, HandInv, TokenInv, CleanInv, ErrInv, OutInv, PacketsInOrder
  <1> QED BY <1>1, CleanBus, PTL

\* No SETUP is answered with NAK and no transaction with silence.
THEOREM SetupAccepted == ~LossyBus => (Spec => []NeverRefused)
PROOF
  <1> SUFFICES ASSUME ~LossyBus PROVE Spec => []NeverRefused
    OBVIOUS
  <1>1. CleanInv => NeverRefused
    BY DEF CleanInv, ErrInv, NeverRefused
  <1> QED BY <1>1, CleanBus, PTL

\* Device and host agree on the address whenever the bus is in use.
THEOREM AddressesAgree == ~LossyBus => (Spec => []AddressAgreed)
PROOF
  <1> SUFFICES ASSUME ~LossyBus PROVE Spec => []AddressAgreed
    OBVIOUS
  <1>1. CleanInv => AddressAgreed
    BY DEF CleanInv, AddrInv, AddressAgreed
  <1> QED BY <1>1, CleanBus, PTL

\* A bus reset makes the device forget its address, and one it was about to get.
THEOREM AddressForgotten == ~LossyBus => (Spec => []ResetForgets)
PROOF
  <1> SUFFICES ASSUME ~LossyBus PROVE Spec => []ResetForgets
    OBVIOUS
  <1>1. CleanInv => ResetForgets
    BY DEF CleanInv, AddrInv, ResetForgets
  <1> QED BY <1>1, CleanBus, PTL

\* The host puts a reply together from consecutive blocks, and takes it for
\* complete when it is.
THEOREM RepliesInOrder == ~LossyBus => (Spec => ReplyInOrder)
PROOF
  <1> SUFFICES ASSUME ~LossyBus PROVE Spec => ReplyInOrder
    OBVIOUS
  <1>1. ASSUME AllInv, [Next]_vars, host.stage = "in",
               host'.stage \in {"in", "statusOut"}, host' # host
        PROVE  /\ txLen.from = host.done /\ txLen.id = host.req.id
               /\ host'.stage = "statusOut" => host'.done = host.req.n
    <2>1. CASE InTransaction
      <3>1. CleanInv /\ HostTyped /\ DeviceTyped /\ StageInv /\ ServedInv
        BY <1>1 DEF AllInv
      <3>2. hostAddr = deviceAddr
        BY <2>1, <3>1 DEF InTransaction, InStage, CleanInv, AddrInv
      <3>3. [host EXCEPT !.errors = 0] = host
        BY <3>1, HostFacts DEF CleanInv, ErrInv
      <3>4. Sends(hostAddr) /\ host' \in After(txLen)
        BY <1>1, <2>1, <3>2, <3>3, InCases
      <3>5. txLen.from = host.done /\ taken # RequestPacket /\ txLen # Nak
        BY <1>1, <3>4, CleanSends
      <3>6. txLen.id = host.req.id
        BY <1>1, <3>1, <3>5 DEF ServedInv, CleanInv, ErrInv
      <3>7. host'.stage = "statusOut" => host'.done = host.req.n
        BY <1>1, <3>4, CleanBlock
      <3> QED BY <3>5, <3>6, <3>7
    <2>2. CASE ~InTransaction
      <3>1. ~(LostIn \/ TimeOut)
        BY DEF LostIn, TimeOut
      <3>2. ~(SetupTransaction \/ OutTransaction \/ StatusOut \/ NewTransfer)
        BY <1>1
           DEF SetupTransaction, OutTransaction, StatusOut, NewTransfer, InStage
      <3>3. ~BeginReset
        BY <1>1, GivesUp DEF BeginReset, AllInv, Goes
      <3>4. ~(usbPoll \/ OtherDevice \/ EndReset \/ UNCHANGED vars)
        BY <1>1
           DEF usbPoll, Poll, ProcessSetup, IgnoreSetup, ProcessOut, FreeBuffer,
               Build, CheckReset, OtherDevice, EndReset, vars, bus
      <3> QED BY <1>1, <2>2, <3>1, <3>2, <3>3, <3>4 DEF Next, Transaction
    <2> QED BY <2>1, <2>2
  <1>2. TypeOK /\ ShapeInv /\ BusInv /\ CleanInv /\ [Next]_vars =>
          [host.stage = "in" /\ host'.stage \in {"in", "statusOut"} /\ host' # host
            => /\ txLen.from = host.done /\ txLen.id = host.req.id
               /\ host'.stage = "statusOut" => host'.done = host.req.n]_vars
    BY <1>1, AllTogether
  <1> QED BY <1>2, CleanBus, PTL DEF Spec, ReplyInOrder

=============================================================================
