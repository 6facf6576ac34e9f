# A verification project for micronucleus-t85

This directory holds TLA+ specifications of the micronucleus USB bootloader for AVR tinies, of the
programs that talk to it, TLC configurations that check them on small instances, and proofs that
TLAPS checks for every instance.

## Inventory

| Part | Source | State | Operations |
|---|---|---|---|
| Bootloader main loop | `firmware/bootloader.c` | `events`, `currentAddress`, `vectorTemp`, the AVR's temporary page buffer, the flash below `BOOTLOADER_ENTRY`, the magic `B007` on the stack | device info, write page, erase, execute; the loop `usbPoll` / erase / write / execute |
| Start and exit options | `bootloader-timer-mode.h`, `-jumper-mode.h`, `-low-power-mode.h`, `-restore-osccal.h`, `-enable-wdt.h`, `-led.h` | `idlePolls`, saved clock prescaler and OSCCAL | start condition, stay condition, what is restored on exit |
| Tiny table and vectors | `bootloader.c`, `bootloader-vectors.S`, linker scripts | three words below the bootloader, the vectors in page 0 | relocation of the application's reset and USB vectors |
| USB driver | `firmware/usbdrv/usbdrv.c`, `asmcommon.inc` | `usbRxLen`, `usbRxToken`, `usbTxLen`, `usbMsgLen`, `usbMsgFlags`, addresses | interrupt routine (receive, answer), `usbPoll`, standard requests |
| USB receiver | `usbdrvasm*.inc` | cycle-exact register code | bit sampling, unstuffing, sync |
| Oscillator calibration | `libs-device/osccalASM.S`, `osctune.h` | OSCCAL | binary search against the USB frame length, on each bus reset |
| Upgrade program | `firmware/upgrade.c`, `upgrade-trampolines.S` | flash, the bootloader included | an application that replaces the bootloader |
| mnflash uploader | `mnflash/lib/uploader.c`, `usb-device.c` | position in the image, device mode, retries | info, erase, upload, execute |
| mnflash images | `mnflash/lib/firmware-blob.c`, `load-ihex.c`, `load-raw.c`, `load-elf.c`, `firmware.c` | a growing memory image with start and end | load, resize, target names |
| mnflash commands | `mnflash/mnflash.c`, `mnflash/example/mnflash-switch.c` | none beyond the above | argument parsing, waiting for a device |
| micronucleus tool | `commandline/library`, `commandline/examples` | position in the image, the device handle | connect, erase, reconnect, write, start; Intel HEX and raw parsing |
| Ruby tools | `ruby/` | none | an older uploader with the same protocol |

### How the parts interact

The host sends vendor requests over a control endpoint; a page travels as one control-write whose
data packets carry four words each. The interrupt routine of the driver receives a packet, acknowledges
it at once and leaves it in a buffer; `usbPoll`, called from the bootloader's loop, hands it to
`usbFunctionSetup` or `usbFunctionWrite`. These only set variables, fill the temporary page buffer and
raise events; the loop then erases or programs, with interrupts off, while the host just waits.
Bootloader and application share the flash (the application's page 0 holds the bootloader's reset and
USB vectors; the application's own ones are moved to the tiny table), the reset vector, the USB
interrupt (told apart by the magic on the stack) and the temporary page buffer.

### What is hard

* power can fail between or inside page operations, at every point of a session;
* the page buffer outlives an abandoned transfer, and a filled word cannot be filled again;
* data packets are neither checked for their CRC nor for their toggle;
* the vectors seen while page 0 arrives are needed when the last page arrives;
* erase runs from the last page down and only afterwards writes the vectors back;
* the interrupt routine and `usbPoll` share a buffer without a lock; answers are given up as soon as
  they are sent;
* the hosts sleep instead of asking, retry what may already have happened, and go on after errors.

### What makes each part correct

* bootloader: never writes over itself when a page below it is written; a reset always comes back to it; a page is written as it was
  sent, with vectors and tiny table patched; a moved vector leads where it led; it leaves when it is asked
  to or left alone; the application gets its USB interrupts;
* USB driver: a packet is processed once, whole, under the token it came with; no packet is
  overwritten before it is processed; the next SETUP is never refused; device and host agree on the
  address; nothing of an abandoned transfer reaches the next one;
* uploaders: when they report success, the device holds the image; the last page, which carries the
  tiny table, is always written; what fits is accepted; what runs is whole; every
  command ends, or waits for a device that is not there;
* upgrade: at every point a reset runs the old bootloader, the upgrade or the new bootloader, each whole;
* loaders: the image is the one the file describes, no byte outside the buffer is touched, a file that is
  found damaged is not taken;
* calibration: the search ends at the value closest to the target, and leaves the range of the chip's
  limits only if the target lies outside.

## Modules

| Module | Models | Proofs |
|---|---|---|
| `AvrFlash` | flash words, `rjmp` arithmetic, what the CPU makes of erased and programmed words, page erase and page write | `AvrFlashProofs` |
| `Bootloader` | `bootloader.c` with the timer and jumper options, on a bus and a power supply that may fail | `BootloaderProofs` |
| `Vectors` | the tables `bootloader.c` builds on parts with four-byte vectors | – |
| `UsbDriver` | the interrupt routine and `usbPoll` with a host controller | `UsbDriverProofs` |
| `Osccal` | `calibrateOscillatorASM` | `OsccalProofs` |
| `Replacement` | what `upgrade.c` promises: from one owner of the device to the next | – |
| `Upgrade` | `upgrade.c`, which implements `Replacement` | `UpgradeProofs` |
| `Upload` | `mnflash_upload` driving `Bootloader` | `MnflashProofs` |
| `Mnflash` | the commands `mnflash` and `mnflash-switch` around `Upload` | `MnflashProofs` |
| `Micronucleus` | the `micronucleus` command driving `Bootloader` | `MicronucleusProofs` |
| `Images` | the loaders of both host programs | `ImagesProofs` |
| `MC…` | the instances TLC checks | – |

`Upload` and `Micronucleus` extend `Bootloader`: a request of the host program *is* the corresponding
`Setup…` action, conjoined with the step of the host, so the two sides cannot disagree about a packet.
`Mnflash` extends `Upload`. `Upgrade` extends `AvrFlash`: the bootloader it replaces is a block of words and
a way into the application.
`UsbDriver` is separate. It justifies what `Bootloader` takes for granted of its bus: one packet per
poll, whole, in order, under the right token (`HandOff`, `TokenMatch`, `PacketsInOrder`), and what it
does not take for granted under `LossyBus` (packets taken twice, transfers cut off).

A definition whose name ends in `_Something` behind the name of another and whose comment begins with
"Mutant" is not part of a model: it is the definition with a plausible mistake in it. Putting it in the
place of the original must break the property it is listed with.

### `AvrFlash`

A word is a record of its opcode nibble and its low bits, which is all the code looks at when it moves a
vector. `addr2rjmp` and `rjmp2addr` wrap at the size of the flash, as the 12-bit offset does on an 8 KB
part. `And` is the AVR's programming: bits are only ever cleared, so two different words give a third
one, `Mixed`. `Landing` and `Destination` say where a jump ends up: erased words run as no-ops until the
next programmed one, at the latest `__my_reset2` at `BOOTLOADER_ENTRY`.

### `Bootloader`

| Variable | In the code |
|---|---|
| `flash`, `pageBuffer` | the flash and the temporary page buffer of the AVR |
| `currentAddress`, `vectorTemp`, `events`, `idlePolls` | the variables of these names |
| `rw` | `usbMsgFlags`: whether data goes to `usbFunctionWrite` |
| `erasePage` | `currentPage` of `eraseApplication` |
| `magic` | `B007` at the bottom of the stack |
| `pc` | the place in `main()`; `app` is the application |
| `host` | the page transfer on the bus: page, the address it was asked for at, packets sent, image |
| `quiet`, `tornVectors` | history: the bus is silent for good; a page operation on page 0 was torn |

One turn of the loop in `main()` is `PollNothing`, one of the `Setup…` actions, `RecvData` or
`RecvDuplicate`, then `HandleErase` (with `ErasePage` for each page, `FillVectors` and `WriteVectors`),
`HandleWrite` and `WritePage`, `HandleExecute`. Each page operation is a step of its own, because power
can fail between any two, and `PowerCycle` may also leave the one in progress half done. The way in is
`EnterMainLoop` or `SkipMainLoop`, the way out `LeaveBootloader`. A USB interrupt while the vector is not
the bootloader's is `MisroutedInterrupt`.

A page is asked for at its start, where the hosts of this repository ask for it, or, under `LossyBus`, at any of
`StrayStarts`: `usbFunctionSetup` takes whatever address the request has. Where packets end (`Accepted`), how they run
over the end of a page (`Filled`) and when the write is fired then follow from the code. Odd byte addresses and
addresses behind the end of flash are left out. A write that was asked for behind `BOOTLOADER_ENTRY` can change the
bootloader (see findings); what the CPU makes of such a bootloader is not modelled, and the model ends there (`WrittenOver`).

Abstractions: two 8-bit halves of a word are not told apart (packets are whole words); the value of
OSCCAL in the tiny table is one word; registers that no modelled step reads (clock, LED, watchdog, OSCCAL
itself) are left out; the device info is a constant answer.

### `Vectors`

The ATtiny167 has vectors of two words: a `jmp` with its target behind it, or an `rjmp` and a nop where the
linker could shorten it; a page of 128 bytes; and twice the flash an `rjmp` reaches. `bootloader.c` has code of
its own for these parts, in `usbFunctionWrite` (`Remembered`) and in `writeWordToPageBuffer` (`Patched`). The
module follows one upload without faults from the erase to the jump into the application; the loop and the
faults around it are those of `Bootloader`. `FlashWords` is twice `Reach`, so that the two kinds of
wrap-around differ as on the part.

### `UsbDriver`

The interrupt routine stops the main loop from the token of a transaction to its handshake, so a
transaction is one step; `usbPoll` is split where the routine can come in between: looking at
`usbRxLen`, processing, freeing the buffer, building a reply, looking for a reset. Packets carry the
request they belong to and their number instead of bytes. The host controller is part of the module:
it knows toggles, tries and timeouts.

### `Osccal`

A chip is a function from the values of OSCCAL to the number of times the counting loop runs during a
frame, which is all the routine learns of it. Registers have eight bits and `cnt16` sixteen. `Reset` sets the
registers up as the routine does, which leaves `opV` with whatever its register held (`Leftovers`); `Search` is one
turn of `usbCOloop`; `Finish` sets the result. The history `fine` has the values that count: those of
the turns from the seventh on, where the step cannot be halved any more.

Left out: the noise of a measurement, and the wait for the strobe of a frame, which has no end on a bus
that is idle. The precondition of the strongest claim is explicit: the oscillator reaches the target in the half
of the register the first measurement chooses (`InReach`), and there its frequency does not fall and
changes by no more than 127 counts, about four percent, per step (`Gradual`). Of an oscillator that does not reach the
target nothing more than `BestTried` is said: one that is too slow even at 255 makes the routine try 0
and 1 as well, and as only the low byte of the deviation is compared, one of these may win.

### `Upgrade` and `Replacement`

`flash` is the whole memory, bootloader included. `pc` names the functions of `upgrade.c`: `secure` is
`secure_interrupt_vector_table`, `replace` is `write_new_bootloader`, `forward` is
`forward_interrupt_vector_table`, then `reboot`; `bootloader` is the time in which the device belongs to a bootloader,
`lost` that in which nothing sensible runs. `words` is the page put together in RAM (`vector_table`,
`page_buffer`); `page` and `erased` say how far the loop over the pages is. An erase and a write are one
step each. The old bootloader may leave words in the page buffer (`StartUpgrade`), which `upgrade.c` does not
clear.

`Replacement` is the abstract view: somebody is in charge of the device, and it passes from `old` to `upgrade` to
`new`. `Upgrade` implements it with `inCharge <- ResetRuns(flash)`, computed from where a reset
lands and from every word of the code found there, and `accident <- unsafe`: an operation on page 0 that was torn, or
words left in the page buffer.

### `Upload`, `Mnflash` and `Micronucleus`

Each `usb_control_msg` is a step that sends the SETUP packet, the data packets the bootloader takes in
its own time (`Packets`), and a step that hears the result. At any time the call can fail instead
(`PageError`, `EraseLost`, …), whatever has reached the device by then. `mnflash` tries a page again,
gives up and goes on; `micronucleus` fails and may be run again (`Rerun`). `connected` is the handle of the
device: it leads nowhere once the bootloader has left its loop, since the device that comes back is another one to
the host. The histories record what has reached the device (`arrived`: an erase, a page, an execute; `erased`), what
was reported (`acked`) or given up (`missing`), whether a page transfer broke off (`broken`), and whether power has
failed since a request arrived (`cut`).

Power may fail at any step of `mnflash` (`PowerFails`), between page operations: torn ones are the subject of
`Bootloader`. The device then starts anew, into its application if a start pin says so (`GatedStart`), and is another one to the host.
In `Micronucleus` the device stays powered. There the first search ends after `--timeout`, if it was given (`TimesOut`; the
default is none), and the second, after an erase that failed, never does; a device whose info cannot be read ends
the command (`InfoFails`, the `assert` of `micronucleus_connect`).

`Mnflash` is `main` of both commands. The device is as shipped or runs an application (`OldFirmwares`);
`mnflash-switch` (`Switches`) finds the application, asks it to go into the bootloader (`Switch`, whose result
nobody looks at) and looks for the device again. `loads` says whether the search for firmware succeeds, which
`Images` models. What a string filter accepts, and the arguments, are left out. The commands differ in
`FindApplication` and `Switch` only; the run has `Switches = TRUE`, and behaves like `mnflash` where it finds a
bootloader at once.

### `Images`

`tool` is the program; `disk` has the files, `search` the names tried in turn, `nth` the one at hand; `pc` is the loader at
work, `pos` its place in the file; `blob` is `mnflash_firmware_t` or micronucleus' `dataBuffer` with its two
addresses; `linebuf` outlives a line, as in the code; `outside` records a store outside the allocated memory.
A file is taken apart into records, sections or words, and a cell stands for a byte or for a word. A record is
damaged, short, unknown or without its mark by choice of the instance. `Files` says what a file can be and
`FilesAssumption` what the code relies on: a record fits into a line and its address has 16 bits, which is less than
the largest image of mnflash and of `dataBuffer`. An empty file is a HEX file without records. `SizeAssumption` has the
relations of the sizes: a chunk of a raw file is a unit of memory, and the largest image is an even number of
units. This matters: memory grows by two units when a chunk begins at its end, so with an odd number a raw file that
fits would be given up.

`Acceptable` is what `mnflash_ihex_load` asks of a record, and no more: one that gives an address may be too short for it, because
`hex2word` never fails (`load-ihex.c:66`), and the sum of a line that is cut short is not looked at (`:121`). `Sound` is the
same, said of a whole file. What a program does after a store outside its memory is not followed: the store is
lost and noted in `outside`.

The reference is `FileImage`: what the file says, read as a whole. The preconditions are explicit: `Whole` excludes
records that were cut off (accepted by `load-ihex.c:121`, whose check compares too little) and extended addresses
(without effect, `load-ihex.c:93`). `PlacedAlike` excludes ELF files whose `.payload` or `.payloadvectors` ends, as it
is loaded, in an allocation unit behind the one in which it ends as it is linked (`load-elf.c:49` makes room at the one
and stores at the other), those without `.text` and those larger than the largest image. `Ascending` is needed because
`end` is that of the last record read. For `StoresInBounds` a raw file for `micronucleus` has to fit into `dataBuffer`.
`Overruns` has the files at the other extreme: the payload ends behind every unit that was asked for. For these
`StoresInBounds` says the opposite, that they are never loaded without a store outside.
Left out: the entry address, the name of the application, the CR of a line end, sections of the same name.

## Runs

| Run | Question | Bounds |
|---|---|---|
| `bootloader` | Two applications are uploaded, erased and replaced while power fails between and inside page operations: does the device come back, is each page the one sent, are vectors and table right, is a USB interrupt of the application its own? Also checks the inductive invariant of the proofs. | 2 pages of 3 words, packets of 1, two images |
| `bootloader_timer` | Timer build; transfers break off and start at stray addresses, packets are delivered twice: does only a page write behind its entry change the bootloader, is there one job per poll, does a silent bus end in the application as long as the bootloader is whole? | 2 pages of 3 words, packets of 3, stray starts inside page 0, at the entry and behind it |
| `bootloader_stale` | Violated on purpose, see findings. | 2 pages of 4 words, packets of 2 |
| `usb_clean` | No errors, other devices and bus resets: is every packet processed once and in order, is no SETUP refused, do the addresses agree, are replies whole, does every transfer end? | 2 transfer numbers, replies of 1, 2 and 4 bytes at 2 per packet, writes of 1 and 2 packets |
| `usb_missed` | Lost packets, answers and resets, timeouts, and at last a token that is missed: is nothing of an abandoned transfer sent into the next one before that? | 2 transfer numbers, replies and writes of one packet, 2 tries |
| `mnflash` | The command finds an application or a bootloader and uploads; every request may fail before, inside and after its packets, power may fail, a start pin may start the application: is what was acknowledged in flash, is a complete upload complete and does it run, is an application that runs the old one or the new one up to the first page given up, does the command end? | 3 pages of 6 words, packets of 3, 3 retries, 2 attempts, 7 firmware lengths |
| `upload_table` | Violated on purpose, see findings. | as `mnflash` |
| `micronucleus` | The command with failing requests, run twice: does success after an erase that arrived mean that the program is there and runs, does it end or wait for a device that has left? | 3 pages of 6 words, 5 program lengths |
| `upgrade` | Power fails before, inside and after every page operation of `upgrade.c`: does the device pass from the old bootloader to the upgrade to the new one, and does an upgrade on steady power end there? | 8 pages of 4 words and the bootloader, two new bootloaders |
| `images` | Files of every format, whole, damaged and around every allocation boundary, by path or by search in a directory: is the image the file's, does it stay in its memory, unless an ELF file is loaded behind the room made for it, is the first sound file taken? | units of 4 cells, up to 3 records out of 12, raw files to 17 words |
| `vectors` | Violated on purpose, see findings. | 2 pages of 12 words |
| `osccal` | The calibration at full width: does it end at the best value it tried, is that the best of the half, does it stay within the limits of the chip? | about 1900 oscillators |

### Why the bounds are enough

`bootloader`: the bootloader treats only page 0 (vectors) and the last page (tiny table) differently. Three words are the
least that hold the table, and with the USB vector at word 1 they hold both vectors and a word
of the application; three packets make a page that breaks off at its start and in its middle. Power failures
leave any subset of a page's words. A page in between is in the host runs, which have three, and the theorems are about
any number. Two images with different vectors and a blank tail show a mixture of old and new. `StoreOsccal` is
off here, so that the table's third word is the application's; it is on in the timer and host runs.
Idle limits (5, with 3 after an execute, modulo 6) keep the order of the real ones: the
counter neither wraps before the limit nor starts above it.

`bootloader_timer` has packets that fill a page, so that five polls are enough for a page, its packet once more and the next
one over it, all before the timer runs out. A transfer that starts at word 2 of page 0 runs over the end of the page,
leaves words in the buffer and straddles the bootloader's entry with its next packet; one that starts at the entry (word 6) writes
the page below it; one that starts behind it (word 9) writes a page of the bootloader. Transfers that break off inside a
page are in `bootloader_stale`, whose pages are two packets.

The host runs use six words, so that the table does not fill its page and firmware can end in every
interesting place: in page 0, in the middle, exactly before the table's page, in that page, behind the start
of the table. Three retries have a first, a last and one in between; two attempts are a loop that goes on once and ends
once.

Two transfer numbers in the USB runs tell a packet of the last transfer from one of the current one; two
packets show a swap of the buffer halves and the end of a reply that fills its last packet. At most one token is
missed: the property is about what happens before.

`upgrade`: the vectors take one page and their padding a second, the bootloader ends inside a page of its own, and its start,
the tiny table, lies inside a page. One new bootloader is shorter than the old one, ends inside a page and has no
vectors of its own; the other is longer, ends with its page and its vectors need two pages.

`images`: with units of four cells there are records before, at and across the end of a unit; three records are enough
for overlap, gap and disorder at once. Raw files end before, at and behind a chunk, a unit and the largest
image.

`osccal`: the register and its search are not scaled down. The oscillators cross the target at each of the 256 values,
with two steepnesses (one at the limit of `Gradual`), with and without the second range of the ATtiny85, with dents in
the line, and out of reach; the theorem is about all functions.

### Fairness

* `WF(Device)`, `WF(usbPoll)`, `WF(Steps)`, `WF(DeviceRuns)`, `WF(StartUpgrade \/ Program)`: the CPU does not stop
  and its loop has no wait.
* `WF(Transaction)`, `WF(EndReset)`: a host controller goes on with a transfer until it is done and does
  not hold the bus in reset for ever.
* `SF(Packets)`, `SF(Transfers)`, `SF(Main)`, `SF(Command)`: a packet can be taken only when the loop is in `usbPoll`;
  the host controller repeats a refused packet until it is, and the host programs have no wait without
  an end. This is strong fairness because the device is in `usbPoll` again and again, not all the time.
* Nothing is assumed of the bus or the power in `Bootloader` and `Upgrade` except in `AutoExit` and
  `EndsInNewBootloader`, which say what happens once they are steady; `RunsInTheEnd` is excused by a power failure (`cut`).
* Nothing is assumed of the searches of `micronucleus` that have no timeout: `CommandEnds` says that the command ends or
  waits for a device that has left its bootloader (`WaitsForDevice`).
* `Osccal`, `Images` and `Vectors` are sequential and have only safety properties.

`CHECK_DEADLOCK` is nowhere switched off: a device or a program that has ended goes on in a step that
changes nothing, or starts anew.

## Findings

* **Stale page buffer** (`bootloader_stale`): `eraseApplication` fills the page buffer without clearing it.
  After a transfer that broke off, the vectors are combined with the words left behind and page 0 leads
  nowhere. The fix is a call of `__boot_page_fill_clear` before `fillFlashWithVectors`. The same happens when
  the `micronucleus` command is run again after a failed write, which `commandline/Readme:19` recommends; `SuccessIsThere`
  and `ProgramRuns` therefore say nothing of a device in which a page transfer has broken off (`broken`). Within
  one run of `mnflash` the words do no harm as long as no page is given up: it erases before its first page, and a page
  that broke off is sent again before anything else.
* **Table page** (`upload_table`): `uploader.c:202` sends the extra last page only if the page behind the
  firmware is below the tiny table's. It has to be "not above": with firmware that fills the page before,
  the table stays blank and the firmware never runs.
* **Vectors of four bytes** (`vectors`): `bootloader.c:408` adds `APP_USB_VECTOR_OFFSET` to the target of the USB
  vector, the place of the entry in the table, where `APP_VUSB_OFFSET` is meant: the interrupt of an application
  whose vector is a `jmp` is entered four words late. For an `rjmp` a second mistake, the number of the vector instead
  of its word, cancels the first as long as that number is 4. With `APP_USES_VUSB` at 16 MHz the offset is
  meant to be 4 and happens to be right.

Met on the way, without a run of their own:

* `bootloader.c:527` says "make sure we don't write over the bootloader!", which holds for writes that start below
  it and for no others. A write asked for behind `BOOTLOADER_ENTRY` fills no word, but leaves `currentAddress` where it
  is (`:463`, `:526`); at the end of a page the event fires all the same (`:539`) and the page below
  `currentAddress`, one of the bootloader's, is programmed with what the page buffer holds. No host here sends such a
  request. `BootloaderKept` states both: nothing but this changes the bootloader.
* `bootloader.c:656` says of erase and write that "usually both of these will activate in the same loop". They never do:
  `usbPoll` hands over one packet per turn, a request or data, and the events are cleared after each (`OneJobPerPoll`, proved
  as `OneJob`). The host has to wait for the longer of the two, not for both.
* `micronucleus.c:216`: after an erase that ended in an error the command reconnects and writes. When the request had not
  arrived, pages are programmed over what was there, and the command reports success. `SuccessIsThere` and `ProgramRuns` say
  nothing of this case (`erased`); `uploader.c:107` of `mnflash` ignores the result of its erase with the same
  consequence (`"erase" \in arrived`).
* `micronucleus.c:226`: the search after such an error has no timeout, and `--timeout` is 0 unless given (`:74`). When the
  device is in its application by then, the command does not end.
* `load-elf.c:49` makes room for `.payload` where it is linked and stores it behind `.data`: with enough initialised data it
  is stored outside the memory (`StoresInBounds`, second part).
* `load-ihex.c:66` tests `hex2byte(...) >= 0`, which always holds, so the error branches from line 191 on are dead and address
  records that are too short are accepted.
* `bootloader.c:195` calls the code at `BOOTLOADER_ENTRY` a safeguard against an erase without a write of the
  vectors. A reset does come back, but the USB vector is blank then, every interrupt slides into the reset
  code, and no host reaches the bootloader any more. `UsbDeadOnlyWhenErased` bounds the damage to
  this one case.
* `uploader.c:148` refuses firmware of exactly the size it reports; `uploader.c:189` logs a page that was lost
  and returns 1; `mnflash` exits with 0 whatever `mnflash_upload` returns; `mnflash-switch` leaves a jumper build in
  the bootloader when there is no firmware for it.
* `my_filter` of `mnflash-switch` rejects a device only if both its ids differ, and takes a prefix of a
  string for the string.
* `upgrade.c` does not clear the page buffer. The upgrade still ends well; a power failure in its middle may
  find a reset vector that lost bits.
* `load-raw.c:90` refuses files with four-byte vectors; `load-ihex.c:121` accepts a line that was cut short; an empty HEX file
  is an image.
* `micronucleus_lib.c:104` assigns in a condition; `micronucleus_lib.c:152` expects pages of 64 bytes and fails
  on the ATtiny167; the Ruby uploader never sends the last page of a short program, so its table stays blank.

## Proofs

All theorems are for all values of the constants that satisfy the assumptions of the modules they are about.

### Bootloader

`AvrFlashProofs` has the arithmetic of pages and offsets, the types of the flash operations, and where
control lands on a given or a blank reset vector. `BootloaderProofs` uses it. The assumptions are
those of `AvrFlash` and `Bootloader`: at least two pages of
three words that are whole packets, a USB vector in page 0, a flash larger than the bootloader's entry,
ordered idle limits, at least one image.

* `TypeCorrect`: `TypeOK` always holds. It is inductive; one case per action.
* `Kept`: `BootloaderKept`, the bootloader's words change only in the write of a page that was asked for behind its entry,
  on any bus, with any `StrayStarts` and torn page operations. Every step either leaves the flash alone or performs a page
  operation, in whole or in part (`FlashStep`); for a write the page is that of `currentAddress - 1`, and
  `currentAddress` is above `Entry` only if the request was (`AddressInv`), because `Accepted` stops there
  (`BootloaderOutOfReach`).
* `Intact`: if every stray start is at most `Entry`, the bootloader never changes.
* `Safe`: `SafetyInv`, the inductive invariant described below.
* `WayBack`: on a bus that delivers whole pages, a reset leads to the bootloader at every moment, unless a
  rewrite of page 0 was torn.
* `OneJob`: on such a bus no poll has both an erase and a write to do, and pages are written at their end.

`ResetReachesBootloader` is not inductive: it says where a reset leads now, not why it will still do so
after the page operation in progress. `SafetyInv` adds what is needed. `EraseInv`: while the erase runs,
every page from `erasePage` up is blank, so that page 0 goes last. `VectorInv`: the reset vector is the
bootloader's or blank, and blank only if everything is; a write is never pending on a blank page 0
unless it brings the vector. `EventInv`: which events can be pending where. `BufferInv`: the page buffer is
empty between transfers and otherwise holds the host's page, whose word 0, for page 0, is the bootloader's
vector; this is where the bus must deliver whole pages, and `bootloader_stale` shows what happens if it
does not. The lemma `InvBoots` shows that it implies the property.

The second part of the module adds what the words are. `PageInv`: the page buffer holds the host's page, word by word
as far as it was sent, patched, and a page to be written is the host's. `UsbInv`: the USB vector is the bootloader's
or blank, as the reset vector is in `VectorInv`. `TableInv`: what `vectorTemp` and the table remember are places where
a vector of an image led. `MagicInv`: the magic is there until `LeaveBootloader` removes it. They give `PagesAsSent`,
`EraseLeavesVectors`, `TableLeadsBack` and `DeadOnlyWhenErased` on a bus that delivers whole pages (a transfer that
breaks off leaves words behind), and `AppHasUsb`. `TableLeadsBack` is weak where page 0 was not sent in the session that
wrote the table: `vectorTemp` may then be another application's, and all that is said is that some image led there. What
the table holds after a whole upload is in the theorems on the host programs.

### USB driver

`UsbDriverProofs` proves every safety and action property of `UsbDriver` that the runs check. Two inductive
invariants do it. `BusInv` holds on any bus: `HandInv` (what lies in the buffer is the packet that was
acknowledged last, and the interrupt routine cannot touch it until `usbRxLen` is zero), `TokenInv` (`usbRxToken` is its
token unless one was missed) and `ServedInv` (the driver serves the transfer of the host, or one that was
given up and whose answers are gone). It gives `HandsOver`, `TokensMatch` (no token missed) and
`NothingStale`; `DriverTyped` has types and the stages of a transfer. `CleanInv` adds, on a bus without errors, how
addresses, the packets of a page and the rest of a reply correspond between driver and host at each step; it
gives `WritesInOrder`, `SetupAccepted`, `AddressesAgree`, `AddressForgotten` and `RepliesInOrder`.

### Upgrade

`UpgradeSafe` proves `UpgradeInv` (and types) for every layout and every new bootloader, and `UpgradeHandsOver`
that `Upgrade` implements `Replacement`: the initial states map to `old`, and each step to `TakeOver`, `HandOver`, a
stutter or an accident. `UpgradeInv` says for each place of the program who is in charge and how far it has come:
before and after `secure` page 0 is the bootloader's, blank, or leads to the upgrade; while it is blank control slides
through the padding of the vectors into the upgrade; `replace` has written every page below `page`;
`forward` starts with a complete new bootloader. The upgrade program lies in none of the pages it writes, because the
layout puts it between the padding and the page of the tiny table.

### Calibration

`CalibrationTunes` and `StaysWithinSpec` hold for every oscillator, target and initial register. The inductive
invariant `SearchInv` ties the step to the turn (`ScheduleInv`), keeps the best of the values that count (`BestInv`),
and brackets the target (`NearInv`, `LimitInv`): each turn halves the bracket, so that the last turns try both of the
neighbouring values between which the target lies. On a gradual oscillator their deviations are below 255, so the low
byte tells them apart.

### Host programs

The theorems of `MnflashProofs` and `MicronucleusProofs` hold for every number of pages, firmware, number of tries, of
attempts and of runs, on the assumptions of `Bootloader` and three more (`UploadAssumption`, `MnflashAssumption`,
`CommandAssumption`): outside its range an image is blank, the blank image is an image, and for `micronucleus` the
tiny table does not fill its page.

* `MnflashSafe`, `MnflashTyping`: the inductive invariant and types.
* `Acknowledged`: `AcknowledgedIsThere`, retries are harmless.
* `Uploaded`: `UploadIsThere`, an upload that returns 1 without a page given up is complete, provided that the erase request
  arrived and power was steady.
* `WholeRuns`: `RunsWhole`, an application that runs is the old one, untouched, or the new one up to the first page that was given
  up, whenever power fails and wherever the command stops. Its hypothesis is `~TornPages`: a page operation that power
  interrupts has happened or has not. What a torn one leaves behind may be entered when the start pin says so, and no
  order of page writes could prevent it. An erase request that was lost is excused.
* `CommandSafe`, `CommandSuccess`: the same for `micronucleus` (`SuccessIsThere`), whose pages are not tried again, once the
  erase request of the run has reached the device and as long as no page transfer has ever broken off.

The invariant of the bootloader does not carry over, because the host gives up transfers in their middle and words stay in
the page buffer. The last part of `BootloaderProofs` has what both hosts need. `DeviceInv` holds whatever the bus brings.
`HostInv(im, P)` describes a device that is being filled with the image `im` after an erase:

* the erase leaves every word `Bare`: blank, or the bootloader's own vector in page 0 (`ErasingInv`, `WrittenInv`);
* later each word is `Bare` or `Due`, what `im` and the bootloader make of it, and programming a word that
  is due over either gives the word that is due, as often as one likes (`DueWords`). So a page written twice does no harm;
* words left in the page buffer are due words of the page on the bus, `P` (`Leftover`): a transfer that breaks off is
  followed by one of the same page, whose words are the same;
* pages arrive from the lowest on, so the vectors of page 0 are remembered before the table's page needs
  them (`MovingInv`, `PendingInv`), and the application runs only when all words are there (`RunsInv`).

`MnflashInv` and `CommandInv` tie this to the host: which pages were acknowledged at which step (`AckedInv`), that
each of them is in flash or about to be written (`FilledInv`, `Delivered`), that the page on the bus is the one at
hand (`SendingInv`), and, for `RunsWhole`, that a device nothing has reached is as it was (`UntouchedInv`). That
the table's page goes last is used where `EndsBeforeTable` is excluded: there `mnflash` does not send it.

### Images

`ImagesProofs` proves every property of `Images` for all files, disks, devices and sizes that satisfy `SizeAssumption` and
`FilesAssumption`: `ImagesSafe`, `ImagesTyping`, `InBoundsAlways` (`StoresInBounds`), `ImageIsFile`
(`ImageAsFile`), `RangeIsFile` (`RangeCoversFile`) and `SoundFileFirst` (`FirstSoundFile`).

`InBoundsAlways` has two sides. `LoaderInv` shows that nothing is stored outside the memory as long as ELF files are placed
alike; `OverrunInv` that the section at which a file overruns is stored outside.

The other properties speak of files that have been read to their end. The inductive invariant says what memory holds in
between: what the part of the file that was read describes (`HexLoads`, `ParseLoads`, `ElfLoads`, `RawLoads`). This is
why `HexImage` and `ElfImage` take the number of records or sections read; `HexStep` and its like add one. `StageInv`
adds what it means to be with a later loader: the earlier ones have found the file unsound. `TriedInv` says the same
of the files passed over.

The arithmetic of units is in a few lemmas. `UnitAbove`: the unit above an address holds the cell at it. `UnitsHold`:
what ends in no later unit than its linked place finds room, which is why `PlacedAlike` is enough. `RawRoom`: memory
of a raw file grows by two units, so `resize` refuses only what is larger than `MaxData`.

### Only model-checked

* Liveness: `AutoExit`, `Completes`, `RunsInTheEnd`, `Exits`, `ProgramRuns`, `CommandEnds` and
  `EndsInNewBootloader`. Fairness and `ENABLED` are beyond the proof system.
* All of `Vectors`, whose one run is a violated one, and `UploadedRuns`, which is false. `VectorsAfterErase`, false on a bus that
  breaks transfers off (`bootloader_stale`), is proved for one that does not.

## Not modelled, and why

* the receiver (`usbdrvasm*.inc`): correct by counting cycles, which a state machine over packets cannot say;
* electrical behaviour, CRC errors that go unnoticed, how long a page operation takes against a timeout;
* registers no modelled step reads: clock prescaler, OSCCAL restored at the exit, watchdog, pull-ups, LED;
* `osctune.h`: an alternative calibration that no configuration includes;
* enumeration, strings and filters on the host, arguments, progress output, `mnflash_firmware_dump`;
* the Ruby tools (an older uploader with the same requests), the build files (they choose the constants), binaries.

## Plan

Done, in this order: `AvrFlash`, `Bootloader` and its proofs, `UsbDriver`, `Upload`, `Micronucleus`; `Upgrade` with
`Replacement` and its proofs, `Images`, `Mnflash`, `Vectors`, the proofs of contents and of the driver, `Osccal` and its
proofs; the proofs of the host programs and of the loaders.

What is left is `Flasher`, the abstract specification of the bootloader: whole pages that are blank or written as sent,
a device in the bootloader or in the application, with a theorem that `Bootloader` implements it. The theorems about
contents are its steps.
