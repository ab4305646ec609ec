# m5z700AtomHDMI in TLA+

m5z700AtomHDMI is an emulator of the Sharp MZ-700/MZ-80K home computers for the
M5Stack boards: a Z80 core, the machine's memory map, cassette deck and 8253
timer, a drawing thread, and several kinds of keyboard, Bluetooth among them
with its own HCI/L2CAP/HID stack.  This directory models its stateful parts, checks
them with TLC on small instances, and proves the most important facts for every
value of the constants with TLAPS.  Paths below are relative to
`src/m5z700AtomHDMI/src/`.

## 1. Inventory

### Threads

| thread | what it runs |
|---|---|
| main loop (`mainloop`, Mzmain.cpp 970-1146) | `Z80_Execute`, then key sources, `hid_update`, menus, serial commands, in this order, for ever |
| drawing thread (`scrn_thread`) | draws what the main loop marked; asked by a flag to stand still while a menu is shown |
| Bluetooth controller task | calls `notify_host_recv` / `notify_host_send_available`, which put packets in a queue |
| USB host | no thread of its own: polled from the main loop, but completes transfers through callbacks |

Inside the main loop everything of the emulated machine is sequential: the Z80
stands still while a menu or an image load runs.  What is hard there is not
interleaving of threads but of *state machines that share counters and
settings*: cycle counters that wrap, derived tables, cached modes, devices that
are read a byte at a time, in whatever order the Z80 program likes.  True
concurrency is in the Bluetooth queue and in the drawing thread.

### Components

| component | state | operations | what makes it correct |
|---|---|---|---|
| **Memory banking and reset** (MZhw.cpp 299-367, 442-509, 918-978, 1421-1498; Mzmain.cpp 769-849, 2086-2232) | `memctrl`, `memptr`, `mem`, `mzConfig.mzMode` | OUT E0H-E4H, reads and writes, ROM load and reset, image load | three separate memories behind two switches; no derived entry left over; machine type follows the ROM |
| **Cassette deck** (MZhw.cpp 134-296, 825-912, 1097-1232; Mzmain.cpp 1979-1990, 2112-2136) | the tape fields of `ts700`, motor bit, the window `tapeDataBuf`, the tape file, CPU speed, progress | motor bit, sampling, choosing a file, reset | the tape moves by the CPU's time; what is heard is what lies at the position; it ends |
| **Interval timer** (MZhw.cpp 518-657, 1012-1063, 1245-1324) | `_8253_stat[3]` | control words, byte loads, byte reads, the beat | an exact periodic countdown that may be looked at |
| **CPU interrupts and cycles** (z80.c 2295-2332, 2386-2537; MZhw.cpp 1510-1536; Z80Codes.h 12-23) | `cpu_tstates`, `pit_tstates`, IFF1, IFF2, IM, HALT, `Z80_intflag` | a pass of `Z80_Execute` | no time lost, requests served, HALT ends |
| **Packet queue** (hid_server/hci_server.cpp 330-370) | ring, two cursors, mutex | `read`, `write` | a bounded FIFO; asserts hold |
| **Z80 instruction core** (z80.c, Z80CDx86.h, Z80Codes.h, Z80DAA.h) | registers, memory, IFF, HALT | every opcode; `Z80_Execute`, `Z80_Interrupt`, `Interrupt` | programs compute what they should, interrupted or not; flags mean what the arithmetic does |
| **HCI link** (hci_server.cpp 770-1393) | `_state`, devices, link keys, two packet queues | start-up handshake, inquiry, names, connections in and out, authentication, events | reaches and keeps a connection; the host's idea of a link is the controller's |
| **L2CAP** (hci_server.cpp 416-721) | per device: sockets, flags, reassembly | open, close, signalling, data | channels open when both sides agreed; a socket is its device's for good |
| **HID host** (hid_server.cpp) | `InputDevice`s, SDP buffer, Wii slots | connect, events, reports, disconnect, `hid_get` | reports come out in order and once; a device that is gone leaves nothing behind |
| **Bluetooth transport** (hci_transport_esp32.cpp) | - | callbacks of the controller, `hci_send` | one packet offered at a time |
| **Keyboard** (Mzmain.cpp 1218-1703, 2601-2629; MZhw.cpp 385-422) | `keyports`, delayed key, counters, flags | key sources, `keyCheck`, `keyboard` | whole strokes; every key pressed is released; what is typed comes out |
| **USB keyboard** (Mzmain.cpp 45-100, 1052-1060, 2710-2776; usbhhelp.hpp) | ready/polling flags, transfer | enumerate, poll, callback | what is held is what is down |
| **Screen** (Mzscrn.cpp; Mzmain.cpp 1195-1213) | two flags, strip | request, draw, suspend | what is shown catches up with the video RAM |
| **Menu, file selection** (Mzmain.cpp 1705-2031, 2249-2534) | selection index, configuration | buttons | index in range; actions leave keys, mode and screen consistent |
| MZT images (Mzmain.cpp 2086-2232, 2632-2707) | files | load, save | what was saved loads again |
| PWM tape encoding (MZhw.cpp 167-296, 760-819) | bit cursor | `makePWM`, framing | decodes to the file |
| Sound, PCG, fonts, panel set-up, status area, disassembler | - | output or data | - |

How they interact: every instruction adds its cycles to `cpu_tstates`
(`M_CSTATE`), which drives the timer (`Z80_Interrupt`, before each instruction)
and the tape position (`cmt_read`, when the program samples).  The page table
routes E000H-FFFFH to `mmio_in`/`mmio_out`, which is how a program reaches deck
and timer.  A turning tape (`ts700.cmt_tstates`) switches the wait states of
memory off and speeds the CPU up.  `mz_reset` clears all of them but not the
settings that live elsewhere (`sysst`, the window, the CPU speed).  The menu
loads ROMs and images with the Z80 standing still.  The HID host calls down into
L2CAP and HCI and is called back by them, all inside `hid_update` and `hid_get`
on the main loop; only the queue is filled from elsewhere.  All key sources meet
in one matrix and, but for HID keyboards and the stick, in one delayed key.

## 2. Modules

| module | what it is |
|---|---|
| `BankedMemory` | abstract: ROM, video RAM, 64K RAM, two switches |
| `MemBank` | memory banking; implements `BankedMemory` |
| `MCMemBank`, `MemBankProofs` | small instance; theorems |
| `CassetteDeck` | abstract: a deck with a position, heard where it stands |
| `Cmt` | the cassette deck; implements `CassetteDeck` |
| `MCCmt`, `CmtProofs` | small instance with fairness; theorems |
| `Countdown` | abstract: a periodic alarm that may be looked at |
| `Pit` | the 8253; counters 1 and 2 implement `Countdown` |
| `MCPit` | small instance |
| `TimerInterrupt` | the loop of `Z80_Execute` composed with `Pit` |
| `MCTimer`, `TimerInterruptProofs` | small instance; theorems about it and about `Pit` |
| `Z80Alu` | flags, arithmetic, rotations, DAA: operators on bytes and words |
| `Z80Core` | registers, operands, every opcode and prefix, EI, HALT, `Interrupt` |
| `Z80Program` | abstract: a program runs as if there were no interrupts |
| `Z80Machine` | the core running programs that are interrupted; implements `Z80Program` |
| `MCZ80`, `Z80MachineProofs` | programs in machine code with their results, and every opcode by itself; theorems |
| `BoundedFifo` | abstract: a bounded queue |
| `PacketQ`, `PacketQProofs` | the Bluetooth packet queue, implements `BoundedFifo`; theorems |
| `L2cap` | `BTDevice`, `L2CAPSocket`: operators on the state of the host |
| `HidHost` | `InputDevice`, SDP, Wii slots, `HIDSource`: operators that call those of `L2cap` |
| `BtController` | external: the controller of the ESP32 and the devices around it |
| `ReportPipe` | abstract: reports come out in order, once |
| `Bluetooth` | `HCI` and the main loop with all of these; implements `ReportPipe` |
| `MCBluetooth`, `BluetoothProofs` | eight scenarios with two remotes and a telephone; theorems |
| `ReportPipeProofs` | that `Bluetooth` implements `ReportPipe`, a theorem |
| `Keystrokes` | abstract: one stroke after another |
| `KeyScan` | the key matrix, `keyCheck` with its sources, `keyboard`: operators |
| `Screen` | the drawing thread and its two flags |
| `Console` | the main loop with keys, USB, menus and screen; implements `Keystrokes` |
| `MCConsole`, `ConsoleProofs` | nine scenarios with entries of the real key tables; theorems |

Names are the source's.  A definition marked "Mutant" is a plausible mistake in
the definition after it; no run uses it, it exists to show that a property
would notice.

### MemBank
`mem` is the one buffer of `mz_alloc_mem` (5 pages of ROM space, 2 of video
RAM, 32 of RAM); the code's offsets are all whole pages of 800H, so
`memptr[i]` is a buffer name and a page number.  `memctrl` and `memptr` are kept
as two variables although `update_membank` derives one from the other, because
that they agree is what `BankTable` says.  `Z80_Out` rewrites the entries the
OUT rewrites and calls `update_membank`.  `LoadRomAndReset` is `monrom_load`,
`set_mztype` and `mz_reset` together, as the menu calls them; `n = 0` is a ROM
file that is missing.  A block of an image goes to RAM past the table
(`setMztToMemory`); the images satisfy `first + size <= 64K`, which the code
does not check.  Device registers answer `Mmio`.  The program counter and the
registers are not part of this module.

### Cmt
A word of tape stands for its number and the tape it is on (the pulses belong
to the encoding); `Half` is 2^31 and the counters wrap as C integers do on this
machine.  `cmt_read` is three actions, the early return, the end of the tape and
the sampling with its refill.  `ChooseTape` is `set_mztData` and PLAY,
`ChooseMissing` the same for a file that cannot be opened.  The first word of a
tape is never fetched (`preTword` starts at its number), so the leader's first
word is heard as silence: the model keeps that (`Blank`).  `Execute` carries
`MaxGap`, how long the program goes without sampling: a loader samples every
few cycles.  What happens when it does not is run `cmt_late`.

### Pit and TimerInterrupt
`Pit`'s operators act on the record of a counter, so that `TimerInterrupt` can
apply them inside a pass of the CPU's loop.  `counter_out` is left out: it is
the result of `pit_count`.  A control word of counter 3 (read-back, not
supported by the code's array) is excluded.  `TimerInterrupt.Execute` is one
pass: `Z80_Interrupt` (a beat if `cval` cycles have gone by, an alarm if the
counters say so, `Interrupt`), then one instruction.  `ei` is an action of its
own as it executes a second instruction and calls `Z80_Interrupt` again.  A
halted CPU executes its HALT again and again.

### PacketQ
The two cursors are 32-bit and free-running.  Each operation is atomic because
it holds the queue's mutex.  A failed assert stops the program (`aborted`).

### Z80Alu, Z80Core, Z80Machine
A CPU is a record of registers and memory, and an opcode an operator from CPU
to CPU, so that a prefix, an `ei` or a block instruction can apply them inside
a step.  `F` is the set of the flags that are on.  The macros of Z80CDx86.h and
Z80Codes.h are translated as they are written: half carry and overflow come from
expressions over truncated values, `M_ADC` adds the carry to its operand first,
DAA's table is what its 2,048 entries hold, given by rule.  The operators
were compared with the compiled z80.c on some 13,000 random states, and DAA on
its whole table; they agreed.  `Z80Machine.Pass` is one round
of the loop: an alarm may come at each of its two checks.  `seen` is the CPU as
the program sees it: while the interrupt handler runs it stands still.

### L2cap, HidHost, Bluetooth
Everything of the host runs on the main loop, inside `hid_update` or `hid_get`:
these calls nest deeply (an event closes a device, which closes sockets, which
sends packets), so `L2cap` and `HidHost` are operators on a record `h` of all the
host's state, and `Bluetooth` has an action for every packet received, every
packet offered to the controller, and `hid_get`.  `_rx` is a variable of its own
as another task fills it.  A packet larger than one fragment is in two.  A
channel's far end is named by the channel's kind (a device opens one of each),
the record of an SDP answer is abstract, in one part or more.  `BtController` is
external: a controller and devices that keep to the protocol, with limited
numbers of calls, lost links, failures, closed channels and overtaking data; `May`
is the set of all such scenarios.  A device answers a search on its SDP channel
only, one at a time, and sends nothing else between the fragments of a packet.
ACL packets and HCI_AUTHENTICATION_REQUESTED carry a copy of the handle the device
had when they were queued, all other commands an address: the controller gives the
former to the device that has the handle when it takes them.  (The model's request to
authenticate also says which device was meant, for `Astray`; nobody else looks.)
A configuration packet that finds `check_open`'s condition true calls
`socket_changed` each time, so that a channel open already is searched again.
What does not fit into a full queue is lost, as in the code, which ignores the
result of `write`.  The loops over sockets and
devices (`ConnReq`, `AllServiced`, `InquiryComp`) are recursive functions of the
number of passes made.

### KeyScan, Screen, Console
`KeyScan` is operators on the record of the key globals; `Console` calls them
from the main loop, a phase of which is a step: execute, draw, keys, keyboard,
buttons.  A menu is a phase that lasts until an item is chosen.  The joypad's
buttons A and B are never read by the code although they are used: their values
are arbitrary.  `scrn_draw` compares the time with a variable it has not set yet,
so whether it asks for the screen is arbitrary too.  The drawing thread is interleaved with the main loop strip
by strip.  A menu is drawn at once, and the strips still to be drawn may
overwrite it, as nothing in the code makes sure that the thread stands still.
The USB keyboard's transfer is under way, completed, failed, or was never
submitted.

## 3. Runs

| run | checks | bounds and why they are enough |
|---|---|---|
| `membank` | `TypeOK`, `BankTable`, `TypeMatchesRom`, refinement of `BankedMemory` | 2 bytes a page of which a reset clears 1 (cleared and kept bytes both exist); one accessed page of each kind of bank; an image across D000H; two stores and one reset (`MaxStores`): a value is put somewhere and looked for elsewhere |
| `cmt` | types, window, progress, CPU speed, refinement of `CassetteDeck`, `TapeStops` | window of 2 words, tapes of 3 and 2 (longer than the window, with a short last read, and equal to it); clock of 20 values, so that it wraps within a tape; at most two choices or resets (`MaxChoices`) |
| `packetq` | types, asserts, refinement of `BoundedFifo` | 4 slots, cursors of 12 values: three times round the ring, then over the cursor's wrap; two packets tell reordering apart |
| `pit` | types, refinement of `Countdown` | bytes of one bit, so counters of two; loads of one and two bytes, latch, two-byte reads, mode 4 |
| `timer` | types, lag, time kept, requests served, HALT ends | bytes of 3 values, a beat of 3 cycles, instructions of 2, clock of 18 values (a multiple of the beat, which keeps the state space small); no reads, which are in `pit` |
| `z80` | types, results of programs, that they end, the meaning of flags, refinement of `Z80Program` | 128 bytes of memory (addresses beyond are not used); fifteen routines with operands at the edges, an alarm or two at any instruction; each opcode of all seven pages once; ADD, ADC, SUB, SBC, CP on 8 x 8 edge operands with both carries |
| `bluetooth` | types, `SocketsOwned`, `HandleTracksLink`, `SdpAsksOpenChannel`, `WiiSlotsHeld`, `WiiHoldersLinked`, refinement of `ReportPipe`, `HeardOut`, `HeardBack` | two remotes for one slot, a telephone; two handles, so that one is used again, by a remote that is heard while packets for the one before are queued; scenarios of one or two troubles each, since all together would not finish; queues have room for all packets, so that what is proved under `Room` is what is checked here (the full queue is `packetq`'s) |
| `console` | types, refinement of `Keystrokes`, `TypedComesOut`, `QuietAtLast`, `KeyboardFollowed`, `ScreenCatchesUp` | scenarios of which each uses some devices; a key held for the code's 5 rounds; I2C asked every second round instead of every 50th; two strips; bursts of one to three bytes with shifted keys, ESC sequences and unknown keys; both machines' tables |
| `cmt_eject` (violation) | `NoTapeNoMotion` | as `cmt` |
| `cmt_late` (violation) | `HeardIsOnTape` | as `cmt`, with `MaxGap` equal to the window |
| `pit_strobe` (violation) | `StrobeOnce` | as `pit`, one-byte loads |
| `ei_irq` (violation) | `EiChecksIrq` | as `timer` |

What the passing runs show is said at each property, in the module.  The four
violations are disagreements between the code and its own comments:

* `cmt_eject`: the comment at MZhw.cpp:156 says that a file that cannot be
  opened ejects the tape; the callers ignore the result and start the deck.
* `cmt_late`: MZhw.cpp:878 says the bit is taken from the data position; the
  window is refilled once, so a program that waited longer than a window is
  given a word from beyond the array.
* `pit_strobe`: MZhw.cpp:632 says mode 4 pulses one time only; it pulses on
  every tick from then on.
* `ei_irq`: z80.c:2298 and z80.h:130 say that EI checks the IRQ line; it checks
  the timer only, and a pending request waits for the next alarm.

### Limits of the properties
Where the code does something odd that no text in the repository calls wrong,
the property states the exception, in words, where it is defined:

* `FlagsMeanArithmetic` leaves out H of ADC and SBC with carry when the operand
  ends in F, and V when it is 7F: the macros add the carry to the operand first.
* `SdpAsksOpenChannel` is about devices that do not call by themselves: one that
  does while it is being called can get a second SDP channel, taken for open by
  the flags of the first.  It is also about devices with no channel but that one:
  see the next point.
* `HeardOut` is about devices the host calls, `HeardBack` about devices that call.
  Both need links made after the inquiry, and none lost in
  the middle of a packet: the fragments a lost link leaves are counted against
  the next one's first packet.  They need that nothing goes `Astray`: what
  is queued in `_tx` for a link is sent after the link is lost, and reaches the device
  that has its handle by then.  If it is the offer of a channel, that device takes it,
  refuses the host's own request for one of the kind, and its answers set the flags that
  say how far a channel is open, so that an SDP search may go out before its channel is
  configured.  If it is a request to authenticate, that device is authenticated twice,
  with its own request, and `OpenHid` runs twice for it: `_interrupt` then names the
  second channel, which the device refuses, and `hid_get` never reads what comes on the
  first.  Without this exception TLC finds `HeardOut` violated, with two remotes, one
  of them lost.
* `WiiSlotsHeld` says that slots and remotes with a slot match one to one;
  that such a remote still has its link and its channel is `WiiHoldersLinked`,
  which an event lost at a full queue breaks, so that it is checked and proved where the
  queues have room.  The same is true of `HandleTracksLink` and of `ReportPipe`.
* `TypedComesOut` leaves out `!` of the MZ-80, whose key code 0 means "no key" to
  `keyCheck`, and a connected joypad.
* `QuietAtLast` needs a serial line that ended with a byte of no key (its last
  key repeats for ever) and a stick let go before it is unplugged;
  `KeyboardFollowed` and `QuietAtLast` need a USB transfer that really is under
  way when the code thinks so: one that could not be submitted is never retried.

### Fairness
`MCCmt` assumes weak fairness of executing instructions and of `cmt_read`: the
main loop calls `Z80_Execute` again and again, and a program that loads a tape
samples it again and again.  Without the second, a tape never ends, in the code
as in the model, since only `cmt_read` looks for the end.  `TimerInterrupt`
and `Z80Machine` assume weak fairness of a pass of the loop of `Z80_Execute`, and
nothing of the program.  `Bluetooth` assumes that the main loop goes round, that
the controller's task tells when it is ready and answers what it was asked, and
(strong fairness) that it takes a packet if it is offered one again and again;
devices need not do anything but answer.  `Console` assumes that the
main loop and the drawing thread go on, and nothing of people: nobody has to
leave a menu.  `PacketQ`, `Bluetooth` and `Z80Machine` run without a deadlock
check: an assert stops the program, devices may have no more to do, a CPU halted
with interrupts disabled is halted for good.

## 4. Proofs

| module | theorems | assumptions |
|---|---|---|
| `MemBankProofs` | `TypeOK`, `BankTable`, `TypeMatchesRom`; `BankedSpec` | `MemAssumption`: page size positive, images end within 64K |
| `CmtProofs` | `TypeOK`, `WindowFollowsTape`, `ProgressBehindTape`, `SpeedFollowsDeck`; `DeckSpec` | `CmtAssumption`, and `Attentive` |
| `PacketQProofs` | `TypeOK`, `OnlyWrapAborts`; `FifoSpec` | `QueueAssumption`: the ring is smaller than the cursor's range |
| `TimerInterruptProofs` | of `Pit`: `PitTypeOK`; `ClockSpec` | `PitAssumption`: bytes of at least two values |
| | of `TimerInterrupt`: `TypeOK`, `TimerKeepsUp`, `TimeKept` | `PitAssumption`, and `TimerAssumption`: see below |
| `Z80MachineProofs` | `TypeOK`, `FlagsMeanArithmetic` | `MachineAssumption`: see below |
| `BluetoothProofs` | `TypeOK`, `SocketsOwned`, `WiiSlotsHeld`; while the queues have room, `HandleTracksLink`, `WiiHoldersLinked` | `QueueAssumption`, `ClassAssumption`, `HandleAssumption`, `ScenarioAssumption`: see below |
| `ReportPipeProofs` | `PipeSpec`, while the queues have room | the same |
| `ConsoleProofs` | `TypeOK`; `StrokeSpec` | `TableAssumption`, `ConsoleAssumption`, `StripAssumption`: see below |

* **MemBank.**  The invariants are inductive together: the entries an OUT
  leaves are those of one of four tables *if* they were before, and a pointer
  lies in its buffer because the table says where.  `TypeMatchesRom` needs
  `BankTable` as well: a store reaches page 0 of the buffer only through a page
  with the ROM's attribute, which refuses it.  The refinement goes action by action.
* **Cmt.**  `WindowFollowsTape` is not inductive: that the next refill reaches
  the position needs the position to lie between the last word sampled and
  `MaxGap` words on (`PositionAhead`), and that the position is not negative
  needs the tape to end before the cycle counter wraps around within it.
  These are what `Attentive` says: samples come within a window, and no tape
  lasts 2^31 cycles.  With words of about 20,700 cycles that is some 103,800
  words: a 64K program fits, a file of several such programs may not.  `TapeSet` ties the length
  to the tape file.
* **PacketQ.**  `Cursors` says that the packets waiting are those between the
  cursors and that they are at most `QSIZE`; slots of numbers less than `QSIZE`
  apart differ (`SlotsDiffer`), so a write changes no waiting packet.  The write
  that wraps the cursor leaves a queue in order, and every call after it aborts,
  which the FIFO sees as a stutter.
* **Pit.**  `PitTypeOK` is inductive as it stands.  `ClockSpec` follows one
  action at a time: latching and reading leave the counters alone, and a beat
  takes one from `counter2 * base + counter1`.

* **TimerInterrupt.**  `TypeOK` and `TimerKeepsUp` are inductive only together: the
  difference of two wrapping counters tells the lag (`Executed`, `CaughtUp`) while
  the lag is small, and it stays small because the counters are 32-bit integers to
  which a pass adds little.  A beat leaves a lag shorter than the instruction
  before, and the call of the handler does not make that a beat again
  (`Z80_InterruptDoes`).  `TimeKept` follows a pass step by step: interrupt,
  instruction, for EI another instruction and another interrupt; each moves the
  time left by the cycles it takes (`Moves`), and the moves add up (`MovesOn`),
  with `BeatCountsDown` for the beats.

* **Console.**  One lemma for each operator of `KeyScan` says what it does to the
  record of the key globals (`Typist`) and to the key that is down.  `StrokeSpec`
  needs to know what a key that is held may look like (`Stroke`): shift alone, the
  key, or both; and a key that waits for its shift does so in the first round
  only, under shift alone.  Then `Released`, which lets go of shift and of the
  key remembered, leaves nothing behind, and what follows is a new stroke or
  nothing.  This holds while nothing but keyCheck works the matrix: `OnlyTyping`
  says that in a scenario of kind `typing` joypad, HID keyboards and resets stay
  away, and each action but these keeps the stroke as it is (`KeepsStroke`).

* **Z80Machine.**  `TypeOK` says that after any sequence of opcodes, prefixes and
  interrupts every register, flag set, pair and cell of memory holds what fits its
  C type: `R` seven bits, `IM` a mode, pairs sixteen bits, both halves of a pair a
  byte.  It is inductive as it stands; the work is one lemma for each operator of
  `Z80Alu` and `Z80Core`, from what fits a field (`PutByte`, `SetPairType`) to
  operands, arithmetic, the tables of opcodes and the prefixes.
  `FlagsMeanArithmetic` then needs the operands to be bytes and nothing else of the
  state: the macros' expressions over truncated values are compared with the sums
  and differences, and their signed readings, by cases on where these wrap.
* **Bluetooth.**  The inductive invariant is `Sound`.  Of the host it says that
  it is typed (`Host`), that the *claims* of a device, its sockets and the ids its
  `InputDevice` remembers, are ids already handed out and that no two devices claim
  the same (`Own`), and that slots and remotes match (`SlotsOK`).  `SocketsOwned`
  alone is not inductive: an id remembered after its socket was closed (`_sdp` is
  not cleared by a disconnection) must never be handed out again, to another device
  least of all.  Of the queues it says what they hold, and that no answer to a
  command of the handshake is under way before the first of these was sent:
  otherwise the answer's handler would take a flag out of `_state` before it has
  one.  A lemma for each operator of `L2cap`, `HidHost` and `Bluetooth` says which
  of three things a call does: it only queues packets (`Speaks`), it changes
  devices but gives no id (`Minor`), or it gives new ids to one device (`Effect`);
  these compose (`MinorTrans`, `EffectTrans`) along the code's nested calls.
  Queues may lose packets at any point: nothing in the argument needs them to
  arrive.
* **Links.**  `HandleTracksLink` and `WiiHoldersLinked` are false once an event is
  lost, so their theorems are about behaviours in which neither queue ever fills up
  (`Room`; the run never leaves these).  The strengthening (`Trace`) reads the queue of
  events as a history of each link: position 0 stands for the handle the host has, a
  CONNECTION_COMP at a later position for the handle it will have.  A link the host
  is told of is up or its end is told later (`EndsOrUp`); a link that is up is what is
  told last (`UpIsTold`, `UpAgain`); between two things told of one device, or under
  one handle, an end is told (`EndsFirst`), which is why a handle used again before
  the host has heard of the end of the link before does no harm; a connection asked
  for is still to be sent, being made or told of (`Pending`); who is connected is
  known by then (`KnownFirst`).  Only a linked device has data to read
  (`DataLinked`), so no report of before a disconnection takes a slot after it
  (`SlotsLinked`).  The controller's steps fall into six kinds (`LinkStep`), each
  with one event about links at most, the last it tells; the host's handlers either set
  a handle because the first event says so (`Relinked`) or mark a connection whose
  request they queue (`Tracks`).
* **Reports.**  `PipeSpec` is false once a queue is full: when the first part of an
  answer is lost, its rest completes what the part before it announced.  So
  `ReportsInOrder` too is about `Room`.  The invariant (`Piped`, with `Sound` and `Trace`)
  follows a report from the device to `hid_get`.
  - `Counted`: for each device the numbers returned are less than those in its
    interrupt channel, these less than those in `_rx`, these at most the number sent,
    and they increase within each.  A channel that is closed takes its reports along.
  - `Addressed`: when a packet is handled, its handle is that of the device it is
    from.  Handles are used again, and a device comes back while packets of its last
    link are in the queue, so this comes from the history of links (`Trace`).
  - `Apt`, `ChannelsApt`, `Kinds`: no answer to a search is for an interrupt
    channel, where `hid_get` would take it for a report.  The ids of such answers come
    from what the device was told, and that from the host's offers; an id once an SDP
    channel's is never an interrupt channel's (`Clear`, `Proper`).
  - `Contiguous`: the code keeps the channel and the size of the packet under
    reassembly when its link is lost, and the rest of an answer goes where the last
    first part went.  Between a report and the rest of an answer there is always a
    first part of an answer, in the queue or in what the device is about to send.

  A lemma for each operator of the host says that a call neither opens a channel nor
  brings a report (`Mild`), or opens channels under new ids (`Calm`), or is one of the two
  that matter: data that completes a report (`DataPart`, `ReceivedPiped`), and
  `hid_get` (`GotPiped`).  Each step of the controller is one of `PipeStep`'s: it tells
  nothing of reports, sends one, begins an answer or goes on with it.
* **Loops.**  `ConnReq`, `AllServiced` and `InquiryComp` are recursive functions.
  That what each pass keeps holds after the last is proved by induction in the form
  of a set of numbers (`Induction`, `LoopStays`), which the library's theorem on
  well-founded orders of finite sets gives; its theorems that take a predicate as
  a parameter are of no use to the installed provers.

Only model-checked:

* all liveness properties (`TapeStops`, `RequestServed`, `HaltEnds`,
  `RoutinesEnd`, `HeardOut`, `HeardBack`, `TypedComesOut`, `QuietAtLast`,
  `KeyboardFollowed`, `ScreenCatchesUp`): the proof system has no rules for the
  fairness and ENABLED that these need;
* `RoutinesCorrect` and `ProgramSpec`, which are about what particular programs
  compute;
* `SdpAsksOpenChannel`: the flags it depends on are the device's and not the
  channel's, so that a proof would need the whole life of a device that does not call
  (one inquiry, one connection, one name, one search), and that nothing closes a channel
  that went astray.

`MachineAssumption` says that the start states of the routines are typed, as
registers of C are, and that the stack and the scratch cells are memory.
`ScenarioAssumption` says that scenarios are members of `May`;
`ClassAssumption` that remotes are among the input devices and slots are numbered;
`QueueAssumption` and `HandleAssumption` that queues have room for a packet and
handles are positive.

`TimerAssumption` says that an instruction with the call of the handler is not
longer than a beat (114 cycles), and three beats not longer than 2^31 cycles.
The first holds for every instruction but those that touch video RAM twice (21
cycles and two waits of 42): a program that executes nothing else, taking an
interrupt at each, would let the timer lag for as long.

`TableAssumption` says of the key tables that each of the 128 characters has a
key of the matrix or none, that BREAK has one, and that the script ends with E;
`ConsoleAssumption` that terminals and I2C keyboards send characters and the
special keys keyCheck knows.  The tables of the source have this form.

## 5. What is not modelled

* **Z80.** The tables of cycles (`TimerInterrupt` has the cycles, as a set); NMI,
  never raised; mode 2 interrupts wait for a flag nobody sets.
* **Timer.** The tempo and retrace flags that `M_CSTATE` also drives: nothing else
  depends on them.
* **Bluetooth.** L2CAP information requests and unknown signalling commands
  (answered without a change of state), role and encryption changes, dead code
  (`inquiry_cancel`, `switch_role`), what the SDP record says, the decoding of
  reports, the file in which link keys are kept.  The run's queues have room for
  everything; the theorems hold for those that have not.
* **Console.** Bytes above 127, which would look behind the key tables, from a
  terminal or an I2C keyboard; what lies behind the HID tables, which end at 173
  (and whose entries 165 to 173 are meant for 224 to 232); the keyboard of the Cardputer, which replaces the I2C keyboards on
  that board; the interval of USB polling; descriptors that are not of a boot
  keyboard; reading directories, drawing and saving of the menus; glyphs and panel.
* **Not at all.** `saveMZTImage` and the walk over several headers of a file; the
  PWM encoding, which turns a file into pulses once; PCG, sound, fonts, the status
  area and serial developer commands, panel set-up (output, data or done once); the
  disassembler and debugger, which are not built.
* A reset in the middle of a tape leaves the CPU at five times its speed;
  `SpeedFollowsDeck` states the exception, as nothing in the repository says
  otherwise.  An image started over a halted program keeps HALT: no module
  composes the menu's loading with the CPU.

## 6. Plan

Done: all the modules above with their runs; the proofs of the machine's
devices, its timer interrupts and its keys; of the types of the CPU and the meaning
of its flags; of the types, sockets, slots, links and handles of the Bluetooth host,
and that its reports come out in order.
Left, in this order:

| order | what | why |
|---|---|---|
| 1 | proofs about the drawing thread of `Screen` and of `ProgramSpec` | only liveness is stated of the one, fifteen programs run of the other |
| 2 | `MztImage`, `PwmTape` | what is saved loads again; what is encoded decodes |
| 3 | `Z80Machine` with `MemBank` | programs started by the menu over other programs |
