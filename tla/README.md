# A verification project for the FPGA designs of this repository

TLA+ models of the hardware and software under `src/`, checked with TLC on small instances,
with machine-checked TLAPS proofs of the results that hold for every value of
the parameters.

The repository is a collection of FPGA designs, nearly all in VHDL. Its largest
and most intricate one is `live_stream`: an OV7670 camera, a frame store in
SDRAM and a VGA display, in three clock domains. The first part of the project
is about it; the second is about the ADC sampling controller of a Nios V system
and its capture program; the third is about the run-time software under such
programs, of which the two Nios V systems of the repository have the same sources:
its console driver, clock, alarms and file descriptors, where an interrupt
routine and a program share state. The plan for the others is below.

## 1. Inventory

### live_stream

    camera --> camera_interface --> asyn_fifo --> sdram_interface --> sdram_controller <--> SDRAM chip
      ^         (PCLK, 24 MHz)     (PCLK|100 MHz)   (100 MHz)            (100 MHz)
      | SCCB                                            |
    i2c_top                                             v
                          vga_interface <-- asyn_fifo <-+        vga_core: timing, vsync, active
                            (25 MHz)      (100|25 MHz)

| part | state it keeps | operations | interacts through | what is hard | what makes it correct |
|---|---|---|---|---|---|
| `asyn_fifo` (two copies) | RAM, two pointers, two synchronised Gray copies | write edge, read edge, reset | two clocks | the crossing of the pointers, the wrap, the levels | it is a bounded queue; nothing is hidden for ever |
| `sdram_controller` | an FSM of 12 states, timers, read pipe, refresh timer | init sequence, refresh, write burst, read burst, reset | req/ack strobes, the pins of the chip | command timing, the shared data bus, refresh against requests, reset at any time | legal commands, no bus conflict, a memory for its user |
| `sdram_interface` | an FSM of 6 states, two banks, two pointers, latches | drain the camera FIFO, write burst, read burst, end of frame, vsync | two FIFOs, req/ack, frame_done, vsync | events that hit any state, last assignment wins, one-cycle delays | the bank shown is the last whole frame, streamed in order |
| `sdram_subsystem` | synchronisers, a self test that cannot start (`bist_ran` is set from the beginning) | wiring | | | |
| `camera_interface` | an FSM of 4 states, byte pairing, counters | frame edges, bytes, frame_done | camera pins, FIFO | VSYNC edges missed, odd lines, full FIFO | a frame announced is one frame, whole and paired |
| `i2c_top` | a sequencer over an SCCB byte master | write the camera's registers | two wires | a device that does not answer | every register is written before `i2c_done` |
| `vga_core`, `vga_interface` | pixel and line counters, line buffer | one pixel a cycle | FIFO read port | three cycles of latency in a pair of columns | each word at its place |
| `vga_subsystem` | start gate, flush counters | flush at vsync, throttle, arm | vsync across clocks, FIFO levels | stale levels at the flush, a level that wraps | a frame starts with its first word at (0, 0) |
| `sys_ctrl`, `debounce_explicit` | debounce counter, reset synchroniser | key, PLL lock | reset of all | | one pulse a press |
| `stream_top` | bypass of the frame store, debug displays | wiring | | | |
| `pll_main` | generated | | | | |

### adc_sampling_controller

    test.c  --registers-->  ADC_SAMPLING_CONTROLLER_HW_IP
                              | settings, soft reset        ^ status, interrupt
                              v                             |
                 timer --match--> adc_trigger_engine --word--> sample_buffer
                   ^----re-arm------|        ^
                                    v command| response
                                   Modular ADC

| part | state it keeps | operations | interacts through | what is hard | what makes it correct |
|---|---|---|---|---|---|
| `timer` | prescaler, counter, last match | start, stop, reset, an edge | control bits, compare pulse | the phase of the prescaler, edges that do not count | a steady period |
| `adc_trigger_engine` | re-arm state, command, scan index, write address, trigger and end of a run | match, handshake, sample, stop, reset | ready/valid streams of the ADC | answers of a run that was stopped, the match against the handshake, counters that end a run | a run stores its own samples, in order, and ends where it should |
| `sample_buffer` | RAM, read address | write, read | two ports | words and addresses one edge late | |
| `ADC_SAMPLING_CONTROLLER_HW_IP` | registers, soft reset, interrupt edge | bus writes and reads | Avalon bus, interrupt | soft reset in the middle of anything | one interrupt a run |
| `test.c` | its place, what it read | reset, configure, arm, poll, stop, dump | registers | polls and sleeps against the hardware | it dumps the run it made |
| `plot_capture.py` | | I/O | | | |

### Nios V run-time (`software/hal_bsp` of both systems)

    program --read, write, ...--> file descriptors --> JTAG UART driver <--> UART core <--> host
       |                                                  ^     ^ interrupt
       |                                                  | every second
       +--gettimeofday, alarms--> ticks, alarm list <-- timer interrupt <-- mtime

| part | state it keeps | operations | interacts through | what is hard | what makes it correct |
|---|---|---|---|---|---|
| JTAG UART driver (`altera_avalon_jtag_uart_*.c`) | two ring buffers with two indices each, enabled interrupts, time-out, missed seconds | init, read, write, close, ioctl; interrupt, time-out | shared state without locks, a control register, an alarm | the interrupt cuts in anywhere; an interrupt turned off too often, or for ever; the host may be away | two streams of characters, nothing waits with its interrupt off, calls come back |
| timer (`mtimer.c`) | `mtime`, its compare register | interrupt | two reads of one counter that goes on | the carry between them | the next tick a period after the last |
| alarms (`alt_tick.c`, `alt_alarm_start.c`, `alt_alarm.h`) | tick count, linked list | start, stop, tick, callbacks | callbacks that change the list that is being walked | what the walk visits next | each alarm at its tick, once, until stopped |
| time of day (`alt_gettod.c`, `alt_settod.c`) | the time set, less the ticks then | get, set | two loads of 64 bits of ticks | the tick between them; borrow and carry | the time set plus the ticks since |
| file descriptors (`alt_open.c`, `alt_get_fd.c`, ...) | pool of 32, its high-water mark, flags with the lock | redirect, open, close, read, write, ioctl, fcntl | drivers, which may refuse | failing half way; the mark that bounds the searches | a table of open files; a device that is held is not opened again |
| start-up (`alt_main.c`, `alt_sys_init.c`) | | starts the devices, redirects the streams | calls | the order | |
| rest of the HAL | | caches, busy loops, register macros, C library stubs | | | |

### The other designs

- **Max10_Digital_signal_processing**: ADC reader, sample FIFO with push, pop,
  flush and clear in one cycle, an SDRAM controller in Verilog, a moving
  average, the same timer, and test programs.
- **Synchronous Serial Interface**: an SSI encoder master (clock divider, FSM,
  shift register, Avalon wrapper), the latch and display of the position, and an
  encoder emulator for an ESP32. Hard: master and encoder agree on which clock
  edge carries which bit.
- **fso_satcom**: a free-space optical link: pointing and acquisition FSM, link
  monitor, frame sync, Hamming codec, modulator.
- **Accelerometer** (SPI master, ADXL345 sequence, VGA), **ping_pong_game** (VGA
  timing and score), **basic_gate**, **comparator**, **complex_logic_circuit**,
  **full_adder** (combinational exercises), **ethernet** (generated cores).

Generated cores, testbenches and scripts are not modelled. `PROJECT.json` lists each part with its status, and under `hazards`
what is hard to test in the modelled code, with the properties that cover it.

## 2. Modules

| module | models | notes |
|---|---|---|
| `BoundedFifo` | what a FIFO promises: a queue of at most `Depth` words with a registered output | abstract |
| `CdcFifo` | `asyn_fifo` with plain pointers; each side sees the other's pointer two of its own edges late | one action per clock edge, in any interleaving |
| `CdcFifoProps`, `CdcFifoProofs` | its properties, which `AsynFifo` instantiates, and their proofs | |
| `AsynFifo` | `asyn_fifo` register by register, with Gray words, `bin2gray`, `gray2bin`, the full comparison and the levels | implements `CdcFifo`, and with it `BoundedFifo` |
| `SdramController` | `sdram_controller`: all four processes take one step per 100 MHz edge | inputs are parameters |
| `SdramDevice` | the chip, external: legal command times, write bursts, CAS latency | |
| `SdramBus`, `SdramBusProps`, `SdramBusProofs` | controller and chip on one bus, with any user and with resets; its properties and their proofs | implements `MemoryPort` |
| `MemoryPort` | what the controller promises: a memory of bursts, one request at a time | abstract |
| `SdramInterface`, `SdramInterfaceProps` | `sdram_interface` edge by edge, and what holds of it anywhere | |
| `SdramArbiter` | the same with every input free | for proofs |
| `SdramSubsystem`, `SdramSubsystemProps`, `SdramSubsystemProofs` | arbiter + memory port + camera FIFO, with camera and display at the pace of the board or at none; its properties; proofs about it and about `SdramArbiter` | |
| `CameraInterface` | `camera_interface` edge by edge | |
| `CameraCapture` | the same with a camera in front and the write side of the FIFO behind | |
| `MCCameraSubsystem` | `CameraCapture` and `AsynFifo` in one run | values for TLC |
| `CameraSubsystemProofs` | proofs about the capture, and about the Gray code of `AsynFifo` | |
| `VgaCore`, `VgaInterface` | the counters; the scaler | |
| `VgaSubsystem`, `VgaSubsystemProps`, `VgaSubsystemProofs` | `vga_subsystem`: flush, throttle, start gate, FIFO, scaler; properties and proofs | |
| `SampleTimer` | `timer` with prescaler, counter and comparator | as its user drives it |
| `AdcTriggerEngine` | `adc_trigger_engine` and `sample_buffer` edge by edge | inputs are parameters |
| `AdcController`, `AdcControllerProps`, `MCAdcController` | the engine in its register wrapper, an external ADC, the program `test.c` | one step is one edge |
| `AdcControllerProofs` | proofs about a run, from its first sample to the dump | |
| `ByteStreams` | what the driver promises: two queues of characters | abstract |
| `JtagUart` | the driver, a program that calls it, the UART core and a host | |
| `JtagUartProps`, `MCJtagUart`, `JtagUartProofs` | its properties, values for TLC, proofs | implements `ByteStreams` |
| `AlarmBook` | what alarms promise: a book of who is due when | abstract |
| `AlarmList` | the linked list with start, stop and the walk of `alt_tick` | |
| `SysClock` | the timer interrupt access by access around it, and the time of day | |
| `SysClockProps` | properties | implements `AlarmBook` |
| `FileTable` | what open, close, ioctl and fcntl promise: a table of open files | abstract |
| `HalFiles` | the pool of descriptors, the redirection and the calls | |
| `HalFilesProps` | property | implements `FileTable` |
| `MCRunTime` | `SysClock` and `HalFiles` in one run | values for TLC |
| `RunTimeProofs` | proofs about timer, time of day, alarms and file descriptors | |

### How state and actions correspond to the code

In the hardware, one action is one rising edge of a clock. Every register a process assigns is
a variable of the same name; an edge assigns all of them, each process by its own
operator conjoined into the edge (`CtlClock`, `Edge`, `CamEdge`, `Tick`, `EngineEdge`). In a
clocked process the last assignment wins: in `SdramInterface`, where events and
the FSM assign the same registers, the operators `RewoundWrite` and
`RewoundRead` give what the events leave and the branch of the FSM decides
whether it takes it. A branch of a `case` is an action, so is each of its
`if` arms that leads elsewhere. The reset branch is `CtlReset`, `IfReset`,
`CamReset`, and so on.

In the software, one action is a stretch of the code between two accesses to
state that an interrupt routine shares, or whole where interrupts are off:
`WriteSnap`, `WriteCopy`, `WritePublish` and so on are the places of the call,
and `pc` says which comes next. A call of a file descriptor function is one
action: one thread runs, and the interrupt routines leave the pool alone.

Abstractions:

- A burst address stands for bank, row and column; the pins that carry it are
  left out. A pixel is a pair (frame, number) or a pair of bytes, each byte a
  triple (frame, line, place), so that a property can tell where it came from.
- Debug registers and displays, the remapping of camera data bits, colour
  formats and `frame_valid` are left out: nothing reads them back into the
  control.
- `SdramSubsystem` uses `MemoryPort` in place of the controller: `SdramBus`
  shows that the controller implements it. The reset of the port is not used
  there; `SdramArbiter` has the resets of the arbiter.
- `VgaSubsystem` runs at the 25 MHz clock alone: its writer adds words of the
  frame in order (what `SdramSubsystem` shows of `sdram_interface`), at any pace
  below the throttle, seen by the reader late by any time. The flush is one
  action although the two sides are reset by two counters: the read side is held
  for four cycles of 40 ns, which covers the four of 10 ns of the write side.
- `AdcController`: the constants of `test.c` are `settings`, chosen at the start
  of a behaviour: a period and prescaler, a scan or one channel, a trigger, a
  single shot or a run without end. The program is a loop of bus accesses (it
  runs the program again and again) with any number of cycles between them; the
  registers of channel, scan and trigger, which the stopped engine does not look
  at, are written in one step; a sleep is a wait for the ADC to be quiet, a
  thousand times shorter than the one of the code. The dump looks at any one
  word of the run. The timer's capture unit is left out (`trigger_latency`
  ends in the engine: the wrapper leaves it open), so is its PWM marker. The soft
  reset is asynchronous: it holds the engine from the edge that sets
  `soft_reset_reg` to the edge that clears it. A word keeps four of the five
  bits of the channel.
- `window`, `taken`, `gap` and `interrupts` of `AdcController` are history: the newest samples of the
  run, their number, the age of the last trigger, the interrupts of the run. No
  step depends on them.
- `JtagUart`: one pass of the loop of the interrupt routine is one step, since
  the program cannot run in it; `irq_enable` stands for the variable and for
  the enable bits of the control register, which are written together with
  interrupts off. Characters are numbers, counted modulo `Chars`, so that each
  tells which one it is; the driver never looks at them. Of two calls, one at a
  time is under way, as there is one program.
- `SysClock`: `mtime` goes on between any two accesses and is read word by word;
  the three stores to the compare register are one step, as the interrupt they
  might raise is masked meanwhile. While `alt_tick` walks the list nobody looks at
  `mtime`, so its going on is left for afterwards. The two loads of the ticks
  come in either order: C leaves it to the compiler.
- `HalFiles`: the name given to `open` stands for what it finds: nothing, a
  device, a file system; what a driver does is its result, any. The access mode
  is a set of names (`O_RDONLY` is 0, hence no name). A call that only looks
  (`fstat`, `lseek`, `isatty`) is left out.
- `torn`, `begun`, `set` and `entered` in `SysClock` and `result` in `HalFiles`
  are history too: of the steps only the properties look at them.
- A reset is held for at least one edge of the clock it resets. For
  `camera_interface`, whose reset is synchronous, that means PCLK runs during it.

### What the environment is assumed to do

- `SdramBus`: nothing of the user; requests, addresses and data change in every
  cycle. Resets (`ResetBetweenBursts`) at any time but while a write burst is on
  the bus; with those (`ResetSpec`) the code fails, see `SdramResetBug`.
- `SdramSubsystem`: a frame is shown before the next is done (60 against 30
  frames a second; `ShownBeforeNext`). A behaviour is either `paced` or not, from
  its start. If it is, the camera's vertical blanking is long enough to store
  the end of a frame before `frame_done`, and when vsync falls no read is in
  progress (nothing was displayed for ten lines, so the VGA FIFO is full to its
  threshold). If it is not, `frame_done` and vsync come at any edge, while a
  burst is being filled, requested, written or answered; pixels then only
  alternate, and the memory port keeps none of them, since nothing is claimed of
  the picture in such a frame.
- `SdramArbiter`: `ShownBeforeNext`. (`ArbiterSpec`: anything else may come at any
  edge, resets and any answer of the controller included.)
- `CameraCapture`: frames of `Lines` lines, each cut short after any number of
  bytes from `MinBytes` on; VSYNC pulses of any length and either polarity;
  a reader that takes words at any time; the camera's registers done at any time.
- `AdcController`: the ADC takes a command within `MaxWait` cycles when it is idle,
  answers within `MaxConvert`, in between at any cycle and with any code, and is
  done with a command before the next trigger, as section 4 of
  `IP_GENERATION_NOTES.md` asks of the period.
- `VgaSubsystem`: the test switch moves at any time; resets at any time.
- `JtagUart`: accesses to memory in the order of the source (`rx_in`, `tx_out`
  and `host_inactive` are `volatile`; `tx_in`, `rx_out` and `irq_enable` are
  not, but each is stored before a call the compiler cannot see into); the fast
  driver without `ALTERA_AVALON_JTAG_UART_IGNORE_FIFO_FULL_ERROR`, as both
  `settings.bsp` have it (line 592), so a full buffer is never thrown away; the
  host takes characters one by one and sends up to `HostText` of its own; both may stop for ever. The program calls anything, in any order.
- `SysClock`: a callback starts or stops at most one alarm, itself included, and
  does not leave the alarm right behind its own unregistered (`alt_tick` would
  then follow that alarm, which points to itself, for ever); nobody starts an
  alarm that is registered, which would tear the list.
- `HalFiles`: programs use the descriptors they have been given. Redirection
  ends before the program starts.

## 3. Runs

| run | shows | bounds |
|---|---|---|
| `SdramBus` | `CommandsLegal`, `BusOwned`, `MemoryKept`, `RefreshInTime`, `ImplementsPort`, `KeepsServing` | timing constants of the code, but bursts of 4, a refresh every 24 cycles (an operation takes 12, so requests and refresh meet in every phase) and 3 cycles of power-up; two addresses, two contents |
| `SdramSubsystem` | `IInv`, `FrameStored`, `StreamInOrder`, `HeldForController`, `ComesBack` | two bursts of 2 a frame, so both ends of a frame differ, and with a first and a last word in a burst; a camera FIFO of 2; three frames told apart: the one shown, the one stored, the one before; behaviours with the pace of the board and without |
| `CameraSubsystem` | of the capture `NothingRefused`, `FramesWhole`, `KeepsDelivering`; of the dual-clock FIFO `PointersNeverCross`, `OneBitAtATime`, `LevelsSafe`, `NothingStaysHidden`, refinement of `CdcFifo` and of `BoundedFifo` | capture: two lines of two to four bytes (one word, an odd byte, two words); a FIFO of depth 1, which is full after each word; `frame_done` of 2 cycles, longer and shorter than a VSYNC pulse. FIFO: depth 4, three-bit pointers, every one of the eight pointer values and their wrap, two words, both clocks at any rate, resets |
| `VgaSubsystem` | `FrameAligned`, `PictureShown`, `StartsFilled`, `GoesOnShowing` | 4x4 display: two source lines of two words, each shown twice; throttle at 2 words, depth 4; both settings of the FIFO generic |
| `AdcController` | `SamplesKept`, `SingleShotExact`, `OverflowTold`, `OneInterrupt`, `TriggerWindow`, `ScanInOrder`, `SteadyRate`, `DumpIsCapture`, `RunCompletes` | buffer of 3, so that runs go round it several times; a 3-bit counter; prescaler 0 and 1, both with triggers as close as the code can bring them or one cycle more, so that an ADC of up to 2 + 2 cycles is met in every phase; one channel, or a scan of two; a rising and a falling trigger, with samples after it and without; codes on both sides of the level |
| `JtagUart` | `InterruptsArmed`, `NothingStuck`; refinement of `ByteStreams` | ring buffers of 3 slots and requests of 3 characters, so that a call fills a buffer, waits and goes on round its end; FIFOs of one character in the UART; a time-out of one second, or the longest, or none; 6 characters told apart, more than buffer and FIFO hold together; 4 characters of the host; both boot orders |
| `RunTime` | of the clock `NextTickSet`, `TimeOfDayExact`, refinement of `AlarmBook`; of the descriptors refinement of `FileTable` | clock: words of 2 values, so that `mtime` carries in every other cycle, a tick every 2 cycles, `mtime` up to 6: ticks that carry too; three alarms (exchangeable), due 1 or 2 ticks later, so that a callback meets an alarm before and one behind it; a second of 4 microseconds and 2 ticks, set to either end of it. Descriptors: 5 of them, so that the pool runs out; the console, `alt_dev_null` and a file system; a mode for reading and writing, and one for writing only that does not block, with the bits the HAL keeps for itself |

`CameraSubsystem` and `RunTime` each check two machines that share no variable: a
behaviour runs one of them, chosen at the start, and the other stays as at
power-on. Nothing is said of the two together; one run stands for two.

Five violation runs record where a comment and the code disagree:

| run | the text | the code |
|---|---|---|
| `SdramResetBug` | `sdram_controller.vhd:420`: ST_WRITE issues WRITE and drives DQ for 8 cycles | `burst_cnt_sdram` is not reset: after a reset during a burst the first write starts at the old count, sends no WRITE, and the chip stores nothing |
| `SdramShift` | `sdram_interface.vhd:15-19`: the words shifted "at the SDRAM write ingress" (BUG7) are "Fixed" by taking them a cycle after `cam_fifo_rd_en` | `cam_fifo_rd_en` is itself a register: the FIFO sees it on the edge on which the arbiter takes `cam_fifo_rd_data`, so each burst takes the word before. A frame is stored one place late and opens with the word popped before it (`FrameStored` says exactly that) |
| `VgaBlocks` | `vga_interface.vhd:113`: "One source pixel supplies each 2x2 output block" | on the even line a word goes through `fetch_pixel_q` and is shown two columns later than the odd line shows it from `line_buf`: a block to the right (`PictureShown` says where) |
| `AdcPeriod` | `adc_trigger_engine.vhd:27-28`: the counter restarts immediately and the next compare is "exactly SAMPLE_PERIOD ticks later"; `:276-277`: "exactly (sample_period + 1) ticks" | the match is told an edge late, the re-arm takes a cycle and the start another: with prescaler 0 triggers are `SAMPLE_PERIOD + 2` cycles apart (`SteadyRate` says so, and what they are with a prescaler) |
| `JtagNoHost` | `altera_avalon_jtag_uart_init.c:86`: an alarm goes off every second to check for the presence of the host, and calls give up when it has been away for the time-out | both `alt_sys_init.c` start the UART before the timer; `alt_alarm_start` then refuses, for the tick rate is still 0, the time-out becomes infinite, and a `printf` without a host never returns |

Seen while modelling, without a run of their own.

In `live_stream`: `wr_usedw` wraps to 0 when full, contrary to
`vga_subsystem/asyn_fifo.vhd:31`, being cut to `DEPTH_LOG2` bits (the throttle at 3072
of 4096 keeps that harmless); `sdram_interface.vhd:31` has the camera FIFO with
showahead, which it does not have; the testbench of
`sdram_interface` (`tb_sdram_interface.vhd:251`) has the camera go before the
display, the code starts a read first whenever the VGA FIFO has room; the same
file (`:24`) has writes and reads in different banks, which does not hold from
`frame_done` to the next vsync (`BanksApart` says when); capture starts on either
edge of VSYNC, not only the falling one (`tb_camera_interface.vhd:242`), as a
comment in the code explains; the reset of the capture is synchronous to PCLK
(`camera_interface.vhd:193`), so it is not seen while the camera's clock stands; refreshes are
`REFRESH_PERIOD + 1` = 782 cycles apart at the least, not 780
(`tb_sdram_controller.vhd:412`); with the portable
FIFO the level from before the flush re-arms `read_start_ready` on the very edge
that clears it (`vga_subsystem.vhd:256-272`), which the vendor FIFO avoids because
its clear acts on both sides (hence `StartsFilled` is about that one); and the
comment on the flush (`vga_subsystem.vhd:189`) puts it right before the active
window, where it is at the start of the vsync pulse.

Of the ADC controller: with prescaler p > 0 triggers are
`(SAMPLE_PERIOD - 1) * 2^(p+1)` cycles apart (`SteadyRate`), a tick
being twice as long as `timer_prescaler.vhd:5` says; `ARCHITECTURE.md:77` puts
TRIGGER_LATENCY at register 6,
where the wrapper has the index of the trigger; a trigger in a scan compares a
sample with the one before it, which is of another channel
(`adc_trigger_engine.vhd:404`); a period of 0 or 1 stops the triggers until the
counter wraps (`:231`); and if an ADC is slower than the period, a match in the
cycle of the handshake offers the command of the same scan entry again (`:310`).

Of the run-time: a `write` that waits gives up once the host has
missed one second, not the time-out, if a character left meanwhile
(`altera_avalon_jtag_uart_write.c:183` asks for any missed second): it returns
what it accepted, or `-EIO` if that is nothing; `alt_fd_lock.c:61` looks only below
the highest descriptor ever allocated, so a lock is granted while that one has
the same device open (`:43` says otherwise), which is why `Hold` of `FileTable` asks nothing
of other users and its promise is about later opens; closing 0, 1 or 2 leaves their lock
(`alt_fd_lock.c:46` has every close release it); a `close` for which the driver
reports `-EWOULDBLOCK` has freed the descriptor all the same; `alt_nticks` reads 64
bits in two loads (`sys/alt_alarm.h:110`), so at 1000 ticks a second the time of
day may be wrong by 50 days once in 50 days (the premise of `TimeOfDayExact`);
a callback that stops the alarm behind its own sends `alt_tick` round for ever;
and each tick is asked for a period after the last interrupt was *taken*
(`mtimer.c:71`), so ticks are late by its latency, and add up.

### Fairness

- `AsynFifo`: both clocks keep running (`WF` of `WriteClock` and `ReadClock`).
  Nothing is assumed of `wr_en`, `rd_en` or of resets.
- `SdramBus`: the clock runs between resets (`WF` of `Next`); `KeepsServing`
  exempts a behaviour that resets for ever.
- `SdramSubsystem`: the clock runs, and the controller does not put off a request
  for ever (`SF` of `Served`), which is what `KeepsServing` shows of it.
- `CameraCapture`: the camera is clocked and goes on sending (`WF` of the edge,
  `SF` of an edge at which the camera advances). That pixels meet room again and
  again is a premise of `KeepsDelivering`, not an assumption.
- `VgaSubsystem`: the clock runs. `GoesOnShowing` speaks of behaviours with a
  writer that keeps up (`prompt`, chosen at the start), as the SDRAM, at ten times
  the speed of the display, does.
- `AdcController`: the clock runs (edges never cease). The program may stop
  anywhere for ever; `RunCompletes` only needs the clock.
- `JtagUart`: the processor runs a call that is under way (`WF` of `SysInit` or
  `InCall`), takes a pending interrupt (`WF` of `Isr`), and seconds pass (`WF` of
  `Second`). Nothing makes the program call, or the host poll: that the host does
  is a premise of the first half of `NothingStuck`, that it stays away of the second.
- `CameraSubsystem` has the fairness of both its machines, each for behaviours
  that run it.
- `SysClock` and `HalFiles` have safety and refinement only: nothing in them waits.

Every property of a passing run has a mutant in `PROJECT.json`: an operator next
to the original in the module, marked "a slip", that makes TLC find the property
violated.

## 4. Proofs

`CdcFifoProofs`, for every set of data and, as hypothesis of each theorem, every
`Depth` of at least two (`DepthAssumption`):

- `Inductive`: `Spec => []IInv`. `NoOverrun` alone is not inductive, because the
  writer acts on a copy of the read pointer two edges old. `IInv` adds that the
  copies lag in order, from the newest to the oldest (`SyncConservative`), and that the writer
  is within `Depth` of the oldest copy (`WriterBound`). A write is allowed by
  the oldest copy, so it keeps `WriterBound`; the real read pointer is ahead of
  that copy, so `NoOverrun` follows. The read side is the mirror image. The
  arithmetic modulo `2 * Depth` is in lemmas about `Dist` and `Succ`.
- `NeverCross`: `Spec => []PointersNeverCross`, neither side passes the other.
- `Refinement`: `Spec => ImplementsQueue`. A write edge with room appends, a read
  edge takes the oldest word, every other edge stutters, a reset empties.

`SdramBusProofs`, for every choice of timing constants, burst length, refresh
period (see `PeriodAssumption`), set of addresses and contents, for any user, and
with resets between bursts:

- `Inductive`: `Spec => []IInv`. `CommandsLegal` alone is not inductive: whether a
  command is legal depends on what the chip still counts, and nothing in the
  property ties that to the controller. `IInv` says that the state and the timer
  of the sequencer (and `burst_cnt` in a write) determine everything else: the
  command on the pins (`Sequence`), strobes and data pins (`Strobes`), how long the
  chip is still busy (`Busy`: never longer than the controller will wait), which
  row is open (`Rows`), how far power-up is (`PoweredUp`), what the chip has counted
  of a burst (`Counts`: one edge behind), which words have been stored
  (`Storing`) and which still have to be answered (`Pipe`, `Owed`). A reset may leave
  a row open and the chip busy with a read; `Rows` and `Busy` except the states in
  which power-up waits for that.
- `CommandsAreLegal`, `BusIsOwned`, `MemoryIsKept`: the three properties of the run.
- `RefreshComesInTime`: `Spec => []RefreshInTime`. `RefreshPart` ties the age of the
  last REFRESH at the chip to `refresh_cnt`, and, once the request is up, to how
  many cycles the operation under way may still take (`Left`).
- `RefinesPort`: `Spec => ImplementsPort`: each edge is one step of `MemoryPort`, in
  which an answer leaves the queue `pend` CAS latency and read pipe later than
  the chip was asked.

`SdramSubsystemProofs`, for every burst length, frame size and set of pixels. First
the arbiter with every input free and with resets (`ArbiterSpec`):

- `ArbiterInvariant`: `ArbiterSpec => []IInv`: every address sent to the controller
  starts a burst inside a bank; `new_frame_ready` exactly when both pointers are
  in one bank; a word popped from the camera FIFO is captured at the next edge.
  The proof takes the invariant apart into groups of registers that one operator
  assigns, so that each needs only the branches that touch it.
- `RequestHeld`: `ArbiterSpec => HeldForController`: while `wr_req` is up, address and
  data stay, also after `frame_done` has made the arbiter forget its request.
  The run has both, frames that end with the last burst stored and frames that end
  at any edge; the theorem also has any answer of the controller.

Then the subsystem, also for every depth of the camera FIFO, which is an
`ArbiterSpec` (`ArbiterWithin`):

- `FrameInvariant`: `Spec => []FrameInv`. `FrameInv` has two parts: what the arbiter does
  at any pace, and `FrameParts`, if `paced`. `FrameStored` alone is not inductive: it
  speaks of a frame that is done, and nothing of it says how the frame came into
  the memory. `FrameParts` follows each pixel: in the camera FIFO (`CameraPart`), in
  `wr_data_latch` and in the bank being written (`StorePart`, `MemoryPart`: so many
  whole bursts are stored, the next ones are in the latch), and on the way back, in
  the answer of the port and in the two stages in front of the VGA FIFO
  (`AnswerPart`, `StreamPart`: `rd_ptr` and `rd_burst_cnt` are the place of the next
  word). `HandshakePart` has what makes requests meet their answers: the port
  acknowledges only what the arbiter waits for, although a request stays up for
  one cycle more.
- `FrameIsStored`: `Spec => []FrameStored`; `StreamIsInOrder`: `Spec => []StreamInOrder`.

`CameraSubsystemProofs`, first for every number of lines and bytes, length of
`frame_done` and depth of the FIFO (`Spec` of `CameraCapture`):

- `NeverRefused`: `Spec => []NothingRefused`. `fifo_full` is looked at one edge before
  the write, so the invariant needs that no two words come on successive edges:
  `fifo_wr_en` means that the next byte is the first of a pair (`WordHasRoom`).
- `FramesAreWhole`: `Spec => FramesWhole`. `Windows` says, for each state of the
  capture, which part of the frame has been stored. In `S_CAPTURE` it is either
  nothing yet, with the frame still to come from its first byte (`Fresh`), or all that
  is owed so far (`UnderWay`); `EdgesAreGaps` says that a VSYNC edge the capture has
  not seen yet belongs to the gap the camera is in, which is what keeps a reset in
  the middle of a frame from starting a capture there.

then for every number of address bits (`FifoSpec` of `AsynFifo`):

- `OneBitCrosses`: `FifoSpec => OneBitAtATime`. A number and its successor, shifted
  right further and further, differ by one until the carry stops and not at all
  after that (`Carries`); the Gray bit that changes is the last one the carry
  reaches. From the last pointer to 0 it is the top bit.
- `GrayIsPlain`: `FifoSpec => ImplementsCdcFifo`. `BackAndForth`: `gray2bin` undoes
  `bin2gray`, from the top bit down. `FullMeans`: the top two Gray bits differ and the
  others agree exactly if the pointers are `DEPTH` apart, because `DEPTH` more adds
  a power of two to each shift, which is even but at the top (`HalfWayRound`,
  `TopBits`). `GrayInv` is that every synchroniser holds the code of some pointer.
- `GrayNeverCrosses`: `FifoSpec => []PointersNeverCross`, and `GrayIsQueue`:
  `FifoSpec => ImplementsQueue`. With the theorems of `CdcFifoProofs`, instantiated, the
  FIFO as it is written is a bounded queue whose pointers never cross. Their
  hypothesis, a depth of at least two, follows from `DepthLog2Assumption`
  (`DepthAdmitted`).
- `LevelsAreSafe`: `FifoSpec => []LevelsSafe`, from the order of the copies that
  `CdcFifoProofs` has.

`AsynFifo` has its powers and shifts as functions defined by recursion over the
bits. `OneMore` and `Iterates` show that such a function exists, so that it has
the values its definition says; the induction is `SetInduction`, which comes from
least numbers (`LeastNumber`) and `WFMin` of the library, because the library's
own induction theorems take an operator, which the provers cannot instantiate.

`VgaSubsystemProofs`, for every display of even size, throttle level, FIFO depth
and start level, both settings of the FIFO generic, and whatever the writer does:

- `FramesAlign`: `Spec => []FrameAligned`. The property speaks of the edges at which
  a word is due; between them the invariant says that the FIFO is a run of
  successive words of the frame, the first of them that which is due next (`HeadAt`,
  `WordsDue`). That the gate is shut from the second cycle of the vsync pulse on
  (`ShutInSync`) is why a new frame is aligned, whatever happened to the one before.
- `PictureIsShown`: `Spec => []PictureShown`. `EvenScaled` and `OddScaled` give the
  content of each stage of the scaler (word read, line buffer, `fetch_pixel_q`,
  `pixel`) at each column.
- `StartIsFilled`: `Spec => StartsFilled`. `RoomLeft`: the throttle leaves room for
  what is on the way. `ReadyIsFilled`: the level at which the gate became ready
  has not gone down since, because nobody reads before the gate opens.

`AdcControllerProofs`, for every depth of the buffer, period, prescaler, trigger
and scan, and whatever the ADC answers and when:

- `Counting`: `Spec => []IInv`. That a single shot takes exactly one buffer is not
  inductive: it needs that the write address is the number of samples taken
  until the buffer is full, which needs that a run starts with both at zero
  (`CountInv`), which is what the program sees to with its soft reset and by never
  changing a setting while the run is on (`ProgramInv`). `ProgramStep` shows the
  second of each bus access, `EngineStopped` and `EngineRuns` say what an edge
  does to the registers that count, `CountStep` combines them.
- `OneBuffer`: `Spec => []SingleShotExact`; `OverflowExact`: `Spec => []OverflowTold`.
- `WholeRun`: `Spec => []RunInv`, which adds the place of the program (`PlaceInv`), the
  interrupt (`InterruptInv`), that `window` is what the buffer holds, but for the
  word still in the write registers (`WindowInv`), where in it the trigger is
  (`TriggerInv`) and what the program has read of the run (`DumpInv`). It yields
  `InterruptOnce` (`OneInterrupt`), `BufferKept` (`SamplesKept`), `DumpExact`
  (`DumpIsCapture`) and `TriggerExact` (`TriggerWindow`).
- `SteadyTriggers`: `SteadyRate`. `RateInv` gives the age of the last trigger as a
  function of counter, prescaler phase and re-arm state (`Paced`).
- `ScanExact`: `ScanInOrder`. `ScanInv` relates the index of the scan to the number
  of samples, a command that waits and one that is being converted (`Synced`),
  and says how old each can be at the next trigger (`OnTime`).

Three of these have a hypothesis. `FourBits` (`TriggerExact`): channels fit the four
bits a word keeps of them; the program uses channels 1 to 6. `PeriodsFit`
(`SteadyTriggers`, `ScanExact`): the history variable `gap` counts as far as two
triggers are apart; it stops at `TimerMax`, which is 2^32 - 1 in the code, where the
period is 5000. `InTime` (`ScanExact`): the ADC takes and answers a command before
the next trigger, as `IP_GENERATION_NOTES.md` asks; with a slower one the property
fails (see above). TLC checks in the run that its constants satisfy all three
(`HypothesesHold`).

`JtagUartProofs`, for every length of the buffers, FIFO depth, threshold and
time-out, every boot order with the UART in it, and whatever program and host do:

- `AlwaysArmed`: `Spec => []InterruptsArmed`. The property names the places where an
  interrupt may still be off; inductive is the stronger `IInv`: only a read that
  has moved characters leaves it off there, and during the boot the UART has
  still to be started. The interrupt routine is the case with arithmetic: it
  turns an interrupt off when it has sent all there was or filled all the room,
  and `RingEnds` says that the indices then meet, modulo the length.
- `RefinesStreams`: `Spec => ImplementsByteStreams`. The streams of `ByteStreams` are
  what is in a ring, from one index to the other, before or behind what is in the
  FIFO of the core (`ToHost`, `FromHost`). Between the look of `read` or `write` at the
  indices and its `memcpy`, the interrupt routine may move the other index;
  `CallInv` says that it only does so to the advantage of the call: the slots
  looked up stay free, or filled, and do not go round the end of the ring.

`RunTimeProofs`, first for every word width, period, tick rate and finite set of
alarms (`Spec` of `SysClock`):

- `TickAlwaysSet`: `Spec => []NextTickSet`. `TimerInv` says of each place in the
  interrupt routine which times the words read so far can be of; if the high
  word is the same when it is read again, both words are of one time, because
  high words do not decrease (`ReadTogether`).
- `TimeAlwaysExact`: `Spec => []TimeOfDayExact`. `TodInv` says the same of the two
  loads of the ticks, and that `resettime` is the time set less the ticks then,
  however far out of range its microseconds are; `TickFacts` and `NormalFacts`
  are the arithmetic.

- `AlarmsAreBooked`: `Spec => ImplementsAlarmBook`. The book has the alarms that are
  reached from the head, and a tick still owes a call to those that are reached from
  the alarm the walk is at, along `next` in any number of hops. `ListInv` turns that
  into a statement about single entries: each has a rank that falls along the ring,
  a new alarm goes in front with a higher rank than all, and `next` and `previous`
  are inverse (`Ranked`). `AfterIs` shows, by induction over the hops, that a walk
  from an entry meets exactly the alarms of no higher rank: ranks fall and so do not
  repeat, and a walk of as many hops as there are alarms has nowhere left to be but
  at the head. `RemovedRing` and `InsertedRing` are the two operations of
  `alt_llist.h`, `CallKeeps` is a callback with what `alt_tick` does after it: a
  `Visit` of an alarm that is due is a `Call` of the book (`CallStep`), of any
  other a stutter (`PassStep`);

then for every size of the pool, set of devices and modes, and whatever drivers
refuse (`FilesSpec` of `HalFiles`):

- `PoolSound`: `FilesSpec => []IInv`: free entries carry no flags, the streams are
  never free, what is in use is below the high-water mark unless it is a stream
  still on `alt_dev_null`, and only devices are held.
- `Refinement`: `FilesSpec => ImplementsFileTable`, one lemma a call. The mark is
  what the proof turns on: `open` looks for a lock no further than it, so the table
  can promise that a held device is not opened again only if no holder is above
  the mark (`HeldIsLocked`).

The assumptions are those of the modules; TLC evaluates them in the runs:

- `DepthLog2Assumption`: a FIFO of at least two words. (`DepthAssumption` of `CdcFifo`
  is no assumption but a hypothesis: what meets it is `AsynFifo`.)
- `TimingAssumption` of `SdramController` and `PeriodAssumption` of `SdramBus`: what
  the timers of the controller need to count, and a refresh period not shorter
  than the end of power-up (the code has 781 cycles against 7 + 2).
- `GeometryAssumption`: bursts of at least two words, at least one a frame;
  `PixelAssumption`: pixels are words.
- `PulseAssumption`, `SceneAssumption`: `frame_done` of at least one cycle, frames of at
  least one line of at least one byte, a FIFO of at least one word.
- `TimingAssumption` of `VgaCore`, `LevelAssumption`: no part of line or frame is
  empty, and throttle, start level and depth are in their order; `PairsAssumption`:
  columns and lines in pairs, as in the 640 by 480 of the code.
- `BufferAssumption` (a buffer of at least two words), `ProgramAssumption` (a
  period of at least two, a window that fits the buffer), `TimerAssumption`.
- `BufLenAssumption`, `TimeoutAssumption`, `DeviceAssumption`, `CharsAssumption` and
  `BootAssumption` of `JtagUart`; `AlarmAssumption` (alarms are finite in number, and
  the head is none) and `ClockAssumption` (words of two values or more, a tick rate
  that divides the second); `FilesAssumption` (three
  descriptors at least).

Only model-checked: all liveness (`NothingStaysHidden`, `KeepsServing`, `ComesBack`,
`KeepsDelivering`, `GoesOnShowing`, `RunCompletes`, `NothingStuck`), which is out of the
prover's reach, as ENABLED is. Every invariant, action property and refinement
that a passing run checks is a theorem.

## 5. Plan

In this order:

1. the rest of `live_stream`: bring-up (`debounce_explicit`, `sys_ctrl`,
   `i2c_top` with a camera that may not acknowledge) in one composition; the
   bypass of `stream_top`; the three clocks with their rates around the camera
   FIFO, to bound its level;
2. SSI master and encoder, with the wrapper and the position latch; abstract
   specification: the position read is one the encoder had after the request;
3. `fso_satcom`: acquisition, link monitor, system control together; the Hamming
   codec against its definition;
4. MAX10 sample FIFO and ADC reader, the Verilog SDRAM controller against
   `SdramDevice`, the SPI accelerometer, the arithmetic circuits.

A new component comes with one run of the composition it belongs to; runs that
overlap with it make room, so that the whole project stays checkable in
half an hour.

## 6. Not modelled

- Of the C code, most lines are the vendor's HAL and BSP, which the repository
  holds twice, once for each Nios V system; the copies differ only in the generated files
  (`alt_sys_init.c`, `system.h`, linker and build files) and in the drivers of
  the peripherals that one of them lacks. The models
  translate one copy and stand for both. Register maps (`system.h`, `*_regs.h`), the
  macros of `alt_irq.h`, cache and busy-loop functions, and the stubs of the C
  library keep no state. `alt_vic_isr_wrapper.c` and `alt_log_printf.c` are
  compiled out (`ALT_CPU_INT_MODE_VIC`, `ALT_LOG_ENABLE`), and
  `intel_fpga_api_cmn_dfl.c` is called by no program here. None of that has behaviour a
  model could say anything about.
- The core logic of the repository is VHDL. Of it, the parts under 1 to 4 of the
  plan are not modelled yet; `PROJECT.json` lists each.
- `pll_main.vhd`, `ethernet` and other generated cores are wrappers of vendor
  blocks. `plot_capture.py`, the fonts and the renderers of the game draw pictures.
- Metastability is in the model as the choice of which value a synchroniser
  takes; its probability is not. Timing closure, pins and analogue parts are outside.
- Colours, debug outputs and displays, texts and CSV output: nothing depends on them.
