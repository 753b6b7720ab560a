# A TLA+ model of the STM32F429 FreeRTOS test system

The program is the firmware of a NUCLEO-F429ZI board: FreeRTOS V11.1.0 with
FreeRTOS+TCP on one Cortex-M4 core. It listens on one CAN bus and forwards what
it hears as UDP datagrams, sends a heartbeat on another CAN bus, keeps two
workers busy, and has a serial shell and a task that logs statistics. This
directory holds TLA+ modules translated from its sources, TLC configurations
that check them on small instances, and proofs for every value of the constants.

File names below are relative to the repository; `task_caneth.c` and its like
are in `src/src/`.

## The system

One core, preemptive fixed priorities, time slicing among equals:

| priority | tasks |
|---|---|
| interrupts | CAN1 RX0, USART3, tick |
| 4 | CAN2, timer service |
| 3 | CAN1, IP task |
| 2 | CAN_ETH, Worker0, Worker1, EMAC (Ethernet driver) |
| 1 | CLI shell, Stats, TzCtrl (trace recorder) |
| 0 | idle |

How the parts interact:

    CAN1 bus -> FIFO 0 -> RX0 interrupt -> message buffer -> CAN1 task
                                                              |  \-> worker queues -> Worker0, Worker1
                                                              v
       flush timer --notify--> CAN_ETH task <--notify + queue--
                                   |
                                   v  zero-copy UDP buffers
                                IP stack -> datagrams
    status flags (set by all of these) -> CAN2 task -> 3 TX mailboxes -> CAN2 bus

### Inventory

**CAN-to-Ethernet bridge** (`task_caneth.c`, `caneth.h`). State: the frame
queue, the notification bits of the task, the count of buffered frames, the
sequence number, the UDP buffer. Operations: `task_caneth_enqueue_rx_frame`
(called by the CAN1 task), `flush_timer_cb` (timer service task), the loop of
`caneth_task`. Hard: notifications coalesce while the queue counts; the buffer
changes owner with the result of `sendto`; frames, flushes and a wait for a
buffer in any order. Correct means: no wakeup without a frame, never wedged,
never an overfull or empty datagram, one owner per buffer, order kept, no loss
without the error flag.

**CAN1 reception** (`task_can1.c`). State: the controller's FIFO, the static
frame of the interrupt callback, the message buffer, the frame in the task's
hands. Operations: interrupt, task loop. Hard: overrun, a full message buffer,
stale fields in the static frame, assertions on what other nodes send.

**Workers** (`task_worker0.c`, `task_worker1.c`, the same code twice). State: a
queue each. Operations: `task_workerN_do_work`, the task loop. Drops on a full
queue are only logged.

**Heartbeat and status flags** (`task_can2.c`, `status_flags.c`). State: four
sticky flags, the sequence number, the transmit mailboxes. Hard: flags read one
by one while they are raised; mailboxes that fill up or reorder.

**CAN message packing** (`generated/canproto.c`). Pure. Hard: byte orders, bit
fields, buffers that are too small, members out of range.

**Task statistics** (`task_stats.c`) and their **timer** (`stats_timer.c`). State: a
table of task slots, the last run-time counters, the clock. Operations: one
sample, in steps: count the tasks, ask for their states, one entry after the
other. Hard: the number of tasks may change between the two calls that use it;
counters and clock wrap; a sample near a wrap is not logged. Correct means: each
task has one slot and there is one for each, and what is logged is what the
task really ran since the sample before.

**Shell** (`task_shell.c`), **commands** (`shell_cmds.c`) and **interpreter**
(`vendor/src/FreeRTOS_CLI.c`). State: the 64-byte message buffer of received
characters, the input line, the interpreter's static positions. Operations:
the USART3 interrupt, the line editor, the loop over the interpreter. Hard: limits
of the line and of the message buffer, what is left behind in the line, static
positions that live across calls, parameters counted in one function and found in
another. Correct means: every entered line gets exactly one complete answer, the
one for its words.

**Logging and hooks** (`logging.c`, `hooks.c`). State: whether the recorder is
enabled (shell and host change it), where each task is between check and
print, how deep in hooks. Hard: the recorder may stop between the check and the
print; `vAssertCalled` logs, and so may fail, before it disables interrupts.
Correct means: a checked print above the shell's priority succeeds, the
recursion of the hook is bounded, the hook halts the system.

**LEDs** (`led.c`). State: the lights. Hard: the timer task reads and writes the
port to toggle one pin while others set theirs. Correct means: the red light
never goes out.

**Start-up** (`main.c` and the start function of each module). State: what exists,
which interrupts are enabled, masked, pending. Hard: interrupts are enabled
before the buffers they use exist, and stay masked only because the kernel
keeps them so until the scheduler starts; the order is spread over ten files.
Correct means: nobody uses what is not there, no interrupt and no timer is lost.

**IP glue** (`ip.c`): initialisation, a random number, a hook that logs.

PROJECT.json lists the hazards of each part at their lines.

## The modules

| module | models | extends or instantiates |
|---|---|---|
| `FrameForwarder` | what the bridge promises: a lossy first-in first-out line that reports its losses | |
| `CanEth` | `task_caneth.c` | `FrameForwarder` as `Bridge` |
| `Can1` | `task_can1.c`, the worker front ends, the halt of `vAssertCalled` | |
| `MCCan1` | small buses for `Can1` | `Can1` |
| `Gateway` | the path from bus to datagram under the real priorities | `Can1`, `CanEth` |
| `MCGateway` | a small instance of `Gateway` | `Gateway` |
| `Heartbeat` | `task_can2.c`, `status_flags.c` | |
| `HeartbeatLog` | `Heartbeat` with histories that tell the heartbeats apart after their number came round | `Heartbeat` |
| `MCHeartbeat` | `HeartbeatLog` with a bound on the heartbeats | `HeartbeatLog` |
| `Canproto` | `generated/canproto.c` | |
| `CanprotoLink` | a message packed by a sender and unpacked by a receiver, for any structure and buffer size | `Canproto` |
| `MCCanproto` | the C helpers restated with bitwise operators | `CanprotoLink` |
| `Cli` | `FreeRTOS_CLI.c` and `shell_cmds.c` as operators on a line | |
| `Console` | what the shell promises: every line gets the answer for its words | |
| `Shell` | `task_shell.c` with the interpreter's loop | `Cli`, `Console` as `Promise` |
| `MCShell` | the memory behind the input buffer | `Shell` |
| `Recorder` | `logging.c`, `hooks.c`, `led.c`, the steps of the trace command | |
| `MCRecorder` | the priorities of the tasks | `Recorder` |
| `Stats` | `task_stats.c`, `stats_timer.c` | |
| `Startup` | `main.c` and every start function | |
| `CanEthProofs`, `Can1Proofs`, `ShellProofs`, `RecorderProofs`, `StatsProofs` | theorems about the module of that name | that module |
| `GatewayProofs` | theorems about `Gateway` | `Gateway`; `Can1Proofs` and `CanEthProofs` as `Can1Facts` and `CanEthFacts` |
| `HeartbeatProofs` | theorems about the heartbeat, from the flags to the bytes | `HeartbeatLog`, `CanprotoLink` |
| `SharedLemmas` | facts about numbers and sequences the proofs share | |

A definition marked `\* mutation` is a plausible bug: PROJECT.json says which
property it breaks when it takes the place of the definition after it. No
specification uses one.

### CanEth

`can_frame_queue` is `g_can_frame_queue`; `notify_value` the set bits of the task's
notification value; `task_pc` says where `caneth_task` is: polling for the network,
in the loop for a buffer, in `xTaskNotifyWait`, before the receive, before the
decision to send. `enqueuer` is the caller of `task_caneth_enqueue_rx_frame`, which
may be interrupted between `xQueueSend` and `xTaskNotify`. `udp_buffer` keeps its
value after the buffer was given up, as the C pointer does. `offered`,
`delivered`, `arrivals` and `last_datagram` are histories.

`FrameArrives` is one call (dropped while the network is down, queued, or refused
with the flag), `NotifyCanEth` its end; `NotifyWait`, `ReceiveFrame`,
`KeepBuffering`, `SendSucceeds`, `SendFails` and `GetUdpBuffer` are the loop. The IP
stack is external: the network goes up and down, buffers are taken and
released. "Delivered" means handed to the stack with a successful `sendto`; what
becomes of a datagram on the network is not this program's.

A frame is its arrival number: its content is only ever copied. The conversion
from the received frame (`task_caneth.c:71-77`) is `CanEthFrame` in `Can1`.

### Can1

A frame on the bus is `[ide, id, dlc, counter]`; `HalRxMessage` builds the frame
the HAL writes in the static buffer, which keeps the identifier of the other
format from an earlier frame. The message buffer is measured in bytes, a length
prefix per message included. A failed assertion stops the CAN1 task inside
`vAssertCalled`; the rest of the system runs on until `Halt` disables interrupts.
`higher_prio_task_woken` (`task_can1.c:185`) is read uninitialised when no task is
woken; a spurious yield is one more interleaving, and the model has them all.
The failure branch of `HAL_CAN_GetRxMessage` and `can1_error_cb` are unreachable, since the
interrupt means a frame and no error interrupt is activated; the assertions on
`xTraceISRBegin` and `xTraceISREnd` are taken to hold.
Remote frames and the bytes after the first are left out; no decision in the
code depends on them.

### Gateway

`Can1!Forward` and `CanEth!FrameArrives` are one step, and the CAN1 task goes on only
after the notification. CAN_ETH (priority 2) runs only while the CAN1 task
(priority 3) is blocked in `xMessageBufferReceive`. The timer service task and the
interrupt may run at any time. The IP stack is left free, which covers any
priorities of its tasks.

### Heartbeat

`can2_pc` walks through the four flag reads, one step each. `AddTxMessage` takes any
free mailbox; the bus takes the lowest pending one, as the controller does for
equal identifiers with `TransmitFifoPriority` disabled. `due` counts periods not yet
served, so a late task catches up. `can2_error_cb` is never called: neither its
interrupts nor a handler are enabled.

`HeartbeatLog` adds three histories: `made` counts the heartbeats begun, `number` says which
of them waits in a mailbox, `sent` which went out, in the order of the bus. The
sequence number comes round, these do not, so that the log tells a lost heartbeat
from one of the next round.

### Canproto

Each C function is an operator; shifts and masks are written as the arithmetic
they perform on unsigned values.

### Cli, Shell and Console

A character is a glyph: the blank, or a piece of text without blanks, such as a
whole name of a command. Pieces typed side by side make one word, and a command is
matched by its first piece and what follows it, as `strncmp` and the look at the
next character do. The real line has 128 characters, and a line of some glyphs
stands for those whose words have these names; no decision in the code looks
inside a name in any other way.

`Insert`, `Backspace`, `Control` and `EndOfLine` are the branches of `shell_task` for one
character. A full line has no terminator in the buffer, so the interpreter reads on
into whatever lies behind: `LinesRead` gives every line it may find, with `Beyond` as
the memory there. `ProcessCommand` is one call of `FreeRTOS_CLIProcessCommand` with the
command it calls; the trace command is one step here, since nothing of the shell depends on
its parts, and the host does not change the recorder: its steps and the host are in
`Recorder`. `pxCommand` and `help_pxCommand` are the static variables of the
interpreter and of the help command. A command that finds no parameter where it
asserts one cannot go on: the run checks for deadlock, and `ParameterIsThere` says
that this never happens.

`Console` says what an answer is without a word on parsing: the words of the line
are the maximal stretches without blanks. It promises nothing for a line that
fills the buffer. It counts words and `prvGetNumberOfParameters` counts blanks: that
they agree is part of the refinement `ImplementsConsole`. A command with the
wrong number of words is told so before anything else is looked at
(`WrongCount`), so that `Outcome` is one value for every line.

### Recorder

A task is "away" from this code, or at the check, at the print, at the entry of a
hook or before the instruction that disables interrupts. `Runs` is the scheduler:
a task takes a step only while none of a higher priority is ready. A task becomes
ready at any time (`Log`) and may fail any other assertion when it runs (`Fails`). The
trace command of the shell is three steps with `restart` in between; the host's
commands reach `TzCtrl`, a task of the recorder at the shell's priority, and are
external. `PrintFails` is possible whenever the recorder is off: what the recorder
does with a print then is not in the repository, and failing is the worse choice.
**Assumption:** an enabled recorder takes every print (`xTraceVPrintF` to a registered
channel returns `TRC_SUCCESS`). The code asserts it and cannot ensure it.
`CheckedPrintsSucceed`, `NestingIsBounded` and `HookReachesHalt` rest on it: with a recorder
that may refuse a print while it is on, `vAssertCalled` could call itself without end.

`TogglePin` is two steps, since the HAL reads the output register and then writes
the set/reset register: it puts back the pin it toggles and no other.
`StackOverflowHook` is one step, as it is called inside the kernel's task switch.

### Stats

Times are numbers that never wrap; `Wrapped` is what the code gets to see of them,
modulo `W`. So `LoggedDeltasAreTrue` can compare the difference of two wrapped counters
with the true one. `ClockCounts` keeps the time between two samples below one round of
the clock: the task samples every 500 ms, a round of 2^32 ticks of 10 us takes
11.9 hours. `SampleTask` is one round of the loop: it finds or takes a slot, logs if
the clock is not near a wrap (`Logs`, which is left out at will when the
recorder is off), and stores the counter. `SystemStateHasNoRoom` is the case in which a
task was created between count and call.

### Startup

A start function is the sequence of its steps: an assignment that is not checked, a
call whose result is asserted, the creation of a kernel object, the start of a
timer, an interrupt enabled in the NVIC, one enabled at its peripheral. `main` is
their concatenation in the order of the code. The kernel masks interrupts in the first
critical section of any call before the scheduler starts and does not unmask
them after it, because its nesting count starts high (`KernelCall`). Interrupts may be
raised as soon as their peripheral is told to, and are served as soon as they
are enabled and not masked. Each assertion may fail, and calls `vAssertCalled` on the stack
of `main` (`HookStep`): it lights the LEDs, logs with `ERR`, masks interrupts, prints to the
UART and spins, whether or not these were set up before. If the recorder is on and the
error channel is not registered, its print fails or not, and a failure calls the
hook again. `xTraceEnable` may have turned the recorder on when it fails.

## The runs

| run | question | distinct states |
|---|---|---|
| `caneth_bridge` | safety of the bridge, its refinement of `FrameForwarder`, and that frames get out | 313 200 |
| `can1_any_bus` | reception of any legal CAN frames; no assertion fails on a bus that follows `dbc/canproto.dbc` | 2 876 235 |
| `can1_extended_bus` | violation: see the findings | |
| `gateway_path` | order and reported losses from bus to datagram | 563 396 |
| `gateway_recency` | violation: see the findings | |
| `heartbeat_safety` | gaps in the sequence numbers are explained, none is sent twice, no later heartbeat takes a flag back | 223 342 |
| `heartbeat_liveness` | heartbeats are true snapshots, raised flags reach the bus | 562 884 |
| `canproto_heartbeat` | the arithmetic is that of the C shifts and masks; round trip | 24 576 |
| `shell_lines` | every line is answered as its words demand, whatever was typed and erased before | 1 210 416 |
| `recorder_hooks` | checked prints, bounded recursion of the hook, the red light, the halt | 100 258 |
| `stats_samples` | logged differences are true, every task has a slot | 576 380 |
| `startup_order` | handlers, tasks, timers and `main` use nothing before it exists, nor does the assertion hook but for named early failures; no interrupt or timer is lost | 583 |

### Bounds

- `CanEth`: queue 3 (32 in the code), datagram 2 (16), sequence numbers modulo 3
  (2^16), 2 buffers (8), 5 arrivals (`MaxArrivals`). Every limit is reached: the
  queue fills while two notifications coalesce, a datagram fills and is flushed
  half empty, the numbers wrap, the stack holds all buffers. Safety is proved for
  all values.
- `Can1`: FIFO 2 (3), message buffer for 2 frames (28), worker queues of 1 (8),
  `MaxBusFrames` 5, five kinds of frames: overrun, a full message buffer and full
  workers all happen, separately and together. The period of worker 1 is 2 (10).
  Safety is proved for all values. The violation is found with 3 frames.
- `Gateway`: 3 frames, message buffer 1, FIFO 2, queue 2, datagram 2, one buffer. Each
  stage can lose a frame.
- `Heartbeat`: the real 3 mailboxes, a modulus of 3 and `MaxHeartbeats` 4 in the safety
  run, the fewest that fill the mailboxes, drop one and let the number come round
  (for any modulus and any number of heartbeats it is proved); 2 mailboxes and a modulus of 2 without any
  bound on heartbeats in the liveness run. `MaxDue` is 1, so that the
  runs never have several periods due; the theorems hold for any number.
- `Canproto`: words on each side of a byte boundary, flag members in and out of
  range, buffers of 7 and 8 bytes.
- `Shell`: seven glyphs, lines of up to 4, a message buffer for one character (12):
  room for a command, blanks before, between and behind, a parameter, one word too
  many, and a full line. `trace status` differs from the other parameters in its
  answer only and is left out of the glyphs. A longer message buffer lets no task
  see anything new, as the shell takes characters one by one.
- `Recorder`: the timer, one logger above the shell, the shell and `TzCtrl`; the
  recorder is stopped at most twice (`MaxStops`), which makes a hook fail inside its
  own logging twice in a task of the shell's priority. The statistics task is not
  among them: a hook of the shell or of `TzCtrl` logs at its priority and meets the
  same races. The invariants are proved for all tasks and any number of stops.
- `Stats`: two tasks, one created late, two slots and none to spare as in the code (12
  and 12), counters modulo 3, time up to 6: two wraps, samples on both sides of
  `ClockFloor`.
- `Startup`: the real sequence and the real queue length; nothing is bounded.

Deadlock is not checked where the system really stops or a bound stops it: the bus
of `Can1` falls silent and assertions halt; a message of `Canproto` is packed once;
hooks halt `Recorder`; `Stats` halts on its assertion and ends at `MaxClock`; `Startup`
ends. The other runs check it.

### Fairness

`CanEth!Fairness`: weak fairness of the enqueuer's notification, of the task and of
the timer (a ready task runs, the tick goes on), and of the stack's release of
each buffer. The task's `GetUdpBuffer` has strong fairness: the stack takes buffers
too, so that one is free again and again but not always; the call blocks on the
counting semaphore of the pool and is repeated on a time-out, and it gets a
buffer unless tasks of higher priority take every one first. That this does not
go on for ever is an assumption about traffic. Nothing is assumed about arrivals, about
the result of `sendto` or about the network staying up, and a full queue is
promised to drain only after the task has once seen the network up, since a
network that flaps between its polls keeps it waiting.

`Heartbeat!Fairness`: the tick, the task of the highest priority, and the bus taking
pending messages (another node acknowledges). With the bus off for good,
nothing is reported, and `AutoBusOff` is disabled.

`Shell!FairSpec`: the shell, at priority 1, gets to run: the tasks above it block most of
the time and a worker's computation ends. Nothing is assumed about what is typed: the
answer gets written although characters keep coming.

`Recorder!FairSpec`: strong fairness per task, since a task of low priority is able to
run again and again, in the gaps of the others, but not always. This is the assumption
that the load leaves time for every task. A task that fails spins with interrupts
disabled, so no fairness is needed after the halt.

`Startup!Fairness`: the processor executes, the NVIC delivers what is enabled and not
masked, the timer task, of the highest priority, runs.

## The proofs

TLAPS checks them for every value of the constants under the named assumptions of
the modules: sizes are natural numbers, positive where the code divides by them or
indexes with them, the sequence modulus is at least 2, special values are not ordinary
ones. Each module follows the same argument: an inductive invariant, `Init` implies
it, each action preserves it (one lemma or one step per action), and it implies the
property. Each module's `TypeOK` is a theorem, `TypeCorrect`; that of `Heartbeat` and that of
`Stats` are in no run.

`CanEthProofs`:

- `TypeCorrect`, `BuffersAreOwned`: neither `TypeOK` nor `BufferOwnership` is
  inductive alone, since that the stack only ever gets descriptors follows from
  the task owning one whenever it sends. Their conjunction `TypeInv` is.
- `EveryWakeHasAFrame`, `FullQueueNeverWedges`: the invariant is `WakeupInv`. Count the
  wakeups on their way: the notification its sender is about to make, the bit that
  is set, the bit taken and not yet acted on. A wakeup is born with a frame, moves
  along these three places and ends with the receive of one; two meet only in the
  bit, where one vanishes. So there are never more wakeups than frames (every
  receive finds one), and always fewer frames without a wakeup than the queue has
  places (a full queue has a wakeup). The second bound is the subtle one: a wakeup
  vanishes only into a bit that is another.
- `ReceiveHasRoom`: the task waits only with room, because it sends a full
  datagram before it waits (`RoomInv`). `DatagramsInRange` follows.
- `LossesAreReported`: each step moves frames along `Pipeline`, adds the frame it
  offers, or raises the flag. `OrderIsKept`: with `OrderInv`, a step appends a later
  frame or cuts a part out of the middle (`CutMiddle`).
- `BacklogStays`: a frame is received with the wakeup it came with or with that of another,
  so the receive of one leaves `Backlog`, the frames without a wakeup, as it was, and a
  notification that meets another in the bit adds one. `WakeupStep` says so of every
  step, for this theorem and for `WakeupInv`. From `WakeupInv` also comes its bound.
- `GapsAreReported`: the receiver's next number is that of the last datagram plus one
  unless the flag is up.
- `BridgeRefinement`: `Spec => Bridge!Spec`, where the abstract line is the UDP buffer
  followed by the queue. An accepted frame is `Accept`, a refused one `Refuse`, a send
  `Deliver` or `Lose` of all buffered frames, everything else a stutter.

`Can1Proofs`: all invariants of `Can1`. Types and contents are one invariant, `TypeInv`:
that only frames with a place on the bus are forwarded is known from what they
carry.

- `ContentInv` says of every frame, in the message buffer or in the task's hands, that
  it is as it was on the bus but for the identifier its format does not use
  (`AsOnBus`); of a frame at the unpacking and in the workers' queues that it is a
  standard DoWork0 frame (`IsWork`). The stale identifier of the static frame gets no
  further than the comparison in `can1_task`: what it could let through is an
  extended frame, and that one fails the assertion (`WorkIsOnlyWork`).
- `DbcFailsNoAssertion`: an assertion fails only on a frame whose counterpart on the bus
  breaks `FollowsDbc`, and the bus log only grows.
- `LossesAreReported` and `ForwardedInOrder`: every step leaves `Pipeline` alone, appends the
  next serial, replaces the last by it (`ReplaceLast`, the FIFO overwrites its last
  mailbox), or cuts the head of the FIFO out (`CutMiddle`). The second never happens
  unseen by `overrun`, nor the third by the flag.

`GatewayProofs`: the whole from its parts.

- `ImplementsCan1`, `ImplementsCanEth`: projected on the variables of one part, every step of
  the whole is a step of that part or leaves it alone. The only step of both is
  the call. So the theorems of `Can1Proofs` and `CanEthProofs` hold of the whole
  (`Can1Holds`, `CanEthHolds`, `GatewayForwards`, `GatewayGapsAreReported`,
  `GatewayBacklogStays`); they are cited through instances of those modules, and
  `SameCan1`, `SameCanEth`, `SameForwarder`, `SameSteps` say that these instances and those of `Gateway` are one.
- What is proved of the parts speaks of arrival numbers in the bridge and of bus
  serials in reception. `ArrivalInv` ties them: the n-th arrival is the n-th frame
  the CAN1 task forwarded, and if none came while the network was down, the n-th offered as
  well. `BridgeInv`: every number in the bridge is that of a forwarded frame.
- `EndToEndOrderIsKept`: an increasing selection (the numbers in the bridge) of an
  increasing sequence (the serials forwarded) is increasing (`SelectFront`), whatever
  each part has lost. `EndToEndLossesAreReported`: without a loss the selection is
  everything (`SelectAll`), and what is past the call and what is before it are
  the bus log.

`HeartbeatProofs`: from the flags to what a receiver reads out of the bytes.

- `SnapshotIsTrue`: the flags are read one after the other; the invariant says of each
  flag already read that it was read as set if it was set when the task woke up, and
  is set now if it was read as set. No flag is ever taken back.
- `GapsAreFlagged`: for ever, not for a round only. That no heartbeat is missing is not
  inductive. `LogInv` adds where a heartbeat may be: on the bus at one place or in one
  mailbox, never in both (`OncePlaced`), with a number that is not above the present one
  and, while the task is making a heartbeat, below it (`Placed`). A heartbeat then enters a
  free mailbox with a number nothing else has, and the bus only moves it. The
  sequence number is tied to all this by `Numbered`: wherever a heartbeat is, it carries the
  remainder of its number, and the task adds 1 to both (`NextRemainder`). So a receiver that
  counts rounds can name each heartbeat it missed.
- `FlagsStayOnBus`: mailboxes may empty in another order than they were filled, so that it
  does not follow from the order on the bus. `Growing` compares any two heartbeats, each
  on the bus or in a mailbox, and each with what the task has read and what is set.
- `HeartbeatArrives`, `DoWork0Arrives`, from lemmas on the two bytes of a word and the four
  bits of a byte; `LinkRoundTrip` for every structure and buffer of `CanprotoLink`, where
  `LinkInv` says what each stage has in its hands.
- `ReceiverReadsFlags` joins the two: the bytes of every heartbeat on the bus, with
  any time stamp the controller writes, unpack to its number and its flags. It
  assumes that numbers fit 16 bits, as `uint16_t` makes them.

`ShellProofs`: `NothingBehind` and `PositionsFresh` are inductive with the types.

- `ParameterFound` is about operators: a line that begins with a name and has one run of
  blanks that is not its end has a character behind a blank (the smallest place that
  is not blank behind the first run). It holds for every line and every memory
  behind a full one.
- `ConsoleRefinement`: `Spec => ImplementsConsole`. The words of a line are in bijection
  with the places where words end (`WordsAndEnds`), these, but for a word the line ends
  with, with the places where a run of blanks begins (`WordsAreCounted`): on a line that begins
  with a word, the parameters counted are the words less one. The command found
  is the one whose name is the first word (`FoundByWord`), and the rest of the line the
  commands compare is the last word alone (`SecondWord`). So the outcome of `Console` is that
  of the call that returns pdFALSE (`OutcomeByCommand`). The loop needs `HelpInv`: what help
  has said so far, and that the line is still the line of a help command. Calls that
  return pdTRUE are stutters; an edit of the buffer is one of the line
  (`InsertIsEdit`, `BackspaceIsEdit`); that the interpreter reads the edited line is
  `NothingBehind`. The proof found that `Outcome` had overlapping arms, which
  TLC resolves by their order and TLA+ does not: it was rewritten, not the theorem.

`RecorderProofs`: `PrintsAboveTheShell`: who stops the recorder runs at the shell's
priority, and not while a task above it stands between check and print.
`NestingBounded`: a task passes the check inside a hook only with the recorder on,
and fails the print only with it off, so each further hook takes a stop of its own;
the invariant counts a stop that is still to be used up by a task at the print with
the recorder off. `RedNeverGoesOut`: step by step.

`StatsProofs`: `OneSlot` (a task takes a free slot only if it has none), `SlotsSuffice` (fewer
tasks have slots than there are tasks, by cardinalities, while one has none), and
`LoggedIsTrue`: in the loop, an entry still pending has in its slot what the sample
before saw, wrapped, and a task without a slot was not there at the sample before,
when it had run for 0. Wrapped differences are true since less than a
round lies between two samples.

Only model-checked:

- all liveness (`BufferedFramesLeave`, `FullQueueDrains`, `FlagIsReported`, `LinesAreAnswered`,
  `HookReachesHalt`, `TimersTick`, `InterruptsAreServed`), which needs `ENABLED`;
- `BytesAsInC`, the comparison of `Canproto` with the bitwise operators, which no prover here
  handles;
- `ObjectsExistWhenUsed`: `Startup` is one fixed sequence of steps, whose one constant, the
  length of the timer queue, does not enter the property, and the run checks all of it.
  A theorem would say no more.

## Findings

1. *Frames stay behind in the CAN_ETH queue* (`gateway_recency`). Notifications
   coalesce, and the task receives one frame per wakeup. Two frames that the CAN1
   task forwards before CAN_ETH runs, which its lower priority makes the normal
   case in a burst, set one bit; one frame is received, the other waits for a
   later arrival and then makes that one wait. The backlog never shrinks, not even when the bus falls
   silent, and stays below the length of the queue: `BacklogStays` proves both of the bridge
   alone, `GatewayBacklogStays` under the real priorities. The
   comment at `task_caneth.c:153` takes a wakeup per frame for granted, the one at
   179 says "Favor recency".
2. *An extended frame after a DoWork0 frame halts the system* (`can1_extended_bus`).
   `task_can1.c:166` compares `StdId` whatever `IDE` says, and the static frame keeps the
   last standard identifier; `task_worker0.c:44` asserts.

Met while modelling, without a run of their own:

- A DoWork0 frame of fewer than 8 bytes makes `canproto_do_work0_unpack` fail and halts
  the system at `task_can1.c:171`; such frames are in `can1_any_bus`, and
  `AssertsHold` excludes them by `FollowsDbc`.
- A line of 128 characters fills `g_input_buffer`, and `FreeRTOS_CLIProcessCommand` reads past
  its end (`task_shell.c:197-202`). `LinesRead` has it as a choice of what lies there.
- `trace start ` with a blank at the end has the expected number of parameters, and
  is then answered with the list of valid ones, since the commands compare the rest
  of the line (`shell_cmds.c:55`, `FreeRTOS_CLI.c:384`).
- A carriage return ends a line (`task_shell.c:156`); the comment at `task_shell.c:181` says
  it is ignored.
- In a task of the shell's priority (the statistics), the recorder may be stopped between
  check and print, and the assertion at `task_stats.c:101` or `logging.c:35` fails.
- A task created between `task_stats.c:57` and 69 makes `uxTaskGetSystemState` return 0 and
  fails the assertion at line 70. The Ethernet driver's task is created by the IP task after
  the scheduler started.
- An assertion of `logging_init` fails with the recorder on (`main.c:42`): the `ERR` of the
  hook then prints to a channel that is not registered, and calls the hook again if that print
  fails. An assertion before `led_init` lights nothing, and one before `init_uart` waits for
  a UART without a clock. `HookFindsItsMeans` names the start functions whose
  failure is affected, and that no other is.
- With the real priorities and an empty timer queue the two unchecked results of
  `xTimerStart` are successes; `TimersTick` shows it.

## Not modelled

IP address configuration and random numbers of `ip.c`, clock and pin setup beyond
its order, the serial output itself, the strings of tables and messages: no state that a
property could be about. The configuration headers set sizes and priorities, which are
constants here. FreeRTOS, FreeRTOS+TCP, the trace recorder and the HAL are not in
the repository; their calls are modelled as the code uses them.

## What is left

A finer model of the time before the first poll of the network, for a liveness of
the bridge that does not start with "once the task has seen the network up".
