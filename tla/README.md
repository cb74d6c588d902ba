# Bluetooth: a verification of `system/bluetooth`

TLA+ models of the programs in this repository, TLC runs that check them on
small instances, and proofs that TLAPS checks for every value of the constants.
The repository holds the native side of Android's Bluetooth as it was built on
BlueZ: a small library that switches the adapter, a firmware loader for Broadcom
chips, a firmware converter for TI chips and a set of test tools. The daemons
they drive (`bluetoothd`, `hciattach`), `init`, the kernel and the chips are not
part of it; the models contain them as far as this code depends on them, and
every such definition is marked external in `PROJECT.json`.

To check a run: `tlc -config <run>.cfg <module>.tla`; to check the proofs: `tlapm`
on `BluedroidProofs`, `BluedroidAdapterProofs`, `BluedroidCallerProofs`,
`BtTestProofs`, `PatchramProofs`, `BrfpatchProofs`, `SockScriptsProofs` and
`SockTestProofs`.
`PROJECT.json` maps every definition that models code to the lines it stands for, and lists the runs, the mutated definitions
that each property is known to reject, the findings and the hazards.

## 1. Inventory

### libbluedroid (`bluedroid/bluetooth.c`)

*State.* Two statics, `rfkill_id` and `rfkill_state_path`, set together by
`init_rfkill` on first use; the process's descriptor table; outside the process
the rfkill switch, init's queue of service requests, the two daemons and the
kernel's HCI device.

*Operations.* `bt_enable` (power on, start hciattach, retry `HCIDEVUP` up to 100
times, start bluetoothd), `bt_disable` (stop bluetoothd, a fixed delay,
`HCIDEVDOWN`, stop hciattach, power off), `bt_is_enabled` (read the power, then
the device's flags), and the helpers `init_rfkill`, `check_bluetooth_power`,
`set_bluetooth_power`, `create_hci_sock`. With
`BLUETOOTH_DOES_NOT_USE_RFKILL` the power is not touched.
`ba2str` and `str2ba` convert addresses.

*Interaction.* System calls on sysfs and on a raw HCI socket, and
`property_set("ctl.start" | "ctl.stop", ...)`, which hands a request to init and
returns at once. Callers are any threads of a process that also uses
descriptors for other things; there is no lock.

*Hard.* Requests that are acted on after the caller has gone on (a stop is
handled after a later start was requested); retries against a daemon nobody
watches; a different roll-back on each failure; descriptor numbers kept after a
close; statics written in two steps and read by other threads; two reads that
together form one answer.

*Correct if* no descriptor is lost and none that belongs to somebody else is
closed; the statics always name a Bluetooth switch; 0 from `bt_enable` means a
usable adapter and stays so until the next call; 0 from `bt_disable` means off;
`bt_disable` cuts nothing before it has asked the daemons to stop (it does not wait
until they have); every answer was true at some moment of the call; every call
returns.

### brcm_patchram_plus (`brcm_patchram_plus/brcm_patchram_plus.c`)

*State.* Option globals, the HCD file's position, one buffer for events, a
pending alarm, the host's UART speed; outside, the two directions of the line
and the chip (its speed, mode and settings).

*Operations.* Parse the options (with a default address from a file that an
Android property names), open the device, flush and set up the line, reset the
chip, change the speed, download the firmware, change the speed again, set
address, sleep mode, PCM and I2S, attach the kernel's line discipline and sleep.
Each command waits for one event; the reset is repeated every 4 s by a SIGALRM
handler.

*Hard.* The signal handler writes to the line the main program is reading from;
a chip that boots misses resets; an answer may cross the repetition of its
command; both ends change speed in several places and must do it between the
same two messages; a reset and a download forget settings; the timer may fire in
the very call that switches it off; the file may be cut anywhere, each record
takes two reads of it that fail on their own, and reads of the line are short.

*Correct if* host and chip stay in step, nothing is sent at the wrong speed,
records arrive at most once and in order, no setting is undone by a later reset,
the chip ends as the command line asks, exit code 0 means so, and the program
ends. The exit code does not, in the cases section 4 names.

### tools

`pipetest`, `socktest`, `asocket_test` (the functions of socktest, two actions
fewer), `sock_shutdown_test` and three `sock_shutdown_bug_*` programs run short
scenarios of one to 33 threads on a pipe or socket, ordered only by `sleep`:
threads block in poll, read, accept or connect while another shuts down, closes
or writes.

*Hard.* Every order of those calls that the sleeps do not rule out; descriptor
numbers reused after a close; arguments on the stack of the creating function;
joins on threads that nothing wakes.

*Correct if* no closed number is used for something else, no thread outlives its
arguments (one error return lets it happen, section 4), the scenarios that shut
down, write to or hang up everything their threads wait for end in every order, and
the ones that show that close wakes nobody are stuck for that reason only.

`bttest` is a command line around the three functions of libbluedroid: one
process, one call, its answer as exit status. *Hard:* the process may be killed
anywhere; the library's statics and descriptors go with it, while the power, the
HCI device, the daemons and init's queue stay as they are for the next one.
*Correct if* status 0 means the same whatever former processes have left, the power
is cut and the device taken down only after the stops were asked for (but where a
failing enable rolls back), and it ends.

### brfpatch (`brfpatch/brfpatch.c`)

*State.* One buffer for the line, which keeps what former lines left in it, the
scanner's position, the bytes `data .. dp - 1` of the record, the output.

*Operations.* `main` reads lines with `fgets`, skips comments and waits, and
hands commands to `process_line`, which scans an opcode and fields (`0x` with 2,
4, 6, 8 or 16 digits; quoted pairs with or without colons) and ends with
`dump_record`. Every failure is `exit(1)`.

*Hard.* The record's length is an `unsigned char`; the bound of `data` is tested
one byte late and in quoted fields only; the 16-digit field writes its halves in
reverse; the scanner moves by fixed steps whatever `sscanf` took, and may pass
the end of a line; lines longer than the buffer are split anywhere.

*Correct if* exit code 0 means that each command is in the output as `usage()`
describes it, scripts that keep to `usage()` are converted, a run that fails
leaves at most one wrong record, and scanner and bytes stay in their bounds.
The first and the third of these are not true of every word: section 4 names
those that are left out.

### Not code of its own

`bluez-clean-headers/` (generated constants), `data/` (configuration of
bluetoothd), the build files.

## 2. Plan

| step | modules | state |
|---|---|---|
| 1 | `BtPlatform`, `Bluedroid`, `BluedroidProperties`: the library and what it drives | done |
| 2 | `BtAdapter`, `BluedroidAdapter`: what the header promises to callers, refinement | done |
| 3 | `BluedroidProofs`: types, descriptors | done |
| 4 | `Patchram`, `PatchramProperties`: the loader, the line, the chip | done |
| 5 | `SockScripts`, `SockTest`, `SockTestProperties`: the tools | done |
| 6 | `Brfpatch`, `BrfpatchProperties`, `BrfpatchProofs`: the converter and the bound of its bytes | done |
| 7 | `BtTest`: processes that use the library and are killed | done |
| 8 | proof of `RfkillStateValid` for a device with one Bluetooth switch | done |
| 9 | `BluedroidAdapterProofs`: every step of `Bluedroid` is a step or a stutter of `BtAdapter` | done |
| 10 | `BluedroidCallerProofs`, `BtTestProofs`: what a 0 and a failure mean, for one caller and across killed processes | done |
| 11 | `PatchramProofs`: types, lock-step, records and settings for any number of records; `ScannerStaysInText` in `BrfpatchProofs` | done |
| 12 | `PatchramProofs`: speeds and final configuration, `NothingGarbled` and `EndMeansConfigured` | done |
| 13 | `SockScriptsProofs`, `SockTestProofs`: types, closed numbers, arguments, the pipe loop and stuck programs of `SockTest`, for any number of threads | done |

No module that is or will be proved about declares a RECURSIVE operator.

## 3. Modules

`MCBluedroid`, `MCBluedroidAdapter`, `MCBtTest`, `MCPatchram`, `MCBrfpatch` and
`MCSockTest` give the constants their values for TLC. The proofs about a module are
in a module of their own, `...Proofs`. `BluedroidProofs` ends with the facts that
the other proofs about the library need: for each action of `Bluedroid` what it does
to the record of its thread, to the descriptor table and to the platform.
`SockScriptsProofs` has what is proved about the programs of `SockScripts` before any
of them runs.

### `BtPlatform` and `Bluedroid`

`BtPlatform` is what the library drives. `ctl` is init's queue: `PropertySet`
appends, `InitHandles` acts on the oldest request some time later. `want` is a
history of what was last asked for each daemon. `HciattachAttaches` registers
the HCI device once hciattach runs on a powered chip; the device dies with
hciattach and `HCIDEVUP` gets through when it is registered, powered and has its
firmware. Two hciattach services exist in different builds; here there is one,
asked for by `ctl.start` and stopped by `ctl.stop` (line 200 included).

`Bluedroid` runs the three functions in every thread of `Caller`, one action per
system call; local computation belongs to the call before it. `thread[c]` holds
the position and the locals. The common helper
`set_bluetooth_power`/`check_bluetooth_power` with `init_rfkill` in front is one
routine (`EnterPower`, `ProbeRfkill`, `SetStatePath`, `OpenStatePath`,
`StateFileIo`, `LeavePower`) that is entered on behalf of a `job` and left to
what that job does next (`AfterPower`). `fds` is the descriptor table with the
owner of each number (a caller, the rest of the process, or nobody), so that a
`close` of a stale number is seen to hit somebody else. `AppOpen` and
`AppClose` are the other threads of the process. `MayFail` says which system
calls may fail for reasons outside the model.

### `BtAdapter` and `BluedroidAdapter`

The abstract adapter is on or off and collects, for each call, the values it has
had since the call began; a reply must be justified by one of them. Errors are
always allowed, a time-out ends the promise. `BluedroidAdapter` maps `on` to
"powered and HCI device up" and adds one history variable.

### `BtTest`

`BtTest` adds processes around `Bluedroid`. `Exec` starts `bttest` with an
argument, or another client that goes on calling; `Call` is the call of the
library, `MainReturns` the exit with its answer, and `Kill` ends the process
between any two system calls. `ProcessEnds` takes the statics, the locals and
the descriptor table and leaves the rest of the world alone: the state in which
the next process finds the chip, the daemons and init's queue is whatever the
former ones brought about.

### `Patchram`

The program after option parsing is straight-line code, so it is a list of
system calls that `main`, `proc_patchram` and the others build (`todo`), consumed
by one action per kind of call. Events are bytes, because the program reads them
by header, length byte and rest without looking at them; commands are a name
and a parameter. The HCD file is `Records` records of which the last launches the
firmware. `expired` is the signal handler, interleaved with everything. The chip
hears a command only if it is awake and at the host's speed, answers at the old
speed, forgets its settings at a reset and its speed when the firmware starts.
What a run of the program meets is a scenario: its options and its device, the
file (how many whole records, and whether a part of the next one follows),
whether answers beat the alarm, and which faults may strike (`hcd_read`,
`short_read`, `alarm_race`, `rejected`, `ldisc`, `hangup`). `LineGoes` is the
hang-up: nothing arrives any more in either direction, and the reads of
`read_event` fail for ever.

A record takes two calls, `ReadRecordHeader` (line 646) and `ReadRecordPayload`
(651), and a position in the file: how many records have been begun (`records`)
and whether the position is inside the last one (`inside`). A payload that cannot
be read leaves the position inside; what is read next as a header then is none, and
its length leads to any place behind, the start of a later record among them. What
the program sends is the number of a record or `Corrupt`. The chip may refuse a
corrupt record or take it, unnoticed (`Rejects`, `Spoils`); that its bytes might be
another record is left out, the chip checks them no further.

`alarm` has four values. `expired` may run as long as the alarm is `"set"`. When the
timer fires inside `alarm(0)` (`Fails("alarm_race")`), the call leaves it `"raised"`:
the handler runs before anything else of the process (`HostStep`) and its own
`alarm(4)` stays behind (`"stray"`), to strike at any later time, also while the
program sleeps. A signal that arrives before `alarm(0)` is the ordinary case: the
handler has run when `alarm(0)` switches off what it had set.

### `Brfpatch`

A character is its class and, for a digit, its place in the script, so that a
byte of the output tells of which digits it was made; the classes are the ones
the code tells apart. The buffer is an array that `fgets` overwrites up to the
NUL it puts (`LineOf`), with four cells of memory behind it; before the first
line it may hold anything of `Garbage`. The actions are the reading of a line
(`ReadLine`), the opcode (`FindOpcode`), a field (`HexField`, `OtherField`), one
round of the loop over a quoted field (`QuotedByte`, `EndOfQuoted`) and the end
of the line (`DumpRecord`). `Scan` is what `sscanf` takes, white space and an
inner `0x` included. `BrfpatchProperties` gives the meaning of a script from its
words, independently of any scanning, and compares the output with it.

### `SockScripts` and `SockTest`

`SockScripts` has one operator per function of the tools, a list of calls per
thread. `SockTest` runs them on a model of the kernel: the descriptor table,
open files that live while a number names them or a call is inside them, and
calls that block. A blocking call takes its file (`Enter`) and returns when it
is `Ready`. `close` frees the number and wakes nobody; `shutdown` wakes
everybody inside; `accept` sets its number aside before it waits. A Bluetooth
`connect` depends on the other device (`RemoteAnswers`), a local one on a
listener. The kernel is external: it is what the tools' names and messages take
for granted. `sleep` guarantees no order and is left out, but for the one at the
end of `bug_tcp`, of 2000000000 seconds, which nothing ends. A call that opens a file waits when
`MaxFile`, a bound of the model, leaves none.

## 4. Runs

| run | setting | what it shows |
|---|---|---|
| `bttest` | one process after the other, killed at any point; files, sockets, memory and `HCIDEVUP` may fail, init up to three requests behind, fair scheduling | status 0 of an enable means a usable adapter and of a disable that all is off, whatever former processes left; a disable cuts the power and takes the device down only after the stops were asked for; bttest ends, and so do the daemons after a disable |
| `liveness` | one thread, fair scheduling; `HCIDEVUP` may fail, init up to three requests behind | a call fails only by running out of attempts, which cuts the power; every call returns; the daemons follow the last successful call |
| `shared_process` | refused requests, failing sockets and `HCIDEVUP`, crashing daemons, other threads that use descriptors | types; no descriptor is lost; none is closed under its owner before a time-out; a failed `bt_enable` leaves the chip unpowered |
| `two_callers` | two threads inside the library, failing opens, sockets and `asprintf` | descriptors again; the unlocked statics stay consistent; `Bluedroid` implements `BtAdapter` |
| `patchram` | every subset of the options, fair scheduling, a chip that may still boot and may refuse commands; in further scenarios a file cut between two records or inside one, or whose reads fail, with answers in time (`BadFiles`) and with answers later than the alarm and short reads (`LateLines`), a line that hangs up (`CutLines`), an alarm that fires as it is switched off (`RaceLines`) | lock-step, speeds, records in order, settings survive, final configuration, the program ends |
| `brfpatch` | scripts of one line of up to three fields of any kind and of two lines, the first with up to one field of any kind or two sound ones, skipped, or too long; any memory before | exit code 0 means converted (but for the words of `Lenient`), sound scripts pass, a failed run leaves at most one wrong record, the scanner stays in the line, the bytes in `data` |
| `tools` | every program, every socket type, fair scheduling, one kind of call that fails | no astray call, arguments outlive threads (but at the return of socktest.c:699), the pipe loop never runs out; who closes under other threads is stuck only behind the close; the programs of `Ending` end |

Findings, each shown by a run that expects the violation of one property (the
sentence of the repository it contradicts is quoted in `PROJECT.json`):

| run | what happens |
|---|---|
| `daemon_failure` | `bt_enable` returns 0 after bluetoothd could not be started and the power was cut |
| `enable_after_disable` | without rfkill, an enable right after a disable succeeds on a device that is about to vanish |
| `init_rfkill_race` | a second thread sees the id without the path and fails |
| `double_close` | after the last attempt `hci_sock` is closed twice and another thread's socket with it |
| `late_alarm` | exit code 0 without the address: the timer fires inside `alarm(0)` (626), the handler sets the alarm again (611), and the reset it sends 4 s later wipes what was set |

Seen while modelling, part of the models, without a run of their own:

* `bt_enable` returns 0 as soon as init has the request for bluetoothd, where the
  header speaks of blocking until the daemons are ready (bluetooth.h:27-28).
* A refused line discipline ends in the same endless sleep as an accepted one
  (lines 726-734, 834): the exception in `EndMeansConfigured`.
* The loader's comment promises "a number greater than 0 for any errors" (lines
  91-92). It is 0 after a command the chip refused, for `read_event` (568-594)
  never looks at the status; after a firmware file that ended between two records,
  before the one that launches it (646); and, started with descriptor 0 closed and
  without an address file, after no download at all: the firmware is opened as 0,
  which `hcdfile_fd > 0` (809) takes for no file. `EndMeansConfigured` leaves these
  out (`chip.rejected`, `WholeFile`, `StdinOpen`), and is false without these exceptions.
* A read of the firmware file that fails at a header returns -1, which is not 0:
  the loop sends what the buffer holds, for as long as the reads fail.
* The default address is read through `ro.bt.bdaddr_path` (line 752), the comment
  at lines 99-100 says `ro.bt.bcm_bdaddr_path`.
* `connected_read1_shutdown1` hands `thread_shutdown` an address where it takes a
  descriptor (socktest.c:701, asocket_test.c:629), and `poll_poll_close` hands
  `NULL` to its threads (pipetest.c:158), which then poll the standard input:
  neither ends.
* The error return of `connected_read1_shutdown1` (socktest.c:699,
  asocket_test.c:627) joins nobody, and `t1` goes on with the address of `a1`:
  the exception in `ArgsOutliveThreads`.
* `accept_connect_connect` accepts once behind a backlog of 1: two connections
  from outside take the places of its own threads, and it hangs (`Crowded`).
* On a line that hangs up `read_event` reads for ever (brcm_patchram_plus.c:575:
  the result is below the bytes missing, 0 or -1); with -1 its index also moves
  back.
* `bttest enable` right after another process was killed or failed may succeed
  on a device that a stop still in init's queue then removes: that is why
  `EnableRecovers` asks that init had caught up when the call began.
* `brfpatch` exits 0 on some input that `usage()` does not describe, and what it
  writes then is not what the script says (`Lenient`). The length of a field counts
  letters and digits, and `advance` passes over what stands behind them: `0x1z` is
  a byte of one digit, and of `0x12:34`, or of any other field with a tail that does
  not begin with a letter or digit, only the head is written (lines 113-117,
  64-75). An opcode may have any length and any tail, even be an empty `0x`, for
  which the next field is read; of eight digits, which `usage()` lists (lines 41-47),
  the first four are written (`LaxOpcode`). A quoted field that is not closed, goes on behind
  the quote or has an odd digit may swallow the field behind it.
* A line with more data than a byte can count is written with its length modulo
  256 (brfpatch.c:162), and exit code 0.
* The rest of a comment that does not fit the buffer is taken for a line of its
  own (`SkippedLinesFit`), and the last line of a script may end in the middle of
  a pair: the scanner then steps over the NUL into what the buffer held before.

### Bounds, and why they are enough

*Bluedroid.* `Attempts` is 1 or 2 for 100: 1 reaches the time-out, 2 also the
loop back. `MaxFd` gives each thread the most descriptors it can hold and, in
`shared_process`, one more for the rest of the process, so that a number the
library has closed can be taken over. In `two_callers` two numbers for two
threads make the table run full. The rfkill directory has a foreign switch before
the Bluetooth one. `MaxCtl` bounds init's backlog; a thread that finds the queue
full waits. `EnabledMeansUsable` is checked in `liveness`, where sockets do not
fail; there it holds for a backlog of any length (`SuccessMeansUsable`). When a
socket can fail, an enable that gets none leaves its start of hciattach waiting in
init's queue, a later disable adds a stop, and a further enable can succeed on the
old device before that stop is handled: `bttest`, where all that can happen, states
`EnableRecovers` for enables that began with init's queue empty (`caughtUp`). In `bttest` there
is one process at a time, with one thread, and `Attempts` is 2. `FailedEnableCutsPower` is checked with a time-out
in `liveness` and with refused requests in `shared_process`; there it ends with
the first time-out, whose second close can make a descriptor of another thread
and the rfkill file share a number. `shared_process` and `two_callers` are two
runs because two threads with a busy process around them are too many states; the
proofs below cover the combination, and the build without rfkill. Symmetry of the
two callers is used in `two_callers`, which checks no liveness.

*Patchram.* Three records tell the first, the middle and the last apart; a file is
cut behind the first, or inside the last (`BadFiles`).
The options are given in one order, in every subset: they are independent of
each other except for the ones `DownloadLines` combines. `MaxPending` bounds the
resets that may pile up on the line. `no2bytes` is given exactly for the chips
that need it, as its comment asks. `NothingGarbled`, `EndMeansConfigured` and
`ProgramEnds` are stated up to the first command that the chip refuses: the
program does not look at the status of an event, so nothing can be promised
after it. They and `LockStep` are stated for answers that come within the alarm's
4 s and are read whole (`Prompt`: `punctual`, no short read); the scenarios
without that (`LateLines`) check `RecordsInOrder` and `SettingsSurvive`. `Prompt` also
leaves out the alarm that fires as it is switched off, and so does
`SettingsSurvive`; `late_alarm` shows what it does. `NothingGarbled`,
`EndMeansConfigured` and `ProgramEnds` also ask for a whole file (`WholeFile`): what
the loop sends behind the launch record of another one meets a chip that has
restarted at its default speed, or is still booting, one without a launch record
leaves the chip as it was, and one that cannot be read may keep the
program in its loop. In `CutLines` the line may hang up at
any point of the set-up, the download and the changes of speed.

*Brfpatch.* The buffers have 32 characters for 1024 and the length takes 9 values
for 256, so that lines that end before, at and behind the end of the buffer, and
records that overflow the length, are a few fields long. Of the memory
behind the buffer four cells are modelled, the last two of them NUL, enough to
see a scanner that steps over the final NUL; where it would end in the stack
behind them is beyond any model of the source.
One line has up to three fields, sound or not, in every order; two lines let the
second be read over what the first has left, and let a lax or malformed command
come first. `LaxField` and `LaxOpcode` are the words left out of
`ExitZeroMeansConverted` and `OnlyLastRecordMayBeWrong`, and no others. A `+` or `-` before a number, a NUL
in a line and a `0x` inside a field of digits are in no script.

*Tools.* `Many` (3) stands for 10, 32 and 100 equal threads or turns.
Descriptors 0 to 5, one standing for the three standard ones, hold every program
and let a leak of the pipe loop run into the end. `MaxFile` (9) is the number of open
files that may exist at a time, in the guards of `Socket`, `Pipe` and
`AcceptReturns`; every state of the run leaves three of them free, so no call waits
for that reason. `MaxRemote` (2) bounds the connections and answers from outside:
one of them leaves `accept_connect_connect` room for its own threads, two do not.
`ShutdownEndsThem` is about the programs of `Ending`: those that close instead of
shutting down, that loop, that poll the wrong descriptor, `bug_tcp` with its endless
sleep and `bug_rfcomm`, which connects to another device, are not among them, nor
is a Bluetooth `connect`.

### Fairness

`Bluedroid`: weak fairness of each thread inside a call (the scheduler runs
them), of init's handling of a request and of an attach hciattach has begun. No
caller has to call, no daemon has to fail or to recover. `BtTest` adds that a
`bttest` makes its one call and returns from `main`; nobody has to start or kill
a process, and another client need not call. `Patchram`: weak
fairness of the process, of the alarm, of the chip booting and answering.
`SockTest`: weak fairness of each thread; nobody outside has to connect, answer
or hang up. `Brfpatch` is checked for safety only: it is sequential and reads one
finite file.

## 5. Proofs

### The library

`BluedroidProofs` proves, for any set of callers, any size of the descriptor
table, any number of attempts, any rfkill directory, both builds and any set of
faults:

* `TypeCorrect`: the state stays well typed, so the attempt counter stays in its
  range;
* `NoDescriptorIsLost`: every descriptor a call opened and nobody closed is one
  it still holds;
* `ForeignDescriptorsAreSafe`: until some `bt_enable` runs out of attempts, a
  call's descriptors and those of the rest of the process are their own;
* `StaticsNameTheSwitch`: if the device has one Bluetooth switch (`OneSwitch`),
  `rfkill_id` and `rfkill_state_path` name it or nothing.

They use `PlatformAssumption` and `BluedroidAssumption` only (the thread
identities differ from the two other owners; the bounds are natural numbers).

*The argument.* None of the first three is inductive: whether a `close` is harmless
depends on where the thread is and on what its locals still mean. The inductive
invariant `IInv` adds, for each thread, `LocalInv`: which of `hci_sock`, `fd`
and `attempt` can be set at each position, which function can be there, and
that `hci_sock` is stale (a closed number that is kept) only at the positions of
the retry loop that open a new one, or after the last attempt, which implies
`timedOut`. A step changes the descriptor table in one of five ways: not at all;
opening a socket; opening the rfkill file; closing the caller's own; closing a
stale number after a time-out. One lemma per kind of effect says that it keeps
the descriptor parts for every other thread; one lemma per action says which
effect it is and that it keeps `LocalInv`. `InductiveInvariant` puts them
together, and the three theorems follow by PTL. `RfkillStateValid` is inductive
given the types: only the search and the setting of the path write the statics,
and a second search finds the same switch. With two Bluetooth switches and a read
error on one of them it would be false: one thread could cache the id of one and
another have built the path of the other.

### The adapter

`BluedroidAdapterProofs` proves `BluedroidImplementsAdapter` with no hypothesis but
those two assumptions: for any number of threads, every behaviour of the library
and its platform is one of `BtAdapter` under the mapping of `BluedroidAdapter`.

*The argument.* A reply is justified in `BtAdapter` by a value the adapter has had
during the call. `SeenInv` says what each call has witnessed at each of its
positions: behind a successful `HCIDEVUP` an adapter that was on; behind an
`HCIDEVDOWN`, or a power read as off, one that was off. A call that has switched
the power on, or read that it is on, need not have seen the adapter on, but has if
the device is up: it was up already or came up on a powered chip. All of it is
stated until some `bt_enable` runs out of attempts, as in the abstract
specification. `HInv` is `IInv` with `SeenInv`; each action of a thread maps to the abstract call, reply or
a stutter, each action of the platform to a change of `on` or a stutter.

### One caller

`BluedroidCallerProofs` treats a process with one thread in the library
(`Caller = {c}`) on a device where the power can be switched (`PowerWorks`: the
rfkill directory has a Bluetooth switch, `open`, its read and write and `asprintf`
do not fail, and the rest of the process leaves a descriptor):

* `FailureCutsPower` (with rfkill): a `bt_enable` that failed leaves the power off,
  up to the first time-out. Requests, sockets and `HCIDEVUP` may fail, daemons may
  exit, others may use descriptors.
* `OnlyTimeoutsFail` (only `HCIDEVUP` fails, nobody else opens descriptors): a call
  fails only by running out of attempts.
* `SuccessMeansUsable` (with rfkill, only `HCIDEVUP` fails, daemons do not exit):
  0 from `bt_enable` means a usable adapter until the next call, whatever init's
  backlog.

*The argument.* `PInv` says what the search of the rfkill directory has found
(`SwitchInv`), that a descriptor number is left (`AppInv`, on cardinalities), and
that the power is off where a roll-back has ended (`PowerInv`). `NInv`
strengthens it by what can have failed. For `SuccessMeansUsable` the point is
the order of hciattach's requests in `ctl`: `QueueInv` says that no start waits
between two stops, and that outside the retry loop no start waits behind a stop;
`DeviceInv` that a stop that waits has had the firmware go with the power, so that
a device which is up is not the one that stop will take away.

### Processes one after the other

`BtTestProofs` proves, for processes that are killed anywhere, both builds, and any
length of init's queue:

* `DisableAlwaysRecovers`, without hypothesis: status 0 of a disable means all is off;
* `StopsComeFirst`, without hypothesis: a disable cuts the power only with the device
  down and both stops accepted, and the device goes down only after the stop of
  bluetoothd was accepted; an enable that rolls back cuts the power with hciattach
  asked to stop, or where init may refuse requests (lines 161-173, 200 and 210 of
  the source then cut it under a hciattach that runs). It is an action property and
  needs to know, at the positions that cut, what this process has asked for (`DInv`,
  and `CInv` where init refuses nothing). That a daemon has stopped by then is not
  claimed: nothing waits for it;
* `EnableAlwaysRecovers`, if init takes every request (`"property" \notin MayFail`) and
  daemons do not exit by themselves (`~DaemonsMayExit`): status 0 of an enable that began when init had caught up
  means a usable adapter.

The invariants are `DInv`, `CInv` and `EInv`, each on top of the one before and of
`IInv`: what the present process knows at each position and what an ended one
leaves. Of the world that killed processes leave, `CInv` needs one thing: a device
that is up has power and firmware, or the stop of its hciattach is in init's queue
(`CutInv`). `EInv` says that no stop waits while an enable runs that began when
init had caught up, and that the device it found up stays.

### The loader

`PatchramProofs` proves, for any number of records, any scenarios and bounds that
satisfy `PatchramAssumption`, and so for every command line:

* `TypesHold`;
* `SettingsStaySet`: no reset, repeated or late, and no download follows a setting,
  unless the timer fires in the call that switches it off;
* `HostAndChipInStep`: under `Prompt`, a command is written only when all former ones
  have been answered and the answers read;
* `RecordsArriveInOrder`: whatever is late, short or refused, wherever the file ends
  and whichever of its reads fail, the chip takes the records in rising order, and
  without refusals and failing reads of the file leaves none out;
* `NothingIsGarbled`: under `Prompt`, with a whole file and until a refusal, neither end
  sends while the other listens at another speed;
* `EndIsConfigured`: a program that has done its work leaves the firmware, the speed of
  both ends, the address and every setting as the command line asks, and the line with
  the kernel unless the kernel refused it or it had gone, under `Prompt`, with a whole
  file and if nothing was refused. It has one hypothesis on the constants: descriptor 0
  is in use when the process starts, or `read_default_bdaddr` takes it. Otherwise the
  firmware file may be opened as descriptor 0, which `main` takes for no file, and
  the property fails (section 4); the proof needs the hypothesis for nothing else.

*The argument.* The program is a list that is consumed, so an invariant needs to
say which lists can be left. `main` is shown equal to 17 blocks, each there or not
as the options say (`MainIsRest`), and whatever is left to do is the rest from some
block on (`Rest`), or a position inside the first of them (`At`, `Standing`: before
and after the write, alarm set, header read, body read). One lemma says which
position each call leads to (`MainStep`); the invariants then speak about a block
number and a position. `Course`: an alarm is set only inside a reset, but for the handler's own, nothing
is set before the address is written, and what is done and on the line keeps what
was set. `LineInv`: how much is on the line at each position, under `Prompt`.
`OrderInv`: the records done and on the line are rising and chained, none of them
beyond what the program has sent at its position (`Sent`, `Placed`), a payload or
record under way is the one the file's position says (`Held`), and the chip is past
its download, gone, or able to take the next one, as long as nothing but whole
records was sent (`Sound`). `ConfInv`: a table over the blocks
says at what speed the host is (`HostSpeed`) and in which state the chip has to be
(`Suits`: mode, speed, address, settings) when main begins a block, and each position
inside a block says whether the chip has still to carry out its command
(`InFlight`) or has done so (`Obeyed`). It rests on `LineInv`: only because host and
chip are in step is there at most one command under way, so that the table is
about one command. `SuitsPast` and `HostPast` show that a block left out by
the options would have changed nothing, `SuitsDone` and `SuitsRecord` that a command
leads from one row to the next, `SuitsReset` that a reset, lost by a booting chip or
repeated by the alarm, changes no row.

### The converter

`BrfpatchProofs` proves, for any scripts, any memory to begin with and any sizes
of the buffers that satisfy `BrfpatchAssumption` (half the line and eight bytes
fit `data`, as they do in the code):

* `BytesOfLineFit`: the bytes of a line are at most half of the characters
  scanned, so every store, four bytes wide as it is, stays in `data`;
* `ScannerStays`: in a line that ends with a newline the scanner stays in the text.

*The argument.* The test in the program is of no help, because it is one byte
late and guards one kind of field. The inductive invariant says that the scanner
stays in the memory that is modelled, whose last two cells stay NUL, and that
`2 * Len(data) <= buf`. Each kind of field moves the scanner by at least two
characters for each byte (`FieldBytesType`, `BytesType`: a field of n digits
makes n / 2 bytes); `FirstFinds` and `AdvanceFinds` say that a search ends at a
NUL at the latest. For `ScannerStays` the invariant (`TextInv`) adds that a line
whose last character was a newline has it in the buffer, before any other newline
and with the NUL of `fgets` behind it, and that the scanner is at that NUL at the
latest: searches stop at the newline, what `sscanf` takes ends before it, and the
two steps for each byte of a quoted field cannot pass it.

### The tools

`SockTestProofs` proves, for every program and socket family, any failing call, any
number of threads (`Many`, at least 2) and any size of the descriptor table and of
the kernel's set of files:

* `TypesHold`;
* `ClosedNumbersAreNotUsed`: no call is made with a closed number that is open again
  for something else (`NoAstrayCall`);
* `ArgumentsOutliveThreads`: when main returns, by its last line or with an error, no
  thread that reads its stack runs, but for the error return of
  `connected_read1_shutdown1`;
* `PipeLoopKeepsRunning`: `do_pipe_pipe_pipe` never fails to open a pipe, if the table
  has room for one (`MaxFd >= 2`, its only hypothesis);
* `StuckThreadsHoldClosedFiles`: in a program that closes under its threads and is
  stuck, every thread inside a call is in a file that no number names.

They rest on the assumptions of `SockScripts` and `SockTest`, which are about the
constants only.

*The argument.* What is specific to a program is proved once, from its script:
`SockScriptsProofs` shows that every program has the shape `Good`. Its calls are well
formed and jumps stay inside (`Typed`); main alone creates threads, each once, and
joins those that read its stack (`Forks`); a number that was closed cannot meet an
open (`Harmless`): either nothing is closed, or main alone opens, and only when the
threads it has created are joined (`Sequential`), and an `accept`, which opens too, is
in no other program than those whose one socket is opened at the start (`OneNumber`),
so that a close of it makes every variable stale. `ClosesOne` says that main of a program of
`Closing` waits for nothing before the close is made or handed to a thread that
waits for nothing. `Many` occurs in the loops that build the scripts, so these are
proofs about sequences of any length.

A step of `SockTest` is then reduced to its effect on threads, variables and the
descriptor table (`Effects`); the states of open files play no part in it and are
typed at the end (`FileInv`). The programs with threads that read main's stack have
no call that must succeed behind a `pthread_create` (`ErrorsBeforeThreads`), and
`ErrorInv` says at which call main ended: a failing main has created no thread yet. The invariant `Inv` says where the threads are
(`ThreadInv`), that a number set aside by an `accept` is free and nobody else's
(`TableInv`), what the variables hold (`VariableInv`, `ClassInv`), that no live
variable that was closed has a number that is open or set aside to be opened
(`StaleInv`), that a number which was not closed is open (`NamedInv`), and that in a
program of `Closing` the close has made every variable with that number stale
(`CloseInv`). `NoAstrayCall` alone is not inductive: the number could come back
through an open, or through an `accept` that had set it aside before the close. For
`StuckOnlyOnClosed`, `StuckClosed` shows that such a program cannot get stuck before
its close. The pipe loop needs `PipeInv`: how many numbers are taken at each of its
four calls. `Inv`, `FileInv` and `PipeInv` were model-checked on the instance of
`tools` before they were proved.

## 6. What is only model-checked

Everything about liveness, in every module (fairness and ENABLED are beyond the
prover). What the output of `brfpatch` means (`ExitZeroMeansConverted`,
`SoundScriptsPass`, `OnlyLastRecordMayBeWrong`): these compare the output with what a
recursive reference computes from the script, and what a recursive definition
computes for every input needs induction over data, which the prover cannot do
here. Of `SockTest`, `ShutdownEndsThem`. Every other safety property of the runs that
are to pass is proved, some under the hypotheses named in section 5.

## 7. What is not modelled

`ba2str` and `str2ba` (a format each, no state), headers, configuration and build
files. Of what is modelled: logging, the time of delays, the debug output of
`brcm_patchram_plus`, the wording of usage messages, the contents of firmware
records beyond their order and completeness, files that `brfpatch` cannot open,
and failing writes to its output, whose results it does not look at.
