# The HDMI CEC virtual component in TLA+

This directory models the virtual component of `rdk-halif-test-hdmi_cec`
(`vcomponent/`): a library that stands in for the HDMI CEC driver of a device,
emulates a network of CEC devices around it, and is driven by YAML messages
over a control plane while the test suites (`src/`) call the HAL.

## The system

| part | state | operations | talks to |
|---|---|---|---|
| component, `vcHdmiCec_*` (`vcHdmiCec.c`) | global `gvcHdmiCec`, `cec_hal`, `bOpened`, `cp_instance` | Initialize, Open, Close, Deinitialize | UT-Core's control plane and profile reader |
| HAL, `HdmiCec*` (`vcHdmiCec.c`) | `vcHdmiCec_hal_t`: state, callbacks, devices, pool, queue, thread | Open, Close, addresses, callbacks, Tx, TxAsync | the application's thread |
| message queue (`vcHdmiCec.c`) | `msg_queue[32]`, `msg_count`, mutex, condition variable, `exit_request` | ProcessMsg, EnqueueMessage, DequeueMessage, MessageHandler, TeardownHal | control plane thread, handler thread, application's thread |
| device map (`vcDevice.c`) | tree of `vcDevice_info_t` in pointers, pool of logical addresses | create, insert, remove, find, allocate | handler thread (messages), application's thread (address calls) |
| command codec (`vcCommand.c`, `ParseCommand`) | a `vcCommand_t` and a 64-byte buffer on the handler's stack | clear, format, push, flatten | receive callback |
| virtual-device tests (`test_vd_hdmi_cec_driver.c`) | semaphore, expected and validated command | register, wait with timeout, validate in the callback | HAL, handler thread |
| L3 suite (`test_l3_hdmi_cec_driver.c`) | handle, logical and physical address of its session | the choices of a menu; answers commands in the receive callback | HAL, handler thread |
| L1, L2 suites | call scripts | | HAL |
| `main.c`, `test_register.c`, `test_vcomponent.c` | handle of the component | start and stop in order | component |
| skeleton driver, Python host scripts | none | | |

Three kinds of thread meet in a HAL instance. The *application's thread* makes
the calls. The *control plane's thread* runs `ProcessMsg`. The *handler thread*,
one per HAL, runs `MessageHandler` and, from it, the receive callback. Only
the queue has a lock. The pointers `gvcHdmiCec` and `cec_hal`, the HAL's state,
the callbacks, the device tree and the addresses are shared without one.

What is hard here: messages arriving while a HAL is opened or closed; a queue
that drops what does not fit, the exit request too; memory freed by one thread
and followed by another; a tree edited by a long sequence of messages while the
application changes an address in it; parsing that gives up half way and does
not tell its caller; a frame two bytes longer than its operands; a suite that
changes its address in two steps while its own callback answers in its name, and
globals that outlive the session they describe. `PROJECT.json` lists each hazard
at its line with the properties that answer it.

## Modules

| module | models | composed of |
|---|---|---|
| `Mailbox` | what the queue promises: a bounded FIFO that refuses when full, with one consumer | |
| `MsgQueue` | the array, mutex, condition variable, handler loop and exit request | implements `Mailbox` (`INSTANCE ... WITH`) |
| `MsgQueueProofs` | theorems on `MsgQueue` | extends `MsgQueue` |
| `HalService` | what opening and closing a HAL promises: one session after another, each closed only when its messages are handled | |
| `HalLifecycle` | component and HAL life cycle, all three threads, memory that can be freed | implements `HalService`; takes the queue as the FIFO `MsgQueue` implements |
| `HalLifecycleProofs` | theorems on `HalLifecycle` | extends `HalLifecycle` |
| `Network` | what the emulated network promises: devices join and leave with what hangs on them, each is given one address that no other has | |
| `DeviceMap`, `MCDeviceMap` | device tree, address pool, AddDevice, RemoveDevice, address calls | implements `Network` |
| `DeviceMapProofs` | types, logical addresses, announcements and stability | extends `DeviceMap` |
| `DeviceTreeProofs` | the tree, removals and the refinement of `Network` | extends `DeviceMapProofs` |
| `DeviceAddressProofs` | the walk and physical addresses | extends `DeviceTreeProofs` |
| `CecCommand`, `MCCecCommand` | from a message to the bytes the callback gets | takes the devices as a table |
| `CecCommandProofs` | theorems on `CecCommand` | extends `CecCommand` |
| `HalApi` | every `HdmiCec*` call as a function of the HAL and its arguments | |
| `L3Menu` | the program run from its menu: the L3 suite with its callback, the choices that start and stop the component, tests of other suites | extends `HalApi`; takes the queue as an unbounded FIFO |
| `L3MenuProofs` | theorems on `L3Menu` | extends `L3Menu` |
| `VdHarness` | the virtual-device tests and their callback, with the globals and the semaphore they share, over many tests | takes the queue as an unbounded FIFO, one HAL after another |
| `VdHarnessProofs` | theorems on `VdHarness` | extends `VdHarness` |

### MsgQueue

One HAL instance. `EnqueueMessage` and `DequeueMessage` work under
`msg_queue_mutex`, so each is one step, but `pthread_cond_wait` gives the mutex
up: `Wait` is a step, and `SpuriousWakeup` may end it. The handler is at one of
`test` (the loop condition), `dequeue`, `waiting`, `switch` or `done`.
`HandleMessage` does what the `switch` does to this state: the exit request sets
`exit_request`, everything else leaves it. `accepted` and `taken` are history
variables for the properties. A message is its type and its text, a model value.

Properties: `SlotsAreBacklog` (the slots in use are the accepted messages not
yet taken, in order), `NoLostWakeup`, `HandlerEndsOnRequest`, `MailboxSpec` (the
refinement), `TeardownReturnsIfAsked` (the join returns if the exit request was
accepted) and `EarlierMessagesHandled`.

### HalLifecycle

A fresh identity stands for each `malloc`, so a stale pointer is seen when it is
followed: `fault` then says what was met. Calls that take several unlocked
steps are several actions: `HdmiCecOpen`, `openPublish` and `openReady`;
`HdmiCecClose`, `teardownExit`, `teardownJoin`, `teardownFree` and
`closeClear`; `processCheck` and `processEnqueue` for the test and the use in
`ProcessMsg`. `vcCloseBody` is one frame of `vcHdmiCec_Close`, which calls itself
when the HAL is open. `messageHandler` takes a message and may, whatever it is but the
exit request, call the application back: for a command, and for a message about
the state too, as `AddDevice` announces its device (`vcHdmiCec.c:299-302`). `rxCallback`
is the callback of the L3 suite, which may answer with `HdmiCecTx`; the callback of
the virtual-device tests makes no call of the HAL and is the case where it does not.
What the handler's thread meets has a `fault` of its own.

The code relies on its callers, and the constants make that explicit:
`InitializeOnce` (no second Initialize while a component exists), `OpenOnce` (a
component is not opened again), `HalClosedFirst` (`HdmiCecClose` before
`vcHdmiCec_Close` and `vcHdmiCec_Deinitialize`), `QuietClose` (no message is
under way during `HdmiCecClose`). The repository's tests behave so:
`test_vcomponent.c` starts and stops the component once and each test closes
the HAL it opened; a person at the control plane provides the last one. With
them `NoFault`, `CallbackSeesItsHal`, `MessagesOfThisSession`, `NothingLeaked`,
`ServiceSpec`, `EveryCallReturns` and `BacklogDrains` hold. Not all of them need all
four; setting one to `FALSE` in `MCHalLifecycle.cfg` shows what is lost without it:

| | `InitializeOnce` | `HalClosedFirst` | `OpenOnce` | `QuietClose` |
|---|---|---|---|---|
| `MessagesOfThisSession` | | | | needed |
| `CallbackSeesItsHal`, `ServiceSpec` | needed | needed | | needed |
| `NothingLeaked` | needed | needed | needed | |
| `NoFault` | needed | needed | needed | needed |

So the runs do not show that the code is safe from these habits being broken: they
show what it does as long as they are kept, and the hazards they exclude are
listed in `PROJECT.json` with no property but a note. Without `QuietClose` the use in `ProcessMsg` can meet a
freed HAL or a later session's. That nothing worse happens then is proved:
`HandlerMeetsLiveMemory` (the handler and the callback meet live memory) and
`OnlyAcrossClose` (what goes wrong is the check of `ProcessMsg` between `free(hal)` and
the store that takes the HAL away, or its use of a HAL closed since the check), both
in `HalLifecycleProofs`; TLC finds both true with `QuietClose` set to `FALSE`. Without
`InitializeOnce` or `OpenOnce` a component or a control plane is
lost, and without `HalClosedFirst` a HAL with its thread.

`ServiceSpec` is the refinement of `HalService`. The session is the HAL the global
leads to (`OpenHal`), so it begins with `openPublish` and ends with `closeClear`; its
inbox is the backlog of that HAL without the exit request behind it (`Unhandled`);
the callback is that of whatever HAL has its handler in it, so a callback that
outlived its HAL would be seen. Everything else, the stale pointers and the three
threads included, is a stutter.

### DeviceMap

The tree as the code keeps it, in `parent`, `first_child` and `next_sibling`. The
recursion of `vcDevice_AllocatePhysicalLogicalAddresses` is the stack `todo` of
calls still to be made, so that the application's calls can run between two of
them. A physical address is its four digits. `task` says what the walk is for:
`HdmiCecOpen`, or a device to announce. What `vcDevice_DestroyMap` frees, and the
list `vcDevice_RemoveChild` searches, are least sets (`Reached`): the devices that
are in every set that has the first one and has where its members lead. The name is
looked for in that list, and the first device with it is the one all others with it
come after (`ChildNamed`). `info[n].number_children` is what the
profile or message declared, as in the code, and is what the free-port test
reads. Messages are handled one at a time, by the one handler thread.

The properties say when they need the messages to make sense:
`PhysicalAddressesUnique` speaks of networks whose ports are distinct, because
the code does not check that; `LogicalAddressesUnique` leaves out the clash
between the emulated TV, whose address is not taken from the pool, and a second
TV. The emulated device can be removed by a message: a source is one device among
others, and the code does not notice that the HAL still points to it.
`EmulatedLeavesOnlyIfNamed` says that nothing else frees it: not the removal of a
brother or a cousin, nor of a device that only hangs somewhere else, and that a sink,
which is the root, is never freed. `RemoveDeviceRemoves`, which a run refutes, leaves the
root out: the device in the trace is one behind another.

`NetworkSpec` is the refinement of `Network`. Its devices are the live nodes, what a
device hangs on is `parent`, and its address is the logical one; the other pointers,
the pool and the walk are the mechanism. Adding a device is `Join`, whatever tree the
message brings; removing one is `Leave`, where what is freed by following
`first_child` and `next_sibling` must be what hangs on the device by `parent`; a step
of the walk is `Assign` or a stutter; the application's own address is `Change`.

### CecCommand

`cec_data` is the sequence of bytes copied and `len` is what
`vcCommand_GetRawBytes` returned; they differ for a rejected command (one byte
copied, length 2: the second byte is whatever the buffer held) and for operands
within two bytes of the limit (nothing copied, the full length returned).
`RejectedNamesNobody` says that these are the only two cases where they differ, that a
rejected command leaves no more in the buffer than the header from 15 to 15, and
that no message of a device with a registered address to an address begins with that
header. The announcement of an unregistered device does. `dest`
in `ParseCommand` is not initialised, so for the destination `broadcast` it is any
device, `NULL`, or a wild pointer, which ends the program. Formatting of names
and opcodes other than the three with operands is left out: they differ only in
their code.

### HalApi and L3Menu

`HalApi` has one operator per call. It takes the HAL (no component, none open, one
open; its type, its logical address, whose receive callback is set, whether a
transmit callback is) and the arguments, and returns the status and the HAL as
it is afterwards; the order of the tests is that of the code. Every handle but
zero is accepted, as in the code, which looks at no more.

`L3Menu` is the interactive program. A choice is one action where nobody can see
its parts, and several (`initRx`, `initBytes`, `initLogical`; `addStore`;
`removeStore`; `closeJoin`) where the callback, on the handler's thread, reads what
the choice has written so far. The callback is cut between composing its answer,
with `gLogicalAddress` as it is then (`MessageHandler`), and transmitting it
(`sendResponse`). A command is its destination and the kind of answer
`cec_responses.yml` lists for it. An `assert` that fails ends the program.
A test of another suite (`suiteBegin` to `suiteEnd`) opens the HAL with good and
bad arguments, makes any calls in any order with its own handle or with zero, and
closes what it opened; if a session of L3 is open, it runs against that.
The component is started when there is none and stopped with the HAL closed,
which is `InitializeOnce` and `HalClosedFirst` of `HalLifecycle`; commands stop
before a close, which is `QuietClose`. `MaxBacklog` bounds the commands under way,
and the queue is never full: what a full queue does is the subject of `MsgQueue`.

`misused`, `sent` and `answer` are history variables: whether the choice being made
was made outside its pre-conditions, as the comment above its test states them and
the HAL's contract for its call; the last frame in L3's own name with the address
its device had; and what the suite's last call was answered. `QuietChanges` says
that no command is under way while L3 opens a session or adds its address.
Without it (set it to `FALSE` in `MCL3Menu.cfg`) `NoCallbackCrash` and `SentAsSelf`
are violated: a command handled before `gPhysicalAddressBytes` is set follows a
null pointer, and one handled between the call and the store is answered in the
name of the old address.

### VdHarness

`validate_receive_callback_data` is `Begin` (a new HAL), `HdmiCecSetRxCallback`
(its two stores, which other threads may see in either order), `setExpected`,
`clearValidated`, `TimedWaitForCallback`, `check`, `closeRequest` and `closeJoin`.
`ReceiveCallback` is cut where it reads or writes a global: `lookup` reads
`gExpectedCecCommand` for the name of the expected command, `compare` reads it
again, `assign` a third time, `parameters` takes the assignment back, `sem_post`
ends it. The repository's build gives no optimisation option, so each store is
there to be seen. A frame is its opcode and whether its addresses and its
parameters are those of the validation profile. `gSemCallbackReceived` and the
other globals live as long as the program: `left` is the value the semaphore had
when the test began. `sent`, `left`, `answers`, `heard` and `outcome` are history
variables for the properties.

`PromptedOnly` says that commands are sent only while a test waits for one, as the
log asks for; they may then still be on their way when the wait ends. Without
it, which one sets in `MCVdHarness.cfg`, `NoCrash` is violated (a command between
the two stores, or before the first test has said what it expects),
`PassedMeansAnswered` is (a late answer to the last test passes the next one,
because `assign` reads the expectation anew) and so are `FailureExplained` and
`TimeoutMeansSilence`. With it, a test that is answered late or twice still
leaves its posts to the tests after it, which then fail at once:
`FailureExplained` says that this is the only way to fail without a wrong command.

## Runs

| run | bounds | shows |
|---|---|---|
| `MsgQueue` | 2 slots, 2 texts, 3 posts | every property of `MsgQueue`, liveness included. Three posts and an exit request are twice what the array holds: it fills, drops, and drains before, during and after the exit request |
| `HalLifecycle` | 2 components, 2 HALs, 2 control planes, 2 slots, 2 posts | every property of `HalLifecycle` under the four assumptions, and that it implements `HalService`. Two of each give a second session after the first was closed, and a queue that can be full when the exit request comes |
| `DeviceMap` | a sink's network of 4 devices and a source's of 3, 8 nodes in all; a single device, and a TV with a device behind it, can be added | every property of `DeviceMap`, and that it implements `Network`. Removals of inner nodes, first, middle and last children, additions after removals, and playback devices beyond the three addresses all occur |
| `CecCommand` | a buffer of 6, texts of 0 to 7 bytes, 4 devices among them one without an address and one unregistered | every property of `CecCommand`, on both sides of the size of the buffer and of the array |
| `VdHarness` | 3 tests of 2 commands, one with parameters, 2 answers to each | every property of `VdHarness`. Three tests of two commands repeat one, so that what a test leaves meets a test with the same and with another expectation; two answers can both be late, or the second come while the first is judged |
| `L3Menu` | a sink or a source (which is given an address or none), commands to the sink, the source and everybody, 2 commands under way | every property of `L3Menu`. Sessions, choices and tests of other suites repeat without limit; one command can be behind another that is being answered |
| `Teardown` | as `MsgQueue` | *violation*: a dropped exit request leaves `HdmiCecClose` waiting |
| `VcClose` | as `HalLifecycle`, HAL left open | *violation*: `vcHdmiCec_Close` recurses without end |
| `RemoveDevice` | the sink's network | *violation*: a device behind another is not removed |
| `Unregistered` | the sink's network | *violation*: a freed address is never given out again |
| `Broadcast` | as `CecCommand` | *violation*: `Broadcast`, the documented spelling, is not understood |
| `Validated` | as `VdHarness` | *violation*: a command counts as valid before its parameters are compared, and a test that looks then passes on a wrong one |

`MAX_QUEUE_SIZE` is 32 in the code and the buffer 64; nothing in the code
depends on those values but the comparisons modelled, and the theorems hold for
every queue size. Every bound is a constant marked BOUND in its module.
`CHECK_DEADLOCK FALSE` is given where the supply of identities ends or where a
wild pointer ends the program, in `VdHarness` because the tests come to an
end, and in `L3Menu` because an assertion that fails ends the program.

Fairness is weak and only for what the operating system schedules: the handler
thread, a call the application has started, a `ProcessMsg` that has begun, and
the thread of a test, whose wait ends by a post or by the clock.
Nobody is obliged to call, to send or to wake up without cause. One handler
waits on a condition variable, so a signal cannot go to the wrong thread.

## Proofs

`MsgQueueProofs` holds five theorems for every queue size, every set of texts and
every number of posts, from `QueueAssumption` alone.

- `TypeCorrect`: `TypeOK` is inductive as it stands.
- `BacklogCorrect`: `SlotsAreBacklog`, inductive with `TypeOK`. Enqueueing writes
  the slot just past the backlog; `DequeueMessage` shifts the array down and drops
  the head, and slot `i` then holds what slot `i + 1` held.
- `WakeupCorrect`: `NoLostWakeup`. The test and the sleep are one step under the
  mutex, and every enqueue signals.
- `EndsOnRequestCorrect`: `HandlerEndsOnRequest` is not inductive. `IInv` adds
  `HandlerInv` (what the loop knows at each place) and `ExitOnlyFromTeardown` (an
  exit request is in the queue or in hand only after TeardownHal has posted it).
- `ImplementsMailbox`: the initial state maps to an initial state of `Mailbox`, and
  each step to `Post`, `Take`, `Finish` or a stutter, under the invariant; the
  log is the history of accepted messages, and a message in hand is `holding`.

`VdHarnessProofs` holds five theorems for any commands, any number of tests and
any number of answers, from `HarnessAssumption`; the last four also assume
`PromptedOnly`.

- `TypeCorrect`: `TypeOK` bounds the semaphore, so it is not inductive.
  `PostsInv` counts what is still on its way to the semaphore (`Pending`: the
  queue and the callback) and `RequestInv` keeps the request to end out of that
  count.
- `NoCrashCorrect`: `FlowInv` says where the two threads can be at the same time:
  until a test waits, nothing is in the queue and no callback runs; from then on
  the callback is registered, and what is expected is what the test expects.
- `PassedCorrect`, `FailureCorrect`, `TimeoutCorrect`: `AnswersInv` relates
  `gCommandValidated`, the place of the callback and the commands answered;
  `WokenInv` and `SilenceInv` relate the semaphore to them while a test waits.

`HalLifecycleProofs` holds nine theorems for any number of components, HALs,
control planes and messages. Each assumes no more of the four constants of
`HalLifecycle` than it needs (`OneAtATime` is `InitializeOnce` and `HalClosedFirst`):

| theorem | assumes | invariant |
|---|---|---|
| `TypeCorrect` | nothing | `Typed` |
| `SessionCorrect` | `QuietClose` | `SessionInv` |
| `OneHandlerCorrect` | `OneAtATime` | `LifeInv` |
| `CallbackCorrect` | `OneAtATime`, `QuietClose` | `LifeInv`, `SessionInv`, `ReadyInv` |
| `NothingLeakedCorrect` | `OneAtATime`, `OpenOnce` | `LifeInv`, `CpInv` |
| `HandlerCorrect` | `OneAtATime` | `LifeInv` |
| `OnlyAcrossCloseCorrect` | `OneAtATime`, `OpenOnce` | `LifeInv`, `CpInv`, `CheckedInv` |
| `NoFaultCorrect` | all four | all of these |
| `ImplementsService` | `OneAtATime`, `QuietClose` | `LifeInv`, `SessionInv`, `ReadyInv`, `DrainInv` |

None of the properties is inductive: `NoFault`, say, holds of `ProcessMsg` only
because the HAL it has checked is still the open one. Every invariant is also kept
together with `Typed`.

- `LifeInv` says how long things live. A component is live exactly while the global
  points to it (`ComponentInv`); a HAL is live exactly while the global leads to it,
  save for the end of `HdmiCecOpen` and of `HdmiCecClose`, and its thread lives
  within that time (`HalInv`); `AppInv` is what the application's thread knows at each
  place inside a call; only `TeardownHal` asks a thread to end (`ExitInv`).
- `SessionInv`: a control plane past the check of `ProcessMsg` still finds the HAL it
  has checked, and what is queued in a HAL was let in for it.
- `ReadyInv`: only a HAL that became ready has messages or a callback.
- `CpInv`: a component gets one control plane, and one that runs belongs to the
  component the global points to.
- `CheckedInv`: a control plane past the check of `ProcessMsg` has seen a HAL that was
  ready. With it and without `QuietClose`, a use that finds no HAL is that of one freed
  since.
- `DrainInv`: a request to end has nothing behind it, so a thread that has ended has
  handled everything.

`OneHandlerCorrect` states that at most one handler thread runs and none outlives its
HAL. `ImplementsService` maps each action to a step of `HalService` or to a stutter,
one lemma each (`Opens`, `Receives`, `Handles`, `Returns`, `Closes`, `Stutters`). The
step that matters is `Closes`: the handler of the HAL being given up is done, hence by
`DrainInv` its backlog is empty, and no other HAL has its handler in a callback.

`L3MenuProofs` holds six theorems for any addresses a source can be given and any
number of commands under way. `TypeCorrect`, `KnownAddressCorrect`,
`FailsExactlyOnMisuseCorrect` and `SuiteKeptOutCorrect` assume nothing else.
`IInv` says whose session is open (`Owner`), how far the choice has come with it
(`Progress`), that L3 knows its address except while it changes it (`Known`), what a
failure has to do with the choice (`Failing`), and that nothing is queued without a
session (`Backlog`). `NoCallbackCrashCorrect` and `SentAsSelfCorrect` assume
`QuietChanges`; `QuietInv` adds that an answer being sent already carries the
device's address.

`CecCommandProofs` holds four theorems for every size of the buffer, every network,
every table of opcodes and every message: `TypeCorrect`, `NoOverrunCorrect`,
`FrameDecodesCorrect` and `RejectedCorrect`. The invariant says where the command
in hand comes from: the message in hand refused (`Refused`), the message in hand
parsed (`Sent`), or a device just announced (`Announced`); the buffer, once filled,
holds its bytes. The numbers in it are taken apart by lemmas on the header byte and
on the two bytes of an address. `RejectedCorrect` rests on `HandIs`: a command in hand,
parsed or announced, has the address of its message's initiator.

Three modules hold the nine theorems on `DeviceMap`, for every network a session is opened with,
every device that can be added and any number of nodes: all its safety properties and
the refinement of `Network`.
Those of `DeviceMapProofs`:

- `TypeCorrect`: the pointers lead to nodes allocated so far (`Counts`, `Tree`), and
  the calls still to be made are of such nodes (`Walk`).
- `AddressesCorrect`: `LogicalAddressesUnique` needs `Pool`: nodes not yet allocated
  have no address, and every address in use is marked in the pool but the 0 that
  the application gave an emulated TV. The allocation gives only what is not
  marked, and nothing takes a mark away.
- `AnnouncedCorrect`: `AnnouncedIsTrue` needs from `Walk` that the device added is not
  the emulated one, whose address the application changes meanwhile.
- `StableCorrect`: `AddressesStable`, if the session starts with an emulated sink, if
  any, at the root of its network (`SinkIsRoot`), which is so in every profile of the
  repository: for a TV elsewhere `HdmiCecOpen` writes an address the next walk
  overwrites. That it stays so is `StepSink`. `Settled`
  says that a device that has an address has the one the next walk computes.

`DeviceTreeProofs` adds the invariant `Linked`: the root has neither parent nor
siblings, the pointers of a device lead to devices of the map whose parents agree, no
two pointers lead to one device, and a set with the root that has where its members
lead is the whole map (`Connected`). Facts about all devices are then shown by naming
such a set (`NoneIsLeftOut`), which takes the place of induction along paths.
`PositionsLinked` and `PositionsConnected` show the same of the pointers a
description is turned into; the smallest position left out comes from the
library's theorem on minimal elements.

- `TreeCorrect`: `TreeSound` follows from `Linked`; a device nobody pointed to could be
  left out, and two pointers to it are excluded.
- `RemovalCorrect`: what is freed is closed under parents up to the removed child, and
  nobody outside it has a parent inside (`GoneIsSubtree`).
- `EmulatedCorrect`: `EmulatedLeavesOnlyIfNamed`. What a step frees is what hangs on one
  child of the root, and that child has the name of the message (`FreedByName`,
  `GoneIsBelow`). A name enters as `named' = vcDevice_Get(name)`: `vcDevice_Get` is
  a recursive function, and what it finds in the tree is not proved but checked.
- `ImplementsNetwork`: `NetworkSpec`, from `IInv` and `Linked`. What hangs on a device by
  `parent` is what `vcDevice_DestroyMap` reaches by the other two pointers
  (`GoneIsSubtree` in one direction; in the other, what it reaches is the least such
  set, `ReachedIsLeast`). All devices hang below the root (`AllBelow`). An address the walk
  gives is of the device's type and by `Pool` nobody's (`AllocationFits`).

`DeviceAddressProofs` holds `PhysicalCorrect`, again if an emulated sink starts as the
root. `Covered` says that a set with the calls still to be made, and where its members
lead, has every device whose address is not the one its parent's implies (`Done`): so
when no call is left, all are done. Where ports are usable an address then has a
level (`Levels`), and devices with one address of level `k + 1` have parents with one
address of level `k` (`DistinctBelow`), down to the root.

Only model-checked is all liveness, that is `TeardownReturnsIfAsked`,
`EarlierMessagesHandled`, `EveryCallReturns`, `BacklogDrains`, `EveryWalkEnds` and
`EveryTestEnds`: fairness and `ENABLED` are out of the prover's reach. So are the six
violations, which a run shows by an example. The refinements proved are those of
safety: the abstract specifications `Mailbox`, `HalService` and `Network` state no
fairness.

## Where the repository disagrees with itself

`PROJECT.json` lists six disagreements that a run shows. These others were met in
translating the code; most are a literal against a literal, with no order of
events to explore:

- `test_l1_hdmi_cec_driver.c:207-208` expects `INVALID_ARGUMENT` of
  `HdmiCecOpen(NULL)`; the code answers `INVALID_HANDLE`.
- The L1 tests of adding and removing an address on a source expect
  `OPERATION_NOT_SUPPORTED` (lines 515 to 555); the code never answers that: a source
  gets `NOT_OPENED`, `INVALID_HANDLE` or `INVALID_ARGUMENT`.
- `test_l2_hdmi_cec_sink_driver.c:158` expects to add each address from 0 to 15; the
  code takes 0 only. The test after it expects a broadcast to be sent once the
  address is removed; the code answers `SENT_FAILED`.
- `vcHdmiCec.h:52` promises a status for a second `vcHdmiCec_Initialize`; the code
  overwrites the global (`NothingLeaked` with `InitializeOnce` set to `FALSE`).
- `vcCommand.h:326` says that `vcCommand_GetRawBytes` returns "The number of bytes
  copied"; the code returns the size of the frame, 2 where it copied the one byte of a
  rejected command and the full size where it copied nothing of a text too long.
  `RejectedNamesNobody` says that it keeps its word for every other message.
- A transmit callback is asked for by `HdmiCecTxAsync` and never called.
- The L3 callback reads the physical address one digit to a byte
  (`test_l3_hdmi_cec_driver.c:294-295`); the virtual component gives 16 bits with
  four digits.
- The L3 callback answers `Feature Abort` to an opcode that its table lists without
  a response, and answers directly to broadcasts too, in the name of 15.

## Not modelled

- The L1 and L2 scripts one by one: each is a straight line of calls with literal
  statuses. `L3Menu` has them as one test that makes any of those calls; what each
  expects was compared with `HalApi` by reading (above).
- The texts, tables and payloads of the L3 suite: the answer to a command is its
  kind and its initiator.
- `main.c`'s reading of arguments and files, the registration of suites, and the
  order of calls in `test_vcomponent.c` beyond the two choices of `L3Menu`:
  straight-line code. What it does to the component is what `HalLifecycle` assumes.
- The skeleton driver (constant stubs), the Python scripts (console text) and
  everything that only prints.
- UT-Core (control plane, YAML reader): outside the repository. Its thread, its
  callback and `UT_ControlPlane_Exit` are modelled as the code uses them.

## Plan

Done: every component of the virtual component, the virtual-device tests and the
L3 suite are modelled and checked; the safety properties of every module with a
state machine of its own are proved; and the queue, the life cycle and the device
map are each shown, by a run and by a theorem, to implement an abstract
specification.

What could follow: that the HAL as `L3Menu` and `VdHarness` see it is `HalService`;
and the L1 and L2 scripts, once their literals and the code agree.
