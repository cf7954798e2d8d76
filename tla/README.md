# Verification of SatelliteComSim

SatelliteComSim runs NASA's core Flight System (cFS) as a satellite and a set of
Python programs (`src/newGS`) as its ground station and the radio channel
between them. This directory holds TLA+ models of the parts that carry the
system's own logic, the TLC runs that check them on small instances, and
machine-checked proofs about them. Paths below are relative to the repository.

## 1. The system

A command travels

    GroundSystem GUI / cmdUtil --UDP 50000--> test1.py --UDP 8600--> test2.py (space
    channel) --UDP 1234--> CI_LAB --Software Bus--> SAMPLE_APP

and its telemetry travels

    SAMPLE_APP --Software Bus--> TO_LAB --UDP 1235--> test4.py --UDP 8890--> test3.py

Inside the satellite every application is one task (with child tasks if it
makes any) that waits on a Software Bus pipe; the core services (ES, EVS, SB,
TBL, TIME) are tasks of the same kind whose APIs run in the caller's task and
share their tables with it. Between the ground programs everything is UDP.

### Inventory

| Component | State it keeps | Operations | Interacts through | What is hard | What makes it correct |
|---|---|---|---|---|---|
| Software Bus (`cfe-core/src/sb`) | pipe table, routing table with destination lists, message map, buffer pool with use counts, zero-copy descriptors | create/delete pipe, options, subscribe, unsubscribe, send, receive, zero copy, route commands, clean-up of an application | API calls in the caller's task, one mutex; OS queues | `RcvMsg` works outside the mutex; `DeletePipe` releases it in every round; route commands do not take it | use counts equal holders, messages stay intact, deletion cleans up and terminates, limits are kept |
| ES memory pool (`es/cfe_esmempool.c`) | free list per block size, end of the used part, check pattern per block | create, get, put, statistics | API; optional mutex | double and wild returns, exhaustion, blocks never merge | live blocks are disjoint, a block is handed out once |
| Executive Services (`es`) | application, task, library, CDS and counter tables, reset variables | start, restart, reload, exit, delete, clean-up of an application, CDS, syslog, performance log | API, command pipe, a background task | clean-up of an application whose tasks still run; control requests racing the application's own exit; a slot reserved, filled and released under separate locks | no resource of a deleted application survives; a request is acted on once; names are unique |
| Event Services (`evs`) | registration and filter per application, local event log | register, send event, filter, log | API; events become SB messages, and SB sends events: mutual recursion | recursion through SB, filter counts, log wrap | filters let the documented messages pass; no unbounded recursion |
| Table Services (`tbl`) | registry, access descriptors, working buffers, load, validation and dump blocks | register, share, load, validate, activate, abort, update, get/release address, dump | API in the owner's and the users' tasks, commands in the table task; no lock for registry and descriptors | active buffer swapped while users hold it; a file read into a buffer chosen before; load, validation, abort and activation interleave | a held image does not change; users learn of updates; only validated images become active |
| Time Services (`time`) | reference in four versioned buffers, tone and packet latches, count of tones, flywheel flags | tone, packet, 1 Hz state machine, commands, get time | timer call-back, two child tasks, messages to itself, lock-free versioned reads | readers race the writer; a packet is late for its tone; flywheel commanded while a packet is on its way | a reader sees one version; the MET does not jump |
| File Services (`fs`) | shared buffers for decompression | header read/write, decompress | API | none that is concurrent | round trip of headers |
| OSAL (`osal`), PSP (`psp`) | object tables, queues | OS primitives | API | object table locks | modelled where SB uses it: bounded FIFO queues, mutexes |
| CI_LAB | UDP socket, counters | poll socket, forward to SB, commands | UDP 1234, SB | loss, bad lengths | every accepted datagram becomes one SB message |
| TO_LAB | output flag and address, subscription table | enable output, add/remove packet, remove all, forward | SB, UDP 1235 | send failure suppresses output; table vs. ad-hoc subscriptions | a subscribed message is forwarded once while enabled |
| SAMPLE_APP, sample_lib | counters, example table | NOOP, reset, process, SEND_TEXT | SB, TBL | table update while processing | counters, table address released |
| SCH_LAB | schedule table, counters | wake on 1 Hz, send messages | SB, TIME | unbounded catch-up | each entry sent at its rate |
| newGS space channel (`test2.py`) | mode parameters, burst counter, heap of delayed packets | forward, drop, jam, corrupt, delay, replay; mode commands | UDP, lock and condition between handler, sender and control threads | peek and pop under separate locks, mode change between decision and use, replay | nothing is sent early; a packet is sent at most twice; nothing invented |
| newGS relays and logger (`test1.py`, `test4.py`, `test3.py`) | counters | forward datagrams, log | UDP | loss | forwarded unchanged |
| newGS launcher (`run_com.py`) | child processes | start in order, supervise, stop | processes, signals | a child dies while others start; stop during start | nothing started outlives it |
| RoutingService, GroundSystem, tlm and cmd GUIs | known spacecraft list, ZMQ topics | discover, route telemetry | UDP 50001, ZMQ | none that is concurrent beyond one thread | first packet names the spacecraft |
| modeling/3D view, gr-leo, cFS tools, build files | - | - | - | not used by the flow above, or tools | - |

## 2. Modules

| Module | Models | Kind |
|---|---|---|
| `SoftwareBus` | `cfe-core/src/sb`: all calls an application makes, with their critical sections | state machine, invariants, fairness |
| `PubSub` | what the bus promises: per-pipe first-in-first-out queues | abstract specification |
| `SBRouting` | the routing table as linked destination blocks, the walks that use them outside the mutex | state machine, invariants |
| `MemPool` | `es/cfe_esmempool.c`: get and put of pool blocks | state machine, invariants |
| `Allocator` | what a pool promises: disjoint live extents | abstract specification |
| `AppLifecycle` | `es`: applications from start to clean-up, in the command task, their own tasks and the background task | state machine, invariants, fairness |
| `TableServices` | `tbl`: the table task's commands against the owner and the users of tables | state machine, invariants |
| `TimeReference` | `time/cfe_time_utils.c`: the versioned reference, word by word | state machine, invariants |
| `AtomicReference` | what a reading promises: the whole reference at one moment of the call | abstract specification |
| `TimeTone` | `time/cfe_time_tone.c`: timer, tone, packet, flywheel, and commands that set MET and state | state machine, invariants |
| `SpaceChannel` | `newGS/test2.py`: handler thread, sender thread and mode requests of the radio channel | state machine, invariants, fairness |
| `SoftwareBusProofs`, `SBRoutingProofs`, `MemPoolProofs`, `AppLifecycleProofs`, `TableServicesProofs`, `TimeReferenceProofs`, `TimeToneProofs`, `SpaceChannelProofs` | theorems about the module each is named after | proofs |
| `MC...` | constants and symmetry for TLC | model checking |

An operator whose name ends in `_` and a word (`RcvSwap_forget`) is a mutation of
the definition it is named after; no specification uses it. PROJECT.json pairs it
with a property that TLC finds violated when it takes that definition's place.

### SoftwareBus

A step is the code between two places where the shared-data mutex is free, or
one access that `CFE_SB_RcvMsg` makes without it. State variables carry the
names of the fields they stand for (`CurrentBuff`, `ToTrashBuff`, `UseCount`,
`dest` for `CFE_SB_DestinationD_t`); `pc`, `pipeOf`, `hand`, `idx`, `deleting`
are the program counter and locals of the call an application is in.

| Call | Actions |
|---|---|
| `CFE_SB_CreatePipe`, `SetPipeOpts`, `SubscribeFull`, `UnsubscribeFull` | `CreatePipe`, `SetPipeOpts`, `Subscribe`, `Unsubscribe` |
| `CFE_SB_SendMsgFull` | `SendMsg`, with `Targets` and `Deliver` for its loop |
| `CFE_SB_RcvMsg`, `CFE_SB_ReadQueue` | `RcvMsg`, `RcvSwap`, `RcvClear`, `RcvGet` or `RcvNone`, `RcvFinish` |
| `CFE_SB_DeletePipeFull` | `DeletePipe`, then `DelUnsub` and `DelScan` for each subscription, then `DelDrain` and the steps of a receive for each message, `DelFinal` |
| zero copy | `ZeroCopyGetPtr`, `ZeroCopyReleasePtr`, `ZeroCopySend`, `ZeroCopyReleaseDesc` |
| enable and disable route | `SetRoute` |

Abstractions: an application is one task and reads only its own pipes, as all
applications in the repository do; the memory pool is a set of buffers (its own
model is `MemPool`) and destination blocks never run out; a message is its
identifier, sequence count and sender; telemetry counters, events, names and
sizes are left out; a refused call changes nothing else and is a stuttering step.
Errors of the operating system's queues (`CFE_SB_PIPE_RD_ERR`) are left out.

`PendForever` are the applications that receive with `CFE_SB_PEND_FOREVER`: on an
empty queue they stay in `CFE_SB_RcvMsg` (they never take `RcvNone`), except in the
drain of a deletion, which is a poll. The others poll or wait with a time-out.

`Deliver` is one step although `CFE_SB_SendMsgFull` puts the buffer on a queue
before it raises the use count (`cfe_sb_api.c:1379-1383`), and a reader takes it from
there without the mutex: the sender holds the mutex from the first to the last
queue, and everything a reader does with the use count, the limit count or the
statistics needs the mutex (`CFE_SB_RcvMsg` from line 1557 on), so no one reads a
count that is not raised yet.

### SBRouting

`SoftwareBus` treats a subscription as a value. In memory it is a block that
`CFE_SB_DeletePipeFull` still points to after it gave up the mutex to have it
removed, and that the route commands look up and write with no mutex at all.
`SBRouting` has the blocks with their `Prev` and `Next`: calls under the mutex are
one step each, the deletion is three (`DelUnsub`, `DelNext`, `DelFinal`) and a
route command is one step for each access (`RouteCmd`, `CmdTest`, `CmdNext`,
`CmdWrite`). A block that is returned keeps its contents, with both links NULL,
until it is taken again: the pool keeps its links in its own descriptor. Messages
are left out; their buffers are of a larger size class than destinations.
Zero-copy descriptors share the size class and are left out too. A walk along a
list is the least set closed under `Next` (`From`), so the module needs no
recursive operator.

### AppLifecycle

A slot of the application table goes through `Reserve`, `LoadModule`, `Fill` (or
`ReleaseSlot` and `UnloadModule` when loading fails): the critical sections of
`CFE_ES_AppCreate`, run by the command task (`StartAppCmd`) or by the background
task that restarts an application. `ControlAppCmd`, `GetAppIDByName` and
`ControlApp` are the sections of a delete, restart or reload command: the index
that the second finds is used by the third. Tasks of applications take
`RunLoop`, `ExitApp`, `CreateChildTask`, `ExitChildTask`, `DeleteChildTask`, and
`Acquire` stands for any registration with a service. The background task runs
`StartScan`, `Lock`, `ScanSlot` for each slot and `EndScan`; an application whose
timer has run out sends it, without the lock, through `ProcessControlRequest`,
`CleanUpService` for TBL, SB, TIME and EVS in this order, and `CleanUpES`.

| Variable | Code |
|---|---|
| `app` | `CFE_ES_Global.AppTable`: state, type, name, request, timer, main task |
| `taskApp`, `parked` | `TaskTable[].AppId`; tasks in the endless loop at the end of `CFE_ES_ExitApp` |
| `modules` | module table of OSAL, by name |
| `held` | whether a service has something registered for a slot; `"late"` if that happened after the service's clean-up |
| `scan`, `newCommand` | `CFE_ES_AppTableScanState_t` and the index of its loop; command counter changed since |
| `pc`, `slot`, `name`, `op` | place and locals of the command task and the background task |

Abstractions: a deleted task stops at once (POSIX cancels it at its next
cancellation point, `os-impl-tasks.c:630`); the start parameters are the name; a
service's clean-up is one step; system-wide restarts and core applications are
left out.

### TableServices

No lock protects the registry and the access descriptors, so a step ends where
another task may come between two accesses:

| Call | Actions |
|---|---|
| load: takes a buffer, then waits for the file | `LoadCmd`, `LoadRead` |
| activate, abort: look at the load, then write | `ActivateCmd`, `ActivateMark`; `AbortLoadCmd`, `AbortLoad` |
| validate, dump, housekeeping | `ValidateCmd`, `DumpCmd`, `HousekeepingCmd` |
| `CFE_TBL_Manage`, update: looks for a load and for locks; swaps or copies; resets the load and tells the users | `Update`, `UpdateImage`, `UpdateNotify` |
| `CFE_TBL_Manage`, validation: the application's function runs, its verdict is written | `Validate`, `ValidateDone` |
| `CFE_TBL_Manage`, dump | `DumpToBuffer` |
| get and release address | `GetAddress`, `ReadIndex`, `StoreIndex`; `ReleaseAddress` |

A load overwrites the buffer from the start of the read (`Part`), and a read that
is short or too long leaves what it has written, the flag `Validated` included.
`UpdateImage` reads `LoadInProgress` again for each use of it or keeps what `Update`
has seen, as the build may.

An abort that comes between makes -1 of the index, and the code goes on with it:
`LoadBuffs[-1]` lies in the registry packet that precedes the array in
`CFE_TBL_TaskData` (`cfe_tbl_task.h:305`, 330), `ActiveBufferIndex` becomes 255 and
`Buffers[255]` is in other registry records. `loadBuff` and `buffer` have one cell
more, at `None`, for that memory, and what the code decides from it is left open.
The same cell takes the verdict of a validation whose load has gone, and the flag
that housekeeping clears for a second dump of one table.

The history variable `crossed` says that an abort was carried out while the owner
was between `Update` and the end of `UpdateNotify` for the same table. The code has
no defence against that, and the promises about images do not hold after it: LOAD,
VALIDATE, ACTIVATE and an ABORT inside the update make 255 the active index, and
with one more LOAD inside the update the file is read into the buffer that the
swap has made active. `TablesInv`, `ChangesInManageOnly` and `OwnersImageStable`
therefore speak of behaviours up to such an abort; without that condition TLC finds
the first two violated with four commands and the third with five. In
`NotToldMeansCurrent` there is no condition. A late ACTIVATE, whose `LoadPending`
comes after the owner has installed the load, is within the properties: it leaves
an update pending without a load (against the comment at `cfe_tbl_task.h:203`), and
that table can be neither loaded, aborted nor activated from then on.

`active`, `inProgress`, `pending`, `valIndex` and `dumpIndex` are
`ActiveBufferIndex`, `LoadInProgress`, `LoadPending`, `ValidateInactiveIndex` and
`DumpControlIndex` of the registry; `buffer` is the two buffers of a table (single
tables use the first), `loadBuff` and `taken` the shared ones, `handle` the access
descriptors (`LockFlag`, `BufferIndex`, `Updated`).

### TimeReference

The writer (`StartReferenceUpdate`, `CopyField`, `ChangeFields`, `SetField`,
`FinishReferenceUpdate`) and the readers (`GetReference`, `LatchClock`,
`ReadField`, `CheckVersion`; `GetClockInfo`, which checks nothing) take one step
for each read or write of a shared word. Versions are written and read where the
source does it; the fields between may be copied in any order. Memory is
sequentially consistent. Every field holds the version that changed it last, so
that a mixture of versions shows. `published` and `asked` are history variables:
the reference as it was when the reader took its version, and the version its
call found. The version does not wrap around within the bound (in the code it
does after 2^32 updates).

### TimeTone

`Tick` is the local clock and the timer; `ChildTask` the 1 Hz task and the tone
task between their semaphores and their messages; `OneHzCmd`, `ToneSendCmd` and
`ToneDataCmd` handle the messages the Time task takes from its pipe, in the order
they were sent, at most `MsgLim` of a kind; `SetMET` and `SetState` are its
commands. Each task may be late by any time, and the Time task may be preempted
for any time between two readings of the clock in one handler: `OneHzCmd` reads it
for the flywheel and `Tone1HzISR` for the tone; `ToneDataCmd` reads it for the latch
of the packet, and `ToneVerify` for the MET out of the flywheel. A tone is good
(`GoodTone`) when it comes a second after the last, give or take `Tolerance`
(`ToneUnderLimit`, `ToneOverLimit`, which are 20 ms on board). Only the
configuration this repository builds is modelled: a server with an internal
source, virtual MET and fake tone.

The bounds the properties state are made of these delays. The count of tones may
be ahead of the MET at the tone by the seconds that start the flywheel and one:
tones may be early, and one may come after the flywheel was looked for (`MaxCounted`).
Out of the flywheel the MET is taken from the clock when the update is made, so it
gains the matching window and the time between the two readings; otherwise it is
the count of tones and gains what those were early (`MaxGain`). It loses less than
the seconds that start the flywheel and the time between the two readings of a
wake-up (`MaxLoss`). A command shifts each by a second until the next match.

### SpaceChannel

The handler decides on a packet under `_lock` (`Decide`), then stamps and pushes
each of its sends (`Stamp`, `Push`, twice for a replay); the sender checks, peeks,
looks at the clock and pops in four separate steps (`TxCheck`, `TxPeek`,
`TxClock`, `TxPop`); requests arrive at any time (`SetParams`), with values that
fail to convert half-way (`Bad`). A packet is its arrival number: what jamming and
bit errors do to its bytes has no influence on when and how often it leaves. The
normal distribution of the delay is cut at three deviations, and entries with
equal due times may leave in any order (the heap compares the bytes). The history
variables `log` and `out` record decisions and publications; `snap` is the
handler's copy of the parameters.

### MemPool

Each call is one step: callers either pass a mutex or, as the Software Bus does,
call inside one of their own. The model keeps the addresses: alignment of each
new block, the size table built by the insertion loop of
`CFE_ES_PoolCreateEx`, the end test by unsigned subtraction in a memory of
`AddrMod` addresses, the free list of each size, the check pattern and the
requested size in each descriptor. `Overrun` is a user that writes past its
buffer into the next descriptor, of an allocated block or a free one. The first is
noticed when the block is returned (`cfe_esmempool.c:543`), and the block is lost;
the second is not: `CFE_ES_GetPoolBuf` takes a block from its list without a look at
the pattern and writes a new one (`cfe_esmempool.c:358-374`). `DamagedStayOut` is
about the first. What an overrun does to the other fields of a descriptor is not
modelled. Pointers handed to `CFE_ES_PutPoolBuf` are
pointers the pool once returned; an arbitrary integer that happens to look like a
block is not considered.

## 3. Runs

| Run | Instance | Shows |
|---|---|---|
| `sb_pipes` | 2 applications, 2 pipes, 1 message with limits 1 and 2, 2 buffers, depth 2 | the inductive invariant, use counts, limit counts, contents, depth statistics, clean deletion; `SoftwareBus` implements `PubSub` |
| `sb_live` | 2 applications, one of which waits for ever when it receives, 1 pipe of depth 1, 3 identifiers for 2 table entries, 2 buffers; no symmetry, fairness | deletion terminates under continuing sends; buffers are recycled, but for the one in the trash of a reader that waits for ever |
| `sb_lists` | 2 pipes, 2 identifiers, 3 destination blocks | the lists survive every stale pointer |
| `sb_head`, `sb_route_cmd` | the same | two faults (section 6) |
| `sc_timing` | 2 packets, jitter, replay, bursts of 1 and 2, all orders of threads and requests | timing, number of sends, order, bursts; every packet leaves |
| `mempool` | 64 addresses, a pool of 28 at their end, sizes 3 and 8, requests 0, 3, 5 and 9 | disjoint blocks, exact free lists, blocks damaged in use stay out; `MemPool` implements `Allocator` |
| `es_life` | 2 slots, 2 names, 2 tasks, one service, 3 commands out of start, reload and delete, exits with APP_RUN and APP_ERROR; fairness | the inductive invariant, one name each, no lost request, no late return, every end is carried out |
| `tables` | a single, a double and a dump-only table, owner and one sharer, 2 images (one bad), 2 load buffers, 1 validation, 4 commands | until an abort crosses an update: loads stay apart, the held image is stable, changes in Manage only; updates told always |
| `tbl_valid` | a single and a double table, no reader | a disagreement with the user's guide (section 6) |
| `time_ref` | 1 reader with 1 retry, 2 fields and the latch, 7 updates | accepted readings are atomic, the depth of the buffers suffices; `TimeReference` implements `AtomicReference` |
| `time_tone` | 16 units of a third of a second, window and tolerance 1 unit, flywheel after 2 and latch after 3 seconds, 1 command | flywheel kept, count of tones near the MET, steps of the MET bounded |

Why the bounds are enough. The hazards of the bus need two actors (a sender and a
receiver, or a deletion and a subscriber), a buffer that is on two pipes at once,
and a queue that is full; two of each give all of them, and two buffers let a
buffer be reused while the other is in transit. The third block of `sb_lists` is
free while the two pipes share a list, so a stale block can reappear in another
list. Three identifiers for two entries make the routing table overflow; `sb_lists`
reaches a destination refused for want of a block, and the proofs cover one refused
because the message has its full number. In `sb_live` a sender can fill the queue again while the receiver still has the other
buffer, so a deletion that left a route behind would drain for ever; with a single
buffer it could not. Two packets make
four heap entries under replay, enough for the sender's peek and pop to see
different heads; a burst of two can be interrupted between them. In `mempool`
blocks of either size meet the end of memory, where the subtraction wraps, in
every order. In `es_life` a slot is restarted by the background task while a
command starts or ends another, and the two tasks are either two main tasks or a
main task and its child, so that the pool of tasks runs out; three commands are a
start, an end and one more that races them. Four commands in `tables` are a load,
a validation, an activation and one that interferes, with all owners and users in
between; the same table with five commands and no sharer was checked as well. With
one retry a reader of `time_ref` gives up after six updates; the
seventh lets the writer go on. Two readers never touch each other's variables, so
one stands for all. Five seconds of `time_tone` let the flywheel end, start and end
again, and with a tolerance of one unit in three (the most the assumption
allows with two seconds of `StartFly`) tones gain a whole second in three. The proofs
have none of these bounds.

`MaxPackets`, `MaxTime`, `MaxUpdates` and `MaxCommands` bound counters; the clock
of `SpaceChannel` goes on past `MaxTime` while an entry is not due, so nothing is
left waiting because of the bound.

`CHECK_DEADLOCK FALSE` is set where the system may stop: readers that wait
for ever while they hold all the buffers, a stopped channel, a
program that followed NULL, a pool with nothing left to do, a clock at its bound.
In `es_life` nothing is left to do once the commands are spent and no request is pending.

### Fairness

`SoftwareBus`: weak fairness of each application's steps inside a call (the
scheduler runs every ready task, and no lower-priority step waits for ever), and
strong fairness of `RcvMsg` for each application and pipe: the main loop of an
application returns to its pipe whenever it is not in a call. Whether that call
returns is another matter: TO_LAB polls and CI_LAB waits with a time-out, so they
come back without a message too; SAMPLE_APP and the tasks of the core services
(`sample_app.c:103`, `cfe_time_task.c:170`) wait for ever and keep the buffer they
read last until the next message comes. `BuffersRecycled` therefore promises of a
sent buffer that it goes back to the pool or is, in the end, the trash of such a
waiting task, and nothing else keeps it. Nothing makes anybody send, subscribe or
delete.
`AppLifecycle`: weak fairness of the background task (`Background`), which waits
with a time-out (`cfe_es_backgroundtask.c:191`) and is ready otherwise; nothing is
assumed of the command task and of applications, so a request is carried out even
if the application never calls `RunLoop` again.
`SpaceChannel`: weak fairness of the handler's and the sender's steps (threads of
one Python process) and of the clock. Packets, requests and `stop` are not fair.

## 4. Proofs

Every theorem holds for all values of the constants that satisfy the assumptions
named in the module that declares them.

**SoftwareBusProofs.** `IInv` is the conjunction of the type invariant and of
`CallsOwnPipe` (a call works on a pipe of its caller, so no two calls work on one
pipe), `BuffersInStep` (where the buffers of a pipe are at each step of a
receive), `OnePlace` (a buffer is at one place of a pipe), `RoutesScanned` (what
the search of a deletion has already cleared), `ZeroCopyAlone`, `IdlePipeEmpty`,
`HeldIntact` and `UseCountExact`. `UseCountExact` alone is not inductive: that a
decrement removes exactly one holder needs to know that the buffer is at no other
place of the pipe, which in turn depends on the step the receive is in, since
`RcvMsg` copies the current buffer to the trash before it clears it. Each action
has a lemma; `PipeStep` reduces an action on one pipe to a condition on that pipe,
`OneBuffer` and `SameHolders` relate a change of holders to a change of one use
count, `DeliverStep` does it for the sending loop and `ScanStep` for the search of
a deletion. From `Invariance` follow `TypeCorrect`, `UseCountCorrect`,
`MessagesIntact` and `DeletedPipeClean`.

The statistics and the refinement come on top of `IInv`: `CountsInv` is
`DepthStatExact` and `LimitCountSound`, and for each action a lemma `...Bus` shows
`BusStep`: `CountsInv` afterwards, and a step of `PubSub` or a stutter. A count
changes with the set of buffers that are pending on a pipe (`PlacesAppend`,
`PlacesTail`), and a limit count only ever errs downwards, because a new
subscription starts at zero. The queue of the abstract bus is the message the receiver
has in hand followed by those in the queue (`FifoOf`), so that `RcvGet` stutters
and `RcvFinish` is what takes the message; a send appends to the pipes it reaches
in one step (`DeliverBus`). Theorems `DepthStatCorrect`, `LimitCountCorrect`,
`ImplementsPubSubHolds`.

**SBRoutingProofs.** A list is what a walk from its head reaches: the least set of
blocks with the head that is closed under `Next`. The first part of the module
takes links and head as parameters and says what insertion at the head
(`InsertList`) and removal of a block with its neighbours' links (`DeleteList`) do
to it; the rest is one lemma per step. `RoutesLeadToPipes` is not
inductive, since a deletion follows `Next` of a block it no longer owns:
`SearchedClean` says which entries its search has left behind without a destination
of the pipe, and `ListsRouted` that no list is outside the table, so that a search
that has come to its end has seen every list. `CommandAtBlock` says that a route
command never reads or writes at NULL. Theorems `RoutingCorrect`,
`RoutesEndAtPipes`.

**SpaceChannelProofs.** `ChannelInv` adds to the three properties that are proved
from it what the threads know between their locks: `PeekHolds` (when the sender is
about to pop, the heap holds an entry that is due; what was pushed since the peek
is popped only if it is due no later), `HandlerPending` (which sends of the current
packet are still to come) and `HeapOvertaken`. Theorems `NothingEarly`,
`DecisionsKept`, `OrderKept`.

`BurstsSpent` is about a sum over the triggers, which the module takes with
`FoldFunction` of the community modules, in an order that `CHOOSE` gives. That the
sum exists, does not depend on the order and gains one term when a trigger is
added (`SumsExist`, `SumsAnyOrder`, `TotalAdds`) is proved by a smallest
counterexample among the parts of a finite set (`SmallestPart`). The property
itself is inductive with `ChannelInv`: a trigger finds the last burst spent.

**MemPoolProofs.** `PoolInv` is typing, `Placed` (blocks are aligned, in the used
part), `BlocksDisjoint`, `SizesExact` and `ListsSound`. `TableSorted` says that the
recursive construction of the size table leaves it in descending order, for any
list the pool accepts (`TableAssumption`): one round keeps the order
(`InsertSorts`), and a first round after which it is lost cannot exist
(`LeastNumber`, from the well-ordering of finite sets). `ClassOf` picks the
smallest class that fits; that such a class exists and is stable between get and
put follows. The wrap-around of the end test is in `FitsExact`. `Refinement` maps
the pool to `Allocator`: the live buffers with their sizes.

`NoBlockLost` (`ListsComplete`) needs `CountedInv`, which says that the list of a
size leads to all its free blocks: no proper part of them has the top and all that
follow (`ListLeadsToAll`). The property itself speaks of a walk of as many rounds
as there are blocks; `WalkGrows` shows that each round finds a new block until none
is left. `DamagedBlocksKept` follows from `PoolInv` by cases: a block handed out
comes from a list, where no allocated block is, or is new, and one taken back has
its pattern.

**AppLifecycleProofs.** `LifecycleInv` is typing, `TaskOwnership`,
`SlotOwnership`, `CountsExact`, `PlacesInv`, `CopyStaysCurrent`, `ModulesInv`,
`NamesUnique`, `CleanedInv` and `OnlyLateSurvives`. `NamesUnique` is not inductive:
`CFE_ES_AppCreate` compares no names, and what keeps them apart is that every
loaded module has one user at most, an application or a creator that has not
filled its slot yet (`ModulesInv`). `CopyStaysCurrent` rests on the states: only a
running application takes a request, and one being cleaned up is not running.
There is a lemma for each action; `KeepsApps` serves the actions that leave
applications and tasks alone, `TaskStep` those of child tasks, `EmptySlot` the
releases of a slot, and `FillStarts` and `CleanUpESStep` are the two with real
work in them, the counts among it. The action properties `NoResurrection` and
`RequestSurvivesExit` follow from the invariant by a case for each action that
writes a record (`StepEffect`, `CreateEffect`).

**TimeReferenceProofs.** `ReferenceInv` says of the writer that versions sit in
their buffers and only the next one may be partly written (`BuffersInv`), and of a
reader that, as long as its buffer holds the version it started with, that buffer
is what was published and so is every field copied (`CopyInv`). That rests on the
order of the code: the version is written before the first field, and read after
the last. `RetryInv` counts: each failed attempt costs the writer three updates.
The arithmetic of `Mask` is in lemmas of its own. From it follow
`NoFalseRolloverHolds`, `GivesUpWhenOverrunHolds`, `DepthSufficesHolds` and the
refinement `ImplementsAtomicReferenceHolds`, where the moment of a reading is the
step that takes the version.

**TableServicesProofs.** `IInv` has two parts. Of every behaviour it says that types
are kept, that dumps touch no table that can be loaded (`DumpsApart`; housekeeping
ends a dump by writing `LoadInProgress`, which would end a load if the table had
one), that the owner is in one call at a time (`OwnerInOneCall`), and
`NotToldMeansCurrent`. As long as no abort has crossed an update it adds `Agreed`:
active indexes are 0 or 1, every working image is apart from the others
(`WorkingApart`: the inactive buffer of a double-buffered table, a taken shared
buffer of no other table else), a file is read into the image its command chose
(`ReadsIntoWorking`), what the owner installs is what it has looked for
(`InstallsInProgress`), and nothing is loaded into the image the owner holds
(`OwnerReadsActive`). `InstallsInProgress` is why the unlocked update is sound
otherwise: LOAD refuses a table whose update is pending, ACTIVATE at most repeats
what is true, and only `AbortLoad` resets what the owner has looked at. The
last one is why `OwnersImageKept` holds for the owner: its address call and its
Manage are one task, so no swap comes between its reading of the index and its note
of it. Theorems `TablesCorrect`, `OwnerIsTold`, `OwnersImageKept`,
`ChangesInManage`; one lemma per step of the table task, of a user and of the owner.

**TimeToneProofs.** `FlywheelInv` is inductive with the types. For the count and the
steps of the MET, `CountInv` relates the count of tones to the local clock: out of
the flywheel, every tone counted since the reference was set took a second less the
tolerance, up to the latch of the last, and that latch is less than `StartFly`
seconds after the reference's, but for the time the Time task was preempted since
it looked (`late`), because otherwise the flywheel would have started. A command
may shift both by one tone. While a packet is verified the reference is that of
the latch (`timeTask = "verify"`), which bounds what the second reading of the clock
adds. `CountStaysNear` and `MetStepsBounded` follow. `FlyAssumption` excludes a limit
of zero, with which the flywheel would start at every wake-up
(`cpu1_platform_cfg.h:500` sets two); `ToleranceAssumption` says that early tones do
not gain a tone before the flywheel starts, three times 20 ms being less than a
second.

What stays with TLC: the four liveness properties (`DeleteTerminates`,
`BuffersRecycled`, `EverythingSent`, `EndIsServed`), since neither liveness under
fairness nor ENABLED can be proved here; that sorting the sizes loses none of them
(`SortingSorts` in `MCMemPool`, for all short lists); and the three violated
properties of section 6. Every invariant and action property of a passing run, and
every refinement, is a theorem. The inductive invariants `IInv` of `TableServices`
and `SBRouting`, and `CountInv` and `CountedInv`, were checked by TLC on the
instances of section 3 and are not part of the runs, since the theorems cover them.

## 5. Limits of the models

- Mutexes are assumed to work; priorities and priority inversion are not modelled.
- `SoftwareBus` assumes one task per application. With two readers on one pipe the
  trash buffer of one is overwritten by the other; the code has no defence.
- `AppLifecycle` keeps of the other services only whether something is registered:
  what `CFE_SB_CleanUpApp` does to pipes is not composed with `SoftwareBus`. A task
  that is deleted while it holds a service's mutex is not modelled.
- In `SBRouting` following NULL ends the program; what a zero-copy descriptor in a
  reused block would do is not modelled.
- `Allocator` sees the set of live buffers. That a live block is never handed out
  a second time shows in `PoolInv` (`ListsSound`), not in the refinement.
- In `TableServices` registration and the initial load are over; an owner that
  itself calls `CFE_TBL_Load`, and validation of active images, are left out.
- `TimeReference` assumes that a processor's writes are seen in their order. The
  source marks the buffers volatile, which alone does not guarantee that.
- `TableServices`: what a task does between two of its steps is not split further,
  though its single writes could be; the memory outside the arrays is one cell each.
- `TimeTone`: only the Time task writes the state its handlers read, so that
  between its readings of the clock nothing but the clock moves; the versioned
  buffers in which it publishes the reference are in `TimeReference`.

### Not modelled

Components with status `not_modelled` in PROJECT.json, with the reason there.
CI_LAB, TO_LAB, SCH_LAB, SAMPLE_APP and the relays are single loops without a
state of their own besides counters; their interactions are those of an
application in `SoftwareBus`, `AppLifecycle` or `TableServices`. Event Services is
a table of counters behind one semaphore. File Services, PSP, the tools, the
windows and graphics transform data or do input and output. Most lines of the
repository are unit tests, OSAL ports and vendored code.

## 6. Findings

1. `cfe_sb_api.c:1084`: `CFE_SB_UnsubscribeFull` relies on a list that is not empty
   "by design", but the routing table entry stays when the last destination goes;
   unsubscribing again follows NULL (`sb_head`). A deletion of a pipe reaches
   the same place: its search reads `Next` of the block it has freed, and when
   that block was reused in the list of another message it finds its own pipe
   there and unsubscribes from the message whose list it has just emptied.
2. `cfe_sb_task.c:649`: a route command may switch the destination of another
   message (`sb_route_cmd`).
3. `cfe_tbl_task_cmds.c:495`: a load that fails half-way has changed the working
   image and leaves the verdict on the one before, so an image that was never
   validated can be activated (`tbl_valid`). The same comes of a load that arrives
   while the owner's validation function looks at the image (`cfe_tbl_api.c:1148`).

Observations made while modelling, which no run reports:

- Software Bus. A new subscription starts its message count at zero while earlier
  messages are still queued, so a pipe can hold more than `MsgLim`
  (`cfe_sb_api.c:1585`, against `cfe_sb.h:406`). A new pipe inherits the options of
  the slot's last user (`cfe_sb_api.c:146`).
- Space channel. A burst interrupted by a mode change goes on without a trigger
  when drop is chosen again (`test2.py:230`).
- Applications. What a task registers after a service has cleaned up stays for the
  slot's next application; `OnlyLateSurvives` says that nothing else does. When
  `OS_TaskCreate` fails, `CFE_ES_AppCreate` leaves the module loaded
  (`cfe_es_apps.c:497`), and the name cannot be started again. A command acts on
  the slot it found even if another application has taken it since.
- Tables. An abort that lands inside the owner's update makes -1 of the index the
  update uses (`cfe_tbl_internal.c:1072`, 1109-1137), and an ACTIVATE that lands after
  it leaves a table that takes no more loads (`cfe_tbl_task_cmds.c:1068`); see
  `TableServices` in section 2. An abort or an update leaves a validation pending,
  which then looks at `LoadBuffs[-1]`; a second VALIDATE before the owner's Manage leaks the first
  block; a second DUMP before housekeeping gives two dump blocks one buffer. A
  sharer that takes the address while the owner swaps buffers may hold the
  inactive one with its index not yet noted, and the next load writes into it
  (the comment at `cfe_tbl_internal.c:545` promises otherwise): `OwnersImageStable`
  holds for the owner, whose own call does the swap.
- Time. `CFE_TIME_GetReference` gives no sign when it gives up, and its copy, which
  may mix versions, is used. A reader during start-up gives up without anyone
  writing. The flywheel ends with a packet for a tone that was not a good one. The
  MET may step back by up to `CFE_PLATFORM_TIME_CFG_START_FLY` seconds, and further
  if the Time task is preempted between its look at the flywheel and the tone
  (`MetStepBounded`); `SetMET` shortly before a tone gains up to a second.
- Memory pool. A descriptor damaged while its block is free is not noticed when the
  block is handed out (`cfe_esmempool.c:358-374`).

## 7. Plan

1. Proofs: that sorting keeps the sizes it is given (`SortingSorts`), and what the
   next two items add.
2. `CFE_SB_CleanUpApp` and `CFE_SB_ZeroCopyReleaseAppId` in `SoftwareBus`, with the
   application's task going on until it is deleted.
3. Registration, sharing and clean-up of tables, and the owner's `CFE_TBL_Load`.
