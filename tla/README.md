# A TLA+ verification of the x1 kernel

x1 is a small i386 kernel: one processor, one address space, preemptive threads,
mutexes and condition variables, software timers, a memory allocator, an
interrupt-driven serial line and a shell. This directory models its concurrent
and stateful parts in TLA+, checks them with TLC on small instances and proves
the central facts with TLAPS.

Paths below are relative to the repository: `src/thread.c` is the kernel file,
`lib/cbuf.c` the library file.

## 1. Inventory

| Part | Code | State | Operations | Hard behaviours | Module |
|---|---|---|---|---|---|
| Scheduler | `src/thread.c`, `thread_asm.S` | run queue (current, `nr_threads`, one list per priority, idle), per thread: state, yield flag, preemption level, joiner | create, exit, join, sleep, wakeup, yield, preempt disable and enable, tick | an interrupt between any two instructions that run with interrupts on; switches in the middle of an operation; a request to yield that is dropped between the two halves of an unlock; freeing the stack of an exiting thread | `Thread` |
| Mutex | `src/mutex.c` | locked, owner, waiter list | lock, trylock, unlock | barging: a woken waiter does not own the mutex; wake-ups from elsewhere; the woken waiter stays linked until it runs | `Sync` |
| Condition variable | `src/condvar.c` | waiter list, `awaken` flag of each waiter | wait, signal, broadcast | releasing the mutex and going to sleep is one step for signallers; signalled waiters stay linked | `Sync` |
| Timers | `src/timer.c` | tick counter, sorted list, `timer_list_empty` and `timer_wakeup_ticks` for the interrupt handler | schedule, tick, the loop of the timer thread | wrap-around of the counter; ticks during the processing of the list; timers (re)scheduled by timer functions | `Timer` |
| Lists | `lib/list.h` | `next` and `prev` of each node | init, insert, remove | intrusive: a node linked twice corrupts the list silently | `List` |
| Stopwatch | `src/sw.c` | `sw_ticks`, `sw_timer_scheduled`, `sw_shell_waiting`, `sw_wait_ticks` | start, stop, resume, read, wait, the timer function | stop leaves the timer pending; two mutexes; a wait that must not miss its tick | `Stopwatch` |
| Allocator | `src/mem.c` | boundary tags in the heap, free list | alloc, free | stale tags in payloads; split and merge; size arithmetic | `Mem` |
| Circular buffer | `lib/cbuf.c` | storage, absolute start and end | push, pop, write, read, clear | indexes that overflow; wrapped copies; data longer than the buffer | `Cbuf`, `CbufClient` |
| Serial line | `src/uart.c` | buffer, `uart_waiter` | interrupt handler, read | a byte that arrives as the reader goes to sleep; a second reader; overflow | `Uart`, `Irq` |
| Interrupts | `src/cpu.c`, `cpu_asm.S` | interrupt flag, handler table | save, restore, dispatch, register | every handler may end in a switch; the EOI is sent before the handler runs; an interrupt that was not there | `Thread`, `Pic` |
| Interrupt controllers | `src/i8259.c` | mask, request and service registers of two chips, masks in memory | setup, enable, end of interrupt | cascade: two EOIs for the slave; edges that come while nobody listens; lines that drop | `Pic`, `Irq` |
| Shell | `lib/shell.c` | command table (hash table and sorted list), history ring, current line, cursor, escape state | register, edit, browse, complete, enter, split into arguments | each handler prints only a change of the line; ring indexes; full line; completion in the middle of a line | `ShellTable`, `Shell`, `ShellArgs` |
| Formatting | `lib/fmt.c` | the state of one call | sprintf, sscanf | limits of each integer type, flags that interact, truncation, characters given back, errors after a success | `Fmt`, `Sprintf`, `Sscanf` |
| Threads and memory | `src/thread.c`, `src/mem.c` | the two blocks of each thread | create, destroy | four calls of the allocator that others interleave with; the second one fails | `ThreadMem` |

The machine (boot code, descriptor tables, port output, `panic`) has no state of
interest after boot and is left out.

## 2. Modules

The map from definitions to lines is in `PROJECT.json`.

- **`Thread`** is the scheduler with the interrupts. A *context* is a thread, the
  idle thread or the boot context. A context that is not running is frozen at a
  label (`pc`), the place where `thread_switch_context` left it; `irq` says that
  an interrupt handler is on top of it. One action is the code between two
  points at which an interrupt can be taken: with interrupts off (`intr` FALSE)
  whole paths are one step, with interrupts on every change of the preemption
  level or of the interrupt flag is a step of its own. The interrupt is taken by
  whatever context is current; its handler may set the yield flag (the tick), may
  wake any sleeping thread (the timer thread, the uart reader), and ends in
  `thread_preempt_enable`, which may switch. Threads call every operation
  in any legal order, in sections with preemption disabled nested to
  `MaxNesting`.
- **`ThreadInv`** states the inductive invariant of the scheduler, **`ThreadProofs`**
  holds its proof: what the run queue operations do, what a step may disturb, one
  lemma for each action, and the theorems.
- **`Sync`** is the mutex and the condition variable at the grain of
  preemption-disabled sections (`Thread` shows these are atomic: `SectionsAreAtomic`).
  Every sleep may end for no reason (`SpuriousWakeup`). **`AbstractMonitor`** is
  what the two promise: at most one holder; waiting gives up the mutex and joins
  the waiters in one step; signals release waiters, who compete for the mutex.
  **`SyncSignals`** adds a history variable, `due`, that counts the signals given to
  threads that have not left their wait: marking a waiter twice changes nothing in
  `Sync` and could not be told from no call at all.
- **`List`** is the pointer structure of `lib/list.h`: two functions on nodes. Modules
  in which only the order of the nodes matters use sequences and its `Unlink`.
- **`Timer`** is the timer module with the list at pointer level, the interrupt
  handler, the timer thread and clients. `timer_mutex` is a lock with an owner,
  which `Sync` justifies. The history variable `due` counts the ticks left before
  each timer is due and is not bounded by the counter's range.
- **`Stopwatch`** extends `Timer` with the shell's commands and the timer function.
- **`Mem`** is the allocator on a heap of words read as boundary tags; blocks
  given to clients are overwritten by arbitrary values (`Write`), which is what
  makes stale tags dangerous.
- **`ThreadMem`** extends `Mem` with its main client: `thread_create` and
  `thread_destroy` take and give back two blocks in four calls (`pc` says how far a
  caller is), among the calls of other threads and clients. A thread is named by
  the address of its structure, so giving a block away too early shows.
- **`Cbuf`** holds the operators of the circular buffer, **`CbufClient`** the
  module as a state machine, in which a client makes any sequence of calls, and
  **`Fifo`** its promise: a bounded queue of bytes. `Contents` is the refinement
  mapping, the bytes between the two indexes.
- **`Uart`** holds the interrupt handler of the serial line and `uart_read` on top of
  `Cbuf`: the actions, without the machine around them.
- **`Pic`** is the interrupt hardware as the code uses it (request, service and mask
  registers of two cascaded 8259 chips: external), the driver, `cpu_irq_register`
  and the steps of `cpu_intr_main`. `cpu` says what the processor does; it accepts
  an interrupt only when `cpu` is "on". `Vanish` is a line that drops too early,
  which the chips report as IRQ 7 or 15.
- **`Irq`** composes `Pic` with `Uart`: the setup in the order of `main()`, with the
  devices already alive, then bytes, ticks and other devices against threads that
  read. **`IrqProofs`** holds the proofs about it and about the circular buffer.
- **`Fmt`** has what the two halves of `lib/fmt.c` share (integer types with widths as
  constants, digits, directives), **`Sprintf`** and **`Sscanf`** the two state
  machines: one operator per function, one step per turn of the main loop. Strings
  are sequences of characters, because the parsing of characters is what these
  files do. **`FmtStandard`** is the reference: the text the C standard
  asks of a directive, as a closed definition (it maps to no source line).
  **`ShellArgs`** is `shell_process_args`; the separator, the terminator that is written
  over it and the size of `shell_argv` are constants, and `SplitIntoWords` says what a
  command should get. **`Text`** makes calls of these functions a state machine, and lets a printed text be read back.
- **`Lib`** puts `CbufClient` and `Text` into one specification for the run `lib`.
- **`ShellTable`** is the command table with `shell_cmd_complete`; **`Shell`** extends it
  with the shell thread: an action handles one character of input, from `getchar`
  to the next one. The terminal (`screen`) is part of the state: cells and a
  column, changed by what the handlers print. `shown` is FALSE after the message
  about a too long escape sequence, which the code prints in the middle of the
  line, until the next prompt. `mode` is "loop" once the loop of
  `shell_process_tabulation` can no longer end. Splitting the line into arguments
  (`ShellArgs`, which `Shell` extends) and running the command do not touch this state. **`LineHistory`** is what the
  history promises: the last lines entered, in order, without repetitions.
- **`SyncProofs`** (about `Sync` and `SyncSignals`), **`MemProofs`** (about `Mem` and `ThreadMem`), **`TimerProofs`**,
  **`StopwatchProofs`** and **`ShellProofs`** (about `Shell`, `ShellTable` and `ShellArgs`) hold the proofs about the modules they are named after.
  **`Basics`** has the lemmas that several of them use: least and greatest elements of
  sets of numbers, which stand in for induction, remainders, and what `list_remove`
  does to a list without duplicates.
- The `MC*` modules and `.cfg` files are the instances. Definitions whose comment
  starts with "Faulty variant" are mutations: putting one in the place of the
  definition after it breaks a property.

## 3. Runs

| Run | Instance | What it shows |
|---|---|---|
| `thread` | 3 threads, two priorities, nesting 2, symmetry of the equal ones | the inductive invariant that the proofs rest on (`IInv`, section 5; it includes that the processor is never given to a dead thread and that the assertion on the preemption level holds), lists and count agree with the states (`RunqConsistent`), a ready thread of a higher priority always leaves a request to yield behind (`PreemptionRequested`), each caller gets its interrupt flag and level back (`CallerStateRestored`), an exit never misses its joiner (`JoinWakeupNotLost`), sections are only left by sleeping (`SectionsAreAtomic`) |
| `thread_live` | 2 threads of one priority, fairness | a ready thread that nothing outranks runs (`TopReadyRuns`) |
| `sync` | 4 threads, symmetry | mutual exclusion, no stranded waiters, each signal releases a waiter of its own although signalled ones stay linked (`SignalsReachWaiters`), refinement of `AbstractMonitor` |
| `timer` | 2 timers, 1 client, 8 values of the counter, every initial value | the list is sorted in the circular order, the interrupt handler's view is right, no timer fires early, and every timer fires |
| `stopwatch` | the stopwatch, 8 or more values of the counter | a running stopwatch has its timer pending, a wait is never stepped over, `sw_wait` returns |
| `stopwatch_list` | the same, one property | **violated**: see findings |
| `mem` | 16 words, 2 threads, blocks of the minimum and of a larger size; the heap holds one thread and a client's block, or two threads but for a stack | tags tile the heap, the free list holds the free blocks, payloads fit and are disjoint, a request fails only when no gap is large enough; a thread keeps its two blocks to itself from creation to destruction (`ThreadsKeepMemory`), and nothing leaks, the failure of the second allocation included (`NothingLeaked`) |
| `mem_wrap` | 17 words, 1 thread, a request near the end of the range | **violated**: see findings |
| `lib` | buffer: capacity 4, indexes modulo 16 that start at 13; formatting: types of 3, 5, 8 and 13 bits, values around each limit, up to two flags with every width and precision, every text of up to 3 characters of an alphabet with signs, digits and prefixes; lines of up to 7 characters, 3 arguments | the buffer is a FIFO, with erasing pushes, writes in the middle and beyond the capacity; `snprintf` prints what the standard asks for, in the cases of `Conforming`, and truncates it right (`PrintsStandard`); `sscanf` reads back what was printed (`ReadsBack`), reads the longest numeral and leaves the rest (`ScansNumbers`), and its result counts its assignments on every path (`CountsResults`); a command gets the words of its line (`ArgsAreWords`) |
| `irq` | buffer of 2 whose indexes overflow, 3 bytes, 2 readers, 2 other interrupts from: the timer, a driver on the slave, a device without a driver on each chip; two of the lines may drop | the EOIs end the interrupt being handled and nothing else (`ServiceEnded`), interrupts that get through have a handler (`OnlyHandledInterrupts`), no lost wake-up of a reader, no accepted byte lost, duplicated or reordered, waiters are served, and no byte stays in the UART because its edge was missed (`BytesAreTaken`) |
| `shell` | 3 commands, one the beginning of another; 2 characters and the separator; lines of 3 characters, a ring of 3 lines that wraps around and holds up to 3 characters in all, escape sequences of 2 characters | the terminal shows the line and the cursor (`ScreenShowsLine`), the ring implements `LineHistory`, a completion is the common beginning of the matching commands, and the text right of the cursor stays behind it unless the completed line has no room, when the whole line is discarded (`CompletionKeepsRest`) |
| `shell_tab` | the same with lines of 2 characters, one property | **violated**: see findings |

Bounds. Three threads are the joiner, the joined and a third that preempts;
four for `Sync` are an owner, a barging thread and two waiters. The counters
(`HalfRange`, `IndexRange`, `SizeRange`) are scaled down, not removed, so that
each wraps around inside the run; the assumptions of the modules name what the
scaling must respect. In `Timer` the bound `MaxLate` limits how late the timer
thread is: with lateness near half of the range the comparison of times loses
its meaning in the code too. The integer types of `Fmt` keep their order and have
different widths, so that each extension, truncation and sign is visible; the
buffer of digits is sized from them as in the code, and full numerals occur in
the run. The operators of `Sprintf` and `Sscanf` take any widths. Two
other interrupts in `irq` are enough for one to be in service, one to be pending
and the UART's to come between the two EOIs. In `shell`, a line of three characters
is the shortest in which a command grows in front of a nonempty rest; to pay for it
the constraint `ShortPast` stops at histories of more than `PastBound` characters,
while the ring still fills and wraps around.

Fairness. `thread_live` assumes that the processor executes, that the i8254
keeps ticking (strongly: interrupts are enabled again and again) and that
sections of callers end. `timer` and `stopwatch` assume that a thread that
stays able to take a step takes it, and that ticks come; the shell gets the
mutexes it asks for because the timer thread sleeps between ticks. `irq` assumes
weak fairness of the setup code, of the acceptance of a request while interrupts
are enabled, of the steps of `cpu_intr_main` and of a woken reader; devices are
never obliged to do anything. `MaxRaised` bounds the other devices: an endless
storm of interrupts of a higher priority would hold the UART back on the real
machine too.

## 4. Findings

1. `sw_resume` (`src/sw.c:125`) schedules the timer without checking whether it is
   pending; resumed twice, or stopped and resumed within one tick, the timer is
   linked twice and stays reachable after its removal (run `stopwatch_list`).
   The run `stopwatch` shows that the stopwatch itself still works then: its list
   has a single timer.
2. `mem_convert_to_block_size` (`src/mem.c:612`) wraps for requests near 2^32 and
   a small block is returned instead of NULL (run `mem_wrap`).
3. `shell_process_tabulation` (`lib/shell.c:897`) computes a size that wraps when
   the cursor is among the separators in front of the first word (run
   `shell_tab`). If that word is exactly the name of a command, the loop at line
   923 never ends and the shell hangs with `shell_lock` held.

Observations outside of the runs.

- `cbuf_read` and `cbuf_write` (`lib/cbuf.c:191`, 157) take an empty range at
  position 0 of the storage for a wrapped one; the model moves at least one byte in
  each call, and the kernel itself only uses `cbuf_pushb` and `cbuf_popb`.
- The indexes of the history are reduced modulo 21, which does not divide 2^32:
  the comment "Mind integer overflows" (`lib/shell.c:637`) holds for the
  differences of indexes, not for the slots. The bound `MaxLines` keeps the model
  below that.
- `lib/fmt.h:28` announces a subset of the standard functions. The model has the
  following differences from the standard, as the code has them, and the
  properties of `Text` leave them out by name (`Conforming`, `ReadsBackTo`,
  `ReadableNumeral`). In `sscanf`: `%i` does not read decimal numbers right (the
  base stays 0, so "12" gives 2); an octal zero at the end of the text gives EOF;
  `%d` on a text without a digit stores 0 and counts as a conversion, so
  `sw_wait abc` waits for 0 seconds (`src/sw.c:150`); a digit given back still
  counts against the field width ("012" with `%2d` gives 0); a plus sign is not
  read; as many digits as the buffer holds give an error. In `sprintf`: `%#x` and
  `%#o` of 0 print a prefix; a negative precision argument counts as 0 instead of
  as absent; `%zx` with the top bit set is sign-extended.

## 5. Proofs

`ThreadProofs` proves every safety property of the `thread` run for every finite set
of threads, every number and assignment of priorities and every nesting of
sections: `TypeCorrect`, `RunQueueExact`, `CurrentAlive`, `HigherPriorityAsks`,
`LevelAssertion`, `CallersRestored`, `JoinNotLost`, `DestroyedIsDead` and
`SectionAtomicity`. They follow from `Invariance`, the inductive invariant `IInv` of
`ThreadInv`. The assumptions are those of `ThreadAssumption`: the set of threads is
finite (`nr_threads` counts them), `idle` and `dummy` are not in it, priorities are
in range. None of the properties is inductive alone; `IInv` adds

- `Frame`: the preemption level of a context is the sum of its sections, of the
  label it stands at and of the interrupt on top of it, and a context that does not
  run stands at a switch. This gives the level properties and says where a switch
  can resume;
- `IntrOK`: interrupts are off right after a switch and on outside of sections, so
  nothing can come between the switch and the restoration of the flag;
- `Alive`, `IdleOK`: the state and the label of a thread agree, so only a thread in
  `thread_sleep` or `thread_join` is woken and the idle thread always can run;
- `Call`, `JoinerOK`, `OneJoiner`: the thread a call in progress is about is still
  in the state the caller saw. This is what keeps a thread alive between the
  recording of its joiner and its destruction;
- `Queues`: `RunqConsistent` and `PreemptionRequested` as one statement on the lists.

A step changes one stack only, that of the current thread (`StepControl`); steps
that leave states and queue alone are instances of `QuietStep`, those that
switch of `SwitchStep`, and those that make a thread runnable of `WokenQueues` and
`AddQueues`. The scheduler's search for the highest priority uses `GreatestElement`
of `Basics`.

`SyncProofs` proves, for every set of threads:

- `MutexExcludes`: types and mutual exclusion;
- `NoStrandedWaiters`: when the mutex is free and threads wait for it, one of the
  waiters is awake, and the waiter list holds exactly the waiting threads;
- `SignalsServed`: `SignalsReachWaiters`, that after `due` signals exactly the first
  `due` waiters of the list are marked, and that these are awake;
- `Implements`: every step of `Sync` is a step of `AbstractMonitor` or a stutter.

The invariant `IInv` is the conjunction of the first two with what the waiter lists
hold, `SignalledIsAwake` (a marked waiter is not asleep) and
`SleepersWait` (only threads inside a wait sleep). Without the last,
`WaitersNotStranded` is not inductive: a woken thread could be asleep at a
label that no wake-up covers. There is one lemma per action, and facts on
sequences (`UnlinkProperties`, `HeadContained`) carry the list reasoning.
`SignalsServed` rests on `IInv` and on the marked waiters being a beginning of the
list: a new waiter is unmarked and goes to the end (`AppendMarked`), the first unmarked
one is the one after the beginning (`FirstAsleepIsNext`), and a waiter that leaves was
marked, so that its removal shortens the beginning by one (`UnlinkMarked`).

`IrqProofs` proves, for any devices, drivers, unsteady lines, readers and buffer:

- `EoiEndsService`: `ServiceEnded`;
- `DispatchFindsHandler`: `OnlyHandledInterrupts`;
- `UartWakeupNotLost`: no reader sleeps while the buffer holds a byte.

The invariant is `IrqInv`. Its part `PicInv` says that after the setup the chips
mask what the driver remembers, which is every line without a handler, and that
between acceptance and the EOIs exactly the interrupt in `vector` is in service
(`Real`), or only the cascade or nothing (`Spurious`). A non-specific EOI names no
interrupt, so `ServiceEnded` alone does not say which one it ends. `ReaderInv` adds
that the registered waiter is the only thread in the loop of `uart_read`.

It also proves `UartStream`, that the bytes read and those in the buffer are
the bytes the handler accepted, in order, for any capacity and any range of the
indexes that the capacity divides. Its lemmas are arithmetic modulo the range
(`WrapKeepsPosition`: reducing an index does not move it in the storage;
`NearbyDiffer`: indexes closer than the capacity have different slots) and what
`cbuf_pushb` and `cbuf_popb` do to the contents. `StreamInv` adds that the size
never exceeds the capacity.

Its last part proves `CbufRefinement`: every sequence of calls on `lib/cbuf.c`
(`CbufClient`) is one on the queue `Fifo`, for any capacity, any data and any range of
the indexes that is a multiple of the capacity and larger than the capacity and the
longest data together (`CbufAssumption`, `ClientAssumption`). `ClientInv`, that the
size does not exceed the capacity, is the invariant. The argument is in terms of the
*offset* of an index, its distance from the start of the buffer modulo the range:
`SubOffsets` turns differences of wrapped indexes into differences of offsets,
`RangeMeans` says that `cbuf_range_valid` accepts exactly the offsets inside the
buffer, `WriteContents` that `cbuf_write` overwrites the queue at the offset,
lengthens it when the data go past the end and keeps its last bytes (the two copies
of a wrapped write, the bytes that are skipped because they would be overwritten, and
`cbuf_update_start` included), `ReadContents` and `StartMoved` the same of reading and
of taking. `PushbIsWrite` makes a pushed byte an instance of a write. There is one
lemma for each call (`PushRefines` to `ClearRefines`). An index outside the buffer
maps to one offset past the capacity: the queue refuses them all alike.

`MemProofs` proves all the safety properties of the `mem` run, for every size of the
heap, any number of threads and clients, and any sizes of a thread's structure and
stack:

- `HeapStaysTiled`, `FreeListStaysExact`, `PayloadsStayInside`: the blocks cover the
  heap, the free list and the flags in the tags agree, payloads lie between the tags;
- `MergingIsComplete`: `FailsOnlyWhenFull`;
- `MemoryStaysOwn`, `MemoryIsReturned`: `ThreadsKeepMemory` and `NothingLeaked`.

Their one hypothesis, `SmallRequests`, is that no request makes
`mem_convert_to_block_size` wrap around. It is what finding 2 is about: with a larger
request `PayloadsFit` is false. The invariant of the allocator, `MemInv`, is
`Sound` (tiling, flags and the free list as one statement on a set of blocks in
use), `Coalesced` (no two free blocks are neighbours), `FreedOnce` (a block on
its way back has no owner and is freed by one thread, the window between the call of
`mem_free` and its mutex) and `Roomy` (a block has room for the request and its two
tags). `Coalesced` cannot be left out: merging looks at one neighbour on each side
only, and `FailsOnlyWhenFull` rests on it. The operations are proved on values of
the heap, not on steps: `CutTiled` and `JoinTiled` say that splitting a block and
joining two neighbours keep the tiling, `PrevIsBlock` and `NextIsBlock` that the tags
read when merging are those of blocks and not stale ones, and `AllocSound` and
`FreeSound` put them together. `ThreadMemInv` adds who owns what: `ThreadsOwn`,
`CallsOwn` (the structure that a `thread_create` or `thread_destroy` in progress holds
belongs to no thread) and `AllOwned`.

`TimerProofs` proves, for every finite set of timers, any clients and any range of
the tick counter that leaves room for the delays (`TimerAssumption`):

- `ListStaysSorted`: the list is linked in both directions and sorted by the time
  left, across the wrap-around;
- `InterruptViewIsCurrent`: `InterruptView`;
- `NothingFiresEarly`: the action property `NeverEarly`.

The invariant is `TimerInv`. `Chain` says that the pointers form one circle through
distinct timers; `Times` that a time stored in a timer is, on the circle of ticks,
`due` ticks from now; `Lateness` that everything compared lies within half of the
circle, which makes the comparison of times an order. `Known` is what
`InterruptView` needs to be inductive: while a caller is between the insertion of
its timer and the update of the handler's variables they may be stale, but only
with respect to that timer. The lemmas on lists say that `list_remove` of the first node and
an insertion before any node give the pointers of the expected sequence
(`TakeFirst`, `InsertBefore`), and that walking the pointers finds it
(`WalkFindsList`; there can be only one function that satisfies the recursive
definition of the walk, by a smallest difference). The set of timers is assumed to be
finite because a walk is bounded by their number.

`StopwatchProofs` proves, for any range of the counters:

- `StopwatchKeepsRunning`: `RunningHasTimer`;
- `SignalNotMissed`: `WaitNotMissed`.

Here the list may be corrupt (finding 1), so `TimerInv` does not hold. `RunInv` uses
less: the links at the head of the list point to the head or to the timer of the
stopwatch, in both directions alike, which an insertion of the linked timer does
preserve. `WaitInv` adds to `WaitNotMissed` that the time waited for is within the
range of a wait, so that the count cannot jump past it, and that a recorded request
has a waiting shell.

`ShellProofs` proves the four properties of the `shell` run, for any characters, any
names and hash function, any length of the line, of the history and of the escape
sequences (`TableAssumption`, `ShellAssumption`: names are not empty and hold no
separator, and sizes fit in a `size_t`):

- `CompletionIsCommonPrefix`: `CompletesCommonPrefix`;
- `ScreenIsLine`: `ScreenShowsLine`, which leaves out the time from the message about a
  too long escape sequence to the next prompt;
- `CompletionLeavesRest`: the action property `CompletionKeepsRest`. It leaves no
  tabulation out: the text right of the cursor stays behind the completed command when
  both fit; otherwise `shell_process_raw_char` fails halfway, `shell_run` resets the
  line and all of it is lost; and the loop that never ends keeps that text only;
- `HistoryRefinement`: every step of `Shell` is one of `LineHistory` or a stutter.

The invariant is `ShellInv` (theorem `ShellInvariance`). Its part `TableInv` says that
the list of commands is sorted without repetitions and that its commands are in the
hash table, which is what makes a registration that finds no equal name in one
bucket keep the list free of duplicates. `shell_cmd_complete` compares only the first
and the last of the commands that match: they stand together because the list is
sorted, and what two names share, every name between them in the order of `strcmp`
shares too. The rest of `ShellInv` relates the three indexes of the history
(in order, less than its size apart), the cursor (inside the line) and the screen
(`Showing`: the line, then blanks, and the cursor). The handlers are proved on values
of the editor: `At(a, b, error)` is the editor with the cursor between `a` and `b`,
and `RawCharAt` and its companions say from which such value to which one each handler
goes. The two loops of the completion are recursive functions of the number of turns;
what they compute is shown by a smallest counterexample (`LeastElement` of `Basics`).
Every keystroke is one of four kinds of step (`Kinds`: edit the current line, go back,
go forward, enter), and the history is proved from these alone: entries less than the
size of the ring apart have slots of their own (`SlotsDiffer`), so that editing and
browsing, which write the slot of the current line, leave the past alone.

`ArgumentsAreWords` states for every line, of any length, what the `lib` run checks as
`ArgsAreWords` on short lines: `SplitIntoWords(line, ProcessArgs(line))`, provided that
the terminator is not a character of the line (a C string holds none). `Splitting` is
the invariant of the loop: after `k` characters, either the words that start among them
fill `shell_argv` and the line is refused, or `shell_argv` holds exactly their starts, in
order, and exactly the separators that end a word among the `k` characters are cut. A
turn keeps it (`TurnSplits`), the loop therefore too (`TurnsSplit`, by a smallest
counterexample). The code keeps the previous character in `prev` as it was before
the cut; that is why the next turn still sees the separator. The first separator after
the start of a word is one that is cut (`NoCutInWord`), so that the string at
`shell_argv[j]` is that word and not more (`CutIsWord`).

Only model-checked: liveness (`TopReadyRuns`, `TimersFire`, `WaitReturns`,
`WaiterServed`, `BytesAreTaken`), which is out of the prover's reach, and the
properties of `Text` about formatting (`PrintsStandard`, `ReadsBack`, `CountsResults`,
`ScansNumbers`), whose loops over digits and characters are recursive operators and
would need induction over the text. `ArgsAreWords` is a property of `Text` as well, which
uses these operators; what it says of a call is `ArgumentsAreWords`. Every other safety
property is proved.

The larger proof modules start with `USE ZenonT(30)`: every leaf that names no prover
is for Zenon, and those that need arithmetic, sequences or function updates cite the
SMT solver.

## 6. Not modelled

- `printf` (`src/printf.c`): `vsnprintf` into a static buffer and port output, in one
  section with preemption and interrupts disabled; `Sprintf` and `SectionsAreAtomic`
  cover its two halves.
- Boot code, segment and gate descriptors, the programming of the i8254 and of the
  line registers of the UART, `uart_write`, `panic`: data built once, or port output
  without state in memory.
- CPU exceptions: the code ignores them.
- `i8259_irq_disable`, and the list operations `list_split`, `list_concat`,
  `list_set_head` and the lock-less variants: nothing in the kernel calls them.
- The commands `help` and `history` of the shell only print; the hash function of the
  command table is a constant of `ShellTable`.
- The string functions other than the copies of `Cbuf` and the comparisons of
  `ShellTable`: loops without state.

## 7. Open

Proofs for `Sprintf` and `Sscanf`.
