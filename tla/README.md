# Formal verification of engine_race

TLA+ models of the key-value engine in `src/engine/engine_race` (an entry for
the PolarDB race), of the benchmark that drives it and of the logging library
it carries with it (spdlog with fmt); the TLC configurations that check them,
and TLAPS proofs of the properties that hold for every size, limit and number
of failures.

Contents: 1 inventory · 2 modules · 3 runs · 4 bounds and fairness · 5 proofs ·
6 what the source says and the code does not keep · 7 what is not modelled ·
8 plan.

## 1. Inventory of the system

| component | state | operations | interacts with |
|---|---|---|---|
| `EngineRace` (engine_race.cpp) | `memfile_`, `redolog_`, `immutable_memfiles_` under `mutex_`; `dump_done_` | `Open`, `Write`, `Read`, `Range` (stub), `write(batch)`, `wait_for_room_`, `switch_memfile_`, `schedule_dump_`, `on_dump_completed_`, `on_dump_failed_`, `gc_`, `snapshot_`, destructor | everything below |
| `Batch_commiter` | `task_queue_` under `mutex_`, `task_in_process_`, `batch_`, `stopped_`, `not_empty_` | `submit`, the commit thread, destructor | callers through promises, `Kv_updater::write` |
| `Memfile` | `buffer_` (2 MiB reserved), `map_` of views into it, own shared mutex | `has_room_for`, `add`, `read`, `values` | commit thread, readers, dumper |
| `Redo_log`, `Redo_allocator` | a FILE and its buffer; `future_` with the log made in advance, a pool thread | `append`; `allocate` | `DBMeta::next_redo_id`, file system |
| `Dumper` | one pool thread | `submit`, `run_` | a bare reference to a memfile; continuation threads |
| `DBMeta` | checkpoint `redo_id_`, `next_redo_id_`, `next_file_id_`, `sorted_tables_` under a mutex | `current_redo_id`, `next_redo_id`, `next_id`, `checkpoint` | pool threads, callbacks, `gc_` |
| `DBFile_manager` | `sstables_`, `rwmutex_`, `zombies_` (never filled) | `snapshot`, `build_new_state`, `apply` (takes no lock) | readers, callbacks |
| `Snapshot`, `SSTable` | vectors of shared pointers; `SSTable::read` is a stub that throws | `read` | readers |
| `Replayer` | – | `replay` (empty) | `Open` |
| benchmark.cc | `SharedState` (counters, flag, mutex, condition variable), a `Stats` and a `Duration` per worker, `MemoryChecker` with its thread | `Run`, `RunBenchmark`, `ThreadBody`, `DoWrite`, `ReadRandom`, `ReadSequential`, `Stats::Start/FinishedOps/Stop/Merge/Report`, `SleepAndReport`; `GenerateKeyFromInt` | the engine's interface, histograms |
| histogram | bucket limits; counters of a `HistogramStat` | `IndexForValue`, `Add`, `Merge`, `Percentile`, `StandardDeviation` | `Stats` |
| random, testutil, `RandomGenerator` | a seed; a text and a position in it | `Next`, `RandomString`, `CompressibleString`, `Generate` | benchmark.cc |
| spdlog: asynchronous logging | the thread pool's `mpmc_blocking_queue` (a `circular_q` under a mutex with two condition variables), its threads, the registry's map, flusher and reference to the pool | `log`, `flush`, `post_log`, `post_flush`, `process_next_msg_`, `flush_all`, `drop_all`, `shutdown`, `~thread_pool` | every thread of the engine through `kvlog`; sinks |
| spdlog: sinks | an open file and its size; the next rotation's time; the directory | `rotating_file_sink::sink_it_/rotate_`, `daily_file_sink::sink_it_`, `file_helper::open/reopen/write` | workers of the pool, file system |
| spdlog: patterns | compiled flag formatters, the cached broken-down time, the colour range in a record | `compile_pattern_`, `format`, `set_pattern` | sinks that share a record |
| spdlog: `to_hex` | – | `format` of a dump | fmt |
| fmt | a parser's position and argument counter; packed types; a growing buffer | `parse_format_string`, `format_string_checker`, `basic_printf_context::format`, `write_int`, `write_padded`, `count_digits`, `write_double`, `arg_map`, `basic_memory_buffer` | the text of every line logged |
| config, util, engine_error, engine.cpp | – | aliases, constants, forwarding | – |

How a write travels: a client's `Write` submits a task and waits 10 ms for its
promise; the commit thread takes the whole queue as one batch and calls
`EngineRace::write`, which makes room (perhaps switching memfiles and
scheduling a dump under `mutex_`), appends the batch to the redo log and adds
it to the memfile. The dumper writes the oldest immutable memfile to a table; a
continuation on another thread builds the new list of tables, checkpoints
`DBMeta`, installs the list, pops the queue under `mutex_`, schedules the next
dump, notifies the writer and collects obsolete redo logs. A `Read` takes the
memfiles under `mutex_` and the tables afterwards without it.

How a line of the log travels: any of those threads formats it (fmt) into a
buffer of its own, pins the thread pool, copies the message into a slot of the
ring and wakes a worker; the worker moves it out, and its sinks print it with
their patterns and write it to their files.

What is hard here: four kinds of threads (clients, commit thread, allocator's
pool thread, dumper and continuations) that share state through three mutexes
and sometimes none; callbacks that touch four pieces of state in turn and are
run again when they throw; timeouts that race with late answers and leave tasks
behind; a queue limit; a redo log whose id is taken ahead of time; files removed
while others are created; the death of the process. In the log: a bounded ring
under two condition variables, a pool whose last owner destroys it in the
middle of a call, file rotations that fail half-way, caches of times that do not
arrive in order. In fmt: two small languages with their error cases, and
boundaries of integers everywhere. The list with lines is `hazards` in
PROJECT.json.

What makes each part correct, in a sentence: the commit queue answers every task
once, truly and in order; the write path applies a batch wholly or not at all;
dumps are serialized, of the oldest memfile, and never stop; nothing is in memory
that a log does not have, and no log is removed too early; a read sees a value
its key had while it ran. Of the benchmark: no worker runs before all have
arrived, nothing is destroyed under a thread, and the numbers reported are those
of the operations done. Of the log: no line is lost, doubled or overtaken unless
its policy says so, nobody is inside a pool that is gone, a flush is a barrier;
rotation keeps the newest lines, a line bears its own time. Of fmt: a string
means what its grammar says, checked at compile time or not, and what is written
can be read back.

## 2. Modules

| module | models | composes |
|---|---|---|
| `KvUpdater` | what `Kv_updater::write` promises: a store, and batches applied wholly or not at all | – |
| `EngineRace` | write path: one action per step of `Open`, `write`, the allocator, the dumper, its callbacks, `gc_`, and process death | refines `KvUpdater` |
| `EngineRead` | `Read` in steps, while `EngineRace` runs | EXTENDS `EngineRace` |
| `BatchCommiter` | the commit queue, its thread, its callers, its destructor; `Kv_updater` by its three outcomes | – |
| `BenchmarkHarness` | benchmark.cc around the store: barrier, statistics, memory checker; the store by its outcomes | – |
| `Powers` | powers up to a bound | – |
| `Histogram` | histogram.cc: bucket mapping, counters, merge, percentiles, variance | EXTENDS `Powers` |
| `BenchmarkData` | the numbers of `Random`, the values `RandomGenerator` cuts, keys made of numbers and their order | EXTENDS `Powers` |
| `BoundedFifo` | what the log's queue promises: a bounded FIFO that counts what it gives up | – |
| `CircularQ` | `circular_q`: the ring with its two indices | – |
| `AsyncLog` | async_logger, thread pool and its queue, flusher, `shutdown` | INSTANCE `CircularQ`; refines `BoundedFifo` |
| `MemoryBuffer` | `basic_memory_buffer` from the logger's buffer through the ring to the worker's: stores, blocks of the heap, copies and moves | – |
| `LogFiles` | the rotating and the daily file sink over a directory, with buffered writes, failures, kills and restarts | – |
| `LogPattern` | `pattern_formatter` and the colour range shared by sinks | – |
| `FmtSpec` | specifiers, the parser's position, argument ids and numbers | – |
| `FmtFormat` | format strings, run at once, with arguments looked up later, or only checked | EXTENDS `FmtSpec` |
| `FmtPrintf` | printf strings and the conversion of integers | EXTENDS `FmtSpec` |
| `FmtGrammar` | the two languages by their grammars: the reference | EXTENDS both |
| `FmtWrite`, `FmtDouble` | integers, strings and padding; floating-point numbers around `snprintf` | EXTEND `FmtSpec`, `FmtWrite` |
| `FmtArgs` | packed and unpacked arguments, the map of named ones | EXTENDS `Powers` |
| `HexDump` | `to_hex` | EXTENDS `FmtWrite` |
| `EngineRace_proof` | theorems on the write path: order, files, values and the refinement | EXTENDS `EngineRace` |
| `EngineRead_proof` | theorems on reads | EXTENDS `EngineRead`, `EngineRace_proof` |
| `BatchCommiter_proof`, `BenchmarkHarness_proof`, `AsyncLog_proof`, `LogFiles_proof`, `LogPattern_proof` | theorems | EXTEND what they are about |
| `Algorithms_proof` | theorems on buffers, the benchmark's data, arguments and histograms | EXTENDS `MemoryBuffer`, `BenchmarkData`, `FmtArgs`, `Histogram` |
| `MC...` | instances for TLC; `MCLogFiles` has the files or the patterns in a behaviour, `MCAlgorithms` one of the pure algorithms | – |

### State and actions of EngineRace

- `memfile` is `memfile_` with `redolog_`: they always change together
  (`switch_memfile_` swaps both). `redo_id` 0 is the null pointer before the
  first switch. `content` gives each key the number of the batch that wrote its
  value, `used` and `capacity` are `buffer_.size()` and `buffer_.capacity()`.
- `future` is `Redo_allocator::future_`: `none` (not valid), `pending`, `ready`
  with an id, `failed` (holds an exception), `spent` (valid, but its value was
  moved out).
- `dumps` holds a record for each submitted dump whose callbacks are not done;
  its `pc` says how far `run_` or `on_dump_completed_` have come.
- `collections` holds a record for each `gc_` that has begun: what it read of the
  checkpoint, and what it is about to remove. A collection runs on behind
  `on_dump_completed_`'s critical section, so it overlaps with the next dump, its
  checkpoint and its collection. `passed_over` is a history: the obsolete logs that a
  collection left because it threw or had its number.
- `redo_files` and `db_files` are the directory.
- `mutex_` is held over several steps only by `wait_for_room_` while it switches
  (`pc = "switching"`, it waits for the redo log); all other critical sections
  are single steps guarded by `~Locked`.

| code | action |
|---|---|
| `Open`, constructor | `Open`, then `RequestRedo`, `SwitchMemfile` or `OpenFails` |
| `write`, `has_room_for`, entry of `wait_for_room_` | `BeginWrite` |
| the wait on `dump_done_` | `DumpDoneWakeup`, `WaitTimesOut` |
| `allocate`, `do_allocate_` | `RequestRedo`, `AllocRedo` (pool thread), the prefetch inside `SwitchMemfile` |
| `switch_memfile_` and the first dump | `SwitchMemfile`, `SwitchFails`, `UseSpentLog` |
| `Redo_log::append` | `AppendRedo`, `AppendFails` |
| `Memfile::add` | `AddToMemfile`, or `Terminate` |
| `Dumper::run_` | `Dump` |
| `on_dump_failed_` | `OnDumpFailed` |
| `on_dump_completed_` | `BuildNewState`, `Checkpoint`, `Apply`, `PopAndReschedule`, `CompletionThrows` |
| `gc_` | `GcReadsCheckpoint`, `GcLists`, `GcRemoves` (one log), `GcFails` |
| kill -9 | `Crash` |

Failures are kinds in `FaultKinds`: `alloc` (a redo log cannot be made),
`prefetch` (the request for the next one throws), `memfile` (no memory for a new
memfile), `append`, `add`, `schedule` (`schedule_dump_` throws and swallows it),
`dump`, `install` (`build_new_state` or `checkpoint` throws), `gc`.

Whether `boost::future::get()` leaves the future valid depends on the version
macros of Boost.Thread; the Makefile defines `BOOST_THREAD_PROVIDES_FUTURE` and
not version 4, so `GetInvalidates` is FALSE in the instances, and a constant in
the model and the proofs.

### EngineRead

`Call`, `TakeMemfiles` (under `mutex_`), `StartCopy`/`EndCopy` (the copy of
`sstables_` under the shared lock), `LookUpMemfile` one at a time, and
`LookUpTables`. The memfile that was mutable stays shared with the commit
thread, so `EngineStep` lets a read's memfile change under it (`Follow`), and
marks a read whose copy of the tables was raced by `apply` (`Observe`). What a
raced copy answers is open between an error and nothing; that the process may
die of it is not modelled, the race itself is the run `read_race`. The tables
answer as the stub `SSTable::read` does: they throw.

### BatchCommiter

`Submit` is `submit` with the push and the notification from 32 tasks on
(`PlugSize`); `Check`/`FallAsleep` split the predicate from the wait, so a
notification sent between them without the mutex, as the destructor's, is lost;
`WakeUpAfter3ms` is the timed wait. `Write` is `updater_.write` with any outcome;
`Resolve` sets one promise at a time. `Succeeds`, `TimesOut` and `Fails` are the
three returns of `EngineRace::Write` seen with what the repository's callers do
next: benchmark.cc retries the same key in the same buffer, test.cc goes on.

### BenchmarkHarness

`main.pc` is where `Run` and `RunBenchmark` are: `next` (between benchmarks,
where the store is closed and opened), `spawn`, `collect`, `merge`, `destroy`,
`join`; `exit` after `exit(1)` of any thread. `waiting` is the set of threads
asleep on `shared.cv` that have not been notified: a critical section with the
wait at its end is one step, since `wait` releases the mutex at once, and
rechecking after a wakeup is the next; `WakeUpSpuriously` is a wakeup without a
notification. `stats` and `hist` belong to one worker until it is done;
`merge_stats.hist` names the worker whose histogram it took over by its
`shared_ptr`. An uninitialized `start_` is any of two values. One round of
`DoWrite` or `ReadRandom` is one step (`Operate`), since nothing between
`Done` and `FinishedOps` is seen by another thread; a `Write` that times out is
retried and changes nothing.

### Histogram

A value is an integer, a percentile a fraction, and the bucket limits are
computed as the constructor does, by half again from the limit before rounding: the
limit is 3^(b-1) \div 2^(b-2) cut to its first digits, in integers. The constructor
multiplies doubles; for all of its 109 buckets this gives the same limits.
Addition wraps around at `Modulus`. An `Add` is one step, although its loads and
stores are separate: `BenchmarkHarness` shows that a histogram has one user at a
time (`LocalsOutliveTheirThreads`).

### AsyncLog

A caller's `pc` follows `post_log`: `Log`/`Flush` pin the pool (`weak_ptr::lock`)
or end in the error handler, `Blocks` is the wait on `pop_cv_`, `Enqueue` the
push under the queue's mutex, `Release` the `notify_one` after the unlock and
the release of the pool. `LetGo` is that release: whoever gives up the last
reference runs `~thread_pool` there, posts a terminate for each worker
(`NextTerminate`) and joins them (`Join`). A worker's `wpc` follows
`process_next_msg_`: `Dequeue` (which falls asleep on an empty ring), the
deadline of the wait, `NotifyPop`, `BackendLog`, `BackendFlush`. `StopFlusher`,
`FlusherExits`, `DropAll`, `ResetTp` are `registry::shutdown`; `FlushAll` holds
the registry's mutexes while it posts. A `notify_one` picks any sleeper of its
condition, or is lost. `accepted`, `handled` and `flushed` are histories: what the
queue took, what the sink had, how much of it is on disk.

`CircularQ` is written over a record, so that `Contents` maps the ring to the
sequence of `BoundedFifo` and a step of the pool to a step of the FIFO or none.

### LogFiles and LogPattern

`files` maps the name of a file (an index, or a day) to its lines; `fd` is the
open one. `fwrite` only fills the buffer of the `FILE`, which may go to the file at
any time and does so when it is flushed or closed: of the open file's lines, the first
`safe` are surely in the file, and of the rest any beginning is, torn anywhere in a
line, when the buffer is lost (`Remains`). That happens when `Flush` or a closing
fails and when the process is killed (`End`, at any step; `Start` is the constructor
of the next one, which appends to what it finds). What the system has of a file
outlives the process; the end of the system is not modelled. In `rotate_` each
`remove` and each `rename` is a step (`RotateStep`, `Rename`), so that failures and
the end of the process fall between them; `GiveUp` is `rename_file` failing twice,
after it removed its target. `Log` takes the time a line bears, which may be before
the present by `MaxDelay`; `Tick` may come between any two steps, so that the day
changes while the daily sink has a line in its hands.
`handed` and `written` are histories: the lines given to the sink, each with the time
it bears, the time it was last worked on and the number of its process, and those
whose `fwrite` succeeded; so is `flushed`, what was in a file when it was flushed or
closed. `OnDisk` are the lines in the directory, with those in the buffer, and `Lost`
those that a process left in its buffer when it ended: unflushed, with nothing behind
them from that process.

A pattern is a sequence of characters, `CompilePattern` turns it into flag
formatters and `Format` runs them with the caches as state. What is printed is a
sequence of fields, each named with what it was taken from, so that a field of
another second or another record is seen. `Meaning` says the same by position,
without a compiler or a cache. `SetPattern` changes one sink's formatter at any moment, as
`logger::set_formatter` does, which locks the sinks one by one: also while a record is
between two of them.

### fmt

A parser is a record with the position, the argument counter and the error; a
`throw` is `ThrowIf`, after which the rest means nothing. `FmtFormat` is the
parser with each of its handlers: `Format` looks arguments up while it parses,
`FormatLater` keeps references for widths and precisions and puts them in
afterwards (the formatters of prepared arguments), `CheckFormat` is the
compile-time checker. `FmtGrammar` cuts a string in all ways that fit the parts
of a replacement field, and compares: an error where there is no reading,
otherwise the reading's arguments and specifiers. `FmtWrite` keeps the code's
arithmetic: digits are counted from the length in bits by 1233/4096 and a table
and are put into a buffer of the size that was counted, where "?" is a character
nobody wrote; the reference reads the text back. `FmtDouble` puts any text in
the place of what `snprintf` prints. `FmtArgs` packs types into nibbles of a word
of `MaxPacked` + 1 and reads them back as the code does, walking to the end mark.

### MemoryBuffer

The buffers of the loggers' messages, of the slots of the ring, of the message
taken out: each has a store of its own and a size, and points to the store or to
a block of the heap. `PostLine` formats a line in pieces (`Grow` reallocates),
copies it and moves it into a slot; `TakeLine` moves it out and copies it again.
A write past a buffer, and a block that is freed twice, set `misused`.

### BenchmarkData

`Random` multiplies modulo `M` with the code's shift and add in place of the
remainder. `RandomAssumption` names what that needs: no number below `M` becomes 0
when it is multiplied by `A` (`M` is prime). A `Random` may be made of any number, as
`GoodSeed` allows: with all bits of `M` it stays at `M`, which `TestDataIsSound` states,
and with no other. `RandomData` keeps of which number its generator was made.
`RandomData` is the constructor of `RandomGenerator`,
one `CompressibleString` after the other; `Generate` is a step, since the
position stays. `KeyFromInt` writes the low bytes of a number, as many as fit.

## 3. Runs

| run | cfg | asks | shows |
|---|---|---|---|
| `engine_safety` | EngineRace_safety | is the write path safe, and does it implement `KvUpdater`, through one failure of any kind and a kill? | `TypeOK`, `ImmutablesBounded`, `OneDumpOfTheOldest`, `CheckpointAsserts`, `WalCoversMemory`, `EveryValueOnDisk`, `TablesMatchManifest` and `ImplementsKvUpdater` hold |
| `engine_liveness` | EngineRace_liveness | does every `write()` return, do the queue and the obsolete logs go away? | yes, through two failures, but for logs that a collection passed over (`WriteReturns`, `ImmutablesDrain`, `RedoReclaimed`) |
| `read_concurrent` | EngineRead_concurrent | what does a concurrent read see, and can the writer block it for good? | a value its key had meanwhile, from a complete snapshot; no |
| `commiter_queue` | BatchCommiter_queue | order, truth and number of the answers; the callers' buffers; is every task answered, does the destructor return? | all hold, with retries, timeouts and shutdown; the last two because the wait is a timed one |
| `harness_run` | BenchmarkHarness_run | does the barrier hold, is anything used after its destruction, do the reports add up, does every benchmark end? | yes |
| `log_async` | AsyncLog_shutdown | with both policies, one and two workers, a flusher and a shutdown at any moment: is a line lost, is the pool used after its end, what does a flush cover, does everybody get through? | `NoLineLost`, `PoolOutlivesItsUsers`, `EverythingLogged`, `FlushIsABarrier`, `ImplementsFifo`, `EverybodyGetsThrough` hold; the flush and the order of lines only for one worker, as the engine has |
| `log_sinks` | LogFiles_sinks | what is left in the files after failures, kills, restarts and late lines; what do patterns print? | `RotationKeepsTheNewest`, `DailyFilesFaithful`, `WritesHaveAFile`, `LinesBearTheirTime`, `ColoursWithinTheLine`, each with the conditions it states |
| `algorithms` | Algorithms_calls | do the pure algorithms agree with their definitions? | over bounded inputs: histograms (`StatisticsFaithful`), fmt's strings (`StringsMatchTheirGrammar`), what is written (`WrittenAsSpecified`), arguments (`ArgsKeepTheirTypes`), the benchmark's data (`TestDataIsSound`), buffers (`BuffersKeepTheirText`) |
| `engine_oversize`, `read_test`, `read_race`, `read_kill` | ... | section 6 | violations |

Each property of a passing run has a mutant in PROJECT.json: a definition of the
model changed the way a plausible bug would change the code, which the property
catches. The mutated definitions stand in the modules, before the ones they
replace.

Four properties name several at once, which are defined next to each other:
`ReportIsTrue`, `StatisticsFaithful`, `StringsMatchTheirGrammar` (a string run at
once is what its grammar says; one that the compile-time checker accepts and is
formatted later means the same; printf's likewise) and `WrittenAsSpecified`.

The conditions that some properties state are part of what was found:

- an obsolete redo log is removed unless a collection passed it over: one that throws,
  or has eight logs already, leaves the rest, and only the collection behind a later
  dump comes back for it. After the last dump nobody does;
- `WriteReturns` counts the end of the process as a return (`UseSpentLog`);
- without failures, rotated files are the newest lines, except the last ones of a
  process that was killed before they were flushed, of which a part may be left in the
  file, in front of the next process's lines; with failures, files stay in order and
  bounded, but a line may be given up and an index left out;
- a line of the daily sink is in the file of its day, or of the day before until
  that day's rotation, only if it was handled on its own day; what was flushed is
  kept, and unflushed lines are lost only as the last ones of a process or by a
  failure; a sink that truncates does so only if it rotates at midnight and is not
  restarted;
- after a failed opening of a daily file the next line opens it again only if lines
  come in the order of their times: one from before midnight behind one from after
  it is written to a file that is closed;
- a colour range is within its line if the pattern of the sink marks both of its ends, or
  if the record has been printed under that one pattern so far: another pattern's range
  stays otherwise. That all sinks are given one pattern is not enough, for a
  `set_pattern` may fall between two sinks of a record.

## 4. Bounds and fairness

Bounds are constants: `MaxBatches`, `MaxEntries`, `MaxFaults`, `MaxCrashes`
(EngineRace), `MaxReads` (EngineRead), `MaxOps`, `MaxTickets` (BatchCommiter),
`MaxTime` (BenchmarkHarness), `MaxAdds` (Histogram), `MaxPosts`, `MaxFlushes`
(AsyncLog), `MaxDelay`, `MaxLines`, `MaxClock`, `MaxFaults`, `MaxRestarts`
(LogFiles), `MaxPieces`, `MaxPosts` (MemoryBuffer); and the lengths and values
that MCAlgorithms chooses.

The write path. Keys and values of one byte in memfiles of two to four bytes make
a memfile full after one or two writes, so that three or four batches fill the
queue (`MaxImmutables` 2 instead of 32, so that a pop leaves a memfile for the next
dump), hold the writer back, and have dumps, checkpoints and collections follow and
overlap each other. A collection removes two logs at most in `engine_safety` and one in
`engine_liveness` (`MaxGc`, 8 in the code), where a failed allocation makes more
obsolete than that. One failure at any step of
any operation covers each error path in every context the other threads can make;
`engine_liveness` has two, so that a failed dump fails again; it leaves out one kind,
`schedule`, which strands the queue (section 6). `KilledEarly`
follows an engine that was killed for three batches instead of four: the fourth,
which meets a full queue, is checked without a kill. `LaterAreSimple` lets only the
first two batches have two entries of a key, and the last write all keys. Keys are symmetric in
`engine_safety`: none of its properties, the refinement included, names a key, and
none is a liveness property. What depends on larger sizes is left to the proofs.

The harness. Two workers are enough for the barrier to have a first and a last
one and for the main thread to compete with one of them for a notification; two
benchmarks, one of which measures nothing, reuse all state; a clock of three
values tells creation, start and an operation apart.

The log. A ring of one item is full at once, so that callers block or overrun;
two callers of different levels (one asks for a flush), main and the flusher meet
in every order; a pool of one worker takes three posts of them, a pool of two one
each. Files: three of at most 3, with lines of 1, 2 and 4, so that a line fits,
fills a file or exceeds it; days of two ticks and a clock that reaches the third day,
rotation at midnight and in the middle of the day, lines that are a tick late; two
troubles, each a failure or an end of the process, so that a rotation fails after one
that failed, or in a process that found one's remains (`FewTroubles`); the daily sink
has three lines (`FewDailyLines`), for three days. Patterns: two sinks with the engine's pattern, the
plain text, and one with every kind of irregular sequence.

The algorithms. 14 buckets of the histogram's 109, and values below, at, between
and beyond their limits, with a `Modulus` of 2^16 that some sums of squares
exceed. `MaxInt` of fmt is 15, so that two digits reach, pass and jump over it;
strings have up to seven characters of alphabets chosen for each type of argument,
so that each part of a field occurs, is left out, and is wrong. Written integers
are of 16 bits, at the boundaries of digits, bases and signs, under every
combination of specifiers. Packed arguments are at most two (`MaxPacked` 3 instead
of 15), and lists go to five. Lines of a dump are as long as a line may be.
`Random` runs from six seeds, one of which has all bits of `M`, until it comes back, in
a field of 127 numbers. Buffers have stores of 2 and
3 and pieces of 1 and 3 characters, and four lines pass a ring of three slots.

`CHECK_DEADLOCK FALSE`: batches, reads, posts and lines are bounded, so a run may
come to rest; and a `schedule` failure or a failed `Open` stops the engine in
earnest.

Fairness of `FairSpec` (EngineRace): weak fairness of the commit thread, of the
pool thread, of the dumper with its continuations, and of the collections. Each
is a thread that is never blocked by another for good: the commit thread's only
wait has a deadline, and the wait for a redo log is for the pool thread, which
takes only the mutex of `DBMeta`. That clients call, or the process dies, is
never assumed. `RFairSpec` (EngineRead) adds weak fairness of each
reader; since batches are bounded `mutex_` is free for good in the end, so that
this says nothing of a writer that would starve readers of an unfair mutex for
ever. `FairSpec` (BatchCommiter): weak fairness of the commit thread, whose
`write` returns by `WriteReturns`, and of a destructor that has begun.
`FairSpec` (BenchmarkHarness): weak fairness of the main thread, each worker and
the checker's thread, none of which waits while it holds a mutex. A round of a
worker includes its retries, so this assumes that a store which stays open
accepts a write in the end; that is not so after a failed `schedule_dump_`
(section 6), when the benchmark does retry for ever. `FairSpec` (AsyncLog): weak
fairness of each caller that is inside a post, of the flusher's end, of a shutdown
that has begun, and of each worker; that a client logs, that the flusher has a
round or that main shuts down is not assumed. A worker's wait has a deadline of
ten seconds, so a lost wake-up on its side only delays; the callers' wait has
none, and that no wake-up of theirs is lost is what `EverybodyGetsThrough` shows.

## 5. Proofs

Checked by TLAPS, for all values of the constants that satisfy the assumptions the
modules name. The bounds of TLC (numbers of batches, failures, kills, operations,
lines, restarts) are among these constants, any natural number each. 45 theorems of
the form `Spec => []P`, `Spec => [][A]_v` or `Spec => Abstract`; every safety
property of the passing runs is one, but for the two on fmt's strings and digits.

Hardly a property below is inductive by itself. Each component has an inductive
invariant, a conjunction of named parts that stand in its module or at the head of
its proof (those of `LogFiles`, `LogPattern` and the algorithms). The proof
that steps keep it has a step for each action, and the property follows from it in a
line or a page.

| theorem | property | in |
|---|---|---|
| `TypeCorrect` | `TypeOK` | `EngineRace_proof` |
| `InductiveInvariant` | `Inductive` | |
| `ImmutablesAlwaysBounded`, `DumpsAreSerialized` | `ImmutablesBounded`, `OneDumpOfTheOldest` | |
| `CheckpointsAdvance`, `LogsCoverMemory` | `CheckpointAsserts`, `WalCoversMemory` | |
| `DiskInvariant`, `TablesAreListed` | `DiskInductive`, `TablesMatchManifest` | |
| `NothingOnlyInMemory` | `EveryValueOnDisk` | |
| `GoodViewsMakeAStore`, `WritesAreAtomic` | `ImplementsKvUpdater` | |
| `FittingBatchesKeepViews` | `ViewsStayGood`, if `BatchesFit` | |
| `ReadInvariant`, `ReadsAreAtomic`, `SnapshotsAreComplete` | `ReadInductive`, `ReadsAtomic`, `SnapshotComplete` | `EngineRead_proof` |
| `CommiterInvariant`, `TasksApplyInOrder`, `AnswersTellTheTruth` | `CommiterInductive`, `AppliedInOrder`, `AnswersAreTrue` | `BatchCommiter_proof` |
| `TasksAreKept`, `BuffersAreStable` | `NoTaskLost`, `BufferStable` | |
| `HarnessInvariant`, `BarrierIsKept` | `HarnessInductive`, `BarrierHolds` | `BenchmarkHarness_proof` |
| `LocalsAreSafe`, `ReportsAreTrue` | `LocalsOutliveTheirThreads`, `ReportIsTrue` | |
| `LogInvariant`, `QueueIsAFifo`, `NoLinesAreLost` | `LogInductive`, `ImplementsFifo`, `NoLineLost` | `AsyncLog_proof` |
| `PoolIsKept`, `EverythingIsLogged`, `FlushesAreBarriers` | `PoolOutlivesItsUsers`, `EverythingLogged`, `FlushIsABarrier` | |
| `SinksKeepTheirInvariant`, `RotationIsSound` | `FilesInductive`, `RotationKeepsTheNewest` | `LogFiles_proof` |
| `DailySinkIsFaithful`, `NoWriteToAClosedFile` | `DailyFilesFaithful`, `WritesHaveAFile` | |
| `PatternInvariant`, `LinesAreTimely`, `ColoursStayInTheLine` | `PatternInductive`, `LinesBearTheirTime`, `ColoursWithinTheLine` | `LogPattern_proof` |
| `BuffersInvariant`, `LinesSurviveTheQueue` | `BuffersInductive`, `BuffersKeepTheirText` | `Algorithms_proof` |
| `DataInvariant`, `TheDataIsSound` | `DataInductive`, `TestDataIsSound` | |
| `ArgsInvariant`, `ArgumentsAreFound` | `ArgsInductive`, `ArgsKeepTheirTypes` | |
| `HistogramsInvariant`, `TheStatisticsAreFaithful` | `HistInductive`, `StatisticsFaithful` | |

### Assumptions

Those on the constants are what the code gives: finite sets of keys and of workers,
sizes and limits that are natural numbers, a ring of at least one item, a queue
limit and a `MaxGc` of at least one, formatted lines of at least one character (the
end of the line), a rotation at a time of day that is within the day, threads that
are different from each other. Each is a named `ASSUME` of its module. Those of the
algorithms are `RandomAssumption` (section 2, BenchmarkData), `HeapAssumption` (the
heap has a block for each buffer and one more, so that `grow` gets one; where `new`
throws is not modelled), and `ArgsBound`: the number of a call's arguments, of which
an unpacked list keeps the negative in a word, is not so large that it changes the two
highest nibbles of that word (16^14 arguments in the code).

One theorem has a hypothesis besides: `WritesAreAtomic` needs `BatchesFit`, that the
entries of a batch fit an empty memfile. The code does not see to that, and where it
does not hold the property fails (`engine_oversize`, section 6): a view into a
reallocated buffer answers anything. So the refinement is proved in two parts:
`GoodViewsMakeAStore` from `[]ViewsStayGood` alone, and `FittingBatchesKeepViews`,
which shows that `BatchesFit` is enough for that. The passing instances satisfy
`BatchesFit`, and so does the engine for batches of up to 511 of benchmark.cc's values
(4096 bytes) with keys of 8 bytes, which fit the 2 MiB of a memfile.

### The write path

That no second dump starts rests on the queue being empty whenever `wait_for_room_`
schedules one, and on the dump under way being that of the head of the queue
otherwise (`OneDumpOfTheOldest`). That the assertions of `checkpoint` hold rests on
the order of ids: the checkpoint is behind the queue, the queue is sorted and behind
the memfile, the memfile is behind the log made in advance, and that is behind the
next id (`RedoOrder`); the checkpoint reaches the head of the queue exactly while a
dump is between `checkpoint` and `pop_front` (`DumpOrder`), which is why the next
head is again ahead of it. That collections are never early is the same order: they
remove ids below a checkpoint they read, which may be an old one and is then only
lower (`CollectsOld`), and every live memfile is at or above the present one. That the
log has what the memfile has rests on the memfile holding nothing newer than the
batch and on the batch being in the log before `add` (`WalAhead`). `Lifecycle` ties
these to the states in which there is a memfile.

`DiskInductive` adds `Manifest`: the list of tables that `DBMeta` has, the one reads
use, the new list a continuation has computed, and the files, which differ by
exactly the table of the dump that is being installed; and `WriterState`: what the
commit thread knows of its own batch. A value in memory is then found on disk:
while the memfile lives, in its log; afterwards in its table. The store of
`KvUpdater` is the newest value of each key through the layers, memfile before queue
before tables (`Held`); a switch, a dump and its installation move a layer without
changing what it answers, and `add` changes it by the batch.

A read takes its memfiles at one moment and its tables at a later one. `ReadGood`
says what it holds at each of its steps: a memfile that has left the queue since is
in a table that is listed, so it is in the copy that is taken later; and the first
layer with the key, of those not looked at yet, has a value the key had since the
call. `Follow` and `Observe` (the writer that goes on adding to the shared memfile)
are why `seen` is a set and not a value.

### The commit queue and the harness

`TicketOrder`: tasks are numbered, and log, batch and queue are in the order of the
numbers, one behind the other. `CommitPhases` and `AnswerOrder` say how far the batch
is, `AnswersMatchLog` that answered tasks are told what happened, `ClientTasks` and
`AckedIsApplied` what a caller may still have in the queue: a caller that retries has
only tasks of the key it retries, which is why its buffer does not change under
them.

`BarrierCounts`: each counter of `SharedState` is the number of workers beyond a
state, `waiting` are the threads for which the notification is still to come; that
counting is by cardinalities of sets. `WorkerStats` says what a worker's `Stats` and
histogram have of its own operations, `MergedSoFar` the same of the sum up to the
next worker, and that the sums over the workers come out is an induction over their
number. `PeakSoFar` is the greatest sample of the memory.

### The log

`Contents` reads the ring from its head to its tail. `ContentsLength` ties the two
indices to the number of items, so that the ring is full exactly when there are
`Capacity` of them; `PushIsPush` and `PopIsPop` show that a push appends, and gives
up the first item only when it is full, and that a pop takes the first, whichever way
the indices wrap around. `PoolShared` lists who may hold the pool, `Destruction` what
is left of it in the hands of who destroys it: one terminate is posted for each
worker, blocking, so it stands behind every line (`TerminatesLast`), and no worker
leaves without one. `CallOrder` keeps the order of each client's calls through ring
and workers; with it a flush has everything of its caller before it. `NoLineLost` is
inductive with these: what was handled, is in a worker's hands, and is queued is, in
this order, what was accepted without what was overrun; with one worker the order is
equal, with several the lines are counted.

`LogFiles`: `Buffer` says that what may still be in a buffer was written by the present
process, behind everything that was flushed and everything in other files; so what is
lost with it is the end of what that process wrote, and stays so (`LostStays`). For
the rotating sink, `RotationControl` (an index that is being shifted
to is free, but for the last; a sink that could not reopen its file has outgrown
`max_size` and so rotates at the next line), `RotationSizes` (`current_size` counts at
least what the base file and the line at hand need, also after failures and
restarts) and `RotationKeeps` (a gap in the indices is where a shift is). The daily
sink's `DailyControl` is about `rotation_tp_`: it is moved only when a file was
opened, so that the sink is closed only behind a line that reached it. `DailyFiles`
and `DailyKeeps` relate it to days: the open file's day is not after the present's and
its end not before `rotation_tp_`, and, if it is midnight that ends it, no file of a
day to come exists. Steps of the directory are of four kinds (`DirectorySteps`):
they empty or remove files, lose a buffer, shift a file, or append to one.

`LogPattern`: the compiler takes one character or one flag at a time, the formatter
runs the flags in turn; both are recursive functions, and `PatternInductive` holds
what they make of any pattern. `FormattersAreTrue`: a formatter is what its sink's
pattern was compiled to, its broken-down time and its printed date are of the seconds
they are kept for, so that `Refresh` leaves a formatter whose time is the record's
(`FormatStates`) also when time goes backwards. A line is then shown to be, flag by
flag, what `Meaning` says by positions, which has neither compiler nor cache: the
text between two flags, `%^`, `%$` and an incomplete flag at the end included. For
the colours, `RecordIsHandedOn` ties the range in the record to the line the last
sink printed, and `ColoursWithinTheLine` is carried along because a mark is set only
at a position the line has reached.

The run `log_sinks` interleaves files with patterns; the theorems are about the
`Spec` of `LogFiles` and the `PatternSpec` of `LogPattern`, whose steps are the same.

### The algorithms

Buffers: `GoodMemory` says that a buffer points to its store or to a block that
is not free, that no two point to one block, and that no block is without one;
`LocalsAreNew`, that the messages
on the stack are as constructed between two lines; `LinesAreInTheirSlots`, that the
slots from `head` on have the texts of the queue, each in a buffer that nobody moved
from. A slot beyond them may be one that was moved from: its capacity is 0 and its
size is what it was, which is why `Sound` (the capacity is the length of what it
points to, and the size not more) is asked of the slots in the queue only. Each operation of `basic_memory_buffer` is a lemma on the memory
before and after it (`AppendKeeps`, `AssignMoves`, `DestroyKeeps`), and the two
actions are five of them in turn. That every block has one owner is again a count by
cardinalities.

Data: `NextSeedIs` shows that shift and add are the remainder, and
`NextSeedSticks` where they stay; that text is never too
short for a value is an induction over its pieces (`RandomDataIsEnough`). Keys:
the first digit in which two numbers differ decides their order (`DigitDecides`), and
a key has the low digits, as many as fit.

Arguments: a word of nibbles divided by 16^i and taken modulo 16 is the i-th type
(`TypesShifted`), so that the two highest nibbles of a packed word are 0, while those
of the negative of a count are not (`StoreIs`): packed is never taken for unpacked, by
`do_get` or by `arg_map::init`, whose walk ends at the first type that is not there
(`EndIs`). Given that the arguments are what a call may be given, `ArgsKeepTheirTypes`
is then a statement about every list, not about steps.

Histograms: `Describes(h, s)` says of a histogram and a sequence of values that the
number, the sums modulo `Modulus`, the extremes and every bucket are those of the
values; a new histogram describes none (`ClearDescribes`), and `Added` and `Merged`
keep it. The bucket found for a value is the one it belongs to (`IndexIs`), because
the limits grow strictly: half again is at least one more, also of the first two or
three digits (`HalfAgain`, `LimitsGrow`). Sums over sets are recursive functions on
sets in the library; that there is such a function, and what it is for one more
element, is shown by induction on how many elements the set has (`SumsExist`,
`SumOfOneMore`). The percentiles: the first bucket that is
reached is not empty and is the one of the value asked for, linear interpolation
stays between its limits, the clamp keeps order (`PercentileIsWithin`,
`PercentilesGrow`). The variance: the sum over all pairs is counted row by row
(`PairsAre`), and as long as num times the sum of squares fits, wrapped sums do not
matter (`DescribedDeviation`).

### What is only model-checked

- Liveness under fairness, which the prover cannot state: `WriteReturns`,
  `ImmutablesDrain`, `RedoReclaimed`, `ReadReturns`, `NobodyWaitsForEver`,
  `AllBenchmarksRun`, `EverybodyGetsThrough`.
- `StringsMatchTheirGrammar` and `WrittenAsSpecified`: fmt's parsers, the writing of
  integers and of floating-point numbers. They are recursive operators, for which the
  prover has no backend, and what is compared is one recursive definition with
  another over strings; `count_digits`' 1233/4096 is a property of words of 64 bits,
  not of every width. What could be written as recursive functions is (texts,
  patterns, sums, digits of limits), and is proved by induction over sets of naturals
  instead of predicates (`InductionOnNat`).
- That an instance has no deadlock beyond those the README names, and that every
  action occurs.

## 6. What the source says and the code does not keep

- `engine_oversize` (`ViewsStayGood`): README v7 says that a memfile's memory is
  allocated once; a batch larger than a memfile reallocates it under the
  `string_view`s of the map. Batches have no limit (README v5 lists it as not
  done).
- `read_test` (`AckedIsReadable`): test.cc asserts that a key written is read
  back; after its memfile has been dumped, `SSTable::read` makes a string from a
  null pointer and `Read` answers `kIOError`.
- `read_race` (`CopyNotRaced`): `snapshot` copies `sstables_` under `rwmutex_`,
  `apply` swaps it without.
- `read_kill` (`SurvivesRestart`): the rules of the race want acknowledged
  data to survive kill -9; `replay` is empty, and the first redo log of the
  new process truncates the oldest of the last.

Random's comment says of its seed that it "must not be zero or M, or else all
subsequent computed values will be zero or M respectively" (random.h, lines 36-38).
`GoodSeed` (line 22) only replaces 0, and random.cc seeds each thread with a hash of
its id (lines 15-16), so a seed with all bits of M goes through, and the generator
repeats M. The passing run `algorithms` shows it: `TestDataIsSound` states that the
generator sticks for such a seed and for no other, and has one among its seeds.

Met while modelling, with no statement in the repository to hold them against.

In the engine and the benchmark: `schedule_dump_` swallows its failures, after
which nothing ever dumps again; after a failed prefetch the next switch may use a
null redo log (`UseSpentLog`); a future that holds an exception may stay valid,
and then every later switch fails; `Snapshot::read` asks the oldest table first;
the destructor resets the dumper while continuations may still need it; a failed
dump leaves its file behind; the first latency of a worker includes its wait at
the barrier, because `Stats::Start` takes the old `start_` (`LatenciesAddUp` states
what holds), and a clock that is set back makes one enormous; the standard
deviation wraps around at the default size of a benchmark (`DeviationExact` states
up to where it is right); `FLAGS_duration` cannot be set, so that the timed branch
of `Duration::Done` is never taken; redo logs that the last collection passed over stay
for ever; `DeleteDir` reads a directory it could not open; `exit(1)` of a
worker destroys statics under the others.

In the log: an exception of one sink skips the sinks behind it for that line; the
rate limit of the error handler is read and written without a lock; while the base
file of a rotating sink cannot be opened, every line shifts the history by one
index; a killed process may leave a part of a line, and the next one's lines go
behind it; `%I` prints 0 for the hour after midnight.

In fmt: the compile-time checker ignores the id of a named field and checks its
specifiers against the argument before it (the grammar's comparison leaves such
fields out); the buffer of a decimal with separators has room for the digits only;
infinity and nan are padded with zeros, as numbers are.

## 7. Not modelled

- The destructor of `EngineRace` ("TODO elegant exit"): what it promises is not
  written anywhere, and the step that goes wrong is a call through a null pointer,
  after which the program has no states to model.
- `Range`, a stub. `reachable_files` and `zombies_`, which nobody uses.
- The text of redo and table records (decimal sizes glued to the bytes): no code
  reads it, so nothing says what it means.
- A submission to `executor_` that fails in the handler of `on_dump_completed_`
  (the process terminates), and failures of logging seen from the engine.
- Of the benchmark: flags, directories, the header and the printing, bytes and
  rates; the second run of the visitor over `Range`, which visits nothing. Of the
  histogram: its printing and its average. Of the generators: `Random64` (the
  standard library's), `OneIn` and `Skewed` (not called).
- Of spdlog: names and settings in the registry, error handlers, stdout without
  colours, the sinks for Windows, Android and syslog, the wording of days and
  months, operating-system calls.
- Of fmt: Grisu (`FMT_USE_GRISU` is 0), wide strings, user-defined formatters,
  ranges, ostream, time, colours, POSIX files, system errors.
- config.h and util: constants (those of `EngineRace`), aliases, the creation of the
  logger, CPU binding.
- The end of the operating system, which keeps what a killed process wrote: nothing
  is ever synchronised to the device.
- Boost, the standard library and the file system beyond what the code sees of them.

## 8. Plan

1. `KvUpdater`, `EngineRace`, `EngineRead`, `BatchCommiter`, `BenchmarkHarness`,
   `Histogram`, and the proofs about the write path (done).
2. The log and its library: `AsyncLog` over `CircularQ` against `BoundedFifo`,
   `LogFiles`, `LogPattern`, `MemoryBuffer`, the modules of fmt, `HexDump`,
   `BenchmarkData`, and `QueueIsAFifo` (done).
3. Proofs of the safety properties of `EngineRace`, `EngineRead`, `BatchCommiter`,
   `BenchmarkHarness`, `AsyncLog` and `LogFiles` (done; section 5).
4. `LogPattern`, `MemoryBuffer`, `BenchmarkData`, `FmtArgs` and `Histogram` with
   functions in place of recursive operators, and the proofs of their properties
   (done; section 5).
5. Open: `count_digits` for words of 64 bits, apart from the parsers; the shutdown of
   `EngineRace` once the source says what it promises.
