# A verification of tblib

tblib is a C++ library (`src/`): arrays and strings over shared blocks, a synchronisation layer
of events and channels, configuration files as trees of variants, services, child processes,
logging, and a set of algorithms (hashes, ciphers, packing, automata). This directory holds TLA+
models of the parts with the most state and the most ways to go wrong, TLC configurations that
check them on small instances, and proofs that hold for every instance.

To check a run: `tlc -workers 2 -config X.cfg M`. To check the proofs of a module: `tlapm M.tla`.
`PROJECT.json` lists the components, the runs, the source lines behind every definition, the
hazards of the code at their lines, the theorems and the findings.

## 1. The system

| component | state it keeps | operations | how it meets the others |
|---|---|---|---|
| events, groups (`tbsync/sync.*`) | counter and chain of links of an event, under `*pmu`; `waitstate`, `signal_index` of a group, under its mutex | `signal`, `wait`, `wait_multiple`, destructor of a group | called by any thread; channels are built on it |
| channels (`tbsync/sync.*`) | ring buffer, two events, one mutex | `push`, `pop`, `wait_multiple` | a thread performs the operation of a sleeping partner |
| arrays, strings (`gdata/t_array.h`, `t_string.*`) | block with `refcnt`, `countchars`, cells; views `fstorage`, `sdata`, `fsize` | assign, insert, erase, resize, reserve, makeunique, slice, write | every other part uses them |
| string streams, formats (`t_format.h`, `t_str_utils.cpp`) | a format and the place reached in it; a buffer, sometimes external | `format`, `vbformat`, stream writes | log, JSON writer |
| shared structures (`t_sstruct.h`) | a counter in front of a structure | copy, makeunique | nodes of the variant |
| variant (`conf/conf_variant.*`) | nodes: children, index of names | set, push_back, set_path, erase, copy, demand_node | parsers fill it, writers print it |
| JSON parser and writer (`conf/json_parser.*`) | stack of open scopes; of `ojsonstream`, scope and tag that is due | `parse`, `save`, stream calls | variant, strings |
| JSON validator, HOCON and INI, command line | stacks of sections, merged trees | parse, merge, validate | variant, environment |
| environment (`tb_env`) | maps behind unsynchronised statics | set, expand, closure | configuration, service |
| log (`tsys/tblog.cpp`) | pool of messages, handle, level | open, close, push | any thread |
| service (`tsys/tb_service.*`) | `running`, pid file, signal mask and thread | `callAsService`, `onStop`, `onRefresh` | the application's `mainloop` |
| child processes (`tsys/tb_process.*`) | directory of the process, static `orgcdir`, the child | `SysExecute` | any thread; the general mutex |
| resource pool, mutexes | a mutex made on first use | lock, pool of resources | log, child processes |
| `com` | table of handles, a waiting thread | Windows only | |
| arithmetic coding (`gdata/pack`) | the interval, the owed bits, the table in force | `encode_string`, `decode_string`, preparing and learning tables | none |
| hashes, ciphers | the block that fills, the counter of bytes; key and vector | `calc`, `end`, `encode`, `decode` | a key may be a hash; frames carry a digest |
| range map (`tb_binmap`), automata (`parse/tb_dfa`) | ranges in order; states and their transfers | `addrange`, `inverseto`; `add_In_word`, `pack`, `find` | lexers |
| texts (`tb_string`, `tbt_locale`) | none, but for local buffers | search, split, convert, compare, validate | every part |
| serialization | bytes and a position | frames, arrays, maps | digests |
| time (`tsys/systime`) | none of its own: a date is a double | encode, decode, print and read dates and times | log, files |
| files (`tsys/tbfiles`) | none of its own: the tree belongs to the system | copy, erase, list, search, compare, make directories | configuration, service, coders |
| network | none of its own | system calls | |

### What is hard

- **Threads that take two mutexes.** `signal()` locks the event, then a group; the unlink in
  `wait()` locks the group, then an event. Channels lock in a third order.
- **Reads outside of the lock.** `estateWait` (sync.cpp:152), `cnt_signals` (125), the chain of a
  channel's other side (199): each is looked at, then acted on later.
- **Pointers kept during a walk.** `signal_nm` holds a cursor in a chain others leave.
- **Counters kept by hand.** Constructors and destructors of the elements of a block, its
  `refcnt` and its `countchars` are adjusted separately, in every operation, for moved elements,
  copied elements, and characters.
- **Views of a part.** An array may be asked to insert a part of itself.
- **Two formats that must agree.** What `save` and `ojsonstream` print is what `parse` reads,
  through screening, integer widths, keys that differ in case, and doubled names.
- **Old values and new ones.** `_decuse` (t_sstruct.h:48) is written for a decrement that returns the
  new counter; the one it gets on Linux returns the old. `lockauto` of the log locks nothing.
- **Buffers that end anywhere.** Conversion, comparison, hashing, formatting and block ciphers go
  buffer by buffer; a character, a block or a number may lie across an end.
- **Walks over what changes.** A directory is erased and copied while it is listed, a call in the middle may be
  refused, and the result has to say so.
- **Order of resolution.** Environment variables that name each other, links between lists, states of
  an automaton shared by several words: the result depends on the order of a map or a list.
- **Signals and processes.** SIGHUP between two settings of its action, a signal before there is a
  thread for it, a child that ends between the last look and the kill, one current directory for
  all threads.

### What makes each part correct

- Events: no signal lost or taken twice; chains consistent; a blocking wait returns a signal; no
  deadlock; who can be served is served.
- Channels: FIFO up to the capacity, meetings without one, one operation per wait.
- Arrays: they behave as values; counts are exact; every element is constructed once and
  destroyed once.
- Variant and JSON: the parser accepts its grammar and builds the tree it read; what is written is
  what is read.
- Service, children: one instance, whose pid the file names; a stop request ends it; directories
  and children of the threads are kept apart; no child is left behind.
- Log, shared structures, pool: nothing is used after its end, a counter covers its handles, a
  resource has one owner.
- Readers of texts: each format's reader accepts what its grammar says and builds what the text means.
- Algorithms: decoding is the inverse of encoding, a digest is the published one, a structure of
  ranges is a set, an automaton finds the words that were added.

## 2. The modules

```
EventSem  <--(Sem)--  SyncEvents  <--  SyncEvents_proofs
                          ^---------- MCSyncEvents
ChanSem   <--(Sem)--  SyncChan    <--  MCSyncChan  <--  SyncChan_proofs
ArraySem  <-(Arrays)-  RcArray    <--  RcArray_proofs
                          ^---------- MCRcArray
JsonText <- ConfTree <- JsonParser <- JsonConf <- JsonSem <- MCJsonConf
ServiceProcess \
ChildProcess --- Daemon <- MCDaemon
                 Daemon <- Daemon_proofs

Log, SharedStruct, ResourcePool, BinMap (each with its _proofs)            \
ArithCoding, Dfa                                                           \
ConfTree <- ConfExpand <- ConfText -> TextTools                             MCLibrary
JsonParser <- HoconParser                                                  /
ConfTree <- ConfSchema                                                    /
Hashes <- Ciphers, Serialize;  CmdLine, Locale, TextTools, Calendar, Files /
```

### SyncEvents, with EventSem

A group's thread is a program counter `wpc` through `event_group_t::wait`: peek each counter,
lock and pop, link to every event, sleep, wake, unlink, return; `Destroy` is the destructor.
A signaller's `spc` goes through `event_t::signal` and `signal_nm`: `Signal` takes the event's
mutex and adds, `ScanPeek` reads `waitstate` without a lock, `TrySignalTo` takes the group's mutex
and reads it again, then goes on along the chain. A step is what lies between two points where another thread
can see or disturb the caller. The chain keeps its `left`, `right` and head pointers. `pmu` says who
holds an event's mutex (a signaller, during its scan), `mu` who holds that of a group (its thread,
whenever it runs inside `wait` or the destructor). A wake-up for no reason finds `estateWait` and is a
stuttering step. `EventSem` knows counters and calls only; the refinement maps `wpc` and `signal_index`
to the phase of the call and its result.

### SyncChan, with ChanSem

The same steps over channels. `PopSignal` tries an operation under the channel's mutex and offers
what it did to the chain of the other event: `ScanPeek`, `TrySignalTo` perform the partner's
operation for it, in one step with the partner's mutex. A chain is a sequence here. `ChanSem` is a
bounded queue per buffered channel, and a `Meet` of a writer and a reader otherwise; an index says
which of its operations a wait performed.

### RcArray, with ArraySem

Two arrays and a few blocks, one action per public operation. The body of each follows the code:
`lassign`, `linsert`, `lerase`, `doresize`, `doreserve`, `makeunique`, `makenew`, `repack`, with the
test of `intersects` that protects a range of the array's own block. `kind` chooses elements that
are moved by memory, elements that are copied one by one, or characters (strings, which are also
made from literals and copied on write). `faults` records what the language forbids: constructing
over an object, destroying or moving what is none, writing past a block, freeing one with objects
in it. `ArraySem` is a family of sequences; writing one element may show in arrays that share the
block, as `ReadMe.txt` says. `call` records the last call as what it means for a sequence; with what
the arrays show (`Contents`) `RcArray` refines `ArraySem`.

### JsonText, ConfTree, JsonParser, JsonConf, JsonSem

Texts are sequences of the few characters that matter. `JsonText` is the lexer and the screening of
strings. `ConfTree` is the memory of nodes and the operations of variants; a node is never freed,
as in the code (`construct_type` and `destruct_type` are exchanged in conf_variant.cpp:16-17).
`JsonParser` is `parse`, one action per kind of lexeme and state, with its stack. `JsonConf` puts a source in front of the parser: any text,
a tree a client built and saved, or an `ojsonstream`, whose calls may be refused. `JsonSem` has the grammar and the properties.

### ServiceProcess, ChildProcess, Daemon

`ServiceProcess` walks `callAsService` from the fork of `demonize` to `mainloop`, with `lockf`, the
pid file, the action of SIGHUP, the mask, and `process_signal_thr`; `Kill` is a signal at any point.
`ChildProcess` is `SysExecute`: the general mutex, the two `chdir`, `posix_spawn` (which may fail and
then leaves `pid` uninitialised), the polling, the stop word, the timeout, the kill and the last
`waitpid`. `Daemon` runs the second in threads of the first's `mainloop`: SIGCHLD reaches the signal
thread, and `onStop` raises the stop word. `mainloop` and the derived `onStop` are the application's;
the model takes them to do what their declarations ask for.

### MCLibrary: the parts that do not act on each other

The components below share no state, so one instance holds them all: `subject` says which of them a
behaviour is about, and the others rest in an initial state. Seven are machines, the others are
questions: the instance chooses a `probe` (a text, a document, a command line, a key) and its invariants compare what
the code answers with a definition of what it should.

- **ArithCoding.** `alignRate` with its loops that raise small parts to `Min_frequency`,
  learning, weights, n-grams; then coder and decoder, one symbol or one doubling of the interval a
  step, with the owed bits and the switch between tables. The register is `CODE_LEN` bits wide instead of 16.
- **Log.** `log_handle`, the static pointer, `on_begin_msg`, `on_end_msg`, levels and modes. Since
  `lockauto` locks nothing, each access to the pool or the pointer is a step.
- **SharedStruct.** Handles and their counter, with the atomic operations of Linux, step by step.
- **ResourcePool.** `cResourceDistrib`: the pointer looked at twice, the pool made once, resources taken
  and returned under its mutex.
- **ConfExpand.** `LocalEnv` and its closure; the variables a document defines, and the
  expansion of its texts with `<!disable_expand_environment>`.
- **HoconParser, ConfText.** The parser of `tbcfg_parse.cpp` as a machine over `JsonParser`; the
  lexers of HOCON and of the list configuration and the INI lines as functions of a text; lists, saved and
  read, and `relinks` with its links, data, files and directories (`PrgDir`, `CfgDir`, `CfgFiles`).
- **ConfSchema.** `json_validator.cpp`: loading a schema, validating, comparing two documents. What a comparison
  may end in is a set: reading behind an array or a table has more than one outcome.
- **BinMap.** `addrange` as written, deletion included; what is read from the list: `findAt`, `power`,
  `inverseto`, whose last gap goes through `addrange` too. **Dfa.** States, copies of shared states, packing, both searches.
- **CmdLine.** Paths, splitting of command lines, options with their values and errors.
- **Hashes.** 32-bit words as two halves. The contexts of MD5 and SHA-256 with their buffers,
  the transformations, stretching. **Ciphers.** The block cipher with three sizes of keys, the modes, padding,
  keys, transposition. S-box, `rsbox` and `Rcon` are computed, the other tables are the code's.
- **Locale.** `std::codecvt_utf8_utf16` from its standard (external), and over it the conversions, `icmp`,
  `f_ul`, the hashes without case, `utf8_Validate`. **TextTools.** Search, split, replace, trim, `format_to`,
  the limited stream. **Calendar.** Days, times of the day and seconds or milliseconds since 1970, and the texts of
  dates, as sequences of characters and numbers. A `cdatetime` is a double: between 1090 and 2177 it has steps of 2^-17 s, so it is a day, a second and a
  tick, and what a sum or a product rounds is rounded. `mktime`, `gmtime`, `strftime` and `sscanf` are external.
  **Serialize.** `t_mem_serializer`, frames with digests, and the tree of `test_serialize.cpp`.
- **Files.** `tbfiles.cpp` over a tree of files and directories, which refuses some calls (`fails`) and lists names
  in an order of its own (`order`); `os` chooses the Windows or the Linux branch. The calls of the system are external, each
  function of the code is the sequence of calls it makes, with what it does when one is refused. `is_cstr` holds of every text that has data (t_string.h:48), so `tocstr` never copies, and a
  name that is a slice would reach the system with what lies behind it; names here are texts of their own.

## 3. The runs

| run | result | what it shows |
|---|---|---|
| `sync_events` | pass | Two groups on the same two events in opposite orders, one with `fdontBreakLinks`, two signallers: types, `Conservation`, `BlockingWaitIsServed`, `ChainConsistent`, `CursorLive`, the refinement `SemSpec`, and `SignalReachesSleepers` |
| `sync_one_event` | pass | Groups on one event (one lists it twice): `NoDeadlock`, and `CallsReturn`: signals end, and a wait that was served returns |
| `sync_deadlock` | violation | `NoDeadlock` fails for a group on several events and two signallers |
| `sync_lost_wakeup` | violation | `NoLostWakeup` fails in the scenario of `mainsync_test1` |
| `sync_chan` | pass | A buffered and an unbuffered channel, a reader of both: `SemSpec` (FIFO, meetings, one operation per wait) |
| `sync_pushpop` | pass | Two writers and a reader of one buffered channel: `CallsReturn`, and `OperationServesSleepers`: an operation that leaves something to take leaves nobody asleep who could take it |
| `sync_meeting` | violation | A writer and a reader of an unbuffered channel sleep beside each other |
| `array_values` | pass | Two arrays, all operations in any order: `ArraySpec`, `BlocksConsistent` (counters count the views, objects are a prefix of the cells), `NoLifetimeFault`, and `FaultsHaveCause`: the two known faults come only from the two cases named below |
| `array_lost` | violation | `NothingLost` fails |
| `conf_json` | pass | The parser accepts exactly its grammar, the tree holds what was read, `WrittenIsRead`: what `save` and a stream print is read back; keys stay apart |
| `daemon` | pass | `PidFileNamesRunner`, `DirectoriesKeptApart`, `NoChildLeft`, `StatusIsOfOwnChild`; `TermEndsService`, and `HupReachesService`: a SIGHUP is taken by the signal thread, and ends the service only while it starts |
| `library` | pass | One property for each part of `MCLibrary`, in the table below |

The properties of `library`:

| property | what it says |
|---|---|
| `TextComesBack` | a decoder gives back the text, whatever tables were in force; the only error is a character no alphabet has; a symbol loses its place only in a table whose raised rates do not fit |
| `LogOutlivesItsUse` | no log or message is used after its end but in the ways section 5 names |
| `CounterCovers` | a counter covers the handles that hold the structure, in any interleaving, but for those in the middle of a copy; nothing a handle has is freed |
| `WritesOwn` | a write through a unique handle changes what no other handle shows (an action property) |
| `ResourcesApart` | there is one pool, and no resource has two owners |
| `ExpansionMeansValues` | a closed variable is the text its definition means; unknown names stay; a closure that does not end has a cycle |
| `HoconMeetsGrammar` | the parser accepts exactly its grammar, and the nodes hold what was read |
| `MapHoldsWhatWasAdded` | the ranges are apart, in order, and hold the numbers that were added, but for the range lost to a join on both sides |
| `DfaFindsItsWords` | packed or not, a word is found when one that was added matches it under its masks |
| `SchemaMeansWhatItSays` | a document is valid when every rule of the schema holds of it; a comparison is equal just when the right document has every value of the left one that is not left out, and otherwise ends at the first that is missing: with a difference, an exception or a crash, by where the right array ends |
| `TextsMeanWhatTheySay` | lexemes, INI lines and lists are read as written; links lead where they say, data and files are worked out once; both widths of a text agree, case and order are those of the upper case, splitting puts together what was apart; a format shows each argument in its place, up to a number that stands where a string should or does not fit its buffer; a date, a time and a text of them mean the same moment in all their forms, but for one millisecond that the casts cut off |
| `CommandsMeanWhatTheySay` | paths come apart and together, options get the values behind them, what is wrong is told; a copied tree is the same, an erased one is gone, a listing tells the tree, unless what failed is told; a comparison tells equal files apart from others, a search finds the first path |
| `DigestsAndCiphersMeetStandard` | digests and ciphers give the published values, whatever calls cut the text; decoding gives back; what is serialized is read again and leaves the bytes around it, but an empty array or text cannot be written where the bytes end; spoilt bytes of a serialized tree are told, but in a size that becomes zero |

Deadlock checking of TLC is off in every run, because the bounded number of calls ends each
behaviour; where threads could block one another, `NoDeadlock` says what must not be.

### Bounds

- `sync_events`: `MaxCalls` = 2 waits per group, so that links left by the first (fdontBreakLinks) meet the
  second; 2 and 1 signals, in lots of 1 and 2, so that one call serves two groups. Two groups on two
  events are the least that put a group in the head, middle and end of a chain and let two events
  choose the same group.
- `sync_one_event`: the same with one event and liveness. `sync_deadlock`, `sync_lost_wakeup`: the
  three events and the one group of the test.
- `sync_chan`, `sync_pushpop`: capacity 1 (full and empty are one step apart) and 0, three threads,
  2 calls each. `sync_meeting`: one channel of capacity 0.
- `array_values`, `array_lost`: `MinCapacity` is 3 where the code has 16, `MaxSize` 3 and `MaxCells` 4 over all blocks:
  a block that is full, one that has room, and a second block to move to. One value and the default.
  Two states that differ in the names of blocks or in bytes behind a string's end are one (`VIEW`).
- `conf_json`: texts of 7 lexemes (closed by up to 5 more), trees of 3 calls, streams of 6 calls.
  Keys are `a` and `A`; values are none, -1, true, and a string with a backslash and a quote. An
  integer has 16 values (`IntModulus`), so that its limits are reached by two digits.
- `daemon`: two processes start once each; one gets each signal once, at any time; two threads make
  two calls together: one that waits for ever, one with a timeout of one step, one asynchronous with
  a directory that does not exist. A start after the end of the first process is included. Of what an
  uninitialised `pid` may hold, the numbers of this process's children and of no process are
  modelled; zero and negative numbers (groups of processes) are not.

- `library`: registers of 6 bits and texts of 3 characters, so that intervals straddle their middle, bits
  are owed, and tables hold parts of the least size; `Max_frequency` and the rest keep the relations of the
  code's constants (`Max_frequency` is `First_qtr` less one). Log: 2 threads, a pool of 1 (full at once), 2 messages,
  3 calls. Structures: 2 threads with 2 and 1 handles, 3 structures, 2 calls each. Environments: 3 names of which one is
  outside, 2 sets, 6 passes and 24 characters (`MaxPasses` and `MaxEnvText` stand for "does not end"). HOCON: 6 lexemes.
  Ranges: 7 numbers, 4 additions (three ranges, and one that joins all). Words: 3 of 1 or 2 symbols over 2 bits.
  Texts: all of up to 3 or 4 of the few characters a format tells apart; buffers of 2 units (`CaseBuffer`; 1024 in the code)
  and 4 characters (`FormatBuffer`; 4096), numbers of less than 12 characters (`NumberBuffer`; 128), 3 texts of blanks (`MaxSpaces`; 50). Digests and ciphers: the texts and vectors
  of the repository's tests and the published ones, cut in the places where a block fills or its padding does not fit.
  Files: trees of a few names two directories deep, with each call refused; `DirBuffer` = 4 entries in a list (100 in the code, with
  the two dots), `FileBuffer` = 2 bytes compared at once (16384), files of up to 3 bytes, so that both limits are met and passed.

### Fairness

Weak fairness of each step of a thread that is inside a call: a thread the system schedules goes on,
a mutex is granted when it is free for good, and a condition variable returns to who was notified.
That calls are made, programs end, signals are sent or processes started is never assumed. Of
mutexes: weak fairness suffices for the runs since the number of calls, and with it of owners, is
bounded. In `Daemon` the main thread, the signal thread and the threads in a call are fair.

## 4. What is proved

Each theorem holds for all values of the constants: any groups, threads, events, channels and buffers
(`SyncEvents_proofs`, `SyncChan_proofs`), any arrays, blocks and sizes (`RcArray_proofs`), any processes, requests and
signals (`Daemon_proofs`), any handles, structures, logs and pools (`SharedStruct_proofs`, `Log_proofs`,
`ResourcePool_proofs`), any number of ranges on maps of any size (`BinMap_proofs`).

| theorem | statement |
|---|---|
| `TypeCorrect` | `Spec => []TypeOK` of `SyncEvents` |
| `WaitServed` | a wait that may block never returns without a signal |
| `SignalsConserved` | signals given = signals pending + signals taken |
| `ChainsConsistent` | every chain is a doubly linked list of exactly the linked groups |
| `CursorsLive` | the cursor of a scan never stands on a link that has left the chain |
| `OneEventNoDeadlock` | with groups on at most one event, the mutexes never deadlock |
| `ImplementsEventSem` | the code's steps implement `EventSem` |
| `BuffersCorrect` | `Spec => []TypeOK` of `SyncChan`, with buffers no longer than `maxsize` |
| `ImplementsChanSem` | the code's steps implement `ChanSem`: FIFO up to the capacity, meetings without one, one operation per wait |
| `SleepersServed` | who slept on the other event when an operation's scan began is awake when it ends, unless the scan met a partner or nothing is left to do (`OperationServesSleepers`) |
| `BlocksCorrect` | `refcnt` is the number of views of a block; its objects are its first `countchars` cells; views show objects |
| `LifetimesCorrect` | no operation constructs over an object, or moves, destroys or assigns what is none |
| `FaultsCorrect` | objects are lost, and written past a block, only in the two ways of section 5 (`FaultsHaveCause`, an action property) |
| `ArraysCorrect` | the code's operations implement `ArraySem` (`ArraySpec`): each does to its array what the call does to a sequence, and to no other array anything, but for an element written into a shared block |
| `PidFileCorrect` | while a service runs, the pid file names it |
| `DirectoriesCorrect` | a program starts in the directory its call asks for; outside of the mutex the process has its own |
| `ChildrenCorrect` | no call leaves a child behind (while every spawn has succeeded) |
| `StatusCorrect` | the status returned is that of the child the call spawned |
| `CounterCorrect` | a structure's counter covers its handles, and what a handle shows is not freed |
| `WritesOwnCorrect` | a write in place shows in no other handle (an action property) |
| `ResourcesCorrect` | one pool is made, and every resource of it is in one place |
| `LogCorrect` | the current log is there; freed memory is touched only in the two ways of section 5 |
| `BinMapCorrect` | the ranges hold what was added, and `power`, `findAt` and `inverseto` tell it, up to the addition that joins two neighbours (section 5) |

`RcCorrect`, `ChanCorrect` and `ServeCorrect` state the inductive invariants behind some of these.

Assumptions, all named where the constants are declared and evaluated by TLC in the runs: a group's list of events is a
sequence of at most `MaxSize` events, it names a channel once, groups and threads differ, counts are positive; names
of nobody (a free mutex, no block, no log, no structure) name nobody; every thread has its process, every handle its
thread; threads and handles are finite sets where something counts them; there are more blocks than arrays, so that
memory never runs out (the code does not handle that it does), a cell without an object differs from every
value, and the values put into an array at once are not longer than the largest array.

### The arguments

*Events.* `TypeInv` is `TypeOK` with the types of program counters and links. `WaitInv`
relates a group's program counter to `waitstate` and `signal_index`: a group that sleeps holds a signal
once it has left `estateWait`, and only then. With it, `ConservationInv` follows action by action: each step
moves one signal from a counter to a group (`ConservationTake`), or none
(`ConservationKept`). `LockInv` says who owns which mutex at which place; `EnterOK` adds, for groups of
one event, that a signaller about to take a group's mutex finds the group still asleep, since it holds
the only event that can wake it: that mutex is free, and `OneEventNoDeadlock` follows; the general case is false (`sync_deadlock`). `ChainInv` has the chains, the
flag of linked groups, and the cursor: a scan holds the event's mutex, so that links enter or leave
no chain that is being walked (`CanLock`); `LinkKeepsChain`, `UnlinkKeepsChain` and `CursorKept`
are the three facts. The refinement maps each action to a step of `EventSem` or a stutter, from `WaitInv`.

*Channels.* `ChanInv` has the types, the bound of each buffer, what a link stands for (`LinksOK`), where a scan
may stand (`ScanOK`) and, as `WaitInv` does, what `signal_index` is at each place (`SignalOK`): a partner that is still in
`Wait` has done no operation, so performing one for it is a `Put`, a `Get` or a `Meet` of `ChanSem`. `ServeInv` adds the history `sleepers`
of the run: a group's links stand in their chains, once each, while it sleeps (`LinkedOK`, `ChainsApart`), and every
thread that slept when the scan began is either awake or ahead of the cursor (`SleepersAhead`).
No link enters or leaves the chain meanwhile, since that needs the mutex the scan holds.

*Arrays.* `RcInv` says that `refcnt` is the number of arrays that show a block, that the block is sound
(`BlockSound`: `countchars` is no more than its cells, and the objects are those in front of it), and that what an array shows lies in its block or in the literal. An operation changes one array, and
runs through states where none of this holds: a counter is raised before the view is set, objects are made before
they are counted. So the lemmas follow the code upwards, from `ConstructFrom`, `DestructFrom` and
`decuse` over `makenew`, `repack` and `doresize` to the operations, and each says what it needs and leaves of
the operand, given the references `r` that other arrays hold (`Others`): their blocks keep their
cells and objects. A free block is always found, as there are more blocks than arrays. Where an operation may write
past its block, the lemmas carry the condition that it has not; behaviours of the model end at such a write.
The lemmas also carry the faults an operation can add. In place, that is none if the elements and a string's zero fit
behind the view (`Fits`), which `repack` sees to unless the array is empty and begins inside of its block
(`Hollow`, `Contained`); into a new block (`NewAs`), none unless the view is the first part of a block that is the
array's alone (`Prefix`), for then `decuse` frees objects nobody has moved. `Blamed` joins both for every operation, and
`StepCaused` carries it to the step: this is `FaultsCorrect`.
A second set of lemmas follows the same way for the values. `Retains`, `Extends`, `Gives`, `Inserts` and `Erases` say of an
operation which elements of its operand, or of the data it is given, are where in the result; the data may lie in the very
block that moves, which is kept meanwhile (`Pinned`). `Elements...` turn these into equations of sequences, those of `After`
in `ArraySem`. The others show what they did, as the blocks they hold are `Untouched`; only a write goes over a cell of a
shared block, which changes at most one element of each array (`ElementsChanged`), and none of a string's, since
`makeunique` leaves it a block of its own (`UniqueAlone`). This is `ArraysCorrect`.

*Service and children.* `PidFileInv` adds to the property that whoever is past `already_running` has the lock: only
the owner writes the file, and a process that ends gives up lock and place together.
`DirectoryInv` adds who owns the general mutex between the two `chdir`, and that `orgcdir` is the
process's own directory by then: it is read under the mutex, when nobody else is between them. `ChildInv` says
that, as long as no spawn has failed, a child that is not reaped is the `pid` of the call that spawned it, and that
call is still at a place before its last `waitpid`.

*Structures, pool, log.* `StructInv` counts: `refcnt` is at least the number of handles that hold the structure,
without those in the middle of a copy, whose source is held by the same thread; between `makeunique` and the
write nobody can join, as a copy needs a handle that has the structure. `PoolInv` says that one thread is inside of the
pool's mutex, and that what it has looked at is still there (`StillThere`). `LogInv` follows every message from its
making to its end: one that is listed is not deleted, unless one of the two causes has happened.

*Range map.* `MapInv` says that the ranges lie in the map and have no number that was not added, and, as long as
no addition has joined two neighbours, that they have all of them and are `Apart`. Every branch of `addrange` but one is a single
replacement (`Replaced`): some neighbouring ranges leave their places to one. `PlaceIs` says which those are,
`Fits` that the new one is their union with the range added, and apart from the others; `ReplacedHolds` does the rest. In the
branch of section 5 numbers get lost but none comes in (`MadeKeeps`). The readers go over the list: `Sizes` and `Gaps` are
recursive functions, which have a value by `Recursion`, and what they have after k ranges follows by
`Induction`, both proved from the well-foundedness of the natural numbers.

### What is only model-checked

- Liveness, and so `SignalReachesSleepers`, `CallsReturn`, `TermEndsService` and `HupReachesService`: out of the prover's reach.
- The JSON modules, the readers, `Dfa`, `ArithCoding`, hashes and ciphers, dates and texts: their
  properties compare one recursion over a text or a tree with another. The prover takes no `RECURSIVE` operator, and
  the induction theorems of its library cannot be applied; over a list an induction can be led by hand, as in
  `BinMap_proofs`, over trees and grammars it has not been tried.

## 5. What the models found

- **Deadlock of event and group** (`sync_deadlock`). sync.cpp:153 takes the group's mutex under the
  event's; 64-70, 182-185 take the event's under the group's. The comment at 236-243 argues that the
  order is free of cycles because source and destination groups differ; the cycle goes through an
  event.
- **Lost wake-up** (`sync_lost_wakeup`). sync.cpp:166-173: the counters are not looked at again after
  the links are made. The test of the repository can hang.
- **Missed meeting** (`sync_meeting`). sync.cpp:199: neither side of an unbuffered channel looks again.
- **Elements never destroyed** (`array_lost`). t_array.h:362, 419-423: `reserve` on a prefix slice that owns
  its block alone moves what it shows and frees the rest undestroyed. `FaultsCorrect` proves that
  there is no other way.
- **Writing past a block** (`FaultsHaveCause`). t_array.h:440, 477-480: growing an empty
  slice that begins inside a block it owns alone; `repack` returns at once for an empty view. The code
  then raises "range error" (108-113), after elements were constructed behind the block.

Not disagreements with any text of the repository, but worth knowing:

- A truncated JSON document is accepted: open scopes are closed silently. `jeUnExpectedEOF` is
  raised for text behind the document. A trailing comma is accepted in objects, not in arrays. A
  name may be an integer.
- `resetfield` leaves a `None` that `save` prints as text the parser refuses or shortens. A value
  without a name in an object is not printed. `demand_node` on a name that holds a scalar adds the
  name again each time. A `push_datastr` that is refused leaves a comma behind. `push_strtype` does not
  screen its string. `WrittenIsRead` and `KeysApart` name these cases.
- `posix_spawn` returns a positive number on failure; `err>=0` (tb_process.cpp:234) takes it for success
  and waits for a `pid` nobody wrote, without a timeout for ever, and kills that number at the end.
  `NoChildLeft` and `StatusIsOfOwnChild` are stated for runs without such a failure.
- A SIGHUP between tb_service.cpp:200 and 204 ends the service (`HupReachesService` shows that it
  is this window and the beginning of `demonize`).
- Programs spawned by a daemon inherit its mask of blocked signals.

Of the library; each is a case that the property of the part names, or a step of the model:

- *Shared state.* The last handle of a structure never frees it, since `_decuse` sees the old counter (t_sstruct.h:48,
  cross_sys.cpp:95-108), and `makeunique` does not give up the old structure: memory is lost, but no
  handle is left without its structure. A log message on the heap is deleted while it is listed (tblog.cpp:131-141).
- *Documents and texts.* An INI text whose last line has no newline is read for ever (tbcfg_parse.cpp:26-29). In a list
  configuration one slash ends the line (tbconf.cpp:307), and the character behind a newline in a string is skipped
  (243-256). `get_ptr` takes an index equal to the size (conf_variant.cpp:156), so that a comparison throws or crashes
  when the right array, or object for an empty key, has just one value less; `cmpv` reads behind its table when the right value is a container
  (json_validator.cpp:321); `init` with an empty text leaves out every element of every array (292-298). Data of a list configuration must not end
  in a digit (tbconf.cpp:418). A dot in a directory is taken for an extension,
  `get_file_dir("/b")` loses the root, an empty quoted argument is dropped, an option given twice is told as unknown.
- *Ranges.* `addrange` that joins both neighbours deletes one range too many, or past the end (tb_binmap.cpp:37-58);
  `findpos` is always true (tb_binmap.h:39).
- *Hashes and ciphers.* CBC coded call by call starts anew from the first vector (blockCipher.cpp:68), though its comment
  says that the vector is stored. `full_encode` of an array divides by zero for CTR (18). The transposition's `decode` shuffles again
  (chipher_transposition.cpp:38-40). `CalcNOut` hashes once more than asked; `makeNhash` may leave bytes unwritten.
- *Case and widths.* Texts are equal from their first bad byte on, while their hashes differ (tbt_locale.cpp:87); a text cut in a
  character makes the hash throw (hash_functions.cpp:157); the wide form of `prepareforHashIcase` takes bytes for units
  (tbt_locale.cpp:51-52). Changing the case throws when a character's length changes (69). A lone surrogate keeps
  `wide_to_utf8_add` in its loop for ever (228). `utf8_Validate` accepts long forms and surrogates; `validpart` ends
  behind the bad character. `push2stream_t` never advances its source (t_string.cpp:94), so that a text longer than
  its buffer is written wrongly.
- *Time.* A time kept as a double may come back one millisecond earlier; a text read in the host's summer time is off by what the
  summer adds, as the shift is that of January 1970.
- *Search and formats.* The narrow `find_str` compares past the end of a slice (tb_string.cpp:21), and throws for what it finds
  there; a number in the place of a string (`%s`) fails an assertion, and without assertions is taken for the address of a text
  (t_str_utils.cpp:102-105, 114); one of 128 characters or more is copied from behind its buffer (115); `findchars` returns
  a negative number for what it found (t_string.cpp:73), which tblog.cpp:43 takes for "none". `vbformat` loses the last character
  of a text of exactly its buffer's size (t_str_utils.cpp:154), and reuses consumed arguments for a longer one (159). `%%`
  is printed twice, `%*d` takes all arguments left, an unknown letter drops the rest, a surplus argument repeats the last place and the
  rest of the text.
- *Files.* On Linux `getentry` refuses at once (tbfiles.cpp:337), so that walks, listings, copies and erasures of directories
  do nothing and tell success. On Windows `erase_dir` and `copy_dir` look at 100 entries, the two dots included. `copyfile_d` empties its
  target before it knows that the source can be read, and so a file copied onto itself; `cmp_content_files` tests the
  first file twice (388) and reads the second through a null pointer; `foreach_files` drops the result of the
  walk below (603), `copy_dir` that of `MakeDir` (683); files are closed twice (470-497); `linuxerrconvert` gets the -1 of `stat` instead of `errno` (240).
- *Serialization.* Writing or reading nothing at the end of the bytes throws "range error in darray" (t_serialize.cpp:79, 86;
  t_array.h:395), so that a tree with an empty text cannot be appended to a buffer. Reading a map writes each value instead of reading it (tb_serialize.h:116). A frame of size zero is not
  checked (t_serialize.cpp:70).

## 6. The plan

What is done came first because it is the part with threads (`SyncEvents`, `SyncChan`), the part
everything stands on (`RcArray`), the library's largest interface (JSON), the processes, and then the rest of the
library part by part.

Theorems: those of section 4 are done. Left, in this order: the stack of `JsonParser` (every open scope is the child of
the one below), the interval of `ArithCoding` (it never empties, and the owed bits stay in step with it).

Models: threads that share blocks of `RcArray`, external storage of string streams, saving and loading a coder's tables.

## 7. What is not modelled

- Of tbsync: `chan_t<void>`, and `trypush`, `trypop`, `set`, `clear`, which are declared and not defined.
- Of arrays: `assign_storage`, `free_external_storage`, `swap`, `pop_back` (compositions), threads that share a block, sizes near 2^32, `lslice` past the end.
- Of JSON: options such as `ejtNoPrint`, fractions and exponents, blanks, access by index, unsigned
  truncation, cycles of nodes, assigning a node to itself.
- Of the service and the children: system calls that fail (but `posix_spawn`), the redirected output, the output file
  of a child, arguments, Windows.
- Of formats: what `snprintf` prints, precision of numbers, wide formats; of locales: the tables of one-byte code pages,
  the locale of the system; of serialization: wide and floating elements, the sorted vectors and maps, which wrap those of C++.
- Of the coders: saving and loading a coder, the generated texts of tables and automata. Of the readers: texts of errors
  and the paths they name, getters with types, printing of help.
- Of the log: the layout of a message, redirectors, the console.
- Of time: the clock, the local time and FILETIME of the system, and dates outside of 1090 to 2177.
- Of files: temporary files, the standard handles, the paths of the program, times, copying a directory into itself (which would not end).
- Components marked `not_modelled` in `PROJECT.json`: network (thin wrappers of the system,
  whose failures the code passes on), and `com` (built on Windows only).
