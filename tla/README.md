# TLA+ models of CSaori

CSaori is a framework in C++ for the DLLs that desktop ghosts load: SAORIs, which a ghost calls for
one service, and plugins, which the baseware loads for itself and which send events to ghosts. A DLL
implements `exec`, `load` and `unload`; the framework does the rest. This directory models the
framework and the parts of its implementations where threads, files and clocks meet, checks the
models with TLC and proves the main results with TLAPS.

    tlc -workers 2 -config MCCSaoriBase.cfg MCCSaoriBase     # a run
    tlapm CSaoriBaseProofs.tla                               # the proofs of a component

`PROJECT.json` names every run, the lines each definition stands for, a mutant that each property
catches, the hazards and the theorems.

## 1. The system

### Components

| component | state | operations | who calls it | hard because |
|---|---|---|---|---|
| message format (`csaori_base.cpp` 40-290) | the fields of one request or reply | `parseString`, `toString` | `CSAORIBase::request` | lines in any order, gaps, repetitions, line breaks in values |
| life cycle and dispatch (`csaori_base.cpp` 290-639) | `pSaori`, `call_id` | `DllMain`, `load`, `loadu`, `unload`, `request` | the baseware, on one thread | repeated loads, a missing unload, exceptions, security levels |
| `CPLUGIN` (`cplugin.cpp`) | the strings of a reply, `ghost_map`, `sstp_thread_lock` | `exec_before`, `exec_after`, `send_sstp` | dispatch; threads of plugins | strings outlive a request; a lock held while other programs answer |
| `CSThreadCall` (`util/cs_threadcall.cpp`) | `m_hThread`, `m_ThreadID`, `m_hEvent`, `m_call`, a message queue | `Set`, `Start`, `Call`, `Exit`, `ThreadProc` | tsvnexec | one event with two meanings, thread start and end |
| plugin shared_value | `m_ghost_values`, `m_last_time`, `values.dat` | its events, `Save`, `load`, `unload` | the baseware, for each ghost | spelling, cut lines, torn files, a clock that moves |
| plugin BouyomiChan | `thread_queue`, `thread_event`, `thread_active` | `OnOtherGhostTalk`, `ThreadProc`, `unload` | the baseware; its thread | producer and consumer, a lock held over the network, a join with time-out |
| plugin WiimoteGesture | `thread_running`, `thread_handle`, `timer_count` | `OnSecondChange`, `ThreadProc`, `unload` | the baseware; its thread | a thread that ends by itself, is reaped, is killed with a lock |
| SAORI tsvnexec | `m_hThread`, `m_pRev`, `m_hThreadExitEvent` | `info`, `notify`, `ExecuteTortoiseProcThread`, `unload` | the baseware; its threads | three kinds of threads, an answer each may delete |
| plugin sensorapi | `m_sensorlist`, `m_sensorlist_denied`, `m_sensorlist_updated`, a `CSensorAPIData` for each sensor | `load`, `OnSecondChange`, `unload`; `AddSensor`, `DataUpdateSensor`, `StateChangeSensor`, `DeleteSensor` | the baseware; threads of the Sensor API | callbacks before, within and after `load`'s loop; entries that move between two lists |
| SAORI gainer | `m_config`, `m_LEDMatrixOutputs`, `m_receive_queue` | its subcommands, `Init`, `Exit`, `Search`, `receive` | the baseware; its receiver thread | replies told apart by their order alone, a board that speaks of itself, a wait without limit |

The other implementations are listed in `PROJECT.json` with the reason why they have no module: most
are one call of Windows or of a library between a request and a reply and keep no state. Those that
do keep state or start threads (discord, CrystalDiskInfoEvent, chttpc, iptools, OsuwariDll, proxy_ex)
are spoken of under *What is not modelled*. SQLite, TinyXPath, htmlcxx, discord-rpc, MeCab and the
WDK headers are other projects' code.

### How they interact

The baseware maps the DLL, calls `load`, then `request` with a text for every event, then `unload`,
all on one thread. `request` parses the text (message format), chooses by command and security level
what runs (dispatch), lets `CPLUGIN` clear its strings and take note of ghosts that come and go,
runs `exec`, adds the strings to the reply and writes it. A plugin's own thread sends to ghosts with
`send_sstp`, which walks the list that `exec_before` writes; the windows it sends to belong to the
thread of the baseware, which may be waiting for that very thread. tsvnexec asks a COM object through
`CSThreadCall`, from the baseware's thread and from a thread of its own. sensorapi is called by the
Sensor API on the API's threads, under a lock it shares with the baseware's thread. gainer waits on
the baseware's thread for what its receiver thread reads from the serial line; that thread in turn
sends SSTP to a window the baseware's thread may own.

### What makes each part correct

- Message format: each field at the index its line gave; the last of repeated headers counts; a reply
  is read back with its status and with every value and header it was given, and each text up to its
  first line break.
- Life cycle: one load and one unload for each object, a loaded object whenever `request` may come,
  codes and security levels as the contract says.
- CPLUGIN: an answer holds nothing of another request; the list does not change under who walks it.
- CSThreadCall: a call has been carried out when it returns; no thread stays after `Exit`.
- shared_value: one value for a variable, whatever the spelling; nothing is mixed up by a crash; a
  change is saved within about a minute.
- BouyomiChan: every piece is taken, in order; nobody waits for ever; no thread in a freed object.
- WiimoteGesture: one thread at a time; it is killed at work only among many ghosts.
- tsvnexec: a thread finds the object until it has taken itself out of `m_hThread`; data asked for is
  not deleted.
- sensorapi: each entry is held once and deleted once; a sensor that was denied is not told of; in the
  end the ghosts know every sensor and its last report.
- gainer: the reply a command gets is its own; the configuration it believes in is the board's; `exec`
  returns.

## 2. Modules

| module | models | abstract counterpart | proofs |
|---|---|---|---|
| `SaoriMessage` | parsing and writing of messages, line by line | `RoundTrip` relates the two | `SaoriMessageProofs` |
| `CSaoriBase` | `DllMain`, the exports, dispatch, `exec_before`, `exec_after` | `SaoriContract` | `CSaoriBaseProofs` |
| `SharedValue` | the store, its file, its events | `SharedStore` | `SharedValueProofs` |
| `SharedValueTimer` (extends `SharedValue`) | the autosave against the clock | `SharedValue` | `SharedValueProofs` |
| `BouyomiChan` | the queue and its thread | | `BouyomiChanProofs` |
| `PluginSstp` | `ghost_map`, its lock, `send_sstp` | | |
| `WiimoteGesture` (extends `PluginSstp`) | the plugin's thread from start to end | | `WiimoteGestureProofs` |
| `ThreadCall` | `CSThreadCall`, Windows' events and thread messages | | |
| `TsvnExec` (extends `ThreadCall`) | info, notify, the TortoiseProc thread, unload | | `TsvnExecProofs` |
| `SensorApi` | the two lists, the callbacks, what the ghosts are told | `Told`, which `Settles` says is reached | `SensorApiProofs` |
| `Gainer` | subcommands, the receiver thread, the line, the board | | `GainerProofs` |

`PluginSstp` and `ThreadCall` have variables and operations but no specification of their own: the
component that uses them puts its steps and theirs together. `MC*.tla` give the constants of each
run.

### How state and actions correspond to the code

Variables have the names of the members they stand for. Variables a comment marks *history* are not
in the code: they remember what a property needs, and no guard but a bound reads them. An action is
a handler or, where another thread may come in between, a step of it: from one lock, event, wait or
shared variable to the next. Where a thread is, is a value of `host`, `worker`, `at`, `caller` or
`server`.

- **SaoriMessage.** `src` is a text as a sequence of lines; a line has a kind and what the parser
  makes of it. `dir` is the direction. A request is any sequence of lines. A reply is written first, a
  field with each step (`WriteField`), and then read; to read, each action takes one line. Texts are
  members of a small set: `Flat` is what the loops of `toString` make of a value, `Cut` a text up to its
  first line break, and `Behind` the lines the parser finds behind that break. `toString` flattens
  values only, and only CR LF in them: the loops for a lone CR and a lone LF begin at `npos`, where the
  loop before them ended (`csaori_base.cpp` 183-193), and the result and the headers are written as
  they are (165, 170). So `RoundTrip` does not say that all is read back: a break in a text may end it
  early, and what is behind it may read as further lines. It says what holds all the same.
- **CSaoriBase.** A reply's parts hold the number of the request whose handler filled them, which is
  what lets `AnswerIsOwn` see a string of an earlier request. `Behaviour` is what an implementation's
  `exec` or `exec_insecure` may do, exceptions included, and what the latter returns; it is chosen
  freely. `by` remembers which of them ran, and whether it refused. A request after `unload`, a call
  through NULL in the code, has no action: the baseware sends none.
- **SharedValue.** A line of `values.dat` is its tag and its text after decoding, `Trunc` is what
  `strncpy` leaves of it, `Cut` what a torn file leaves. A save may be complete, fail to open the
  file, or stop at any place, in a crash or not; a load may fail to open the file.
  `SharedStore` speaks of cells (ghost, variable without case) only. The refinement mapping reads a
  cell with the code's own `FindGhost` and `Get`.
- **SharedValueTimer.** Each step of SharedValue, with what `m_last_time` and the clock do in it: a
  save in `OnSecondChange` is due or not. `now` passes, `clock` is `time(NULL)` and may be set. `dirty`
  and `since` remember the ghosts' writes; what is lost in a crash (`Unsaved`) is told from the areas and
  the file.
- **BouyomiChan.** A piece is its number. The worker holds `thread_lock` while it sends, as in the
  code. Time-outs are choices: a wait with a time-out may end at any time.
- **WiimoteGesture.** Time within `unload` is counted in the seconds `SendMessageTimeout` takes for a
  ghost, since no window answers while the baseware's thread waits. What the device reports is a
  choice of how many messages it causes (0 to 2).
- **ThreadCall, TsvnExec.** A call is a number, and so is the data it is made for. `SetEvent` of a
  manual-reset event lets go at once whoever waits. A thread's queue takes messages from `PeekMessage`
  on. `m_hThread` of the SAORI is `m_hProc`. `crossed` remembers that two threads were in
  `SubWCRev`, or read what it returned, at the same time. `unload` looks at `m_hThread` twice (`Unload`,
  `WaitFor`), and the thread forgets its handle and then its window (`Forget`, `ForgetWindow`). Between
  these two `unload` may find NULL, wait for nobody, and the object be deleted under the second: the
  model has these behaviours, and `ObjectOutlivesProc` speaks of the thread up to `Forget` only.
- **SensorApi.** A sensor is its number in the order of the map, an `ISensor` the sensor and how often
  it was connected. A `CSensorAPIData` is its place in `data`, which has all there have been; `freed`
  are those deleted. The Sensor API is external: it calls a sink that was set, in any order, later.
  `GetState` on an `ISensor` that is gone leaves the variable unset, so the state is any. Steps of
  `OnSecondChange` are the unlocked test of the flag and the part under the lock.
- **Gainer.** `script` is what `exec` has still to do: the commands of the subcommand in order, `Qn`
  for a reboot that is not waited for. A command is the letter it begins with, a reply that letter, a
  reply's `*` the end of a message. `Script` reads the configuration at the call: nothing but
  the script itself changes it until the call ends. `h` stands for `h`, `l` and `G`, `D` for `D`, `H`
  and `L`, `P` for `P` and `p`; `s` is the single analog output, whose letter `a` is the matrix's too.
  `Recv` takes some whole messages, and may throw the head of the next away. The board is external,
  by `protocol.xls`. `unload` is `disconnect` for each port.

## 3. Runs

| run | asks | bounds and why they are enough |
|---|---|---|
| `SaoriMessage` | Is a field ever misplaced, a repeated header counted wrongly, what does a line break cost a reply? | 3 lines, indices up to 2, 2 values: a gap, a repetition and an index out of order fit; texts with CR LF, with a lone LF, and with one before what reads as a value or as a header |
| `CSaoriBase` | Do load and unload pair, does a reply hold only its own, is the contract kept? | 2 objects, 3 requests; the call id wraps after 2 |
| `CSaoriBaseNotify` (violation) | Are result and values of a NOTIFY empty when `exec` has left the code at 500, as `readme.txt` 227-231 says? | 1 request |
| `SharedValue` | Does the plugin implement `SharedStore`? | 2 writes of up to 2 variables, 1 failure; a ghost and a variable in two spellings, a value too long, the empty name, names and values cut short |
| `SharedValueGhostList` (violation) | Does every listed ghost store a value, as its `readme.txt` 65 says? | 1 write |
| `SharedValueTimer` | How old can a change be that is in memory and not in the file? | 2 saves and more events, 2 writes of a variable, clock set back and forth, 1 failed or torn save |
| `BouyomiChan` | Are pieces lost, reordered or late, do talk and unload return? | 2 objects, 3 pieces each: a script comes while the one before is sent |
| `WiimoteGesture` | One thread? A guarded list? Who is killed? | 3 ghosts, the fewest for which 2 rounds exceed 5 s; 2 threads, 2 objects |
| `TsvnExec` | Do calls return done, does data live, does unload leave a thread? | 2 loads, 2 TortoiseProc threads, 2 call threads, 5 questions: two threads in one object, or one in each, and one question of the baseware |
| `SensorApi` | Is an entry lost or deleted twice, a denied sensor told of, a change never told? | 2 sensors, 2 reports, 2 connections of each, 3 entries, 3 things the sensors do: a sensor that leaves and comes back denied, and another that reports, fit |
| `Gainer` | Whose reply does a command get, is the configuration the board's, does `exec` return? | 4 calls of any subcommand, the connection among them; configurations 1 and 7, a matrix of 1 row with 2 patterns, 2 messages each way on the line, 1 message cut or lost |
| `GainerScanLine` (violation) | Does a row show what `scanLine` was given, as its `readme.txt` 254 says? | 6 calls: connect, configure, scan, reboot, configure, scan |

The type invariants of `CSaoriBase`, `SharedValueTimer` and `WiimoteGesture` are proved and no run
checks them.

`CHECK_DEADLOCK FALSE` is given where a run ends because its bound on loads or messages is used up.
`MCSharedValueTimer` keeps the clock near the time by a constraint; `MCTsvnExec` stops after two
threads have crossed, from where on only `ObjectOutlivesProc` promises anything. `MCSharedValue` and
`MCSharedValueTimer` count states that differ in the last answer alone as one: no guard and no invariant reads it.

### The three disagreements

- `setResultEmpty` clears only a reply whose code is OK (`csaori_base.cpp` 135). The readme says that
  result and values are cleared, and that the code is 204 if nothing was set. A reply begins with the
  code 500 (330-333), so an `exec` that sets no code and fills the result answers a NOTIFY with code 500
  and that result.
- `OnSharedValueGhostList` names ghosts that have an area; the area is made when a ghost writes,
  even an empty value (`shared_value.cpp` 438-442), and stays when its last value is erased.
- `ScanLine` sends nothing when the pattern is the one it sent last (`gainercxx.cpp` 529-532). `Reboot`
  does not clear what was sent last, and the board comes up dark: after `reboot` and `config` 7 the row
  stays dark and `scanLine` answers OK.

### Fairness

- BouyomiChan: both threads run (`WF`). Nobody has to load, talk or unload. Every wait of the worker
  for the network ends by the socket's own time-outs.
- WiimoteGesture: threads run (`WF`). The event about a ghost needs a lock that the worker takes again
  and again, hence `SF`: the worker sleeps 20 ms in every round without the lock, and Windows'
  critical sections are not so unfair as to pass over a waiting thread for ever.
- TsvnExec: threads run (`WF`). That a dialog appears, or that TortoiseProc ends, is not assumed:
  `UnloadReturns` says that unload returns unless a thread is waiting for its dialog. That
  `_beginthread` works is not assumed either: `CallReturns` excepts it.
- SensorApi: the Sensor API delivers its calls, the baseware goes on in `load` and `unload` and raises
  `OnSecondChange` (`WF`). `Settles` speaks of what comes after the sensors' last deed: nobody has to
  be quiet, and `unload` need not come.
- Gainer: both threads run and the board obeys (`WF`). The board never fills the line with reports
  alone, which is a matter of the bound on it. `ExecReturns` excepts a lost message, and a single
  analog output in the matrix configuration, whose reply `processEvent` does not queue.
- The others have no liveness properties.

## 4. Proofs

Every theorem holds for all values of the constants under the named assumptions of the modules.

- **SaoriMessageProofs.** `FieldsInPlace` is inductive with the types and the fact that `argc` is the
  length of the vector: a line stored beyond the end fills the gap with empty texts, a line within
  replaces one. The steps are split by the kind of the line. `ParserInv` adds what has been read so far
  of the header lines: for each key the last line that had it, for a reply the first line and the
  scalar. For a reply it also says where the line of each field already written is (`WireOf`), which
  `WriteField` keeps by adding lines at the end. `RoundTrip` follows at the end of the text: every field
  has its line, so nothing is lost (`NothingLost`); if what is behind the breaks is noise, the lines with
  a number, a key or the scalar are just those of the fields (`ReplyLines`), and each is what the parser
  has in the place it belongs (`ReadBack`).
- **CSaoriBaseProofs.** The invariant is the checked ones, with the fact that only objects that were
  born are deleted. `Implementation` proves `KeepsContract`: each export maps to the action of
  `SaoriContract` it implements; which handler runs (`HandlerOfRequest`) and the code of every reply
  (`ReplyOfRequest`) are computed case by case.
- **SharedValueProofs.** `StoreIsImplemented`: the plugin implements `SharedStore`, for any names,
  values and batches. A batch, a load and the flattening of a file are recursions over a sequence. The
  library's induction theorems take an operator, so the module proves an induction over sets of
  numbers from the minimum of a well-founded set (`NatSetInduction`, `RecursionExists`), and with it what
  each recursion does step by step (`BatchResult`, `ReadSteps`, `FlattenShape`). `Find` and `Add` on
  elements of which no two have one name are a cell written (`AddResult`); the lines of a save are
  known by their places (`SaveLinesShape`); a load that has read so many of them has the values of just
  those (`Reached`), so a whole file brings every value (`LoadWhole`) and a torn one some, at most one of
  them cut short (`LoadTorn`). The invariant (`Inv`) says that the file is the lines of what was saved last,
  or a torn part of them, and that areas store for the ghosts and variables of the constants only. The
  latter needs `NameAssumption`: a name that is cut, by `strncpy` or in a torn file, is no other ghost's.
  The lemma `TimedIsPlugin` carries all of it over to the plugin by the clock. `BoundedLoss` needs two things more:
  `InTime`, that the baseware was heard of less than an interval ago, what the timer reads
  (`clock - m_last_time`) falls behind the time since the last save by no more than the clock was set
  back, and a clean store that becomes dirty was saved before; and `CleanIsSaved`, that what nobody has
  changed since is on the disk.
- **BouyomiChanProofs.** The three properties are inductive together with the type invariant, which
  also says that whoever takes a piece has the lock.
- **WiimoteGestureProofs.** `OneThread` is inductive with: when the running flag is off, the thread
  that `thread_handle` names is at its end (`AtItsEnd`), and a new one starts only when there is none
  (`Reaping`). `KilledOnlyAmongMany` counts down: a thread has at most two rounds before it when
  unload begins (`Asked`, lemma `TwoRounds`), and every second unload waits is a window less
  (`Patience`). That the list stays the same meanwhile is `ListIsGuarded`.
- **TsvnExecProofs.** `ObjectOutlivesProc` is inductive with: a thread that has not yet set
  `m_hThread` to NULL is the one in it, the one about to be put there, or the one unload waits for.
  `CallIsDone`, `DataLives` and `NoServerLeft` hold until two threads ask at once. Their invariant
  (`Single`) says where the thread of CSThreadCall is for every place its one caller may be at (`Line`, and
  `Leaving` for `Exit`): what is in its queue, whether the event is set, and which of its two meanings it
  then has. `ObjectOutlivesProc` comes into it again: nobody asks while the baseware unloads, since
  unload has waited for who might. Each step of CSThreadCall is a lemma about `Line` alone, and each step
  of the SAORI one about `Single`.
- **SensorApiProofs.** `DataHeldOnce` and `DeniedIsSilent`, which both except a sensor that was
  added to one list while the other had it, are inductive together with
  `BothOnlyReentered`: a sensor is in both lists only if it was added to one while the other had it.
  Without it `StateChangeSensor` might write over an entry. Each callback has a lemma for the types and
  one for the lists.
- **GainerProofs.** `ReplyIsOwn` and `BoardAgrees` rest on one invariant in two parts. `Control` holds
  always: it says what may be left of the script (`Opening`, `Work`, `Leaving`), and whether there is a
  receiver thread while it is. In `Work` each command is one of the configuration there will be
  when it is sent, which `ScriptWorks` shows of every subcommand. `CalmInv` holds while nothing is lost and
  nothing strays: the board has every command on its way when it comes to it (`Legal`), and whatever is
  under way is just one exchange (`Pipeline`). Either nobody waits, and no reply under way will be
  queued (`Idle`); or the command waited for is the last on its way to the board and everything before
  it is silent (`Asked`); or the board has carried it out, and its reply is on the line, in the batch that was
  read, or in the queue, with no other that will be queued (`Told`, `Answering`). It needs both: a
  command of a wrong configuration would be answered with `!`, and a stray reply would be taken for that to
  `?`. What `command_recv` does to a batch, the reports taken out and put last, keeps what will be queued
  and its order (`WithoutKeeps`, `BatchLetters`). In the end `TypeOK` needs `Control` too: the
  board is never sent `Qn`, and the thread is there whenever no script runs.

### What is only model-checked

Every invariant and action property that a passing run checks is proved, and so are both
refinements. What is left is liveness (`TalkReturns`, `EveryPieceTaken`, `GhostEventReturns`,
`CallReturns`, `UnloadReturns`, `Settles`, `ExecReturns`), since TLAPS has no proof rules for fairness and
`ENABLED`.

## 5. What is not modelled

Within the modelled components: code pages, formatting and the menus; the arithmetic of gestures; the
building of TortoiseProc's command line; the number of sockets, of allocated bytes and of COM
references; what happens in tsvnexec after two threads have asked at once; a request after `unload`; the
texts for the kinds of sensors; what a Gainer board measures, and failures to open its port. Hazards
without a property are in `PROJECT.json`, each with the reason.

Components without a module:

- `OsuwariDll`: its thread and `exec` share globals without a lock, and `unload` kills the thread. Which
  halves of a value are seen is the compiler's matter, and its readme promises nothing about it.
- `iptools`: `unload` waits for its two threads without limit, the way `BouyomiChan` and `TsvnExec`
  model; its caches live for one call id, which `CallIdsDiffer` and its proof cover from the other side.
- `chttpc`, `proxy_ex`: a thread or a child process for a request, with no text that says what holds when
  a step fails.
- `discord`, `CrystalDiskInfoEvent`: one value compared with the one before, on one thread.
- The rest are one call of Windows or of a library each, or arithmetic (`bignum`, `timebkn`, `totp_saori`).

Most lines of the repository are other projects' code (SQLite twice, TinyXPath, htmlcxx, discord-rpc,
MeCab's and the WDK's headers): about 95 lines in a hundred. They are used as they are and are not
modelled. Of the framework and the modelled components the map covers about half of the lines.

## 6. Plan

Done, in this order: life cycle and messages, since everything goes through them; shared_value, which
keeps the users' data; the plugins with threads; CSThreadCall with tsvnexec; sensorapi; gainer.

Next, if the project grows: `Chttpc`, download threads against `unload` and the shared buffer of
`CInetHelper`; `ProxyEx`, pipes and handles when one of several steps fails; `BigNum`, decimal arithmetic
against the integers.
