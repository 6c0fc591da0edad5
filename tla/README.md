# A formal model of Switch Engine

Switch Engine searches the memory of a Nintendo Switch game for a value and
writes to the addresses found. It is two programs: a Tesla **overlay** that the
user operates, and a **sysmod** that has the rights to debug other processes and
offers them as the IPC service `seng`. They share two files on the SD card. This
directory models both, the kernel and the card as they use them, checks the model
with TLC on small instances and proves its safety properties and refinements with TLAPS
for all.

Line numbers below are those of the repository's sources.

## 1. The system

| part | state | operations | talks to |
|---|---|---|---|
| debug layer, `sysmod/source/Debugger.cpp` | one debug handle `g_debug`, its `g_pid`; which optional services there are | attach, detach, isAttached, query/read/writeMemory, foreground pid, process list | kernel (debug handles; a debugged process is frozen) |
| IPC server, `sysmod/source/IpcServer.cpp` | session table, reply target, copy of the message, and the thread's TLS buffer that requests, replies and logs share | accept, close, handleSession, runForever | clients by messages, debug layer and scan runner by calls |
| commands, `include/seng_ipc.hpp` | none | 12 commands | |
| scan runner, `sysmod/source/ScanRunner.cpp` | position in the game's memory, hit buffer, `results.tmp` | runFirstScanU32 | debug layer, card |
| results store, `source/scanner/ResultsStore.cpp` | `results.bin`, `results.tmp` | filterU32, count, readPage, reset | card |
| scan actions, `source/scanner/MemoryScanner.cpp` | target pid | firstScanU32, nextScanU32 | service, results store |
| screens, `source/gui/` | target, status line, page shown | the user's actions | scan actions, results store, service (poke) |
| IPC client, `source/scanner/SengClient.cpp` | one session `g_srv`, `g_initialized` | initialize, initializeTimed, finalize, one function a command | server |
| start-up, `source/Overlay.cpp`, `source/main.cpp`, `sysmod/source/main.cpp` | whether the service was found | overlay: try for two seconds, main or "missing" screen; sysmod: initialise, register, serve, die | each other through the service manager |
| process detection and list, `source/scanner/Scanner.cpp`, `ProcessUtils.cpp`, `source/gui/ProcessListGui.cpp` | target's pid, title, label | detect the foreground process, pick from the list | service |
| numeric pad, `source/gui/NumericInputGui.cpp` | value, maximum, display | ten digits, backspace, clear, confirm, cancel | main screen, poke |
| language, `source/util/Language.cpp` | `g_current`, `config.ini` | load, select and save | card |
| logs | none that matters | | card; a log overwrites TLS |

What is hard in it:

* **Life and death.** The sysmod starts late, fails to start, dies with its
  sessions and the debug handle; overlays are killed and leave sessions behind that
  fill the port; a flag says "initialised" of a session that is dead.
* **Interleaving.** One handle and one message buffer serve all sessions. A poke
  and a next scan are several calls, and the overlay, its successor and the game
  itself run between them. A first scan outlives the overlay that asked for it; its
  successor waits for it, because opening a session needs an answer of the one thread.
* **Failure.** Overlays are killed, consoles are switched off, games exit in
  mid-scan, the card is full, `remove` and `rename` fail, replies cannot be
  delivered. Most results of file operations are ignored by the code.
* **Stale state.** TLS is overwritten by any log. A session's index moves when
  another session closes. Results outlive the target they were found in.
  A list is built from three reads of a file. A process exits between the answer that names it and the question about its title.
* **Boundaries.** The top of the address space, the ends of chunks and regions,
  the flush of a full buffer, the table's and the port's limits, pages and batches,
  a header that counts too much, more processes than the list holds, the widths of
  the integers behind the numeric pad.

What makes each part correct: the layer never loses a handle whose process is
still held; the server hands each client the answer to its own call, executes a
call at most once, loses no session and keeps no dead one; a scan records exactly
the matching words; `results.bin` is never half written, lacks at most what a full card
refused, and what it says was true of a frozen game; a poke changes one word of the right game; a frozen game is let go;
the pages shown partition the file; what the main screen says of its target is
true of it; a number typed is the number used; the overlay has one session
or none, and knows which; the language chosen is the language kept.

## 2. The modules

```
            Debugger
           /        \
SengCommands         SwitchEngine ---- MCSwitchEngine
   |      \              |
SengService \        SwitchEngineProofs
   :         \
   : . . . . IpcServer ---- MCIpcServer      ScanRunner
  implements     |                               |
            IpcServerProofs                ScanRunnerProofs

      ResultsFile                     DigitPad (abstract)     Language
      /         \                        :  implemented by       |
ResultsFilter    ResultsList         NumericInput             Overlay
      |            |       \             |                       |
ResultsFilter-  ResultsList-  MC-    NumericInputProofs    OverlayProofs
   Proofs          Proofs   ResultsList

                 Detection ---- MCDetection
                     |
              DetectionProofs

FullCard, what arrives on a card without room, is used by ScanRunner and ResultsFilter
```

* **Debugger** — the debug layer as action operators over `g_debug`, `g_pid` and
  the kernel's `debugged` and `alive`. `attach` closes the handle held before
  trying the new one (`Debugger.cpp:62-69`), so a refusal leaves it detached.
  Other modules build their steps from these. The mutex is not modelled: the
  sysmod has one thread.
* **SengCommands** — `Execute(m, r)`: what handling message `m` does and the
  answer `r`, one operator for each kind of branch of `handleSession`.
* **SengService** — the abstract service: connections, calls that are made,
  executed in one step, answered. It has no table, buffer or reply target.
* **IpcServer** — `runForever` step by step against clients that connect, send
  and hang up at any moment. The kernel side (`session`, `port`, `stage`, `req`)
  is modelled from the calls the loop makes: `svcReplyAndReceive` first replies,
  fails with index -1 if that client has gone, then waits; a handle signals with a
  request or because its client has left. TLS (`tls`) becomes `None` at every log.
* **SwitchEngine** — the composition: the overlay's screens and callbacks, the
  scan in the sysmod, the files, the games, and faults (overlay death, power
  cycle, exiting games, failing file operations, a card that takes no entries or no
  header: `Written`, `HeaderWritten`). A call to the service is one
  step, taken when the server is free: this is what IpcServer's refinement of
  SengService justifies. The first scan is split, because its file operations and
  its detach are visible to others and go on when the overlay dies.
  The sysmod may die too: the kernel then closes its handle and its sessions, the
  call in progress fails and so does every later call of that overlay, which goes
  through the rest of its callback on failures. A new overlay's `Open` waits for the server:
  libnx asks a session's pointer buffer size when it opens it (`IpcServer.cpp:165-184`).
* **ScanRunner** — the walk through memory and the hit buffer, word by word, over
  every small memory. The game is frozen during the walk, so nothing interleaves. Every
  buffer it hands to `fwrite` may lose entries.
* **FullCard** — what arrives of a buffer on a card that may be full: any of its
  entries, in their order; and that a file may be without a header.
* **ResultsFile** — what `ResultsStore` reads of a file: `Count`, `Held`, `ReadPage`. A
  file is a header count and a sequence of entries that may be shorter, or longer,
  than the count.
* **ResultsFilter** — `filterU32` batch by batch and entry by entry: the step
  that SwitchEngine takes at once (`NsFilter`, `NsClose`). Addresses are small
  numbers in file order, `holds` the ones whose word has the value sought. Its writes may
  lose entries too, and either header.
* **ResultsList** — the results screen. Each of its reads of the file is a step, and the
  file is replaced once, at any of them. The program does less: every scan has ended
  when the screen is opened. But the code is written for a file that changes
  (`update` counts again in every frame), and the properties say what that gives.
  `TurnPage` is the listener of a button, with the number of pages captured when it was made.
* **DigitPad**, **NumericInput** — the pad as the user sees it (a line of digits),
  and as it is written (a `u64`, a maximum, a cast to `u32` in the caller). The
  refinement maps the line to the digits on display.
* **Language**, **Overlay** — who is there to talk to. Overlay composes the life of
  overlays (start, attempts, session, exit, death) with that of the sysmod and the
  sessions left on the port; Language gives it the actions on `config.ini`: load,
  select, the two halves of a save, a save cut short. `kept` and `pending` are
  ghosts: what the last complete and the last begun save were of.
* **Detection** — `listProcesses`, `getForegroundPid` and the title lookup with what the
  overlay makes of them, one step for each thing the kernel or a service is
  asked, processes starting and exiting in between. The kernel lists processes in an
  order, and when there are too many a choice, that the model leaves open.
* **MC…** modules hold only values for constants.
* **…Proofs** — theorems; IpcServerProofs and NumericInputProofs also prove the two
  refinements.

Each module that models code also holds a few *mutants* (operators named after the bug they
make, each before the operator it would replace). They appear in no
specification; each one, put in place of the original, makes TLC report the
property that PROJECT.json pairs it with. This is how the properties are known to
depend on the code.

How state maps: variables have the code's names where it has one. `pc`/`idx` are
the loop's place and `session_idx`. `gui` is the screen, or the place in a callback,
`job` the callback's locals, `scan`/`scanJob` the place in `runFirstScanU32` and
its locals. A results file is its header count and its set of entries, plus two
ghosts that only properties read: `of`, the process the entries came from, which the
real file does not record, and `cut`, that an `fwrite` to it found the card full. In
ScanRunner and ResultsFilter the ghost `lost` is the set of entries that the card has refused.
A file whose header did not arrive (`NoHeader`) cannot be read: `readHeader` fails, and
`count` says 0 of it as of no file (`ResultsStore.cpp:176-183`).

## 3. What TLC checks

| run | instance | what it shows |
|---|---|---|
| `server_safety` | 3 sessions, table and port of 2, 2 games, a message for every branch of `handleSession` and a Control message with the id of attach | `TypeOK`; `OneDebugged`: handle, pid and kernel agree, no handle is leaked; `TableMatchesKernel`; `NeverRejected`: the port's limit makes the "REJECTED" branch unreachable; `HandlingItsRequest`, `ReplyReady`: what is parsed is what the client sent, what leaves is its answer; `OnlyAskedFor` |
| `server_live` | the same with 1 game and 3 messages, fair | `ImplementsService`, `CallsSettle`, `LeaversReaped` |
| `system` | pid 1 (which a scan refuses) and a game, 1 word, 2 values; overlay, sysmod and game die, power fails, card fills, file operations fail; fair | `ResultsWhole`, `ReplacementReady`, `FirstScanReported`: results lack at most what a full card refused; `CommitIsTrue`, `PokeLands`, `LetGo` |
| `scan_walk` | 24 bytes, 3 pages, chunks of 2 pages, buffer of 3, any entry or header refused by the card | `FoundSoFar`, `EachHitOnce`, `FileWhole`, `Terminates` |
| `results_filter` | 5 addresses, batches of 2, old header up to 2 too high or 0, game may be killed, any entry or header refused by the card | `KeptSoFar`, `HeaderRepaired`, `Terminates` |
| `results_pages` | files of 0 to 7 entries of two different scans, one cut off by a full card, one whose header still says 0, pages of 2 | `PagesPartition`, `RowsOnAPage`, `CatchesUp` |
| `overlay_life` | 3 attempts, port of 3, every `config.ini` of up to 2 lines | `OneSession`, `StartUpEnds`, `ChoiceKept` |
| `numeric_pad` | u32 up to 31, u64 up to 255, maxima 15, 31, 99 and 255 | `CastExact`, `IsADigitPad` |
| `detection` | 5 pids, 0 and 1 among them, list of 3 | `ListFaithful`, `LabelNamesTarget`, `ForegroundFound`, `AskEnds` |
| `system_crash`, `system_status`, `system_retarget` | as small as shows it | findings 1 to 3 of section 5 |

`server_safety`, `system`, `scan_walk` and `numeric_pad` also check their module's
`TypeOK`.

Bounds. `closeSession` moves the sessions behind the closed one down, or has none to
move: a table of two has both cases, and the theorems of section 4 hold for every size. One
more session than fits makes the port's limit bite; sessions are interchangeable,
so symmetry is used where only safety is checked. In `system` the second process
is the one whose handle or memory could be mistaken for the game's, two values are
needed for a value to change, and one word suffices for a file that holds less than
it counts; files with several entries are the subject of `results_filter` and
`results_pages`. `OverlayMayDie`, `SysmodMayDie` and `CardMayFill` switch a fault
off where a violation run should show that it is not needed. In `scan_walk` every
choice of region boundaries, scannable regions and matching words is an initial
state; a region can be smaller than, equal to and larger than a chunk (the last
chunk then partial), any of six words may match, so that the buffer of three fills once or twice
and ends empty or partly full; the last region ends at the top, where addresses wrap. Values
of `kPage`, `kScanBuf` keep what the code relies on: chunk a multiple of a page,
page a multiple of a word. Files of five entries in batches of two have full batches
and a partial last one, and an output buffer that fills at a match and between
matches; seven entries in pages of two give a first, middle, full last and partial
last page, and every change between two of them. The maxima of the pad lie below, at and
above the narrow width and at the top of the wide one, where ten times a value
wraps. Of `initializeTimed`'s forty slices three are kept: a first, a middle, a last.
`MaxMissing` bounds by how much a header counts too many.

A full card. In `system` it is a switch; in `scan_walk` and `results_filter` it is always
possible, and every write may lose any part of what it was given, or nothing. The
properties of these runs therefore come in one form for both cases: the count is of entries held
and entries lost, so that it is the number of entries when none was lost.

Fairness. `IpcServer` assumes weak fairness of the server's thread, which never
waits for anything but `svcReplyAndReceive`, and strong fairness of accepting a
session, so that the kernel does not refuse one for ever. Nothing is assumed of
clients. There is no fairness between sessions because the kernel reports the lowest
signalled index: hence `CallsSettle` and `LeaversReaped` hold *unless clients keep
calling or connecting for ever* (`NeverQuiet`). `SwitchEngine` assumes weak
fairness of the sysmod's scan and of a callback once begun; the user, the games and the
faults need never act, and the power may be cut at any time. `ScanRunner` and
`ResultsFilter` are loops of one thread, `Detection` one callback with calls that
return: weak fairness of their steps. `ResultsList` assumes it of the screen's
own steps, because libtesla calls `update` sixty times a second, and not of the
user or the scan. `Overlay` assumes it of the attempts to connect, a loop with sleeps
of 50 ms, and not of any start, death or choice.

`CHECK_DEADLOCK FALSE` is said for `ScanRunner` and `ResultsFilter`, functions that
return, and for `ResultsList`, a screen that may show what it has for ever.

## 4. What is proved

TLAPS proves every invariant and action property that the passing runs check, and both
refinements, for all values of the constants that the named assumptions allow:

| module | theorems (property of a run in brackets) |
|---|---|
| `IpcServerProofs` | `TypeCorrect` (`TypeOK`), `TableCorrect` (`TableMatchesKernel`), `RequestIntegrity` (`HandlingItsRequest`), `ReplyReadyAlways` (`ReplyReady`), `OneDebuggedAlways` (`OneDebugged`), `NeverRejectedAlways` (`NeverRejected`), `OnlyAskedForAlways` (`OnlyAskedFor`), `Implements` (`ImplementsService`) |
| `SwitchEngineProofs` | `Invariant`, `SystemTypeCorrect` (`TypeOK`), `ResultsWholeAlways` (`ResultsWhole`), `FirstScanReportedTrue` (`FirstScanReported`), `ReplacementReadyAlways` (`ReplacementReady`), `CommitIsTrueAlways` (`CommitIsTrue`), `PokeLandsAlways` (`PokeLands`) |
| `ScanRunnerProofs` | `Invariant`, `WalkTypeCorrect` (`TypeOK`), `FoundSoFarAlways` (`FoundSoFar`), `EachHitOnceAlways` (`EachHitOnce`), `FileWholeAlways` (`FileWhole`) |
| `ResultsFilterProofs` | `Invariant`, `FilterTypeCorrect`, `KeptSoFarAlways` (`KeptSoFar`), `HeaderRepairedAlways` (`HeaderRepaired`) |
| `ResultsListProofs` | `Invariant`, `ListTypeCorrect`, `RowsOnAPageAlways` (`RowsOnAPage`), `PagesPartitionAlways` (`PagesPartition`) |
| `DetectionProofs` | `Invariant`, `DetectionTypeCorrect`, `ListFaithfulAlways` (`ListFaithful`), `LabelNamesTargetAlways` (`LabelNamesTarget`), `ForegroundFoundAlways` (`ForegroundFound`) |
| `NumericInputProofs` | `PadTypeCorrect` (`TypeOK`), `CastExactAlways` (`CastExact`), `IsADigitPadAlways` (`IsADigitPad`) |
| `OverlayProofs` | `OneSessionAlways` (`OneSession`), `ChoiceKeptAlways` (`ChoiceKept`) |

Assumptions on the constants, none of which the code or the machine breaks:

* `PidAssumption`, `MessageAssumption`: process ids are not 0 and are not the invalid
  handle; messages are of the kinds `seng_ipc.hpp` has.
* `ServerAssumption`: the port's limit is at most the table's size. The code makes them
  equal (`IpcServer.hpp:30-32`).
* `CardAssumption`: addresses are finitely many. `SystemAssumption`: the switches for
  faults are Booleans, so the theorems hold with every fault on.
* `ScanAssumption`: regions and the scan buffer are made of whole pages, a page of whole
  words, as the kernel maps memory and `s_scanBuf` is declared.
* `FilterAssumption`, `ListAssumption`: addresses are numbers, finitely many; batches
  and pages are not empty; a file is a count and a sequence of entries, of which neither need be
  right about the other.
* `DetectionAssumption`: pids 0 and 1 are the kernel's; a title is a number, 0 when there
  is none.
* `WidthAssumption`: `u32` holds a digit and is no wider than `u64`.
* `LanguageAssumption`, `OverlayAssumption`: bounds are positive.

### The invariants

Each of the modules has one inductive invariant, `IInv`; `OverlayProofs` has one for the
sessions and one for the configuration, and in `NumericInputProofs` it is `TypeOK` with
`Shown`. TLC has checked each on the instance of its run.

**The server.** The type, the table's correspondence with the kernel, the request in
hand, the reply that is ready, the debug layer's agreement, and two facts about the port
that none of the properties state: it holds no session twice and only sessions of
which the server's end exists (`PortOK`), and no more sessions exist than the port
allows (`PortLimit`). `TableMatchesKernel` is not inductive without `PortOK`: an
accept could put into the table a handle it already holds. `NeverRejected` needs
`PortLimit` and a count: the table's handles are distinct existing sessions, those on
the port are further ones, so a table as large as the port's limit has room for each.
`RequestIntegrity` and `ReplyReadyAlways` together say that a call's answer is the answer
to it.

The refinement of SengService adds `QueuedFromNormal` (a queued request's client is
there). The mapping shows a call as "served" exactly while its answer is in TLS:
`Dispatch` is the service's `Serve`, the sending or the loss of the reply its `Finish`,
closing a session its `Reap`; accepting, receiving and copying are stutters.

**The whole system.** None of its promises is inductive alone. `Finished` says what a
file is when it has been closed: it counts what it holds (`Whole`), or a full card has made it
`Short`, and then it counts more, or nothing, or has no header. That a commit is finished
and true (`ResultsWhole`, `CommitIsTrue`) rests on what `results.tmp` is at each step
of a scan (`ScanFile`) and of a filter (`FilterFile`); that nobody else writes it or the
game's memory meanwhile rests on who may run (`Coupling`: the handle is that of the
running scan or of the callback, never both, because the server is one thread and an
overlay waits for it, the one that called as well as one that starts anew); that the report and the poke are for the right process rests on
`Targets`: the screen does nothing else while a callback runs. `FilterFile` claims the
truth of the entries only while the sysmod lives, which is why `CommitIsTrue` does. An
overlay that dies in mid-scan leaves the scan's part of `Coupling` intact, and that
is why what that scan commits is still finished and true. `WhoWrites` lists, for each part of the state, the
steps that can change it, so that each conjunct is proved against those only.

**The walk.** `FoundSoFar` needs the position (`Position`): the cursor is the end of the region
less what is left of it, except that it wraps to 0 when nothing is left of the last region.
With it every step of a word, a chunk, a skipped chunk or a region moves the set "below the
cursor" by exactly what was compared or skipped (`Behind`). What was found is the entries held,
those buffered and those lost: a write moves entries between the three and keeps the order of
those that stay (`Flushes`), so that the count is always of all three.

**The filter.** The batch is a stretch of the old file (`Batch`); what is kept is recorded
once and counted, in the file, the buffer or what the card refused (`Recorded`); it comes from
tested entries and, while the game lives, is all of those that match (`AsCompared`). The
addresses of a file ascend (`EachHitOnce` of ScanRunner), so a set and its order determine the
sequence: `KeptSoFar` gives the set, `HeaderRepaired` the order.

**The results screen.** What a count still says after the file was replaced:
`Undisturbed`, until the replacement begins nothing has changed; `Countable`, the page about
to be read exists by the count just made, or the file has been replaced by its last
content. `RowsOnAPage` alone does not survive the page buttons, which go by an older count.

**Detection.** A pid is at any time still to be looked up or listed, never twice
(`EachOnce`), was there when the kernel was asked (`AllWereThere`), and none is lost
(`NoneMissing`), whatever order and choice the kernel has made.

**The pad.** `DigitFits`: a digit that passes `appendDigit`'s first test
(`NumericInputGui.cpp:96`) does not make the `u64` wrap, so that the second test compares the
number the user means. The refinement of DigitPad adds `Shown`, the display is the numeral
of the value, and three facts about numerals: they name their number (`NumeralNames`), a
digit typed after one gives that of ten times the number and the digit (`TypedNumeral`: no
numeral but `<<0>>` names zero), and the last digit erased leaves that of its tenth
(`ErasedNumeral`).

**The overlay.** `OneSession` is inductive with the types of its variables. `ChoiceKept` is
not: it needs to know what is on the card between two starts (`OnCard`: after a full save
exactly that line, after a cut one nothing, a broken line or that save's) and that the
language being written is the one in memory (`SaveOf`), which a save before the choice
would break.

**Recursion.** `FlattenSeq` in `PagesPartition`, `FoldLeft` in DigitPad's `ValueOf` and
`Numeral` are recursive functions, that is, a `CHOOSE` of a solution. Their proofs show
that a solution exists, by exhibiting one (`LaysOut`) or by looking at a least size without
one (`FoldExists`, `NumeralExists`), and that it has the values claimed, by looking at a
least place where it has not. `LeastNumber`, an instance of well-founded induction
without an operator parameter, is all the induction there is.

### What only TLC shows

Liveness: `CallsSettle`, `LeaversReaped`, `LetGo`, `Terminates` (twice), `CatchesUp`,
`StartUpEnds`, `AskEnds`. Fairness unfolds to ENABLED, about which this prover
cannot reason. The violations of section 5 are TLC's too. `Debugger`'s properties are proved
in the two modules that compose it.

## 5. Where code and documents disagree

1. **A next scan reports the opposite of what happened** (`system_status`).
   `MemoryScanner.cpp:110` assigns `filterU32`'s `bool` to a `Result`; `true` is 1,
   a failure.
2. **A poke or a next scan can leave the game frozen** (`system_crash`). README.md:48-51 says
   the sysmod follows attach, operate, detach in every operation. Pokes and next
   scans are three or more calls of the overlay, and closing a session does not
   detach.
3. **A poke may go to a game its address was not found in** (`system_retarget`).
   `results.bin` has no pid, and a new target keeps it.

Smaller ones, found while modelling and not given runs of their own:

* **A full card**: no result of `fwrite` is looked at, neither of entries (`ScanRunner.cpp:31`,
  `ResultsStore.cpp:119, 128`) nor of either header (`ScanRunner.cpp:47, 70`,
  `ResultsStore.cpp:99, 131`). The file then counts what it does not hold, or counts nothing, or
  cannot be read at all. `resultsEnd` and `filterU32` delete the old `results.bin` for it all the
  same, and the first scan reports success with the number of hits it found. `ResultsWhole`,
  `ReplacementReady` and `FirstScanReported` allow this by the ghost `cut` and for nothing else.
  A later filter writes a true count once the card has room again, of the entries the old header
  counts and the file still holds; while the card is full its own file is as short
  (`HeaderRepaired`). A file whose header cannot be read it refuses.
* **What the list is written for.** `ResultsListGui.cpp:31` clamps the page when the file
  has shrunk under the screen. No scan of this program runs then; if one did, the clamp would not
  be enough: `rebuild` reads the count again (line 56) without it, and the page buttons
  (139-164) go by the number of pages of the last build, so that the list could be empty under
  "page 3/1". `RowsOnAPage` states what would hold: no rows there. And `update` sees only
  counts (line 29): the rows of a file of the same length would stay, which is why `CatchesUp`
  speaks of counts that differ.
* **A session that is dead counts as a connection.** `ProcessUtils.cpp:11` says
  "Garante conexao com o sysmod (lazy init)", but `initialize` returns at once when
  `g_initialized` is set (`SengClient.cpp:42`), and nothing resets it when the sysmod
  dies. In Overlay `Call` is therefore a step that changes nothing, ever: the branch that
  connects is unreachable from the main screen.
* **The default language** is English (`Language.cpp:10`); README.md:161 says "PT-BR
  (padrao)".

## 6. What is not modelled

* Presentation: layout, labels, strings, focus, `classifyTid`.
* Logs, except for their effect on TLS; build files and scripts.
* Payload bytes: a message is its type, command, pid and whether it has a buffer.
  Memory is words that match or do not; `kMaxChunkBytes` does not matter to words.
* The mutex of the debug layer: the sysmod has one thread. The overlay is modelled as one thread too:
  its callbacks and `update` run in libtesla's loop. (The comment at
  `MainGui.hpp:21-23` speaks of drawing in another thread; the strings it protects are
  presentation.)
* Dead code: `ResultsStore::beginWrite`, `pushHit`, `endWrite`,
  `MemoryScanner::readInChunks`, `Debugger::shutdown` and what follows `runForever`.
* Of the sysmod's start only that it fails or not; the heap, the firmware version and
  the crash log's text are left out.
* `SengClient::initialize` inside the scan actions: a no-op once connected, see section 5.
* The card: it refuses whole entries and whole headers; an entry of which a part arrived, and
  entries that take the place of a first header that did not, are not told apart from
  a lost one and from no header. A power cycle keeps what was closed or flushed, its own caching is not
  modelled. `remove`, `rename` and `fopen` for writing may fail at any time for any
  reason, which stands for sharing violations; a file held open by the sysmod
  is never removed by the overlay. In ResultsFile and ResultsList a file whose header cannot be read
  is no file. A `config.ini` that is there can be read.
* In Overlay, that a connection waits for the server while the scan of an overlay that died goes
  on: `connect` is one step, which adds no state, since that scan ends. SwitchEngine has the wait.
* Processes keep their pids over a power cycle, which only makes more behaviours possible.
* `CommitIsTrue` does not speak of a filter whose sysmod has died under it: the
  kernel then lets the game go before the file is committed.

## 7. Plan

Written, in this order: Debugger, SengCommands, IpcServer, SengService and the
refinement, SwitchEngine, ScanRunner and their proofs; then the sysmod's death in
SwitchEngine, ResultsFile, ResultsFilter, ResultsList, DigitPad, NumericInput,
Detection, Language and Overlay; then the proofs of all safety properties and of both
refinements. What is left:

1. ResultsFilter and ScanRunner as refinements of the steps `NsFilter` and `ScanWalk` that
   SwitchEngine takes at once: today they correspond by what is proved of each, the
   contents of the file that the step leaves.
2. Bounds behind liveness that are safety: that each step of ScanRunner and ResultsFilter
   brings the end nearer is an action property that can be proved without ENABLED.
