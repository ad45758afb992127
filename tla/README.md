# A TLA+ model of the RFID bot

The repository is a Go program around a UHF reader (ST-8508, "Reader18"): tags
are read, and every tag whose EPC belongs to an open stock entry draft of an
ERPNext server makes the program submit that draft. It can be driven from
Telegram, from HTTP, from a Unix socket (IPC) and from a terminal UI.

This directory holds TLA+ modules for its concurrent core, TLC configurations
that check them on small instances, and TLAPS proofs of the main results for all
instances. `PROJECT.json` lists components, runs, mutants, the map from
definitions to source lines, findings, hazards and theorems. Run a check with
`tlc -config EPCServiceRace.cfg MCEPCService`, a proof with
`tlapm EPCServiceProofs.tla`.

## 1. Inventory

| Component (source) | State | Operations | What is hard | Correct when |
|---|---|---|---|---|
| Submit service (`internal/gobot/service`) | `recentSeen`, `scanActive`, `queue`, `queued`, `inflight`, statistics | `HandleEPC`, `SetScanActive`, `RefreshCache`, `AddDraftEPCs`, `worker` | three locks' worth of state read and written in separate critical sections by any number of callers and workers; bounded queue; retries | no parallel submit of an EPC, submits only for licensed readings, marks consistent with the queue, no read draft overlooked |
| Cache (`internal/gobot/cache`) | set of EPCs | `Replace`, `Add`, `Remove`, `Has` | replaced by snapshots taken earlier | part of the service |
| ERP client (`internal/gobot/erp`) | none | fetch, submit | lost answers, time-outs | part of the service |
| Reader manager (`internal/gobot/reader`) | `running`, `cancel`, `done`, profile | `Start`, `Stop`, `SetLongRangeMode`, `scanLoop` | concurrent start and stop, deferred clean-up | one loop, no lost cancel, `Stop` returns |
| Front ends (`telegram`, `ipc`, `httpapi`, `main`) | Telegram: chats, test references | scan start, scan stop, `/range20`, ingest, webhooks, `/turbo` | flag and reader changed in two steps by several goroutines; contexts of different lifetimes | an active scan has a reader |
| SDK client and transport (`sdk`, `internal/reader`) | inventory flags, channels, TCP session | start, run, transmit, stop, disconnect | four goroutines end one session in any order; lossy channels | sessions end, the consumer learns of it |
| Test mode (`testmode`, `telegram/bot_testmode.go`) | test in progress, live messages and references | `/test`, file, reads, `/test_stop` | messages sent while the test ends | announced once, removed only after the test |
| Reader18 codec (`internal/protocol/reader18`) | none; its callers keep a buffer | build and parse frames | a stream in pieces with noise and gaps, one-byte lengths | the frames found do not depend on the pieces, none is held back for long |
| Discovery (`internal/discovery`) | two channels, the candidates | probe hosts by a worker pool | cancellation at any time, closing channels | an answer without error is complete, readers come first, nobody is left behind |
| TUI (`internal/tui`) | Bubble Tea model | key and message handlers, asynchronous commands | stale and unnumbered results, overlapping connects | a reading is polled and announced, a live connection is heard, connecting ends |
| TUI to bot (`tui/bot_sync.go`, `ipc`) | queue of EPCs, one goroutine per notice | notices, EPCs, round trips with time-outs | unordered notices, handlers that outlive their client, a full queue | the bot follows the last notice, an EPC goes to it once per reading |
| Side car (`cmd/st8508-tui`) | a process group, the socket's path | probe, start, await, end a bot | rival bots, stale sockets, bots that ignore signals | no bot left behind, the UI never hangs |
| Configuration, regions, views, `scancheck` | none | | | |

Interaction: the front ends and the reader's callback call the service; the
service's workers call the ERP and notify Telegram; the front ends drive the
reader manager, which drives one SDK client per connection, which drives the
transport; the reader's callback also feeds the test mode. The TUI has its own
reader connection and talks to the bot over IPC.

The hazards these interactions expose the code to are listed in `PROJECT.json`,
each at its line with the properties that watch it.

## 2. Modules

`EPCService` — the service with cache, workers and ERP.
Goroutines that call the service are the constant sets `Readers`, `Controllers`,
`Refreshers` and `Webhooks` (one goroutine may be in all of them); each has a place
`pc` between the critical sections of its call. Workers have a place `wpc` between
theirs. A step is one critical section of `Service.mu` or `Store.mu`, one channel
operation, or one answer of the ERP. `recentSeen[e]` is "none", "fresh" or "stale";
`Age` makes a reading stale, and the next garbage collection forgets it. The ERP is
the set `drafts`; a submit is answered (and the draft closed), fails, or is held
back and executed later (`late`). `Restart` loses everything but the ERP.
`collectReplayCandidates` asks the cache EPC by EPC under the service's lock, so
other goroutines may change the cache between two questions; the model asks for all
of them at once. The `race` run has one EPC, where this makes no difference, and no
property relates the answers for two EPCs.
`history` records for every EPC whether it was read and
whether the scan was on at or after that reading.

`SubmitLedger` — what the service promises the ERP: a request is made only for a
licensed EPC, one worker at a time, and drafts disappear only by a request that
was made or by someone else.

`ReaderManager` — `Start`, the three parts of `Stop`, and the loop goroutines with
their deferred calls. Launches are members of `Loops`; a member is used again when
its goroutine is gone and nobody refers to it. `connectAndStart` succeeds or fails
at each of its stages.

`ScanControl` extends `ReaderManager` by its callers: the handlers of Telegram,
IPC, HTTP and AutoScan with the flag of the service. `Wired` says which front ends
were given the scanner (in the ingest backend IPC is not). An HTTP handler's
context dies when it returns. `overlooked` is a history variable: the last `/range20`
found the flag down although a launch was alive, and left it alone.

`InventorySession` — one session of `scanLoop`: its own steps (connect, start,
consume, stop, close), the transport's read loop, the inventory run and the
transmit loop.

`TestMode` — the poller (one update at a time), the reader, and one goroutine per
announced EPC. `lost` is a history variable: messages whose reference a new file
wiped, or for which a Telegram call failed.

`TuiSession` — the update loop of the TUI with its own reader connection. Update
handles one message at a time, so a handler is one step; the commands it returns are
goroutines whose results come back later in any order. They carry no identifiers, so
`cmds` counts them by kind. A command whose only effect is its result (a write, a
failed dial, a wait on a channel) is one step with the handler of that result; a
reconnect is three (close, dial, the handler), because other commands and the read
loop act in between. `waits` and `oldWaits` say on which channels of the present
session, and of sessions gone, some `waitPacketCmd` or `waitReaderErrCmd` waits.
`notice` is the last call made to the bot, not its delivery. Screens are left out:
any key may be pressed whenever its handler would do something.

`Reader18` — the wire format as operators on sequences of bytes: `BuildCommand`,
`VerifyPacket`, the two inventory parsers. The largest byte and the checksum are
parameters; nothing depends on which checksum it is.

`FrameStream` extends it by the buffer between the connection and the frames, which
the TUI and the SDK client treat alike. A piece of the stream (of any size up to
`ReadSize`) is received or, when `readLoop` finds its channel full, lost; `ParseFrames`
is one action for each way its loop body can end. `got`, `pos` and `taken` are
history: all bytes received since the buffer was cleared, how many of them have left
it, and where the frames that were taken begin.

`TagPath` extends it by what the TUI does with a frame: the EPCs in it, those seen in
this reading, the bounded queue of `botSyncClient`, its worker, and the handlers of
the bot, which go on when the worker has given up on them.

`Discovery` — one call of `Scan`: the feeder, the workers, the goroutine that closes
the results, and `Scan` itself, under a context that may end at any time. What a probe
finds is chosen from `Finds`. Hosts are numbers; the code compares their text, another
total order. `HostPlan` adds the list of hosts before the search and the TUI's connect
plan after it.

`SideCar` — `st8508-tui`, the bot it may start (directly or under a shell or `go run`)
and bots started by hand, around one socket path. The path names a bot's socket,
nothing, or the file a dead bot left. Every bot unlinks the path before it listens and
when it stops, whatever it names by then; `main` does not wait for that.

`BotSync` extends it by the notices `scan_start` and `scan_stop`: each has a client
goroutine and, in the bot that owned the path when it dialled, a handler that does not
know whether its client still waits. `apart[n]` records that nothing was under way when
notice `n` was made. What else the handlers do with the reader is `ScanControl`.

Operators whose comment says "Mistake" are plausible wrong versions of the action
that follows; `PROJECT.json` pairs each with the property that rejects it.

## 3. Runs

| Run | Result | What it shows |
|---|---|---|
| `race` | pass | one EPC, two workers, two goroutines making any call: `QueueBookkeeping`, `NoParallelSubmit`, `SubmitsAreLicensed`, `NeverOverlooked` (a step never leaves a read, cached EPC unattended other than by a refused or dropped enqueue or a failed submit), `ImplementsLedger` |
| `overflow` | pass | two EPCs, queue of one: bookkeeping under drops, and `DraftEventuallyClosed` |
| `hybrid` | pass | Telegram and two IPC connections: `ActiveScanHasReader`; `RetuneIsInForce` (after a `/range20` that restarted the reader or found it at rest, every launch has the profile it chose) |
| `auto` | pass | Telegram, HTTP and AutoScan: `OneReaderLoop`, `CancelNeverLost`, `StopReturns` |
| `http` | violation | `POST /scan/start` starts a reader that stops when the handler returns |
| `session` | pass | `NoSilentInventory`, `DoneIsClosedOnce` (the run's channel is closed once, and a `StopInventory` that waits for it is answered), `OnlyAFullChannelLoses` (a tag that was read is reported unless the event channel was full), `SessionEnds` |
| `testmode` | pass | `MessagesAccounted`, `OneMessagePerRead`, `OnlyFinishedTestsAreCleaned` |
| `tui` | pass | `PolledWhileReading`, `ReadingIsAnnounced`, `LiveSessionIsHeard`, `LostReaderIsNoticed` (also when the read error is handled too early), `ConnectEnds` |
| `teststop` | violation | a `/test_stop` between check and reference leaves a live message |
| `tagpath` | pass | `SinglePass`, `FoundInTime`, `EveryTagIsSeen`, `NoneForgotten`, `OncePerReading`, `QueueDrains` |
| `discovery` | pass | `NoErrorMeansComplete`, `NoSendAfterClose`, `ReadersFirst`, `PlanIsComplete`, `ScanEnds` |
| `botsync` | pass | `NoBotLeftBehind`, `AloneMeansReachable`, `LastNoticeHolds`, `TuiMovesOn` |

Bounds. `MaxDrafts` (2) lets a draft come back after it was closed; `MaxLate` (1)
lets one request outlive its worker; `QueueSize` 1 makes the queue overflow with
the second EPC or the second copy; `SubmitRetry` 1 has a first and a last attempt.
Two workers, two callers are what the races between a pair of critical sections
need; a third participant of the same kind only repeats one of the two. Three
`Loops` allow a loop on its way out, a running one and a free one. Channels of two
events fill and drain. Two sessions and two EPCs in the test mode let an old and a
new test overlap and two messages share a reference list. In the TUI two keys are
enough for a stop and a start while the first tick is under way, or for two connect
plans that overlap the one of the start-up: without any key the UI scans, connects
and starts to read. A plan of two endpoints has a first and a last attempt. In the tag path a byte
has four bits, so that 16 bytes are the longest frame; streams of up to 25 bytes hold
noise before, between and inside frames, pieces of one to six bytes cut them at every
place, and `BufferLimit` (21 = `ReadSize` + `MaxByte`, as tight as the proof's
assumption allows) is reached only by a parser that keeps more than it should. A queue
of one overflows with the second EPC; two readings see an EPC twice. The search has
two hosts, a port that is named twice (as options may), and finds of both kinds at the
scores where a banner comes closest to a reader. One rival bot is what the path can
name besides the UI's own; two notices can swap, overlap or follow each other. Symmetry is used only
for interchangeable members and only without liveness. `InventorySession` does not
check deadlock because a session ends, nor `TuiSession`, `TagPath` and `BotSync`
because the UI, the stream and the bots may stop for good; the other runs do.

Fairness. `EPCService`: goroutines inside a call and workers are scheduled (weak
fairness), the refresh ticker keeps firing, and an ERP asked again and again
answers some time (strong fairness of `SubmitAnswered`: without it nothing can be
promised). Nobody is obliged to call, and failing is never obliged. `ReaderManager`:
the parts of `Stop` and the loops proceed, but a loop that is consuming tags happily
need not stop by itself. `InventorySession`: the four goroutines proceed. `TuiSession`: the steps of a
connect (each ends by a result or a time-out) and the ticks of the timer come; keys,
packets, scans and read errors are not promised. `TagPath`: `ingestWorker` proceeds
(its waits have deadlines). `Discovery`: some goroutine that can run does; dials,
probes and banners have time-outs. `BotSync`: only `st8508-tui` itself proceeds before
its screen comes up and after it is left; bots, handlers and users are promised
nothing. `ScanControl` uses the fairness of `ReaderManager`.

## 4. Proofs

All proofs are checked by TLAPS for arbitrary constants under the named
assumptions of the modules (bounds are naturals, the null values are not members).

- `EPCServiceProofs`: `TypeCorrect`; `QueueCorrect`, from the counting invariant
  that a marked EPC is in exactly one of queue, sending caller or receiving worker
  (`MarksAreQueued`, `MarksAreUnique`, `MarksAreHeld`); `OwnerCorrect`, from
  `inflight` being exactly the EPCs of the workers past `lockInflight`;
  `LicenceCorrect`, from every EPC in a replay list, the queue or a worker's hands
  being licensed; `LedgerCorrect`, that every step of the service is a step of
  `SubmitLedger` or leaves its variables alone; `NeverOverlookedCorrect`, action by
  action: a step that ends one reason for which an EPC is attended (a caller on its
  way to the enqueue, a place in the queue, a worker) begins another or is one of the
  exceptions. It needs that no reading is fresh before the start-up
  is over (`SeenOnlyWhileUp`).
- `ScanControlProofs`: `ControlTypeCorrect`; of the manager alone, `TypeCorrect`, `OneLoopCorrect`,
  `CancelCorrect`, which the lemma `ManagerFacts` carries over to its callers;
  `ActiveScanCorrect`, for
  front ends that all have the scanner and no HTTP or AutoScan. Its invariant says
  that a handler inside `Stop` is where its place says (`StopDiscipline`), that a
  cancelled loop is awaited by a handler that will lower the flag or restart
  (`CancelIsAwaited`), and that a raised flag is backed by a loop or by a handler
  that has yet to start or lower it (`FlagIsBacked`). `RetuneCorrect`, for all front
  ends, AutoScan and HTTP included: a launch with an old profile is one that `overlooked`
  excepts, or a `/range20` under way has yet to call `Stop` or is waiting for this very
  launch (`OldIsStopped`); that `Stop` takes the right launch is `OneReaderLoop`.
- `InventorySessionProofs`: `TypeCorrect`, `NoSilentInventoryCorrect`, `DoneCorrect`
  and `LossCorrect`, for channels of any size. The invariant follows the four
  goroutines through the session (`Phases`), says that the run's channel is closed when
  its goroutine is past the close and not before (`DoneFollowsRun`), and that
  whatever keeps an inventory from going on, also a step before it has ended a
  goroutine, has left an error for the consumer (`TroubleIsReported`).
- `TestModeProofs`: `TypeCorrect`, `AccountsCorrect`, `AnnouncedOnce`,
  `CleaningCorrect`. Needed beside the properties themselves: a goroutine of the
  running test belongs to a recorded read (`StartedIsRead`), and what is about to be
  removed belongs to a test that is over, numbers only growing (`RemovedIsOver`).

- `TuiSessionProofs`: `TypeCorrect`, `PollingCorrect`, `AnnouncementCorrect`,
  `ListeningCorrect`, for plans of any length and any number of keys. The four
  properties together are inductive: the number of commands of a kind only grows by
  one per step and falls by one when one of them is delivered (`IssueAdds`,
  `DeliverTakesOne`), so the tick and the `connectFinishedMsg` the properties speak
  of are not used up by a handler of another kind.

- `TagPathProofs`: `BuiltPacketsVerify`; `ParseIsSinglePass` and
  `FramesAreFoundInTime`, for any streams, sizes and checksum. The invariant is
  `SinglePass` with the types and `KeepsIncomplete`: outside `ParseFrames` the buffer
  is an incomplete packet, hence at most `MaxByte` bytes long, and with a piece of
  `ReadSize` bytes still within `BufferLimit`, so the cut never happens. What was
  decided about an offset stays decided when bytes are appended (a hopeless packet
  stays hopeless, a good one good). The lemma `PathRefinesStream` carries both to `TagPath`. Of
  the tags, `EveryTagIsSeenCorrect`: a frame taken from the stream is never changed by
  what is appended later, so what its parser made of it then is what the property reads
  from `got` now (`Covered`, `FramesByPhase`); `NoneForgottenCorrect`, by the effect of
  one offer on the queue and the count of drops (`OfferEffect`);
  `OncePerReadingCorrect`, where the copies of an EPC in the queue, under way and with the
  bot are counted against the readings that saw it (`GivenWithinReadings`). The
  assumption `ReadSize + MaxByte <= BufferLimit` is 4096 + 255 <= 8192 in the code.
- `DiscoveryProofs`: `SearchCorrect` proves the invariant `SearchInv` that the other
  theorems follow from: every target handed out is probed, in a worker's hands or was
  cut off by the context (`AllProbed`); every find is with a worker, in the channel or
  among the candidates unless the context ended (`FoundInv`); the channel closes after
  the last worker (`ClosedInv`); the answer is sorted (`AnswerInv`).
  `PlanIsCompleteCorrect` and `HostsAreComplete` are about the loops that build the
  connect plan and the list of hosts. Each is a recursive function, so the proof shows
  first that the function exists (`NewOfUnfolds`, `NewOfAllUnfolds`) and then, by
  induction on the rounds, what it holds: the list it began with, then everything wanted,
  once (`NewOfProperties`, `NewOfAllProperties`). `Induction` is stated for a set of
  naturals and follows from the least element of its complement. The assumption that
  ports are positive holds for `DefaultOptions`, with which the TUI searches; with a port
  of 0 the plan would leave its endpoints out.
- `BotSyncProofs`: `CarCorrect` and from it `BotsAreEnded` and `AloneIsReachable`, for
  any number of rival bots; `SyncCorrect` and from it `TypeCorrect` and
  `LastNoticeCorrect`, for any number of notices. The invariant ties each client to its
  handler (an answer of ok only after `SetScanActive`), and says that when the last
  notice was made apart no earlier handler in a living bot can still touch the flag.

Only model-checked: the liveness properties (`DraftEventuallyClosed`, `StopReturns`,
`SessionEnds`, `LostReaderIsNoticed`, `ConnectEnds`, `QueueDrains`, `ScanEnds`,
`TuiMovesOn`), which are out of the prover's reach. Every invariant and every action
property of a passing run, and the refinement of the ledger, have a theorem.

## 5. What the models show beside the properties

Two runs are expected to fail, because the code departs from what a document or a
comment says (`findings` in `PROJECT.json`): `http` and `teststop`. The models show
more behaviours that a reader of the code should know; each is in an action or in an
exception a property names:

- `enqueue` refuses an EPC that is still in flight (`service.go:385`), so a draft that
  arrives while the EPC's previous submit is wound up waits for the next refresh,
  although the repository's README 3.3 says it is enqueued again.
- A tag event that finds the SDK's channel full is dropped (`client_events.go:6`), and
  later events of the tag are no longer new: the EPC does not reach the service in that
  session. The TUI has the same with its queue (`bot_sync.go:114`).
- A byte of noise read as a length holds back the frames behind it until as many bytes
  have come (`protocol.go:87`), where the comment at `protocol.go:67` says "as many
  valid frames as possible". `FoundInTime` bounds the delay.
- One malformed tag in an inventory answer discards the tags before it
  (`protocol.go:235`).
- A connection made during a reading ends it without telling the bot
  (`update_main.go:259`); a stop and a start within one tick leave two chains of ticks.
- Notices under way together may arrive swapped, and a `scan_start` whose client gave
  up still raises the flag later; `LastNoticeHolds` says when the bot agrees again.
- `log.Fatal` after an error of the UI skips the deferred `stopBot`
  (`st8508-tui/main.go:27`) and leaves the bot running.
- A bot that stops unlinks the socket path even when a rival has bound it since
  (`ipc/server.go:53`): that rival runs on and nobody can reach it.
- AutoScan raises the flag after `Start` (`rfid-go-bot/main.go:92`); a `/stop` in
  between leaves the scan on without a reader.
- `/range20` restarts the reader only when the flag is up (`bot.go:292`). A flag that is
  down over a live launch hides the launch: after a stop and a start of two front ends
  that interleave, before AutoScan has raised its flag, or after an IPC `scan_stop` in
  the ingest backend. The old profile then stays in force, also after the next `/scan`,
  whose `Start` finds the reader running, although the reply (`bot.go:299`) says that the
  change takes effect with `/scan`.
- `cmd/rfid-go-bot/README.md` gives 60 as the default of `BOT_CACHE_REFRESH_SEC`,
  `config.go` uses 5.

## 6. Not modelled, and the plan

Not modelled: statistics, texts, logging, JSON and HTTP encoding; configuration and
regions (read once, they are the constants of the models); views; the cache dump, the
document upload and the chat store of the bot; the file parser of the test mode (only
its result); `scancheck` (sequential); the builders of single reader commands
(constant payloads); the enumeration of interfaces and of the ARP table; the search
for the bot's binary, `BOT_AUTOSTART=0` and reused process numbers; of the TUI, the
inventory settings, raw mode and quitting; a second session on one SDK client.
Assumed: nobody kills the shell or `go run` around the bot alone (`Getpgid` would fail and
the bot get no signal); the socket's directory exists and is writable, so `Listen` fails
only over a rival; and, in `FrameStream` and `TagPath`, one wait for packets at a time, so
they are handled in the order they were received (`TuiSession` shows that after a
reconnect there may be two; the properties speak of what was received, in whatever order).

Left to do, in this order:

1. The chat store (`addChat`, `persistChats`) and its races with notices.
2. `BotSync` composed with the reader of `ScanControl`.
