# Verification of the OpenStick CH347 display driver

TLA+ models of the programs in this repository, TLC configurations that check them on small
instances, and TLAPS proofs of what matters most for every instance. Every definition is taken from
the source; `PROJECT.json` names the lines for each (`map`), the hazards each property is aimed at
(`hazards`), and where the code does not do what the repository says (`findings`).

## 1. The system

An OpenStick has a 320x480 SPI panel and a resistive touch panel behind a CH347 USB bridge. Core
starts a *provider* script per generation; the provider starts a detached *daemon* script; the daemon
runs Xorg and keeps a *stream* alive, the pair of `xdamage_shm_capture` and the *sink*, a C program.
HAL and Settings change documents in the package's state directory and signal the provider.

    Core --start/TERM--> provider --start/stop script--> daemon --fork--> Xorg, capture, sink
    HAL  --USR1--------> provider --USR1--> daemon --USR1--> capture, sink
    capture ==shared memory==> sink ==USB (CH347)==> panel, touch controller; sink ==> UHID / XTest
    files: owner token, pid file, READY, display-session.json, receipts, link state, settings

`S` is `src/files/x11display/src/ch347_dirty_usb_sink.c`, `P` is
`src/scripts/msys_ch347_x11_provider.sh`, `D` is
`src/files/x11display/scripts/ch347_dirty_usb_x11_daemon.sh`.

### Components

| Component | State | Operations | What is hard | What makes it correct | Model |
|---|---|---|---|---|---|
| Display stack ownership (P, D, start and stop scripts) | owner token, pid file, READY, session document, receipts, processes | claim, stop the predecessor, launch, await receipt, publish, monitor, EXIT trap | generations overlap; a check and what follows it are not atomic; kill and crash anywhere | one stack at a time, nothing left behind, READY only for a stack that runs | `StackOwnership`, `StackLease` |
| Runtime configuration reload (P, D, S) | documents, receipts, settings of four processes, X root size | USR1 chain, RandR resize with capture stopped, receipts, republished document | lost wake-ups, partial failures, deaths and restarts in between, late receipts | what is reported applied is what runs | `RuntimeReload` |
| Transport recovery (D) | adapter, its driver and speed; known port, looks left, wrong speeds, reset tried | discover, bind, check 480M, reset, arm, hand over, restart | unplugging or a loose connector at any step, stale device paths | the panel comes back, the sink shares the adapter with nobody | `TransportRecovery` |
| Link notices (P, `msys_ch347_link_notice.py`) | alert flag, time of the last notice | observe the link state, notify | rate limit, notices that fail | the last notice is right | `LinkNotices` |
| Frame mailbox (S) | ring of slots with sequence numbers | `mailbox_copy_latest` | the writer goes on while the reader copies | whole, newest frames | `FrameMailbox`, `FrameRegister` |
| Stdin reader thread (S) | latest-only slot, sequence, eof/error/stop | read, swap, signal, wait, redraw, exit | two threads; the end of the input against a sleeper | whole frames in order, no lost wake-up, the last one shown | `ReaderThread`, `FrameRegister` |
| Frame loop and panel damage (S) | frame, base, prev, overlay, cursor, consumed sequence | wait, copy, poll, draw, compare, send, swap, acknowledge | overlay-only passes, reloads, stalls; the picture the sink believes in | the panel is what the sink thinks, and ends up right | `FrameLoop` |
| Dirty rectangle algorithms (S) | frame, prev | tile comparison, greedy merge, boxes, stale refresh, three policies | clipped tiles, word-wise comparison, the limit on rectangles | every change is covered, nothing is sent twice | `DirtyRects`, `PanelUpdate`, `PanelWriter` |
| URB pipeline (S) | slots, URBs in flight, completed | fill, submit, reap, refill, discard | failures and timeouts with URBs in flight | every byte once, in order | `UrbPipeline`, `PanelWriter` |
| SPI bus multiplexing (S) | DC line, clock, selects, cache of them, unread replies | touch transaction, rectangle, their undo on failure | lost and late replies, stale cache, a bus left switched | pixels reach the panel, samples come from touch | `SpiBus` |
| Touch input (S) | contact, filter, mode, devices | poll, filter, press, move, release, mode file, reload | errors in mid stroke, mode switches, restarts | no stuck or jumping contact | `TouchInput` |
| Touch geometry and calibration (S, `touch_affine.h`) | sums, points, presses, the file | the dialogue, solve, write, map, affine | eight mountings, integer division, presses that waver | a finger is put where it is | `TouchCalibration` |
| Configuration parsers (`ch347_display_config.sh`), display-session document (`display_session.py`) | none of their own | parse, validate, write | half-written text | strictness | not modelled (section 7) |
| Overlay and cursor drawing, font tools, acceptance tool | | | | | not modelled (section 7) |
| `frame_mailbox.h`, `frame_rotation.h`, `xdamage_shm_capture` | | | | | not in the repository: external |

## 2. The modules

**`StackOwnership`** has one action per command on shared state of a provider, a daemon and the stop
script, each with its own control point (`ppc`, `dpc`); `pids` is the pid file, `alive` the processes.
`ret` and `dret` say where the stop script and `refresh_pid_file`, which are called from several
places, return to. `StackLease` is the abstract promise: a lock with a token that survives its holder.
`Lease` in `StackOwnership` is the refinement mapping (tenure from the provider's control point, token
from the owner file, the announcement from READY).

**`RuntimeReload`** takes over when READY is out: one generation, touch enabled, xdamage capture. A
process is a record with its control point and settings; `asked` is the USR1 it has not looked at. The
FPS, overlay and cursor documents, handled alike by all three programs, are one value ("tuning"). The
display-session document is the root's size plus the rotation and affine its matrix is composed of.

**`TransportRecovery`** is `run_stream_once` and the loop around it seen from the adapter, which sits in
a port, at 480M or 12M, with or without its driver, and may be unplugged, plugged in elsewhere, come
loose or be seated at any moment. `sys` is what the daemon believes (`USB_SYS`, `IFACE_ID`), `current`
whether the address it has read still holds, `held` whether the sink has the adapter. It extends
**`LinkNotices`**, the provider's observation of the link state; the two share only `published`, as the
scripts share only the link state file.

**`FrameMailbox`** is `mailbox_copy_latest` access by access against a writer that rewrites any slot
but announces it only when whole; a frame is its parts, each stamped with the number of its frame.
**`ReaderThread`** is the other source of frames, a thread that reads a pipe: what it does under the
lock is one step, the copies of both sides are taken part by part. `FrameRegister` is the register of
whole frames that both implement and that `FrameLoop` relies on.

**`FrameLoop`** is the loop of `main` in mailbox mode with the stable damage policy: cells of a panel
row with a colour and what lies over it; `frame`, `base`, `prev` are the sink's buffers, `panel` is the
panel. `missed` is a history variable, the cells where the overlay or the cursor changed in a pass that
sent only the overlay's bounds. It takes the sending of a pass for one step. **`PanelWriter`** opens
that step: a pass sends the rectangles of **`DirtyRects`** (three policies: `main`'s single box,
`main`'s tiles, and the rectangles of `rect_protocol_loop`), each through a window of the panel and the
URBs of **`UrbPipeline`**, which is `send_bytes` statement by statement. **`PanelUpdate`** is the
abstract promise of a pass, and `Update` in `PanelWriter` the refinement: while a pass runs a pixel has
its old colour or its new one; it ends only when all have theirs; what goes wrong ends the sink.

**`TouchInput`** is `touch_poll` outside calibration with the reload, the mode file, the UHID and XTest
back ends; a sample is an error, nothing, weak or firm. **`TouchCalibration`** is `touch_poll` inside
calibration together with the pure functions around it: `Solved` and `Thresholds` make the file,
`TouchMap` and `Corrected` use it, `Reading` is the panel they have to invert. The history variables
`weak` and `misled` tell a dialogue that took a finger left on the last target for the next.
**`SpiBus`** is underneath both: one action per USB command of a touch transaction and of a rectangle, with the replies
that nobody has read yet.

The modules meet in the operations they share: `SinkReady` of `RuntimeReload` is the sink receipt that
`StackOwnership` waits for; `Reload` of `FrameLoop` and of `TouchInput` is what `SinkReloads` does
inside the sink; a sample of `TouchInput` is a transaction of `SpiBus`; `SetWindow` of `PanelWriter` is
a rectangle of `SpiBus`; `StreamFails` of `TransportRecovery` is what `Exit` of `PanelWriter` looks like
from outside, and `StartSink` its `Restart`.

Definitions marked "Mutant of X" are plausible mistakes in X that a property is known to catch.

## 3. The runs

| Run | Checks | Shows |
|---|---|---|
| `stack_serial` | NoRivalStack CleanExit ListedServersAreStopped LeaseSpec | one provider at a time, one process killed anywhere, SIGTERM anywhere, in the middle of the EXIT trap too: takeover and exit end what they must; the token is a lease |
| `stack_overlap` | TypeOK ReadyOnlyAfterOwnStream SupersededLeaves | overlapping providers announce only stacks that ran, and a superseded one leaves |
| `transport` | SinkHasItAlone PanelComesBack LastNoticeIsRight | wherever the adapter goes and whatever fails, a sink has it alone, the panel is fed again once the adapter stays, and the user's last notice is right |
| `runtime_reload` | CaptureGoesOn SessionKept ReportedGeometry ConfirmedComesTrue | a reload that fails anywhere leaves capture and session; confirmed settings come true |
| `mailbox` | Untorn EveryFrameCounted NewestIsTaken RegisterSpec | frames are whole and newest, the counters add up |
| `reader_thread` | RegisterSpec LastFrameShown | frames from a pipe are whole and in order, redraws included; neither end nor error leaves the sink asleep or the last frame unseen |
| `frame_loop` | PanelShowsPrev AckedIsShown Converges FirstFrameShown | the sink's idea of the panel is right, pacing follows the bus, the panel converges, but for what an overlay-only pass left out of the overlay and the cursor (`missed`) |
| `panel_writer` | SlotsExclusive SentIsComplete ListIsSound UpdateSpec ShownAgain | every policy covers what changed, the pipeline delivers it, a failure ends the sink, and its successor shows the frame |
| `spi_bus` | PanelHears SamplesAreTrue Heals | writes and samples reach the right device, and the bus heals after faults |
| `touch_input` | OneContact DownIsVisible StrokeStartsAtFinger LiftedInPlace FingerUpIsSeen SettlesAtFinger ModeIsFollowed | contacts start, rest and end where they should, and always end |
| `calibration` | CalibrationIsTrue | limits, axes and thresholds of the dialogue put a finger within two pixels of where it is, for every mounting and affine, unless a finger left on the previous target was sampled for the next (`misled`) |
| `stack_stops_replacement` | StopSparesTheOwner, violated | see section 6 |

**Bounds, and why they are enough.** *Stack*: two generations show every pairwise race (a third only
repeats the second's role); one fault in the serial run, none in the overlapping one, where the races
need no help. *Transport*: two ports make a known path stale; five looks are one more than the four
after which the adapter is reset, so that a wait goes on after its reset; an interval of two passes lets
a failure fall inside and outside of it; three faults allow a loose connector, an unplugging and a
failed notice in one history. *Reload*: two documents and two faults, so that a failed step can be
followed by a death or a second failure; it also passes with three documents and one fault (1.3 million
states). *Mailbox*: two slots and two parts make reuse and tearing possible, five frames wrap the ring
twice, two attempts show the exhausted retry. *Reader thread*: two parts make tearing possible; four
frames use each buffer twice; the limit of three passes ends before, with and after the input. *Frame
loop*: two cells; the three configurations are the cursor alone, the cursor beside an overlay of one
cell, and an overlay over everything, and any follows any, so that a reload switches, grows or shrinks
the overlay and switches the cursor; two frames, two touches (a press, and a silent move or release),
one reload, one stall, one fault give every pair of causes in one pass. *Panel writer*: 6x5 pixels in
tiles of 2x2 clip the last row of tiles; differences in a corner, at the edges, on a diagonal (more
rectangles than `MaxRects`) and everywhere; a payload of 8 pixels makes packets that are short, exact
and more than the two slots; two passes, the second one on top of the first one's `prev`; one fault of
any kind (it also passes with two, 746 000 states). *SPI*: three faults make the double failures (a lost
reply inside an undo), two samples the order of x and y, a backlog of two the skipped replies. *Touch*:
four positions exceed both thresholds; the error counter is capped at its limit. *Calibration*: 16x24
pixels, all eight mountings, ranges of readings that are narrow, wide and up to the converter's end,
presses below, at and above the floor; four affines; the finger lifts and weakens whenever it likes and
as often as it likes (`weak` stops counting at `ReleaseSamples`). TLC's state spaces are finite in every
run; nothing is cut off by a state constraint.

**Deadlock** is checked for `touch_input`, `spi_bus` and `transport`, which never stop. The others may:
bounded budgets of frames, documents and generations run out, providers exit, a pipe ends, a dialogue
is done.

**Fairness.** *Stack*: every wait of a provider is bounded by a counter, so each provider step is
weakly fair, and so is the start of a daemon; Core, faults and the stream, which may wait for hardware,
are not. *Transport*: the daemon's waits (a counted loop of sleeps), its other steps and the provider's
monitor loop go on; nothing is asked of the adapter. `StreamStops` is among the daemon's steps: a sink
whose adapter is gone fails at its next transfer, at the latest after the URB timeout. *Reload*:
provider, daemon, sink and capture go on; the waits of provider and daemon are counted (80 looks).
`WaitReturns`, the early return of bash's `wait -n`, is not fair. *Mailbox*: the reader polls; a writer
that has begun a frame finishes it. *Reader thread*: main runs; the input may dry up without an end,
and the deadline is never relied on. *Frame loop*: the loop runs, and a silent producer comes back, if
only because the daemon replaces it. *Panel writer*: the sink runs, a bridge that is not stalled works
its queue off, the daemon replaces the sink, and a new sink gets a first frame. *Touch*: the loop polls
for ever, each interval runs out, and not every transaction fails. *SPI*: the sink runs, the daemon
restarts it; the poll is strongly fair, because every round of the main loop calls `touch_poll` whatever
it draws between.

## 4. The theorems

All are proved by TLAPS without unproved steps; the constants are arbitrary but for the named
assumptions of the modules. Each inductive invariant was model-checked as an invariant of the
component's run before it was proved.

**`DisplayStack_proofs`**: `StackOwnership` and `TransportRecovery`
* `TypeCorrect` (TypeOK); `ReadyIsEarned` (ReadyOnlyAfterOwnStream), overlapping providers included,
  from an invariant that ties each control point after the receipt to a sink that ran on the
  generation's own server.
* `LeaseImplemented` (LeaseSpec), `NoRivals` (NoRivalStack), `ExitsAreClean` (CleanExit),
  `NoServerIsLeftBehind` (ListedServersAreStopped): all for `~Overlap`, Core starting a provider when
  the one before is gone; overlapping providers break them (section 6). `LeaseInv`: at most one provider
  is active, and it holds the token from claim to release. `StackInv` says who can be alive: at most one
  daemon, in the pid file unless its provider still waits for it to start; sinks only under a daemon
  outside its exit trap; nothing that streams between the two passes of a stop script; a server that was
  ever listed stays on the pid file while it lives, so that nothing the start script drops from it is
  alive; the session document names a generation that will remove it; the READY of an older generation
  is withdrawn (`ReadyIsWithdrawn`). None of the three is inductive by itself: what a stop script leaves
  behind depends on what was listed when it began, and a daemon lists itself with its first command
  (`ListedHaveBooted`).
* `SinkIsAlone` (SinkHasItAlone), from `TransportInv`: an address that still holds is that of the port
  the daemon knows; from the look that found the adapter until the stream's end the link is published
  as healthy; only a running stream has the adapter, after its driver let go.
* `AlertIsTrue` and `RecoveryFollowsFailure`, the safety half of LastNoticeIsRight: `LINK_ALERT_ACTIVE`
  is exactly what the user believes, and a recovery is told only to a user who was told of a failure.

**`FrameSources_proofs`**, for every ring, frame and number of attempts, and every input of the pipe
* `TakesWholeFrames` (Untorn) and `RegisterImplemented` (RegisterSpec). The invariant: a slot that
  carries a number carries that frame, the reader's copied parts belong to `seq` as long as the slot
  still carries it, and a slot never carries a number again that it lost. Untorn alone is not
  inductive: the second look at `slot_seq` means something only because of the last conjunct.
* `DropsAreCounted` (EveryFrameCounted): `consumed_seq` doubles as the mark of the first frame, and the
  count holds because it is 0 exactly when nothing has been taken and nothing has been dropped.
* `PipeIsARegister`: ReaderThread's RegisterSpec, for every division of a frame that has a part. The
  module has both sources, so the thread comes in as an instance over variables of its own. In
  `ReaderInv` main keeps the lock from its look at `seq` to the end of the copy and `bufs[latest]` is
  frame `seq`, so every part copied is of the frame that was the newest when main locked; the thread
  meanwhile fills the other buffer. The read, the copy, the wake-ups and both ways out stutter.
* `NothingIsMissed`, the safety half of LastFrameShown: main sleeps without a signal only when it has
  seen everything (`NoWakeUpIsLost`), and leaves at the end of the input only after the last frame.
  The second needs that `eof` is the thread's last word, and that what was consumed was taken.

**`RuntimeReload_proofs`**
* `TypeCorrect` (TypeOK); `CaptureIsResumed` (CaptureGoesOn), which needs that a stopped capture is
  alive, or the resume would skip it; `SessionSurvives` (SessionKept), which needs that the root
  always has the size of the rotation the daemon believes in, since the daemon looks only when it
  starts a stream.
* `GeometryIsReported` (ReportedGeometry). Receipts do not say which request they answer, so one that
  equals the document may answer an older request. `ReportInv` shows that it does not matter for the
  geometry: the daemon that wrote the document's rotation into the receipt has turned already and has
  nothing left to turn, since the next time it looks it reads the same document. `confirmed` is set
  when the receipts match and HAL has asked for nothing since the provider read the documents; to
  compare documents and receipts by value instead would be wrong when HAL saves a value, another and
  the first again.

**`PanelWriter_proofs`**, for every panel and tile size, limit of rectangles, stale budget, depth,
payload, and any set of differences
* `PipelineTypeCorrect`; `SlotsStayExclusive` (SlotsExclusive); `SentIsAllOfIt` (SentIsComplete), with
  `send_bytes` called any number of times. The invariant says that URB k starts at
  `(k - 1) * Payload` and all but the last are full, that they are as many as `inFlight` and
  `completed` together, that the slots in flight are distinct (URB i in slot i while the queue is first
  filled, the reaped slot free at a refill), and that the bridge has what the endpoint is done with.
  That the loop's end, a count of reaped URBs, means that the buffer is exhausted is the arithmetic of
  the rounded-up `Total`.
* `ListsAreSound` (ListIsSound). `TileRectsAreRight` is about `build_tile_rects`: after n tiles of the
  scan (`Scanned`) the used tiles are dirty ones, include all dirty ones before n, and are cut into
  disjoint rectangles; the run below a row stays inside the grid and stops at used tiles. `BoxIsRight`
  is about `fast_dirty_bbox` and its word-wise rows, `RectDamageIsRight` about the union of a packet's
  rectangles. `DamageIsRight` puts the policies together: whatever is selected may be sent, and
  covers every pixel that differs.
* `WriterUpdatesPanel` (UpdateSpec), the refinement of `PanelUpdate`, and `WriterDrivesPipeline`, that
  the writer calls `send_bytes` only when it is at rest and with something to send. `WriterInv` relates
  the list, the window and the stream to the pixels: between passes `prev` is `frame` and, after the
  first pass, the panel; during one, a pixel the panel does not show yet lies in a rectangle that is
  still to come, or in the current one beyond what has been received (`LeftToSend`), unless a URB was
  lost. `ReceivedPackets` adds the sizes up, and `WindowPlaces` inverts the row-by-row order of the
  window, so that a packet cut anywhere lands where it belongs.
* From the code: a difference is a set of pixels (`ChangesAssumption`), and a rectangle of a packet is
  not empty and lies on the panel (`ItemsAssumption`, the test before "bad rect item", S:3423).

**`TouchInput_proofs`**: `TypeCorrect`, whose core is that the filter's truncating average stays on the
panel; `OneContactAlways` (OneContact), `DownStaysVisible` (DownIsVisible), `StrokesStartAtFinger`
(StrokeStartsAtFinger), `StrokesEndInPlace` (LiftedInPlace). The invariant `Fits` relates what the
sink believes to its devices and is shown for every operator of the poll (a filter step, a touch, a
release, a failure, a switch of the mode) before it is shown for the actions. Beyond OneContact it says
that a contact is visible and lies at the place of the last report under the rotation in force, without
which a release that follows a reload or a switch could not be shown to stay in place.

**`TouchCalibration_proofs`**: `FingersAreFound` (CalibrationIsTrue), for a user who lifts and weakens
without limit.
* The dialogue: `UnlessMisled` says that until a finger left on the last target has been sampled after
  `ReleaseSamples` weak samples `DialogueInv` holds: such a finger has been weak that often, or the
  dialogue still waits for the release and has counted no more than its weak samples (`Rests`); that the
  sums lie between `count` times the reading of the target shown and as much with one more (`Summed`);
  and that the points taken are their targets' readings or one more (`Taken`).
* The arithmetic: `SolvedIsRight` shows that such points give the axes and directions of the panel and
  limits off by at most `Off`, the extrapolation of an error of one reading from the targets to the
  edges and its rounding (`EdgesFound`). `PlaceFound` shows that limits off by that much misplace a
  finger by one pixel, `CorrectedNear` that the affine and its rounding make no more of a pixel than
  the tolerance, and `LightIsFelt` that the thresholds let the lightest press through.
* From the assumptions: the screen has more than four pixels each way, a pixel is worth `EdgeError`
  readings (`MountAssumption`; three for the default margin of 32 pixels, so a 12-bit converter
  resolves 480 pixels with some 1440 of its 4096), and no affine magnifies a pixel beyond the tolerance
  (`ToleranceAssumption`; 1 for the identity). With fewer readings per pixel the statement is false.

**`FrameLoop_proofs`**: `AckedAreShown` (AckedIsShown); the frame whose number is reported next is on
its way to a pass unless the producer was silent. `PanelIsPrev` (PanelShowsPrev), for every set of
configurations and every order in which they follow each other: whatever a pass leaves out of what it
has to send is in `missed`. `ShownInv` adds what passes without a new frame rely on: `frame` is the
newest frame again, and what `prev` has over it can be told from `over` (`PrevIsDrawn`).

**`SpiBus_proofs`**
* `PanelAlwaysHears` (PanelHears), from `BusInv`: where the cache of DC may be wrong (a new process
  takes the line to be high), that the cached clock inside a transaction is touch's, so that the panel's
  is really set again, and how far the bus has been given back at each control point.
* `SamplesAreOwn` (SamplesAreTrue). `SampleInv` adds what the unread replies can be mistaken for: no
  late answer leaves none of the kinds that a touch transaction waits for, one leaves at most one kind
  (`MailKnown`), and the search of the clock command, which is always really sent because the cached
  clock is not touch's (`PanelsClock`), has thrown old samples away (`NoStaleSample`). `SearchFinds`
  says what the search takes and what it leaves.

*Recursion.* The library's induction theorems cannot be instantiated here, so a recursive function is
reasoned about by its least counterexample: a non-empty set of numbers that is bounded below has a least
element (`LeastOfSome`, from the well-foundedness of finite subsets), and the first index without a
solution, or with a wrong one, contradicts the one before it (`ScanExists`, `ScanIsRight`, `SumExists`,
`ReceivedIsSum`).

*Only model-checked*: all liveness (SupersededLeaves, PanelComesBack, LastNoticeIsRight,
ConfirmedComesTrue, NewestIsTaken, LastFrameShown, Converges, FirstFrameShown, ShownAgain, Heals,
FingerUpIsSeen, SettlesAtFinger, ModeIsFollowed), which needs fairness and ENABLED. Every safety
property that a run checks is a theorem.

## 5. Assumptions and what is left out of the modules

* Every provider start has its own `MSYS_GENERATION`; start and stop scripts are not killed half-way;
  two seconds are enough for the daemon's first command; restarts are unlimited (the default); capture
  and sink are represented by the sink in `StackOwnership`.
* `TransportRecovery` keeps the stack and its X server: superseded daemons are `StackOwnership`'s. A
  connector that is seated again leaves the adapter at the speed it has until it is enumerated again,
  and an adapter that is firmly seated enumerates at 480M. A reset is one step; its fallback by
  authorization that is broken off between its two writes is a reset that failed, not an adapter left
  unauthorized.
* Shared memory is sequentially consistent; the writer invalidates a slot before it rewrites it and
  obeys the pacing of `consumed_seq` (it is not in the repository).
* `ReaderThread` has `CH347_REPEAT` off, and does not look at what the thread does to the buffers that
  `main` frees at exit without having joined it.
* `FrameLoop` leaves out the GPIO overlay and the pixels of text. `AckedIsShown` and `Converges` except
  runs in which the producer fell silent: a frame copied in such an iteration is counted consumed and
  dropped (S:4112). `PanelShowsPrev` and `Converges` except the cells of `missed` until a pass sends
  them: the pass of section 6 that sends too little. No cell of a frame that changed is ever excepted.
* `PanelWriter` draws neither overlay nor cursor nor calibration targets (`FrameLoop` does). The kernel
  hands URBs back in the order of submission and copies their data when they are submitted. The real
  grid divides the panel without a rest (10 by 32 tiles of 32x15); the model's does not, so that the
  clipping is exercised. Two guards of the code can never fire and are not modelled as choices: the test
  of `used` when a run is started, and the cap in `append_send_rect`.
* Touch is enabled, as in the shipped manifest; one axis; the XTest pointer's position is left out of
  `TouchInput`. `TouchCalibration` has the defaults `CH347_TOUCH_Z_STRICT=1` and no interrupt line, and
  a user who presses the target that is shown, but may leave the finger there; the converter wavers by
  one. `CalibrationIsTrue` excepts the dialogues of section 6 that mistook such a finger (`misled`).
  Affine values are fractions with exact products instead of doubles.
* The CH347 keeps fewer unread write replies than `ch347_read_expected` skips (`BacklogAssumption`); the
  two clocks differ. One late reply is covered; two can shift the samples by one transaction for good,
  and `SamplesAreTrue` says so.
* `RuntimeReload` reads the documents of one process in one step and writes the daemon's four receipts
  in one step. A failed publication of the display-session document is left out.
  `ConfirmedComesTrue` excuses two kinds of runs and names them (`excused`): a receipt the sink could not
  write, and the overtaken request of section 6.
* `LastNoticeIsRight` excuses a recovery notice that could not be sent (`lost`): the healthy edge is
  consumed before the helper has answered.

## 6. Where the code and the repository's own words differ

Checked by a run:

* `stack_stops_replacement`: the cleanup of an old generation runs the stop script, for more than a
  second, on the strength of one owner check, and kills a replacement's daemon. From the same check it
  removes the owner file that the replacement wrote.

Behaviours of the models, and of the code, that no run singles out:

* A second signal cuts the EXIT trap short (`CLEANED` is set, so `handle_term` only exits). What it
  had not come to is left, the stack itself if the signal comes early: the next generation stops it and
  withdraws READY when it claims, and replaces display-session.json when it publishes its own.
* A provider that is superseded between its check and `publish_display_state` leaves its own generation
  in display-session.json, against the comment at P:884. In the same way a daemon that is slow to start
  takes the owner's daemon off the pid file (D:758).
* A reload to a smaller overlay leaves the rest of the old one on the panel, because the overlay-only
  pass sends the new bounds and swaps `prev` (`select_overlay_idle_damage`, S:3187, does not ask
  `control_changed`). A cursor that moves without a reported change in such a pass gets lost in the same
  way. Both happen in `frame_loop`: without the exception of `missed` TLC refutes `PanelShowsPrev`.
* While the calibration waits for a release, a firm sample returns (S:1806-1811) before `release_count`
  is cleared (S:1815). Isolated weak samples of one long press add up to a release (S:1650-1659), the
  old target is averaged as the next point, and the file is wrong. It happens in `calibration`: without
  the exception of `misled` TLC refutes `CalibrationIsTrue`.
* Rotating between normal and inverted, or right and left, keeps the root's size, so the signature
  (P:604) does not change and the document keeps the former touch matrix.
* Receipts do not say which request they answer. When the daemon is slower than the provider's 80
  looks, HAL saves another value and takes it back, the late receipts confirm the last request although
  the sink runs the value in between; the last SIGUSR1 reached the daemon while it was applying and is
  not looked at before the next one.
* The speed is checked before the address is read (D:781, 783). An adapter that comes loose in between
  is streamed to at 12M, although README.md:143 calls that never a usable transport, until the stream
  ends for another reason; `published` stays healthy meanwhile.
* With `CH347_LATEST_ONLY` a reload that arrives without a new frame is applied but not drawn: the
  `continue` at S:4211 does not ask `control_changed`, as its twin for the mailbox does (S:4135).

## 7. Not modelled, and why

* *Configuration parsers* and *the display-session document*: text in, a value or a refusal out, with
  no state, order or concurrency of their own; a model would repeat the patterns character by
  character. What follows from a refused document, and the order in which documents are written, are
  in `RuntimeReload`, `FrameLoop` and `StackOwnership`; the repository's tests run the parsers.
* *Overlay and cursor drawing*: layout and wording. *Log bound of the provider*: a size check without
  consequence for anything else. *Font tools*, *acceptance tool*: not part of the running system.
* *GPIO overlay*: a diagnostic display of pins, off by default; its polls read replies of the kind that
  touch's interrupt line reads and would be one more reader in `SpiBus`.
* *The raw pipe without `CH347_LATEST_ONLY`*: a blocking read in the loop; nothing runs beside it.

What would be worth adding next: the GPIO overlay's reads in `SpiBus`; a composition of
`TransportRecovery` with two generations, in which the bind after a stream (D:979) no longer asks who
owns the stack.
