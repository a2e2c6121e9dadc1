# Formal models of the middleware benchmarks

TLA+ specifications of the programs and scripts of this repository, with TLC
configurations, and TLAPS proofs of what can be proved for every value of the
constants. All modules are translated from the code under `src/`;
`PROJECT.json` lists, for every definition, the lines it stands for.

Parse with `tlasany M.tla`, model-check with `tlc -config X.cfg M`, prove with
`tlapm M_proofs.tla`.

## The system

The repository measures latency of message middlewares. Four programs or
pipelines have logic of their own; the middleware itself (vsomeip, Cyclone DDS,
Zenoh, Subspace), google-benchmark and docker are external and modelled only as
the code uses them.

| part | state | operations | interacts by |
|---|---|---|---|
| fragmentation `vsomeip/bench/fragment.h`, `event_service.cc` | the options, plan (count, len), the reused frame block, chunk headers | `ParseOptions`, `main`'s checks, `PlanChunks`, `WriteChunkHeaders`, `StampSendNs`, `Worker`'s notify loop | one datagram per chunk |
| frame tracker and event statistics `fragment.h`, `event_client.cc` | `active_`, `seq_`, `next_`, `send_ns_`; `last_seq_`, `gap_count_`, `latencies_us_`, `done_` | `ingest`, `OnMessage`, `WaitAndReport`, `PrintCsv` | dispatcher thread and worker thread over `mutex_` and `cv_` |
| echo calls `event_client.cc`, `event_service.cc` | `rpc_pending_seq_`, `rpc_done_`, `rpc_rtt_us_`, the printed lines | `RunEchoCalls`, `OnEchoResponse`, the echo handler | request and response messages, 2 s timeout |
| event session `bazel_entrypoint.sh`, `event_service.cc`, `event_client.cc`, `run.sh` | two containers, two marker files, timers, subscription | start, offer, subscribe, ready, stream, report, done, stop | files in the mounted workspace, discovery, compose |
| snapshot pipeline `run_snapshot.sh`, `snapshot_csv.sh`, `render_snapshot.py` | history CSVs, run labels, compose lock, rendered document | measure a grid, append rows, render | one lock, two CSVs, one document |
| multithreaded one-way bench `*_bench.cc` | atomic `in_flight`, `stop`, queue, slots, iteration state | publisher thread, drain loop, timed take, stop and join | shared atomics, the middleware's queue |
| network ping-pong `benchmarks/net` | probe number, sample number, channels, exit codes | link phase, measured phase, echo loop | two topics, compose |
| statistics `common.h`, `bench_common.h`, `net_common.h` | latencies, `MtTakeStats` | `Percentile`, `MeanUs`, `Record` | called by all benches |

What is hard in them, and what makes them correct:

* **Fragmentation.** Integer arithmetic at every remainder of size by budget,
  u16 header fields, headers written into the frame's own bytes, and options
  that are read with widths of their own and hardly checked. Correct when
  the slices tile the frame, fit the datagram with the E2E header, and each
  carries its own header and stamp; when only a datagram limit without a budget
  stops the process; and when the client can count as many measured frames as
  it waits for.
* **Tracker and statistics.** Loss, duplication and reordering of chunks; a
  reporting thread that wakes on `done_` or a timeout and then reads the
  statistics *without* the lock while the dispatcher still writes them. Correct
  when a reported frame is whole and carries its own stamp, the gap count is
  what is missing, and a row printed because of `done_` is complete.
* **Echo calls.** A response that comes after its call was given up, twice, or
  while the next call is being armed. Correct when every printed round trip is
  the call's own and no answered call is printed as a timeout.
* **Event session.** Nine waits with different limits, marker files that
  outlive a run, a callback that publishes three facts one after the other, a
  client that leaves its done marker and exits some steps later, and the rule
  that the first container to exit stops the other. Correct when the
  publisher's regular end costs no row, the stream waits for this run's
  subscriber, and every run ends.
* **Snapshot.** Failed points, killed runs, runs that share a minute, partial
  and full runs of two transports that render one document, each reading labels
  and two histories at different moments. Correct when a full run shows exactly
  its grid, a partial one the newest measurement of every point, a document the
  last rows there were when it was begun, and chart and table agree.
* **One-way bench.** The counter is incremented *after* the publish and
  decremented after a load, by two threads. Correct when at most
  `max_in_flight` samples are outstanding, a free slot is always there, and
  the benchmark ends.
* **Ping-pong.** Probes given up whose echoes still come, peers that match at
  different moments, histories that overwrite, a wait without a deadline.
  Correct when a recorded half round trip is the sample's own, nothing else is
  in the system while it is measured, and runs end.

## Modules

| module | models | main correspondences |
|---|---|---|
| `Fragment` | pure part of `fragment.h` | `PlanChunks`, `ChunkHeader`, `Ingest` are the functions of those names; `Plus` and `Minus` are `size_t`'s and wrap |
| `ChunkedBlock` (+ `MCChunkedBlock`) | the publisher from its command line to its last frame: `ParseOptions`, `main`, `Worker`'s loop over one block, byte by byte | an argument is a key and the number made of its text; a byte is modelled by who wrote it last: filler, a header, the stamp |
| `EventStream` | publish, network, `OnMessage`, wait, `PrintCsv` | `OnMessage` is the whole handler; `EndWait`, `ReadSize`, `PrintRow` are the reporter's unlocked steps |
| `FrameDelivery` | what the stream promises its statistics | abstract specification, refined by `EventStream` (`ImplementsDelivery`) |
| `EchoCalls` | `RunEchoCalls`, `OnEchoResponse`, echo handler | one action per critical section; a round trip is the call whose send time it used |
| `RemoteCall` | what the printed lines promise | abstract specification, refined by `EchoCalls` (`ImplementsCalls`) |
| `EventSession` | both containers, markers, timers, compose | `svc` and `cli` are program counters of entrypoint plus bench; `callback` is `OnAvailability`, one step per fact it publishes; `Touch` leaves the done marker, `CliQuits` is the process's end after it |
| `Snapshot` (+ `MCSnapshot`) | the scripts and the renderer's selection of rows | `LatestPerConfig`, `FilterRunLabel`, `Series`, `Table`, `SizeLabels` are the Python functions and lists, the list comprehensions written with the places that stay (`Kept`); `Line` is `align` with `fmt_line`, no row standing for the 0 it draws. `RunLabel` is the shell's choice. A rendering is `TakeLabels`, `Load` of one history and of the other, and `Write`; `draft` is what it holds in between |
| `CreditFlow` | `RunMtOneWay` of the three stacks | one action per access to a shared variable; the stacks differ where the code does |
| `NetPingPong` | link and measured phase, echoing subscriber, compose | per-stack read loops (`Read`, `Block`, `Expire`) over two bounded channels |
| `RoundTrips` | what a row of the network bench promises | abstract specification, refined by `NetPingPong` (`ImplementsRoundTrips`) |
| `LatencyStats` | `Percentile`, sum of the mean, `MtTakeStats` | hundredths instead of doubles; a sort is any rearrangement into rising order, a sum is a recursive function, so that both can be proved about |
| `Fragment_proofs`, `ChunkedBlock_proofs`, `MtOneWay_proofs`, `EchoCalls_proofs`, `NetPingPong_proofs`, `EventSession_proofs`, `Snapshot_proofs` | theorems | each extends the module it proves about; `MtOneWay_proofs` extends both halves of `RunMtOneWay`, `CreditFlow` and `LatencyStats` |

`ChunkedBlock` and `EventStream` extend `Fragment`: one writes the wire format,
the other reads it. `EventStream` (the frames), `EchoCalls` (the calls) and
`EventSession` (everything around them) are the three levels of one vsomeip
run; `Snapshot` takes such a run as one step (`BenchEnds`).

Some definitions beside an action (for instance `LeaveAtOnce` beside
`AwaitMarker`) are faulty variants of it. No specification uses them: put in
the action's place they show which property notices that fault. `PROJECT.json`
pairs each with its property under "mutants".

## Runs

What a run ranges over besides interleavings (the network, the stack, the QoS,
whether calls fail, the kind of session) is chosen in `Init` and never changes;
a property that needs, say, an ordered network or a wait with a deadline names
it as its premise. One run per module then covers all of them.

| run | what it shows | bounds, and why they are enough |
|---|---|---|
| `chunked_block` | slices tile the block, fit their datagram, and are labelled exactly when `HeadersFit`; the process traps exactly when the limit leaves no usable budget; the client can count `count` frames unless warmup is negative or overflows | sizes 16..75, eight limits: every remainder of size by budget, one to many chunks; two frames, so that reuse of the block shows. Limits from 0 to 14 and at the end of `size_t`, warmups and counts at both ends of an int, and every refused option. `SizeT` = 8192 and `SeqT` = 4096 stand for 2^64 and 2^32: small enough to reach both ends, large enough for the defaults. `warmup + count` past the end of an int, undefined in C++, is modelled as wrapping |
| `event_stream` | frames intact and own stamps on every network; a frame is reported again only when all its chunks were copied; ordered: exact gap count, recovery, complete row after `done_`, refinement of `FrameDelivery`; without loss: a complete row in the end | four frames of two chunks, one of warmup: frame 0 and a gap between counted frames both occur. An unordered network delivers from the first two places of the queue, so one chunk can be late without limit, with two duplicates and one loss: enough to splice two frames, and to pay for one repeated frame of two chunks |
| `credit` | bound on outstanding samples, free slots, stop joined, termination where the wait has a deadline | three stacks, reliable and best-effort, any call may fail; the code's limit of two in flight, a drain cap of two instead of 32, three iterations: the counter leaves and returns to its limit |
| `echo` | own round trips, honest timeouts, refinement of `RemoteCall`, termination, without loss with all calls answered | four calls, two duplicates: a late answer can meet any later call |
| `net` | own echoes, one in flight, refinement of `RoundTrips` (a whole row or none), termination; calm runs complete | three stacks, with and without failures; five probes, histories of three: probes overflow a history, and a given-up probe's echo can meet each later wait |
| `session` | when compose stops the subscriber, the publisher had failed, or row and marker were out; the stream waits for its subscriber, lossless rows are whole, the session ends | all three tiers of the code's waits (below 4 MiB, below 10 MiB, from 10 MiB) in ticks of 15 s, a divisor of 60, 120, 240, 900 and 3600; events and echo calls, streams of 45 and 75 s, half a minute of delays in all: with the same 900 or 3600 s on both sides the stream's length is the whole margin |
| `snapshot` | full runs show their grid; both sections show the row that was last when the labels were taken; partial runs show the newest rows; lines of the chart and the table agree | one size, both stacks, a terminal per transport, two runs of any kind one after the other or side by side, any point failed, without samples, locked out or killed, in one minute or two: a run of the other transport can append between the label, either read and the write, and a failed and a printed row of a point, or two printed ones, meet in one history. Three interleaved runs take more than five minutes; they are covered by the theorems |
| `stats` | percentile against its definition by counting, split of queued and fresh | every sequence of up to four latencies in 0..3 |

Four more runs expect a violation: a statement of a comment or document that
the code does not keep.

| run | statement | what the code does |
|---|---|---|
| `stream_wrap` | `fragment.h:56`, reported when the last chunk arrived | 65536 chunks are 0 in a u16: reported at the first |
| `credit_leak` | `notes/benchmarks.md:10`, limited to two in flight | a sample taken before it was counted keeps its credit for ever: fewer, and at last none |
| `net_unlinked` | `subspace_net.cc:178,188`, gives up after bounded probing | waits for ever in the first probe's `Wait()` |
| `session_sweep` | `run.sh:58`, publisher finishes before the subscriber has its samples | 1 MiB in a sweep streams 210 s, the client waits 120 s |

Other places where a text says more than the code keeps, met while modelling
and not made runs of their own: `fragment.h:31` (the last chunk is smaller than
size/count), `fragment.h:13` (a chunk shorter than 16 bytes loses its header or
the stamp; `LabelledIffHeadersFit` says exactly when),
`notes/benchmarks.md:58` (a timed take that succeeds at once counts as queued),
`render_snapshot.py:88` (a failed point's rate reads `100`, a measured one's
`100.0`, so they are not paired), `run_snapshot.sh:90` (a partial run's
latest-per-config section lasts until the other transport is rendered),
`results-snapshot.md.jinja:25` (lines are means; where a stack has no good row at a
charted size, `fmt_line` draws a 0 and the table says NA or has an `n` of 0;
`ChartMatchesTable` says where exactly),
`vsomeip/notes.md:139` (a TCP run writes its history into `snapshot-tcp.csv`, but no
`results-snapshot-tcp.md`: both transports share one document).

`run.sh:58` also says not to use `--abort-on-container-exit`; `docker compose
up --exit-code-from`, which line 59 does use, implies it. `EventSession` and
`NetPingPong` model it: the first container to exit stops the other. In
`EventSession` this leaves a window that the code's marker does not close: the
client leaves `.bench-sub-done` (`event_client.cc:240`) and exits at line 249; if
the publisher's poll sees the marker and its container exits in between, compose
stops the subscriber. `bench_common.h:115` wants pub to exit by then, so the
model does not call it wrong, and `CutAfterRow` says that the row is never lost
by it. But `run.sh` then returns the exit code of a stopped container, and
`run_snapshot.sh:70` records NA for a point whose row was printed; in `Snapshot`
this is one of the ways a point fails.

Deadlock is not checked in any run: all these programs stop. That they stop only when
they should is the business of the liveness properties.

## Fairness

Fairness is weak and on a process or thread, never on loss, duplication or
failure; the two exceptions are named under `CreditFlow` and `EventSession`:

* `EventStream`, `EchoCalls`: the publisher, dispatcher and worker threads run
  when they can. Loss is not fair, and arrival needs none: with `net = "patient"`
  and `net = "prompt"` nothing is lost, so the next message is simply there for
  the dispatcher.
* `CreditFlow`: both threads run (`PubStep`, `SubStep`); retries and spins are
  loops, and the operating system schedules both. The one strong condition:
  Subspace's wait reads the clock between two rounds of spinning, so a deadline
  that is looked at infinitely often is found passed (`TimedOut`).
* `NetPingPong`: `Pub`, `Sub`, `Compose`; nothing promises that a peer is ever
  matched, which is why `LinkedCompletes` is about linked runs.
* `EventSession`: service, client, the rest of a started callback, compose and
  time. Discovery, subscription and frames are fair only in a lossless run, which
  assumes that they arrive. Registration with the
  local routing manager succeeds or fails but is not modelled as hanging.

Assumptions about time are named where they are made: a `"patient"` or
`"prompt"` network and a `calm` run (a timeout outlasts whatever is under way),
and `Slack` (how long due steps of a session may be put off in all). No safety
property of the stream, the calls or the ping-pong has one as a premise.

## Proofs

All proofs are for arbitrary constants under the module's `ASSUME`, which TLC
evaluates in the runs.

* **`ChunkedBlock_proofs`**: `SlicesTile`, `DatagramsFit`,
  `TrapsWithoutBudget`, `CountIsReachable`, for every command line and all
  widths of at least 8192 (`size_t`) and 2002 (frame numbers). The invariant
  `IInv` says that the plan is the one computed from the options (`PlanInv`) and
  that the k-th notification is slice k of it (`SentInv`). The arithmetic is in
  `Fragment_proofs`: a plan's slices are non-empty, adjacent and end at the
  frame's end, because `(count - 1) * len < size <= count * len`.
  `ChunksAreLabelled`: every chunk carries its own header, and chunk 0 the
  stamp, exactly when `HeadersFit`. `BlockInv` says who wrote each byte of the
  block while it is notified: the stamp over the headers, the last header over
  earlier ones. Where headers fit, offsets are at least 16 bytes apart, so a
  header byte lies under one header and outside the stamp (`HeaderIsAlone`).
* **`EventStream_proofs`**: `StreamTypes`, `ReportedFramesAreIntact`,
  `ReportedStampsAreOwn`, for every network (loss, duplicates, any order). They
  assume `CountFits`, a plan of fewer than 65536 chunks; `stream_wrap` shows
  that this cannot be dropped. The tracker's state is a statement about the past: if it is
  active with `next_ = k`, the last k arrivals are chunks 0..k-1 of `seq_`
  (`TrackerInv`). A report keeps that suffix.

  `RepeatsArePaidFor`, also for every network and with `CountFits`: `CopyInv` compares the chunks
  under way and arrived with the different ones among them; a notified chunk is
  new, so the surplus is at most the number of copies, and losses only lower it.
  `CostInv` finds in that surplus, among the arrivals, `count` chunks for every
  report beyond a frame's first. It is inductive only with the chunks of a
  reported frame that the tracker is assembling once more (`Reassembled`):
  each of them arrived before, and the last one completes the price.

  On an ordered network, with `CountFits` and any losses: `ArrivedFramesAreReported`,
  `GapsAreExact`, `DoneIsComplete`, `DeliveryIsImplemented`. `OrderInv`: what arrived lies before
  what is under way, both rising, and all of it was sent. So a
  completed frame comes after every reported one (`Joins`), from which the gap
  count (`GapInv`), the latencies with their warmup (`LatencyInv`) and what the
  reporter read without the lock (`RowInv`) follow. `FollowInv`: while
  a frame's chunks have all come so far, the tracker follows that frame.
  `DeliveryIsImplemented` is the refinement: a `Notify` of a last chunk
  publishes, a report delivers, everything else is invisible.
* **`MtOneWay_proofs`**, the credits: `CreditTypes`, `MessagesAreCovered`,
  `OutstandingIsBounded`, `SlotIsFree`, for every stack, limit, cap, loss and
  failure. The bound is not inductive: the counter lags behind the samples on
  the publisher's side and leads them on the subscriber's.
  `EveryMessageCovered` accounts for the steps in between, `CreditBelow` for
  what the publisher saw when it decided to publish.
  The statistics: `SplitIsExact` and `PercentileIsByCounting`, for every
  sequence of latencies, of any length. Both are inductions over the samples.
  The library's induction theorems take an operator as a parameter, which the
  prover cannot instantiate; `LeastNumber` does their work instead: the set of
  lengths for which the claim fails, written out as a set, has a least element,
  and the claim at one sample less contradicts it. In this way the partial sums
  exist, are numbers and depend on nothing but the prefix they sum
  (`PartialsExist`, `PartialsAgree`, `PartialsAreNumbers`), so that one more
  sample adds its latency to the sums of its kind (`SumOfAppend`,
  `OfKindAppend`, `QueuedAppend`); and every sequence has a rising order
  (`OrderExists`: the largest element goes last). The percentile needs, beyond that,
  that the k-th of the sorted latencies is the k-th smallest by counting, ties
  included (`SortedIsOrderStatistic`: below it there are at most the k-1 before
  it, not above it at least the first k, and no two numbers have the same
  rank). `PercentileByRank` then holds at every hundredth, the run looks at
  five.
* **`EchoCalls_proofs`**: `EchoTypes`, `RoundTripsAreOwn`, `TimeoutsAreHonest`
  (an action property), `CallsAreImplemented` (the refinement of
  `RemoteCall`). `DoneIsPending`: while `rpc_done_` is set, the stored
  round trip belongs to the pending call. `NotYetAsked`: no message of a call
  is anywhere, and the service has not executed it, before it was sent.
* **`NetPingPong_proofs`**: `NetTypes`, `EchoesAreOwn`, `PingPong`,
  `EchoesAreUnderWay`, `RowsAreComplete`, `RoundTripsAreImplemented` (the
  refinement of `RoundTrips`), for every stack, channel depth,
  number of probes and moment of matching. The argument is the order of the
  channels. `Ordered`: what is under way is ordered by number from the reply
  channel over the subscriber's hand to the request channel. `NoneAhead`: until
  the link no number is above the one waited for. `OnlyWanted`: so the echo
  that makes the link was the last one, and from then on the pipe holds at most the
  sample being measured. `MatchedByUse` and `Progress` tie the matching and the
  program counters to that. With these, the step that takes, returns or reads the
  sample is a step of `RoundTrips`, because the channels it does not touch are
  empty. It rests on channels that deliver in order and lose
  only by overflow or before the peers match.
* **`EventSession_proofs`**: `MarkersAreFresh` (an action property),
  `LosslessRowsAreWhole`, `SubscriberIsCutAfterRow`, for all stream lengths and
  delays; the last assumes `LongStreams`, streams longer than all delays, the
  only margin there is from 4 MiB on. The last two rest on an inequality each:
  what the stream (`InTimeInv`) or the subscriber (`OutlastInv`) has left to do,
  plus the delays that are left, is less than the other side's wait. A tick
  lowers both sides or uses up a delay. A client that gave up waiting, the one
  way to a marker without a row, has exited before the publisher can
  (`EarlyInv`).
* **`Snapshot_proofs`**: `ChartIsTable`, `FullRunIsShown` (an action
  property), for any terminals, sizes, number of runs and order of reads and writes. What a
  full run renders is what it recorded: the rows under its label are, at any time, the
  points of its grid before the next one (`RecordInv`), since no other run that
  records has its label (`LabelInv`). A section, while it is drafted
  (`DraftInv`) and when it is written (`DocInv`), holds at most
  one row of each point and form of the rate (`Proper`), because `latest_per_config` leaves one
  and a run records each of its points once (`CsvInv`); so the chart and
  the table, which pick the last of several in different ways, pick the same.
  `NewestIsCharted` and `LastRowIsShown` (action properties) assume
  `OneTerminal`: no two terminals measure the same transport. Then a history is
  in the order of its minutes (`TimeInv`), ends with the row of the run under
  way (`LastInv`), and does not change while its own run renders (`OwnInv`). The
  other transport's history may: `DraftOk` follows its last row from the moment
  the label is taken, through whatever is appended, to the draft. Without
  `OneTerminal` both are false: a run that began in an earlier
  minute may append its row behind one of a later run, where `recorded_utc`
  makes it the older of the two. All four use
  `SnapshotAssumption`: the ladder is a fixed list without repetitions
  (`size_ladder.sh`).

Only model-checked:

* Liveness (`CompleteRow`, `EveryCallAnswered`, `BenchmarkEnds`,
  `StopIsJoined`, `RunEnds`, `LinkedCompletes`, `SessionEnds`): the prover has
  no rules for it under fairness here.

## Not modelled

* Same-host `RunPingPong`: one thread publishes a sample and reads until it has
  that number, the read loops of `NetPingPong` without a second process. With
  it Zenoh's `WaitUntilLinked`, and the fixtures that start routing daemons,
  shared memory and sockets.
* `Setup` and `StartServer` of the network benches: their errors end the
  process before anything is sent.
* `render_config.py`, the options of the network benches, prebuild, profiling
  and multicast scripts: one pass of text processing or of external commands.
  Of the vsomeip publisher's command line, how `strtoull`, `atoi` and `atof`
  read a number's text; of the client's, everything but the limits the other
  modules name.
* Values of clocks, payload filler, floating-point rounding, log and table
  layout.
* Reused `RUN_LABEL`s, an overridden `SNAPSHOT_CSV`, and `SIZES` off the ladder,
  which the chart leaves out (`CANONICAL_SIZES`). `SIZES` and `STACKS` pick any
  part of the ladder and the stacks, in their order. Reading one history and
  writing the document are one step each; an error of python or the template
  ends the script as `Killed` does. Which of two documents written side by side
  stays is up to chance (`notes.md:142` warns of parallel runs): the properties
  are about each document as it is written.
* `VSOMEIP_BENCH_WAIT_SEC`, and the clean shutdown of the client under
  `VSOMEIP_TRACY`.
* Build rules, vendored patches and generated code.

## Plan

Written in this order, core first: `Fragment`, `ChunkedBlock`, `EventStream`
with `FrameDelivery`, `CreditFlow`, `EchoCalls` with `RemoteCall`,
`NetPingPong` with `RoundTrips`, `EventSession`, `Snapshot`, `LatencyStats`. Next:

1. **Same-host ping-pong** of the three stacks with Zenoh's link probing
   ("avoids reusing probe seq numbers", `zenoh_bench.cc:253`), its required
   shared-memory payloads and the fixture's warmup.
2. **Session composition**: `EventStream` as the stream of `EventSession`, so
   that `RowWhole` is derived from frames and not from one flag; vsomeip
   registration that hangs; the health check's limits.
3. **Abstract specification** of `EventSession`: the order of start, stream and
   shutdown that a reader of the printed row relies on, refined by the module.
4. **Proofs**: the refinement of 3. Every invariant and action property that a
   run checks is proved; liveness is not.
