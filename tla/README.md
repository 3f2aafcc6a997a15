# Specifications of nn_fuzz

nn_fuzz is a LibAFL-based fuzzer that shares its work with neural networks: a
broker process, fuzzer instances forked one per core, and programs ("peers") that
connect over TCP, read the test cases the fuzzers find and send inputs of their
own.  These modules specify the part of it that is concurrent and its own, check
it with TLC and prove the core of it with TLAPS.

Paths below are relative to `src/`; `server.rs` is `nn_fuzz/src/connector/server.rs`,
`extention.rs` is `nn_fuzz/src/llmp/extention.rs`, `connector.rs` is
`nn_connector/src/connector.rs`.

## 1. Inventory

| component | state it keeps | operations | talks to |
|---|---|---|---|
| Broker with NN hook (`extention.rs` 309-485, `llmp/mod.rs`) | broadcast, cursor per client, monitor figures | `broker_loop` hook, `handle_in_broker`, shutdown, `spawn_client` | every client through LLMP pages |
| NN service (`server.rs` 62-147) | listener, the stream in hand | accept, hello, request, refuse, spawn a worker | peers over TCP, the runtime's blocking pool |
| NN worker (`server.rs` 149-225) | its LLMP client (id, cursor), its stream | drain the broadcast, one read, hand over | broker, one peer |
| Framing (`server.rs` 230-301, `connector.rs` 178-211) | place in the byte stream | `send_tcp_msg`, `recv_tcp_msg` | the other end |
| Peer connector (`connector.rs`, `nn_connector/src/lib.rs`) | stream, client id | `connect_to_fuzzer`, `send_input`, `recv_testcase`, drop | service, worker, a Python program |
| Event manager (`extention.rs` 33-307) | LLMP client, compressor | `fire`, `await_restart_safe` | broker |
| Fuzz loop (`components/fuzzer.rs`, `components/stages.rs`) | corpus, coverage, solutions, `max_depth` | `fuzz_one`, `process_execution`, the mutational stage | event manager |
| Launcher (`launcher.rs`, `main.rs`, `fuzz/mod.rs`, `utils/seed.rs`, `cli.rs`) | options, children forked so far | `check_options`, fork per core, become the broker or wait for children | clients (fork, waitpid), broker and service in its own process |
| Client start (`fuzz/unix.rs` 70-140, `mutate_args`) | core id, random seed, target's arguments | connect, seed lookup, argument mutation | broker, whosever it is |
| LibAFL | LLMP pages, corpora, executors | external | |

What is hard, and where (the full list with lines is `hazards` in `PROJECT.json`):

- *One thread, two directions.*  A worker forwards and receives in one loop; a read
  must end for forwarding to go on, and a write that does not end stops both.
- *Ids, not flags.*  The broker sends a peer's input to the peer's own worker too;
  the `client_id == id` test must drop exactly these.
- *Two tags.*  Fuzzer events are inspected by the broker, bridged inputs must not be.
- *Timeouts inside frames.*  The 3 s read timeout may fall at any byte.
- *Peers that die anywhere*, inside the handshake, inside a frame, between frames;
  a broker that exits; a bounded pool of worker threads.
- *Start-up without a rendezvous.*  Clients are forked before the broker listens, on a
  port another launcher may own; a fork may fail halfway; the service panics in its own
  task.
- *Lists paired by place.*  Cores, usable cores and seeds are three lists that may have
  gaps, repetitions and any order; who gets which is decided by indices.
- *No restarts.*  Nothing of the bridge is persisted; a worker that dies is gone, and a
  peer that reconnects is a new client.

What makes each component correct:

- broker: publishes exactly what clients share, in each client's order; the monitor's
  figures are those of the newest event and never a neural network's;
- worker: forwards what others published, in order, without gap, echo or repetition,
  and hands over everything the peer sent;
- framing: a call returns one message or an error, and always returns;
- service: peers get unique, true ids, and a peer waits only for a reason;
- fuzz loop: publishes its own finds and only these; the depth of a test case is its
  lineage; fuzzers end up with the same coverage;
- launcher: a client on each of the chosen cores, with a seed and arguments of its own,
  each attached to a broker; none left behind by a launcher that says good bye.

## 2. Modules

```
NnFeed            what is promised: one log, everybody else's messages in order
  |-- NnFeedProofs         (EXTENDS NnFeed; instantiated where a refinement is proved)
  ^ refinement
NnBridge          fuzzers, broker, workers, streams, peers
  |-- NnBridgeProofs       (EXTENDS NnBridge)
  |    |-- NnBridgeRefinement (EXTENDS NnBridgeProofs)
  |         |-- NnBridgeMessages   (EXTENDS NnBridgeRefinement)
  |-- MCNnBridge       (TLC)
NnFraming         one direction of one stream of NnBridge, byte by byte
  |-- NnFramingProofs
NnAdmission       what is promised to who connects: one roll, an id for good
  ^ refinement
NnHandshake       how a connection of NnBridge comes about
  |-- NnHandshakeProofs
  |-- MCNnHandshake
NnFuzzers         the fuzz loops on top of the feed of NnFeed (INSTANCE)
  |-- NnFuzzersProofs
  |-- MCNnFuzzers
NnLaunch          how broker, service and fuzzers come about, and how they end
  |-- NnLaunchProofs
  |-- MCNnLaunch
```

`NnBridge` shows that broker, workers and streams keep what `NnFeed` promises;
`NnFuzzers` takes that promise for its medium, with the feed's own variables and
actions, and shows what the fuzzers make of it.  `NnLaunch` ends where `NnFuzzers` begins: a client that is `running` is at
the `load` step of its loop, and a broker that is `up` with its service `up` is where
`NnBridge` and `NnHandshake` start.

### NnFeed

The abstract specification.  Clients submit messages; the broker settles each
client's messages in order, publishing or keeping them; a client that joins is handed
every later message of the others, in log order, once each, and none of its own.
Two consequences are stated of it: `HandedExactly`, an inbox is exactly the others'
messages from where its feed began to where it is, and `InputsInOrder`, the messages of
a remote client arrive everywhere in the order sent, without gap or repetition.

### NnAdmission

The abstract specification of the service.  The admitted peers stand on a roll, where
the place of a peer is its id; a peer that asked is entered once or turned away, only
while the broker runs, and learns no place but its own.  The roll only grows, so no id is
given a second time, whatever became of its peer.  `NnHandshake` implements it: the
roll is read off the ids of the workers' LLMP clients (`RollBar`), and who has no id and a
closed stream has been turned away.

### NnBridge

State and code:

| variable | code |
|---|---|
| `out[c]`, `seen[c]` | messages in the LLMP pages of client `c`, and how many the broker has hooked |
| `bcast` | the broker's own pages, which all clients read |
| `stats` | `monitor.client_stats_mut_for(c)`: which message each figure is from |
| `fcur`, `ran` | a fuzzer's cursor and what its event manager has processed |
| `wpc`, `start`, `cur` | the worker's place in `handle_connection` and its LLMP cursor |
| `down`, `got` | the stream from worker to peer: broadcast positions written, how many read |
| `up`, `ppc` | the stream from peer to worker, and the call the peer is in; `cut` is a peer that ended inside a message |
| `wlost`, `plost` | the workers and peers that are out of place: a read of theirs timed out inside a size |
| `alive` | the fuzzers whose `fuzz_loop` has not returned an error |

Actions: `FuzzerFire` (`fire`), `FuzzerProcess` (LibAFL's `process`, external) and
`FuzzerFails` (its error, which ends `fuzz_loop`), `BrokerMsg` (one call of the hook with
`handle_in_broker`), `BrokerExit` (by order, or because the hook failed on a message),
`Connect` (the end of `NnHandshake`, as one step).  The worker forwards by `WorkerSkip`,
`WorkerForward`, `WorkerForwardFails`, `WorkerEmpty` and `WorkerBrokerGone`.  Its one read
ends in one of five ways: a message (`WorkerRecv`), an error that is ignored
(`WorkerRecvFails`), an error that is ignored although bytes of a size are gone
(`WorkerLosesPlace`), a panic (`WorkerRecvDies`: a body that times out or is cut off, a
message LLMP does not take, bytes that are no message), or, out of place, bytes that happen
to decode as a message (`WorkerRecvGarbled`).  The peer's actions are `PeerSend`,
`PeerSendDone`, `PeerSendFails`, `PeerRecvDone`, `PeerLosesPlace` and `PeerClose`.  A message
is its sender and its number among the sender's messages, with tag, flags and kind; `gzip`
says whether the payload really is compressed, which the code keeps in the payload alone.
A `Garbled` message has the worker's id, as any message has that it puts in its pages; the
broker passes it on unread unless its tag comes out as that of fuzzers' events, which ends
the broker and is one of the reasons of `BrokerExit`.

Abstractions: streams hold whole messages up to a window, and besides these the one that
is being written, which is why a place can be lost only while the other side is in a write
or has ended in one (`NnFraming` has the bytes, and the same outcomes of a read); a reader
out of place takes bytes without order, so its stream no longer fills up for good; a
worker's LLMP cursor starts anywhere in the broadcast, since LibAFL attaches a new client to
the pages the broker still maps; a write to a closed peer may succeed (into the kernel's
buffer) or fail.

### NnFraming

A sender that writes frames byte by byte and may stop at any byte, and the reader's
`read_exact` of the size, `read_exact` of the body, timeouts in both.  `reader` says
whose `recv_tcp_msg` it is: the worker panics on a body that does not decode, the
connector returns an error.  Bytes that are not a size field may spell any size of
`Spelled`, and bytes that are not one body may or may not decode.  `torn` is a history
variable: some call timed out after it had read a part of the size field.

### NnHandshake

`run_service` and the jobs it spawns against `connect_to_fuzzer`.  `stream[p]` names the
owner of the server's end of a stream: the listener's backlog, the accept loop, a job
that waits for a thread, a job that has registered with the broker, a worker, or nobody
(`closed`).  `told[p]` is the packet last written to a peer, and a connected peer's `id` is
the one it read there.  A panic of the accept loop drops the listener and the stream in hand;
of the jobs that wait for a thread it drops any subset, since the pool that shuts down may
still run one.  A job may also fail before it is a client: no broker, or no shared memory
for its pages.

### NnFuzzers

`Process` is `execute_input` with `process_execution` of `components/fuzzer.rs`, in its
three outcomes (solution, test case, nothing), with and without events.  Around it are
the places it is called from: `LoadSeed` (the initial inputs), `Mutate` (one iteration of
`perform_mutational` in `components/stages.rs`, with its depth), and `Import` (LibAFL's
event manager evaluating what others published, external).  `FuzzOne`, `Report`,
`StageDone` and `ProcessDone` are the rest of the loop.  `said[c]` holds the events a
client fired; the broker publishes new test cases and keeps the rest, by `Feed!Publish`
and `Feed!Keep`.

| variable | code |
|---|---|
| `pc`, `todo`, `idx` | place in `fuzz_loop`, iterations left in the stage, the scheduled corpus entry |
| `corpus` | the corpus with the `MutationMeta` depth of each entry, 0 when it has none |
| `covered` | history of the map feedback |
| `solutions`, `maxDepth` | solutions corpus, `max_depth` of `CustomMutationalStage` |
| `seeded` | history variable: how many corpus entries came from loading |

Abstractions: the target is deterministic; a mutation may give any input; the
scheduler may pick any entry.  This is the loop of the feature `observer_feedback`,
which selects `HeavyFuzzer`.  LibAFL's restarts of a fuzzer are not modelled.

### NnLaunch

A client is named by the id of the core it is bound to, the number that `run_client` is
called with.

| variable | code |
|---|---|
| `mask` | what `get_core_ids` returns: the usable cores, in order (any of `Masks`) |
| `opts` | `FuzzerOptions` after parsing; `vals` is `Seeds::vals`, empty for `None` |
| `launcher`, `result` | place in `fuzz` and `Launcher::launch`, and what `main` sees of it |
| `next`, `handles` | how far the fork loop is; the children's handles, in order |
| `reaped`, `signalled` | for how many of them `waitpid` has returned; who was sent SIGINT |
| `broker`, `service` | who listens on the broker port; the task of `run_service` |
| `client`, `seed`, `args` | a client's place, the seed of its generator, its target's arguments |

`CheckOptions` is `check_options`; `LaunchPanics`, `ForkClient`, `SkipCore`, `ForkFails` and
`ForksDone` are the fork loop and what comes before it; `BindBroker`, `BindFails` and `BrokerExits` are `NnRestartingMgr::launch` in the
launcher's process with the `?` behind it; `WaitClient` and `WaitDone` are the branch for
`no_broker`.  A client goes through `Connect` (LibAFL's manager, which retries),
`LosesSeed`, `FailsOnArgs` or `StartsFuzzing`, and may end at any time (`ClientEnds`: no
target, no corpus, a bad token file, an error of the executor).  `ServiceStarts` binds the
service's port or panics, `OtherBroker` is another launcher's broker on the same port.

`FromCmdline` works on the parsed text: an item of one number is itself, of two a range, of
more it is passed over as the code does.  `SeedPlaces` is the `zip` and `find` of
`fuzz/unix.rs`, `HarnessArgs` is `mutate_args` with its one mutation.

Abstractions: a client's delay of 100 ms per index only makes it later, which it may be
anyway; where output goes (`dup2`) is left out; a client that crashes is not started again,
since a respawned one needs a state that its predecessor saved, and the fuzz loop saves
one only when it ends.  The text "auto" and a word are model values, and what
`core_args_config` names are words (options such as `-p` in `conf/mutate_args.jsonc`).  In a
debug build a sum past `usize::MAX` panics, which is a `ClientEnds`; in a release build it
wraps, which is `Incremented`.

## 3. Runs

| run | shows |
|---|---|
| `NnBridge_two_conns` | `TypeOK`, `FeedInOrder`, `NoEcho`, `FeedComplete` with two workers, so that each sees the other's inputs; `PublishedExactly` over all event kinds |
| `NnBridge_one_conn` | `Decodable`, `MonitorExact` over both encodings and messages that are none; `ImplementsFeed`, the refinement of `NnFeed`; `InputsInOrder`, from a network to everybody; `EventReachesPeer`, `InputReachesFuzzers` under fairness |
| `NnFraming` | `InStep`, `DiesInsideBody`, `RetryLosesNothing`, `AllocatesAnnounced`, `RecvReturns` |
| `NnHandshake` | `SomebodyOwes`; `ImplementsAdmission`, the refinement of `NnAdmission`; `WaitsOnlyFor` under fairness |
| `NnFuzzers_loop` | `TypeOK`, `EveryTestcaseCounts`, `DepthsReported` and `SolutionsAccounted` for a fuzzer and a network |
| `NnFuzzers_share` | `AnnouncesOwnFinds`, and `CoverageConverges` under fairness, for two fuzzers and a network |
| `NnBridge_full_streams` | violated: `KeepsForwarding` |
| `NnFraming_torn` | violated: `ReceivesOneMessage` |
| `NnHandshake_panic` | violated: `ServiceStays` |
| `NnLaunch` | `SeedsApart`, `ArgsApart`, `SeedsSuffice`, `GoodByeMeans`, `ProvidedCoresUsed`, and `ClientsAttach` under fairness |
| `NnLaunch_cores` | violated: `ProvidedCores` |
| `NnLaunch_orphans` | violated: `BrokerExitKills` |

The violated properties state what a comment of the code says; `findings` in
`PROJECT.json` quotes each comment and the line that does otherwise.  In short: a
worker and a peer that write to each other over full streams block for good; a read
timeout inside the size field loses the place in the frames; a peer that dies between the
size and the body of its request stops the accept loop; where the process may not use
the first core, the fork loop binds clients to cores nobody asked for; and the kills after
a broker's end are never reached.  One more finding is seen in a passing run:
`DiesInsideBody` says where the worker panics on a timeout it is said to ignore.

One thing no property shows: `recv_event` makes an expired timeout and a closed stream the
same error, which reaches Python as `PyTimeoutError`, so that a program that goes on after
timeouts never learns that the fuzzer has gone.  The loop is that program's own.

**Bounds.**  Two connections are needed for a worker to see another network's inputs
and one fuzzer to see its events; two events and one or two inputs are enough for a
message behind another one, for a cursor behind a backlog, and for a statistic that
is overwritten.  In every run of the bridge a stream holds one message each way.  In
`NnBridge_one_conn` that is less than the peer sends and the worker forwards, so that both
directions fill up; the write deadlock of `NnBridge_full_streams` is among its behaviours,
and its liveness properties name it as one of the ways a connection goes out of service.  That run has the two kinds of event
that carry executions (one published, one kept), one message out of place (`MaxGarbled`) and
the first message of every client as the compressed one; all six kinds are in
`NnBridge_two_conns`.  Framing uses a
size field of two bytes (the code has four; a torn field needs two) and bodies of one
and three bytes, shorter and longer than the field; `Spelled` covers the empty body,
sizes that lie inside the remaining bytes and one beyond them.  The handshake has a
pool of two for three peers (the code: tokio's 512).  In `NnFuzzers_loop` four inputs over
three points of coverage (one covers another, one is apart, one crashes) give chains of
mutations of depth three, test cases that are interesting to one client and old to
another, and crashes that a network sends; one crash of the fuzzer's own
(`MaxSolutions`) and two inputs of the network (`MaxInputs`) are enough for own and
imported solutions to come in either order.  `NnFuzzers_share` needs two fuzzers, so it
has three inputs over two points, one iteration per stage and no crash of the fuzzers'
own, hence no seed that leaves a corpus empty.  `NnLaunch` has three cores, all of them usable or only the last two, three lists of
chosen cores (a gap, a reversed order, a repetition) and four of seeds ("auto", one
repeated, a range, and a range that repeats a single seed and an item with too many
dashes); a largest number of 8 makes the argument 7 wrap on two of the cores, and the
second list of arguments is one that `mutate_args` refuses.
The proofs do not depend on any of these.

**Deadlock** is not checked: a bounded run ends when all events are fired and peers have
closed, and the program itself may stop (the broker exits, workers die).

**Fairness.**  `NnBridge!Fairness`: the broker polls all clients (`loop_forever` with
5 ms), fuzzers process the broadcast in each `fuzz_one`, a worker is a sequential loop
whose read has a timeout, a peer finishes the call it is in and comes back to read as
`examples/connect_to_fuzz.rs` does.  A delivery is promised only while the connection is in
service (`OutOfService`): the peer has not closed, the worker has not panicked, neither side
has lost its place, the two are not in writes to each other over full streams, the broker
runs; and an input only reaches fuzzers whose loop has not failed.  Nothing makes a
fuzzer fire, a peer send or close, or the broker exit.  The write of a worker is not assumed to end: `WorkerForward` is
enabled only with room in the stream.  `NnFraming`: the caller's thread runs; the bytes need not
come.  `NnHandshake`: the runtime polls the accept loop and starts jobs when it has a
thread; only `Prompt` peers are assumed to send their request.  `NnFuzzers`: a fuzzer's loop
never returns (`fuzz_loop` in `fuzz/unix.rs`), and the broker polls; that a mutation finds
anything is not assumed.  `NnLaunch`: the launcher is a sequential program that goes on
(also by an error), and a client that retries gets through to a broker that stays; nothing
makes a client end, a broker stop, the service come up or another launcher leave, so that
`waitpid` may wait for ever.

## 4. Proofs

`NnBridgeProofs` proves for all constants `TypeOK`, `FeedInOrder`, `NoEcho` and
`FeedComplete`.  The three feed properties are not inductive: that a new position in
`down` is larger than the earlier ones needs that these lie at or below `cur`, that a
position stays another client's message needs that it lies in the broadcast.  The
inductive invariant is

    FeedInv == TypeOK /\ CursorsInLog /\ NothingBeforeAttach
               /\ FeedInOrder /\ NoEcho /\ FeedComplete

with `CursorsInLog` (start <= cur <= Len(bcast)) and `NothingBeforeAttach` (a connection
that has no worker has written nothing).  The broadcast only grows, so everything said
about a position stays true (lemmas on `Append`); the worker's own steps are treated one
by one.

`NnBridgeRefinement` proves `ImplementsFeed`: `Spec => Feed!Spec`.  The mapping (the
`...Bar` definitions of `NnBridge`) counts a peer's written inputs as submitted, the
broker's hook as settling, and what fuzzers took in and peers read as delivered.  The
proof needs, beyond `FeedInv`,

    CopiesInv == Numbered /\ NeverKept /\ CursorsBehind
                 /\ PeerHasWorker /\ FuzzersUpToDate

that is: the n-th message of a client is its n-th wherever it lies; a peer's messages
have the tag the broker never keeps; no copy overtakes its source; a peer in a call has a
worker; and since the last message a fuzzer took in there are only its own up to its
cursor.  What a worker out of place hands over is submitted at that moment, the n-th of its
client as any other (`SentMoves`, `MapHandOver`).  Then each step is treated by itself (`MapFire` ... `MapRecv`); the one with
substance is a peer's read, which is a delivery because `NoGap` and the order of `down`
leave only the peer's own messages between two that it reads.

`NnFeedProofs` proves of the abstract feed, for any clients, `HandedExactly` and
`InputsInOrder`.  Both relate inboxes to the log, so the invariant says what the log holds:

    FeedInv == FeedTypes /\ LogInv /\ InboxInv /\ HandedExactly

`LogInv` has the messages of a client in its order and each at most once, and all that were
settled of a remote one; `InboxInv` that a feed is not ahead of the log.  That a message
comes after the one before it is then a matter of `HandedExactly`: what lies earlier in
the log and after the start of the feed has been handed over.

What is proved of the feed holds of what implements it.  `NnBridgeRefinement` instantiates
`NnFeedProofs` under its refinement mapping (`FeedFacts`), so the feed's theorems become
theorems about the bridge: `InputsInOrder` and `Feed!HandedExactly`, from one network's
writes to another's reads and to what fuzzers take in.

`NnBridgeMessages` proves `PublishedExactly`, `Decodable` and `MonitorExact`.  The hook
tests a message's tag before its kind; that this comes to the kind alone needs to know
which messages bear which tag:

    MessagesInv == Marks /\ PublishedExactly /\ MonitorExact

`Marks` says that a fuzzer's messages have the tag for both sides and no mark of a network, a
connection's are inputs, or garbled, with the mark, and the compression flag of each but the
garbled ones is that of its payload, still on the way from the peer (`up`) as well.  That a publication is the
next of its client, and unchanged, is `Numbered` and `NeverKept` of `CopiesInv`.

`NnFramingProofs` proves `TypeOK`, `InStep`, `DiesInsideBody`, `RetryLosesNothing` and
`AllocatesAnnounced`.  The inductive invariant is

    FrameInv == TypeOK /\ SenderPlace /\ NotAhead /\ ReadBegan
                /\ (~torn => InStep /\ ReaderPlace)

`ReaderPlace` ties the reader's place to the number of messages it has decoded: between
calls it is at the first byte of frame `Len(got) + 1`, in a size or body read it is
`have` bytes into that field.  `NotAhead` says that the reader never passes the sender, which
keeps every frame it looks at one that was sent.

`NnLaunchProofs` proves `TypeOK`, `SeedsApart`, `SeedsSuffice`, `GoodByeMeans`,
`ProvidedCoresUsed` and `ArgsApart`.  The inductive invariant is

    LaunchInv == TypeOK /\ ForkInv /\ HandleInv /\ WaitInv /\ GoodByeMeans
                 /\ SeedInv /\ SetUpInv

`ForkInv` ties the clients to the places the fork loop has passed: the chosen ones among
them, and no others, have a client; with `AllUsable` a place is an id, which gives
`ProvidedCoresUsed`.  `HandleInv` says that a launcher that goes on has a handle for each
client, so that having waited for all handles (`WaitInv`) is having waited for all clients.
`SeedInv` carries the check of the options over to the seed lookup in another process: a
client exists only behind it, and then a chosen core has a seed at its place.  `SetUpInv` is
what a running client's seed and arguments were computed from; two increments of one number differ
because core ids lie within one turn of the modulus (`OneTurn`).  `SeedsApart` needs that the
list of seeds has no repetition: `Unique` is the list of the first places of its numbers in
their order, and a finite set of numbers is told apart by counting up to each of them
(`PlacesAreRanks`: an injection into as many numbers is onto, a fact of the library).

`NnHandshakeProofs` proves `TypeOK` and `SomebodyOwes`.  The inductive invariant is

    HandInv == TypeOK /\ BacklogOwns /\ ServiceOwns /\ JobsOwn /\ PeersOwn /\ IdsFresh

A peer is owed an answer because of where the server's end of its stream is, so the
first three tie every owner of a stream to the owner's own state: the backlog holds
each waiting connection once, the accept loop the one whose request it reads (and none of
those it dropped in a panic), a job one that said hello, a worker one that has an id.  A
connection outside the handshake has no stream (`PeersOwn`), no id is larger than the
last one given out (`IdsFresh`), so the next is new, and an accept packet carries the id of
its peer's worker, so that the peer that reads it learns its own.

The refinement of `NnAdmission`, `Spec => Admission!Spec`, rests on

    RollInv == HandInv /\ RollFull /\ NotToldYet

every id up to the last one given out is some peer's, so that the roll has no empty place, and
a peer inside the handshake has not been told an id, so that it learns one only once.  A
job that reaches the broker appends to the roll (`RollAppends`: earlier places are kept because
ids are not shared), a panic of the accept loop turns several peers away in one step, and
the end of a worker does nothing to the roll.

`NnFuzzersProofs` proves all five invariants of `NnFuzzers`.  `BaseInv` has the types,
`FeedPlaces` (a published position names a test case that was said) and `LoopPlaces` (a
stage's test case is in the corpus).  `EveryTestcaseCounts` is inductive on top of it; each
of the others needs a strengthening:

- `SolutionsAccounted`: `NoCrashAnnounced`, no fuzzer's announced test case crashes, so a
  crash that arrives is a network's;
- `AnnouncesOwnFinds`: `AnnounceInv`, events and own test cases correspond one to one, where
  a test case is a fuzzer's own if it was loaded or has a depth of 2 or more; the depth that a
  stage gives a parent without one is 1, so taking a test case as parent does not make it
  the fuzzer's own;
- `DepthsReported`: `DepthInv`, `max_depth` is one ahead of the number of reports, two
  while one is due.

The three places that evaluate an input are treated once: `Evaluates` is what loading,
mutation and import have in common, `EvaluateOutcome` its three outcomes, and for each
invariant one lemma says what an evaluation does to it.

Assumptions are those of the modules: fuzzers and connections are disjoint, bounds are
naturals, no message encodes to nothing (a postcard-encoded struct has at least one
byte), core ids are distinct and fit `usize`, and what `core_args_config` names are words.
The parsed numbers of `--seed` are naturals (`SeedsAreNumbers`: the code parses `u64`).

Only model-checked are the liveness properties (`EventReachesPeer`, `InputReachesFuzzers`,
`RecvReturns`, `WaitsOnlyFor`, `CoverageConverges`, `ClientsAttach`): fairness and ENABLED are out
of the prover's reach.  Every other property that a passing run checks, the two
refinements included, is a theorem.

## 5. Not modelled

Windows (`fuzz` there is `unimplemented!()`), `nn_slave` (an empty stub),
`RestartingNnEventManager::process` (`todo!()`, never called: fuzzers are launched with
LibAFL's manager), option parsing by clap and `Cores::from_cmdline` (a list of ids to the model), the TUI, LLMP's shared memory, postcard and
gzip themselves.

## 6. Plan

1. The drain of `server.rs` 178 against fuzzers that never stop publishing, which the runs
   bound: an abstract producer without a bound and a cursor modulo the distance.
2. LLMP pages and the missing `await_restart_safe` of `NnConnector` before its pages are
   unmapped, which needs more of LibAFL than `src/` shows.
3. Fuzzers that LibAFL restarts, once the fuzz loop saves a state before it ends.
4. Proofs: the safety half of the liveness arguments, that is the ranking that fairness
   decreases (positions a worker has still to forward, bytes a call has still to read).
