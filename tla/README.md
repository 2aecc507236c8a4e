# The sdk daemon in TLA+

A verification project for the daemon `sdk` (`src/src/*.c`), which polls an SDK 5.3 unit
over a serial line and publishes its status by SNMP (port 161, UDP and TCP) and by a
small command server (port 32001). Paths below are relative to `src/src/`.

## 1. The system

One process, three kinds of thread (`sdk.c: main`):

| part | code | state | operations |
|---|---|---|---|
| serial poller | `parser_sdk.c: threading_sdk_serial`, `serial.c: request_port, open_serial_port` | `answer_sdk`, the descriptor, the length of the last answer | every 0.55 s: ask for the status (again until it is answered), parse it, send `word_2` and `word_3` |
| shared status | `external_sdk_53` (`server.c:30`, `parser_sdk.h`) | four numbers, `optical_relay`, `dry_contact[20]` | written by the poller, copied by the agent (`utils.c: get_sdkinfo`) and by the server's workers; no lock |
| agent loop | `mini_snmpd.c: run_snmpd` and its handlers, `utils.c: find_oldest_client` | `g_tcp_client_list` with its `client_t` cells, `g_udp_client`, `g_quit` | `select()`, one UDP packet, one `accept()`, each TCP client read or written, disconnected clients removed |
| MIB and handlers | `mib.c`, `protocol.c: handle_snmp_*`, `snmp`, `utils.c: oid_cmp` | `g_mib` | build, update, find, find the next; GET, GETNEXT, SET, GETBULK |
| packet codec | `protocol.c: decode_*, encode_*` | the packet buffer | BER to a request, a response to BER |
| refresh timer | `mini_snmpd.c:415-432`, `utils.c: ticks_since` | `tv_last`, `tv_sleep` | a full `mib_update` once a second or when the clock went backwards |
| command server | `server.c` | the listening socket, one detached thread per connection | `get_hw`, `get_temp`, ... answered from the shared status |
| start and end | `sdk.c`, `globals.c` | the threads | starts poller and agent, runs the server in the main thread |
| the rest | `linux.c`, `log.c`, the text helpers of `utils.c` | none that matters | system information the MIB does not use, logging |

The parts meet in three places: the shared status (poller -> agent and server), the MIB
(the agent's timer writes it, its handlers read it, in one thread), and the process (an
`exit()` or a fatal signal in one thread ends them all; SIGTERM ends the agent's only).

What is hard here, and what makes each part correct:

* *Agent loop.* Clients are freed while the table is walked and the walk passes over an
  entry after each removal; connections end by FIN, RST or both between two steps of a
  pass; requests arrive in pieces or ahead of the replies; system calls fail. Correct: the
  table points to live cells only, a connection is open in exactly one entry, every
  complete request is answered at most once and in the end answered or hung up on,
  everyone in the backlog is served.
* *Shared status.* Copies race with the writer. Correct: a copy is torn by no more than
  the polls it overlaps, and never goes back in time.
* *Serial poller.* A request has 150 ms, then the next one is sent; late answers stay in
  the tty. Correct: with prompt answers the published status is that of the poll that
  published it; polling never stops.
* *MIB and handlers.* Correct: the answers are those of an ordered set of variables, and
  walks by GETNEXT or GETBULK see every variable once and end.
* *Packet codec.* Sizes are computed by other functions than those that write the bytes;
  size tests are done in `size_t`; integers have a width. Correct: a request is read as its
  sender meant it or refused because it is not supported; a response is BER of exactly
  what was answered, and is refused only if it does not fit.
* *Refresh timer.* It follows the wall clock, which may be set; the copy races with the
  poller. Correct: an answer is a second old at most, never older than one before.
* *Command server.* A connection is handed to a detached thread; descriptors are lost on
  error paths; one `read()` is a command. Correct: one thread for each connection, every
  connection closed unless its peer reset it or its thread could not be made.
* *Start and end.* Three threads share the descriptors and the process's end. Correct: a
  signal ends the agent, whoever gets it.

`PROJECT.json` lists every hazard at its line, with the properties that cover it.

## 2. Modules

| module | models | theorems |
|---|---|---|
| `Snmpd` | the agent loop, its peers and the kernel's queues | `SnmpdProofs` |
| `SnmpService` | what the agent is to its TCP clients; `Snmpd` implements it | `SnmpdProofs` |
| `SnmpMib` | the MIB, `oid_cmp`, the request handlers, a manager | `SnmpMibProofs` |
| `SnmpBer` | the elements of a packet, byte by byte, as the code and as managers read and write them | `SnmpBerProofs` |
| `SnmpCodec` (extends `SnmpBer`) | whole requests and responses: decoding, encoding, managers that write BER | `SnmpCodecProofs` |
| `SdkStatus` | the shared status: one writer, any readers, field by field | `SdkStatusProofs` |
| `SerialPoll` (extends `SdkStatus`) | the serial thread, the tty, the SDK unit | `SerialPollProofs` |
| `MibRefresh` (extends `SdkStatus`) | the refresh timer, the clock, `mib_update` | `SdkProofs` |
| `SdkServer` (extends `SdkStatus`) | the command server's main thread, workers and peers | `SdkProofs` |
| `Sdk` (extends `MibRefresh`, `SdkServer`) | the process: poller, agent's refresh and server together | `SdkProofs` |
| `SequenceLemmas` | facts about sequences, and induction over them, that the proofs use | itself |
| `MCSnmpd`, `MCSnmpMib`, `MCSnmpCodec`, `MCSerialPoll`, `MCSdk` | instances for TLC | |

How they fit together. `SdkStatus` is an abstraction of the serial thread as its readers
see it: `SerialPoll` implements it (`PollerPublishes`), and `MibRefresh`, `SdkServer` and
`Sdk` read it, so that what they show holds with the real poller behind them. `Sdk`
implements `MibRefresh` (`SdkRefreshes`). `Snmpd` has the agent's sockets and clients,
`MibRefresh` its timer and its copy of the status: the two halves of a pass of
`run_snmpd` share no variable but the flag `g_quit`. `Snmpd` knows a packet by its length
and a verdict, `SnmpMib` by its OIDs, `SnmpCodec` by its bytes.

`PROJECT.json` maps every definition to its lines. Definitions called `Bug...` are the
plausible mistakes the properties are tested against: each stands before the definition
it would replace and no specification uses it.

### Snmpd

`pc` is the agent thread's place in its loop, one action per handler or iteration:
`LoopTop`, `Select` (or `SelectInterrupted`, `SelectDies`), `HandleUdp`, one of the
`Accept...` actions, then for each entry `idx` of the table `ClientRead`, `ClientWrite`,
`ClientWriteKilled` or `ClientSkipped`, and for each entry again `CompactRemove` or
`CompactKeep`. The peers' actions interleave with all of them.

* `list` is `g_tcp_client_list`, `heap` the cells `malloc` gave and `free` did not take
  back, `sockfd`/`buf`/`outgoing` the fields of a `client_t` the control depends on.
* A connection stands for its descriptor and its peer. `peer` is `up`, `fin` (it sent
  FIN), `rst`, `abort` (FIN, then RST: the next `send()` raises SIGPIPE) or `closed` by
  the agent. Descriptor numbers reused by the kernel are not a hazard here: the sets
  are filled anew in each pass, and a pass accepts before it closes.
* Bytes come in units. A request is a head unit, with its length and what `snmp()` will
  say of it (`reply`, `ignore`, `reject`, `garbled`), and body units; `ignore`
  has the effect of `reject` here, and the runs have the latter only. `MinPacket` is the
  25 bytes of `snmp_packet_complete`, `MaxPacket` the 2048 of the buffer.
* `FreedAt` keeps the code's leak of the last entry's cell; `AcceptAtLimit` its use of
  the word after the table. What that word holds was read off builds of the source
  (x86-64, gcc -O2, with and without `-fcommon`); each of them ends the process.
* `FD_SET(-1)` for an entry already closed sets a bit outside the set; the outcomes are
  "nothing" and, with the fault `fdset`, the end of the process.
* A reply always fits the socket buffer unless the fault `send` says otherwise. The MIB
  update of each pass changes nothing this module has, and is left to `MibRefresh`.

### SnmpService

The abstract service: connections wait, are taken in the order they came or turned away;
a request may be made on any of them; a reply takes one request off those pending, and
only of a connection that is taken; a connection, or the whole agent, may come to its
end. `Snmpd` maps to it by `waiting <- backlog`, `served <-` the open connections outside
the backlog, `pending <- owed` (complete requests without a reply), `up <-` the agent runs.
There are no buffers, tables, pieces or passes in it: that `Snmpd` implements it says that
none of those ever makes the agent answer a request twice, answer one that was not made,
overtake in the backlog, or answer after a hang-up.

### SnmpMib

`MibBuild` adds the entries as `mib_build` does; `OidCmp`, `MibFind`, `MibFindnext` are
the searches; `HandleGet`, `HandleGetnext`, `HandleSet`, `HandleGetbulk` and `Snmp` turn
a request into a response, a refusal (-1) or nothing (size 0). A manager sends any
request of `Probes` or walks the table from a root of `Roots`. Subids are numbers below
`SubidBase`, compared as the signed `int` the code stores them in. The reference
definitions (`Less`, `After`, `PlaceAfter`) are written from the order of OIDs and from
the comments in the code, without its operators. Encoded sizes are reduced to the number
of variables that fit (`PacketRoom`).

### SnmpBer and SnmpCodec

A manager writes a message of `Messages` in BER, with lengths in any of the forms BER
allows (`Forms`: at least one, two or three bytes); `DecodeRequest` is
`decode_snmp_request` with its element functions, `Result` any response a handler may
leave, `EncodeResponse` is `encode_snmp_response`. The encoder writes from the end of the
buffer backwards and sets a size aside for each part before it writes it: `Place` keeps
both, so that a size that is not the part's leaves stale bytes or damages what is behind.
`Fits` is the test in `size_t`, which a length beyond the packet passes. `IntegerOf`,
`Subids` and `Digits` keep the width of `int` (`IntBytes`). The reference (`Ber...`,
`Expected`) is written from the rules of BER and shares only `Digits`, a number's digits,
with the code's operators. The loops of the code are recursive functions over the bytes
(`Number`, `Subids`), the variables (`Varbinds`, `EncodeResponse`) or the subids
(`OidLength`). What managers send are C strings as communities, OIDs that BER has a first
byte for, with second subids below 40, and messages the buffer holds
(`MessageAssumption`); values and PDU types may be anything.

### SdkStatus and SerialPoll

A field's value is the number of the poll that wrote it. The writer assigns the fields in
the order of `parser_sdk.c:69-94`; a reader copies them in any order (the accesses race).
`SerialPoll` adds where the thread is (`spc`, `asked`), the buffer `answer_sdk` (`ans`, in
two halves), the bytes in the tty, and the unit, which answers when it likes (`Late`) or
never (`UnitLoses`). `shown` remembers what each field was parsed from. `request_port`
ends without a `return` when nothing comes within 150 ms: `WaitTimesOut` lets the caller
find either sign (the builds leave the descriptor there, an "answer"). An answer is taken
to be in the tty completely when `read()` is called, 150 ms after its first byte.

### MibRefresh

`apc` is the agent's place in the part of its loop that concerns the MIB: `top`, `select`,
`ticks` (`ticks_since`), `update` (`mib_update` copies the status field by field and
stores it), `serve` (the handlers). `clock` is what `ticks_since` would return, so it is
relative to `tv_last`; `wait` is `tv_sleep`. `Tick` passes time anywhere in the loop and
`SetClock` sets the clock back or forward, at most `MaxSets` times by at most `MaxStep`.
`age` and `due` are history: the ticks since each poll was completely published, and the
polls that were a `Timeout` old, and what the clock was set back, when the loop woke.
`mib_update`'s search for each entry starts behind the one before; entries are updated in
the order they were built in, so it finds each at once, and is left out.

### SdkServer

A connection is its descriptor and its peer. `spc` is the main thread's place (`accept`,
`blocked` in it, `create`), `wpc` that of each worker. A peer sends one command, whole or
a piece first, and ends by FIN, RST or both. `WorkerRead` takes what has come for a
command: `Buffer` says whether it is replaced by a value, sent back, or empty.
`WorkerReadFails` and `WorkerWriteFails` are the exits without `close()`: their
descriptors go to `lost`, as do those of threads that could not be made (`CreateFails`).
`InUse` counts the descriptors against `Descriptors`: `accept()` without one ends the
process. `WorkerLoad` reads the status field by field: the mutex is held around nothing.

### Sdk

The three threads over one status and one set of descriptors. `Serial` is the writer of
`SdkStatus`; the agent is `MibRefresh` with `AgentSockets` (descriptors its clients take)
and `AgentEnds` (the ends `Snmpd` has); the main thread is `SdkServer`. `dead` ends all of
them. A signal stops the agent only. `Budgets` are sets of bounds, one of which a
behaviour keeps to: the threads' interleavings are explored without their product with
everything that could come from outside.

## 3. Runs

| run | asks | bounds |
|---|---|---|
| `MCSnmpdTable` | is the client table sound while peers come and go and calls fail? | 4 connections, table of 3: enough for two removals in one pass, an entry passed over between them, and a full table with more waiting |
| `MCSnmpdRequests` | what becomes of each request, fragmented, pipelined, or with the peer gone? | 2 connections, requests of 3 units, buffer of 4, two requests ahead: a request in two pieces on both sides of the 25-byte test, and two that overflow the buffer; requests that are answered, refused whole, or refused at the header |
| `MCSnmpdProgress` | does everything that must happen happen, under a fair agent thread? | 2 connections, whole requests one at a time, answered or refused, and a UDP packet |
| `MCSnmpCodec` | is a packet read and written as it is meant? | `int` of 3 bytes (a TLC number has 32 bits), packets of 300 bytes, lists of 3 OIDs, communities below 64 bytes; every integer and subid at an edge of its length, every form of length, responses of every size around that of a packet |
| `MCSdk` | do the threads keep their promises to each other and to their peers? | 2 fields, second = 2 ticks, clock set once by up to 2 ticks, 3 descriptors; four budgets: two connections of the server at once; one while two polls are published; two polls and a clock that is set; a connection, two clients of the agent and a signal |
| `MCSnmpMib` | are the answers those of the ordered set of variables? | the 30 real variables and limits (16, 128), prefixes cut to where they differ; OIDs of up to 4 subids, lists of up to 4 OIDs, repetitions -1 to 40, non-repeaters -1 to 3; `SubidBase` 256 |
| `MCSerialPoll` | what do readers of the status get, and does polling go on? | 2 polls, 2 fields (one from each half of the answer), 1 reader, 2 requests pending, 1 failure of any kind |
| `MCSnmpdAtLimit` | *violated*: "overwrite the oldest one" (`mini_snmpd.c:122`) | table of 2, 3 connections |
| `MCSnmpdFragments` | *violated*: "whether the packet was fully received" (`mini_snmpd.c:218`) | one request in two pieces |
| `MCSnmpdRecvFault` | *violated*: the warning is for packets not received (`mini_snmpd.c:57`) | one failed `recvfrom()` |
| `MCSerialLate` | *violated*: without an answer the thread asks again (`parser_sdk.c:60`) | one late answer |
| `MCSnmpMibLarge` | *violated*: "the one after the given one" (`mib.c:597`) | subids from half of `SubidBase` on |

What the passing runs show. `TableSound`, `SocketOwnership`: no use after free, no
descriptor leaked, shared or closed twice, in every interleaving of peers and handlers.
`FullMeansLive`, `ZombieBound`, `ZombiesGo`: the entry the removal loop passes over is
harmless for the table's capacity; at most half of it is such entries, never when it is
full, and each goes in the end. `ReplyConservation`, `RequestsSettled`: a
complete request is unread, buffered or being answered, and a peer that sends requests
one at a time gets an answer or a hang-up. (A peer that pipelines may wait: two requests
in one buffer are never complete. The runs with `Pipelines` therefore check no liveness.)
`HangUpForCause` holds for whole requests and fails for fragmented ones. `BacklogServed`:
clients cannot starve `accept()`. `UdpServed`: nor can they starve the UDP socket, which
shares their thread. What becomes of a packet then is in `MCSnmpdRecvFault`.
`PromptShown`, `PollsGoOn`, `SnapshotWindow`, `SnapshotsAdvance`: see section 1; the two
on copies need nothing of the serial thread's timing, `PromptShown` needs every answer
to have been in time. `GetIsExact`, `NextIsSuccessor`, `BulkIsRepeatedNext`,
`WalkIsComplete`, `WalkMoves`: the handlers agree with their reference.
`ImplementsService`, in `MCSnmpdProgress`: the agent implements `SnmpService`.
`ReadAsMeant`, `WholeIsComplete`, `AnswerAsMeant`: the codec agrees with BER.
`MibFresh`, `MibAdvances`, `MibCatchesUp`: what is answered is at most a second old
(longer by what the clock was set back while that second ran, which no timer on the wall
clock can see), does not go back to an older value, and follows the poller without any
request. `ServedOnce`, `LostForCause`, `ReplyRecent`, `CommandsSettled`: each connection has
one thread, which works on it and nothing else; a descriptor nobody closes is an open
connection's, whose thread gave it up after a reset or which got none because
`pthread_create()` failed; a command's answer is no older than the command, and every command is
answered in the end or its connection lost. `SignalStopsAgent`: also when another thread
gets the signal, by the end of the agent's time-out.

Deadlock is checked in `MCSnmpCodec`, where there is always another request. Elsewhere
(`CHECK_DEADLOCK FALSE`) the system may stop: the agent ends on SIGTERM, the process on
other things, peers open each connection once, polls are bounded, and a manager may have
nothing to ask.

Symmetry is used for connections and cells where only invariants are checked.

Fairness. `FairSpec` assumes the agent thread runs (`WF_vars(Agent)`): `select()` has a
time-out and no call after it waits (a UDP send has `MSG_DONTWAIT`; TCP is written to only
when `select()` allows it). Peers owe nothing. `SerialFairSpec` assumes the same of the
serial thread, which only sleeps and waits with a time-out, and that the unit answers in
the end each request it does not lose. Without the latter a silent unit keeps the thread
asking for ever, as the code means it to. `SdkFairSpec` assumes that time passes, and that
the agent, the main thread and each worker run when they can: `accept()` and a worker's
`read()` wait for their peers as long as those like, and `select()` in the agent ends by its
time-out (`SelectTimesOut` is in `Agent`, a request that ends it earlier, `SelectReady`, is
owed by nobody).

## 4. Proofs

Every theorem is for any values of the constants that satisfy the named assumptions, which
are those of the modules and no more.

**The agent** (`SnmpdProofs`, from `ConstantsAssumption`: any connections, cells, table
size, packet size, requests and faults).

* `AgentCorrect`: `Spec => []AgentInv`; its consequences `AgentTypes` (`TypeOK`),
  `AgentTable` (`TableSound`), `AgentSockets` (`SocketOwnership`), `AgentFullTable`
  (`FullMeansLive`). `AgentInv` adds to the properties what makes them inductive: what
  `select()` reported is still there (`ReadySound`), the backlog holds open connections
  once each (`BacklogSound`), and a removal loop over a full table has removed nothing
  yet, so that what is behind it is connected (`CompactedLive`). The proof goes action by
  action: types, the table, the full table, then the sockets by the kinds of change
  (nothing moves, connect, accept, drop from the backlog, close).
* `AgentZombies` (`ZombieBound`). The strengthening is `PassedBound`: in a pass there are
  no more entries passed over than places freed, so at its end both they and the rest of
  the table bound them, by half of it.

**Its service** (`SnmpdProofs`, from the same). The stream of a connection is its client's packet
buffer followed by what the kernel holds unread.

* `AgentReplies` (`ReplyConservation`). Counting alone is not inductive: that what
  `snmp_packet_complete` finds complete is exactly one request needs to be known. The
  strengthening `StreamInv` says of each stream that it is one request behind the other,
  the last one short of what its sender still has to send (`Framed`), that what is owed
  on the connection is the heads in it without the one begun, and one more while a reply
  waits (`Held`), and that a client in outgoing mode has an empty buffer. Lemmas first:
  heads of a concatenation, a stream that grows at its end by a request or by the rest of
  one, a stream that loses its first request; then each action by its effect on streams
  (`SendStreams`, `KeptStreams`, `WriteStreams`, `HangUpStreams`, ...).
* `AgentServes`: `Spec => ImplementsService`, the refinement of `SnmpService`. A reply is
  a step of the service only if a request is pending: that is `StreamInv` again.

* `AgentHangsUp` (`HangUpForCause`), from `PatientPeers`: requests come whole and one at a
  time, those that deserve a reply fit the buffer, and `accept()`, `FD_SETSIZE` and
  `send()` do not fail; `MCSnmpdFragments` shows what pieces do. The strengthening
  `PatientInv`: a connection is owed one reply at most (`OneAtATime`), so that its stream
  is one request or nothing (`OneRequest`); a packet buffer that holds anything holds all
  of it (`NothingBehind`), and so is empty when more comes; and what `select()` reported
  as readable is so until its client's turn comes (`StillReadable`), as only the turn
  itself takes anything away. Hence `read()` never comes back empty from a peer that is
  still there, and what it gets is one request, to be judged by its verdict.

**The shared status and its writer** (`SdkStatusProofs`, `SerialPollProofs`, from
`StatusAssumption`).

* `StatusCorrect`: `StatusSpec => []StatusInv`. A copied field is compared with the struct
  (`snap <= status`), the struct with the polls (`WriterInv`: fields before the next one
  are of the poll being written, the others of the one before).
* `PollerPublishes`: `SerialSpec => StatusSpec`; hence `CopiesAreRecent` and
  `CopiesAdvance`, both copy properties of the whole `SerialSpec`.
* `SerialCorrect`: `SerialSpec => []SerialInv` (from `SerialAssumption` too), with
  `SerialTyped` (`SerialTypeOK`) and `PollsShown` (`PromptShown`). `PromptShown` alone is
  not inductive: an answer left in the tty by an earlier exchange would be parsed in the
  next. `LinePrompt` says that, without a miss so far, the unit and the tty hold nothing
  but what is asked for now, `AnswerPrompt` that the buffer, when it is parsed, is the
  whole answer to it. A miss frees both for good, as in `MCSerialLate`.

**The refresh** (`SdkProofs`, from `RefreshAssumption`: any fields, polls, time-out,
and any setting of the clock within its bounds).

* `RefreshReads`: `RefreshSpec => StatusSpec`, so that `StatusInv` is there to build on.
* `RefreshCorrect`: `RefreshSpec => []RefreshInv`; `RefreshFresh` (`MibFresh`) and
  `RefreshAdvances` (`MibAdvances`) follow. `RefreshInv` relates time to polls: a poll
  that is not in the MIB is younger than the clock with what it was set back (`Young`),
  the clock lags by no more than what it was set back (`ClockSound`), what is due is what a full update
  in progress is going to copy (`DueSound`), and the MIB holds what the agent copied
  (`MibSound`).

**The process** (`SdkProofs`, from `ServerAssumption` and `BudgetsAssumption` in addition:
any connections, threads, commands, descriptors and faults).

* `SdkRefreshes`: `SdkSpec => RefreshSpec`; `SdkFresh` and `SdkAdvances` carry the two
  refresh properties over.
* `SdkCorrect`: `SdkSpec => []SdkInv`, with `SdkTypes`, `SdkServed` (`ServedOnce`),
  `SdkLoses` (`LostForCause`) and `SdkReplies` (`ReplyRecent`). `ServerInv` shares out the
  accepted connections among the workers, the one in the main thread's hand and the lost
  ones, each of which had a thread and was reset or had none (`Sharing`), and bounds below what a worker has loaded and what it can still load
  (`LoadSound`).

**The MIB** (`SnmpMibProofs`, from `MibAssumption`, `TablesAssumption` and
`RequestAssumption`: any tables under ascending prefixes of which none begins another,
with any columns and rows, any decoded requests, any roots, any packet room).

* `GetsExact` (`GetIsExact`) and `MibTypes` (`TypeOK`) need no more: `MibInv` says that
  the table is what `mib_build` made of it, with no OID twice, and that what is answered
  was found in it for the request that was asked.
* `NextsAreSuccessors` (`NextIsSuccessor`), `BulksRepeatNext` (`BulkIsRepeatedNext`) and
  `WalksMove` (`WalkMoves`), if the subids the managers send are below half of `SubidBase`
  (`SmallProbes`, `SmallRoots`): there `OidCmp` is the order of OIDs, while from that half
  on it is not, as `MCSnmpMibLarge` shows. The table ascends, because its prefixes do and
  because columns and rows are counted up; so the first entry `MibFindnext` finds to be
  greater has the place that is one more than the number of entries not greater. GETBULK
  repeats that round by round: its rounds are the values of a recursive function, and the
  proof goes by induction over them. (The library's induction theorems take an operator,
  which no installed prover instantiates; `SequenceLemmas` has the one used here,
  `InductionOnNat`, over sets, from the least element of a well-founded order.)
* `WalksAreComplete` (`WalkIsComplete`), if besides an answer to GETNEXT or of one
  repetition has room in a packet (`WalksFit`; the agent refuses it otherwise, and the
  walk ends early). `WalkInv` and `FullInv` say that what a walk has got so far is,
  without a gap, the entries after its root, and that the next request asks for the last.

`MCSnmpMib` satisfies all four hypotheses.

**The codec** (`SnmpBerProofs`, `SnmpCodecProofs`, from `BerAssumption`, `CodecAssumption`,
`MessageAssumption` and `ResultAssumption`: packets of any size below 65536, an `int` of
any width, any limits, any messages and any results).

* `SnmpBerProofs` has the elements. Arithmetic first: the digits of a number, however many,
  give it back (`DigitsNumber`), also from two's complement. Then `ElementIsRead`: where an
  element stands in a packet, its header is found whatever is around it, in each form of its
  length; `IntegerIsRead` and `OidIsRead`: its value is what was written. For an OID this
  is an induction over the bytes of a subid, with the subids before it and after it. For
  the encoder, each size (`IntegerLength`, `OidLength`, `HeaderLength`) is the number of
  bytes its part is written in, so that `Place` puts the part before what is there, leaves
  nothing stale and damages nothing, or refuses for want of room.
* `CodecTypes`, `RequestsAreRead`, `AnswersAreWritten`, `WholePacketsAreComplete` are the
  four invariants of `MCSnmpCodec`. `AnswerAsMeant` alone is not inductive: the sizes of the
  OIDs in a request come from its decoding, and those of other results from the MIB.
  `CodecInv` says of each stage what it hands on: that the packet is what was sent, that
  the request is what decoding makes of it (so `ReadAsMeant` holds, its OIDs have the sizes
  of their shortest encoding, and unsupported messages are refused, each at the element that
  makes it so), and that each variable to be encoded has the size of its OID.
* The loops are inductions: over the variables of a message for decoding, where the state
  after each is at the end of its binding, and backwards over those of a response for
  encoding, where the buffer holds BER of all variables from there on.

Induction over data is done here as for GETBULK, by `InductionOnNat` over sets; a loop is a
recursive function, and `SequenceLemmas` (`LoopExists`, `FlattenLoop`) has what the
community modules' folds need.

Only model-checked: all liveness (and with it fairness, `ENABLED` and the temporal
properties of `FairSpec`, `SerialFairSpec` and `SdkFairSpec`), which is out of the proof
system's reach: `ZombiesGo`, `RequestsSettled`, `BacklogServed`, `UdpServed`, `PollsGoOn`,
`MibCatchesUp`, `CommandsSettled`, `SignalStopsAgent`.

## 5. Not modelled

* `linux.c` (system information the MIB does not use), logging, the debug dumps, the line
  settings of the serial port, IPv6 and binding to a device (constant in this program).
* Start: a socket, `bind()`, `listen()` or thread that fails when the daemon starts ends
  it, or leaves the other parts running without that one, before any of the states here.
* `gettimeofday()` failing; the search inside `mib_update_entry` (see `MibRefresh`); the
  other value types of `mib_build_entry`, which no entry has; the MIB's own overflow,
  which 30 entries of 128 do not reach.
* Requests that are not BER: a length beyond the packet, subids padded with zero septets
  (their size in the response is that of the request, their bytes are not). Duplicated,
  or lost, UDP datagrams: the agent keeps nothing between two of them but what `wedged`
  has, so they are just fewer or more.
* `read()` of 56 bytes into 55 (`serial.c:215`), a two-character buffer without terminator
  given to `strtol()` (`parser_sdk.c:68`), a command of 256 bytes without terminator
  (`server.c:45`): bytes of neighbouring variables are not part of the models' states.
* `optical_relay` is never written, so `get_optical` answers an empty string (`server.c:73`).
* The process after SIGTERM: the agent ends (`SignalStopsAgent`), the other threads and the
  process go on, although `mini_snmpd.c:467` says "We were killed, print a message and
  exit"; the models have it so and no property says otherwise.

What could be added: conforming managers replaced by arbitrary bytes in `SnmpCodec`.
