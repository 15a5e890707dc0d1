# A TLA+ verification of PTPd for Click

The repository packages PTPd v2, an ordinary clock of IEEE 1588-2008 written
in C, as an element of the Click router. `PTPd2PackageElement::initialize`
calls `ptpdStartup` and then `protocol()`, which loops for ever: everything the
clock does happens in that one thread, interrupted only by SIGALRM.

## 1. Inventory

| Component | Source (`src/package/`) | State | Operations | Correct when |
|---|---|---|---|---|
| Interval timers | `timer.cc` | `itimer[5]` (interval, left, expire), the global `elapsed` | `timerStart`, `timerStop`, `timerExpired`, `timerUpdate`, `catch_alarm` (SIGALRM) | the timers that run are those of the port's state; expiries are neither lost nor seen by the wrong state |
| Port state machine | `protocol.cc` | `portState`, `message_activity`, `record_update` | `protocol`, `doInit`, `doState`, `toState`, `handle`, `handleAnnounce`, `addForeign` | faults lead to re-initialisation, silence to MASTER, a better master to SLAVE or PASSIVE |
| Best master clock | `bmc.cc` | foreign master table (ring with a write index, a count and the index of the best), parent and grandmaster data set | `initData`, `m1`, `s1`, `copyD0`, `bmcDataSetComparison`, `bmcStateDecision`, `bmc` | it compares only what was announced, follows the best of it, and the data set is what the parent said |
| Peer delay (P2P) | `protocol.cc`, `servo.cc`, `net.cc` | sequence counter, last request header, four time stamps | `issuePDelayReq/Resp/RespFollowUp`, `handlePDelay*`, `updatePeerDelay` | a delay is computed from the stamps of one exchange |
| End-to-end delay, Sync | `protocol.cc`, `servo.cc` | sequence counters, `delay_req_send_time`, `delayMS`, `meanPathDelay`, `offset_first_updated` | `handleSync`, `handleFollowUp`, `handleDelayReq`, `handleDelayResp`, `updateOffset`, `updateDelay` | offset and delay use messages that belong together, of the present parent |
| Clock servo | `servo.cc` | two filters, `observed_drift`, the clock and its rate | `updateOffset`, `updateDelay`, `updatePeerDelay`, `updateClock`, `initClock` | nothing overflows, the clock ends up right, its skew is learnt |
| Time arithmetic | `arith.cc` | none | `addTime`, `subTime`, `divTime`, `normalizeTime`, conversions | equal to exact arithmetic over its range, results normalised |
| Messages | `msg.cc` | one output and one input buffer | pack and unpack | a field written is the field read; nothing of the previous message stays |
| Network | `net.cc` | two sockets | `netInit`, `netSelect`, `netRecv*`, `netSend*` | event messages are read first, errors are reported |
| Startup, system, display | `startup.cc`, `ptpd2pack.cc`, `sys.cc`, `display.cc` | allocation, files | | |

How they interact: `doState` calls `handle` (one message per round), `bmc` and
the issuers; handlers change `portState` through `toState`, which starts and
stops timers; messages of the master and of the delay mechanism feed the servo.
All of it shares the one `PtpClock`. The behaviours that are hard: the SIGALRM
handler between any two steps; expire flags that outlive the timer they belong
to; faults in the middle of a round; a table whose indices are reset
separately; Announces that race the receipt timeout; exchanges of three or four
messages on two sockets that include the port's own copies; counters that wrap;
the clock set while time stamps of the old time scale are in variables and
sockets; a change of parent that clears nothing measured against the old one.
`PROJECT.json` lists them with the line where they bite (`hazards`).

## 2. Modules

| Module | builds on | checked by | proofs |
|---|---|---|---|
| PortEngine | Timers, BestMaster | MCPort, MCPortLive | PortEngineProofs |
| PortHistory | PortEngine, INSTANCE of OrdinaryClock, the specification it implements | MCPort | PortEngineProofs |
| ForeignScan | BestMaster | MCForeignScan | ForeignScanProofs |
| BestMaster | | (by those above) | BestMasterProofs, used by both |
| PeerDelay | | MCPeerDelay | PeerDelayProofs |
| SyncExchange | INSTANCE of TwoWayTime, the specification it implements | MCSyncExchange | SyncExchangeProofs |
| Servo | TimeArith | MCServo | ServoProofs, TimeArithProofs |
| Messages | | (proved only) | MessagesProofs |

(`PortInstances` holds the messages and options MCPort and MCPortLive use.)

* **Timers** - `timer.cc` as pure operators on a timer array. The unit is the
  tick of SIGALRM. `timerStop` clears the interval only; `timerUpdate` hands
  the counted ticks to every timer, reloads and drops the excess.
* **BestMaster** - the pure part of `bmc.cc`. An Announce is what the algorithm
  reads of header and body. Clock identities are numbers in `memcmp` order.
  `Ranks` and `Before` are the order of the standard's figure 27, against which
  the comparison is judged; `Agree` says that a set of clocks describes each
  grandmaster alike and has one variance (others the code cannot tell apart).
* **PortEngine** - `protocol()`, `doState`, `toState`, `doInit`, `initData`,
  `handle` and `handleAnnounce`, `addForeign`, `bmc`. `pc` names the places in
  `doState` where the code reads `elapsed` or waits for a message, since only
  there can a tick or a message come between; the code from one place to the
  next is one action:

  | `pc` | what the code does there |
  |---|---|
  | `protocol` | head of the loop: `doInit`, or the state decision of `doState` |
  | `actions` | FAULTY: initialise again; waiting states: `handle`; MASTER: the Sync timer |
  | `announce`, `pdelayreq`, `handle`, `demote` | the rest of MASTER's round |
  | `receipt`, `delayreq` | the two timers after `handle` in the waiting states |
  | `returned` | `netInit` failed: `protocol()` has returned |

  `handle` is split by outcome: nothing to read, a receive error or short
  message (FAULTY), an Announce from parent, from another master, or in a state
  that only files it, a DelayResp (it sets a timer's length), and any other
  message. `catch_alarm` may happen between any two steps. Sends do not fail
  here: `netSend*` return -1 on error and the issuers test for 0.
* **PortHistory** - PortEngine with three variables the code does not have
  (what was received, the last Announce of each sender since initialisation,
  the last sender), to state what the data set has to do with the messages.
* **OrdinaryClock** - what a port promises, without table, timers and places in the
  program: it plays a role and holds the data of one clock, its own when it leads
  and one claim it heard when it follows; the data changes with the role, by a
  decision, or when a slave's parent announces itself anew. PortHistory is shown to
  implement it, with the data a port would adopt (`s1`) from what it received for
  the claims heard. It says no more than the code keeps: a claim stays heard over a
  re-initialisation (see **stale_record**), and a port may come to lead, or to
  listen, straight from a fault (see **fault**).
* **ForeignScan** - the loop of `bmc` one comparison at a time, from every
  table over a set of records, against the order that figures 27 and 28 of the
  standard define (`Better`). When the loop is done `Adopt` makes the sender of
  the best record the parent, as `s1` does, and the loop runs again: every
  Announce calls for a decision, on a table that may well be the same, and the
  comparison asks who the parent is. PortEngine takes the loop in one step.
* **PeerDelay** - the three messages of the peer delay mechanism between ports
  that all run this code, with their own looped back copies, the two sockets
  and a wire that delays and loses. A time stamp is named after the exchange
  it was taken in. `portState` is fixed in a behaviour.
* **SyncExchange** - `handleSync`, `handleFollowUp`, `handleDelayReq`,
  `handleDelayResp` and their issuers, from the point of view of one port among
  masters that run the same program and a slave whose exchanges it overhears.
  Here the state of the port and its parent do change: becoming slave, passive,
  master or listening and re-initialisation are actions that happen at any time
  PortEngine lets them, with what `s1`, `m1` and `initData` clear (the delay and
  the offset, or nothing) and what they leave (`delayMS`, the send time, the
  counters). Numbers are described, not computed: `delayMS` by the master whose
  Sync gave it, the send time by whether it is the last request's, a waiting
  message by the masters whose Syncs have set the clock since it was received
  (`voidedBy`), since `SetClock` (updateClock with an offset of a second or more)
  voids all three. Several Syncs of one sender may wait in the event socket.
  `Accepted` is the test of `handleDelayResp`; that `sentDelayReqSequenceId - 1`
  is an int is kept.
* **TwoWayTime** - what such a slave promises, without messages, sockets and
  numbers: a delay is half of the way from the parent and half of the way back
  to it, both on one time scale, or it is about no master. It admits that Syncs
  of the parent, stamped before one of them set the clock, are still to come
  (`stale`) and are taken all the same, setting the clock again; but before any
  answer is taken, and before another parent. SyncExchange is shown to implement
  it; the refinement mapping takes as the last request's sending time either the
  stamp or the own copy that still waits to be read, and as `stale` what waits in
  the event socket.
* **TimeArith** - `arith.cc`: `normalizeTime`, `addTime`, `subTime`, `divTime`
  with C's division, the conversion to `uint64_t` and the narrowing to Integer32.
  The length of a second and the spans of the integer types are constants.
* **Servo** - `servo.cc` in the loop with the clock it adjusts. State: how far
  the clock is ahead (`error`) and how much it is set to gain (`freq`), the
  filters, the accumulator, and the stamps of the exchange under way. Actions:
  a Sync (`updateOffset`, `updateClock`), the steps of either delay mechanism
  (`updatePeerDelay`, `updateDelay`), an interval of time, and the faults: a
  Sync lost or held up, an answer lost, a leap of the master's time, an
  excursion of the port into another state and back, which voids the P2P stamps
  (`toState`) and may zero delay and offset (`m1`, `initData`). That adjtimex
  gets 65 instead of 65.536 units per ppb is kept as a gain of one less
  (`Gain`); that `setTime` drops what is less than a microsecond, too.
* **Messages** - `msg.cc`: the 300 octets of `msgObuf`, which all eight messages
  are packed into, one over the other. One action per issuer, of which only the
  packing is here; `Put` is `memcpy` or an assignment through a pointer into the
  buffer, `Get` its counterpart. FollowUp and Announce do not clear the
  correction: `CorrectionWasReceived` says what it can be, `TimestampArrives`
  and `AnnouncementArrives` that they carry the previous message's.
* ***Proofs** - the theorems of section 5.

Operators named `X_something` next to an operator `X` are wrong variants of it,
a plausible bug each. For every property of a passing run one of them, put in
the place of `X`, makes TLC report that property (`mutants` in `PROJECT.json`):
that is the evidence that the property depends on the code.

## 3. Runs

Passing:

* **port** (MCPort.cfg, 2.3 million states) - all safety properties of PortEngine
  and PortHistory. Three other clocks: a better one, a worse one, and one that
  differs from the port in variance only; a table of two records, so that it
  overflows and evicts; four option sets (as shipped, `-h -g`, class below 128,
  class 255), because `toState`, the decision and the demotion branch on just
  these. Timers of 1 to 3 ticks expire in every order relative to each other;
  one tick may pile up (`MaxElapsed`); expiries collect in the flags until they
  are tested, so several timers expire together with single ticks as well.
  - `TimersMatchState`: running timers are a function of the state.
  - `MasterOwnsDataSet`: a master names itself, whatever made it master.
  - `BmcReadsAnnouncedRecords`: `bmc` never reads a slot nobody wrote. The
    count and the write index are reset at different times, so this is a fact
    about whole histories.
  - `ParentIsRecorded`: after a decision, a follower's parent is in the table.
  - `FollowsGenuineAnnounce`: a follower's data set comes from ONE Announce it
    received.
  - `DecidesForBestGrandmaster` (of steps): a state decision among clocks that
    agree ends with a grandmaster that none of them outranks.
  - `ImplementsOrdinaryClock`: the refinement. It fails, where the properties above
    do not, if a slave takes the data of whoever announces itself (mutant).
* **port_live** (MCPortLive.cfg, 0.2 million states) - `ListeningEnds`,
  `FaultIsLeft`, `SettlesWhenSilent` (no more Announces, no more faults: MASTER
  for good, or LISTENING if it may not be master) and `MasterKeepsAnnouncing`.
* **scan** (MCScan.cfg, 1.1 million states) - all tables of three records out of
  45 (five grandmasters, three senders, three path lengths), two records of one
  sender included; the port's parent is at first among the senders or is not.
  The loop runs up to three times on each (`decisions` counts to two). Three
  records are what transitivity needs, and what a cycle would.
  - `ScanFindsBest`: without the parent among the senders, the loop ends with a
    record no other is better than; `ComparisonIsAntisymmetric`.
  - `ElectsBestGrandmaster`: with the parent among them, it may end with another,
    but not with a worse grandmaster, nor a path more than one step too long.
  - `ElectionSettles`: the detour is taken once. On a table of one record per
    clock the third decision, and each after it, keeps the parent.
* **peer** (MCPeer.cfg, 0.4 million states) - two ports, the pairs of roles that
  behave differently, three sequence numbers so that the counters wrap, one
  message lost. `SendTimesBelongTogether` holds in spite of the loss,
  `UndisturbedStampsBelongTogether` without, `KeepsMeasuring` is the liveness.
  A new request waits until nothing of the port's previous exchange is under
  way: requests are two seconds apart.
* **sync** (MCSync.cfg, 1.0 million states) - two masters to choose from, a
  stranger, three sequence numbers. Five environments, one nuisance each:
  masters' Syncs, of one or of both, that pile up in the event socket while a
  request is lost or its answer comes twice; answers later than the next request;
  FollowUps and DelayResps meant for others; a port that serves as master in
  between, and one that lags behind its own Syncs when it does. The parent changes
  and the clock is set in every state in which they can.
  - `NoSyncAcrossMasters`: no Sync that was received before ANOTHER master set the
    clock is taken for an offset. Nothing discards such messages: it holds because
    a parent is only acquired by an Announce, which is read after the event
    socket, so that the backlog left by one parent is gone before the next. A
    backlog of the parent itself is not gone: see below.
  - `FollowUpNamesItsSync`: the number of a FollowUp, taken from a counter that
    has moved on, is that of the Sync that came back, across changes of state,
    re-initialisations and the wrap - for a port that has read its copy of a Sync
    before it sends the next. In the environment that lags it is not (see below),
    and the other properties hold all the same.
  - `ImplementsTwoWayTime`: the refinement. It fails if `handleDelayResp` does
    not compare the number (mutant): a late answer meets a newer send time.
  - `Recalibrates` (liveness): a port that is left alone uses, in the end, only
    what was measured against its present parent, in spite of the request
    whose answer is refused each time the counter wraps.
* **servo** (MCServo.cfg, 1.6 million states) - a second of 500 ns, an Integer32
  of 11 bits, a time of day of a twelfth of its seconds, so that all times fit (of
  larger ones, see **until_2038**), and six circumstances: seconds ahead or behind, either mechanism, a
  path of half a second's order, a large skew with a limit on the delay; each
  with the faults that could hurt there, one per behaviour.
  - `TypeOK`: rates are ones adjtimex takes; the filtered offset is below a second.
  - `FilterFits`: the product in the delay filter never overflows.
  - `SecondsTellSize`: an offset has seconds exactly if it is a second or more;
    servo.cc decides between stepping and steering by just that field.
  - `NeverWorse`: P2P, no voided stamps: the servo never increases the error
    beyond what it was given, though it may step the clock by a delay measured
    across the previous step, which is wrong by half of it. How much it allows
    for steering (`Residue`) is what small skews and offsets of these proportions
    need: with the shipped gains a skew of 100 ppm takes a clock about 1 ms off
    before the accumulator knows it.
  - `OnlySteered`: a slave nearby (`NearBy`) that loses messages or gets them late
    is never set, whatever the rate overshoots.
  - `StaysNear`: nor does its clock start to swing. It gets no farther off than it
    was, or than `FullRate` (the offset that is met with the full rate whatever
    the accumulator holds: `2 * ap * ADJ_FREQ_MAX`, 10.24 ms as shipped) and what
    an interval and each fault add. A slave is nearby if these bounds leave it
    room in a second, or in `maxDelay` (`HasRoom`): two of the six are.
  - `DelayWithinPath`: the filtered P2P delay of a slave nearby lies between zero
    and the path's.
  - `SetsAsMeasured` (of steps): a clock that is set is then wrong by the error
    of the delay it was set with, and the microsecond `setTime` drops.
  - `Settles`, `LearnsSkew` (liveness): in the end the error is below `Residue`
    for good and the accumulator is the skew, to the resolution of the controller,
    if all times fit (`TimesFit`), as they do in this run.

Disagreements between the code and what it says of itself (`findings`), each a
run that ends in a counterexample:

* **fault** - a FAULTY port may become MASTER without initialising: `timerStop`
  leaves the expire flag, and `doState` looks at it after `handle` failed.
* **parent_data** - a parent's Announce updates the data set but not the table;
  the decision that follows copies the old record back.
* **stale_record** - re-initialisation empties the table by count only; with the
  next Announce an old record counts again.
* **silent_parent** - any master's Announce restarts the slave's receipt timer
  and records do not age: a silent parent is followed for ever. (Checked with
  the fairness below.)
* **peer_mix** - a port takes its own looped back follow-up for the other's.
* **until_2038** - the program is to run until 2038 (arith.cc:136), when seconds
  no longer fit an Integer32. With the time of day at four fifths of the span of
  these seconds, where it is today, a port that becomes SLAVE in the middle of a
  peer delay exchange (the stamps it has taken are zeroed) takes half the time of
  day for its delay, and the time that `updateClock` computes to set the clock by,
  one and a half times the time of day, does not fit. `TimesFit` is about every
  time and difference of times the port keeps.

Texts and oddities without a run of their own:

* The comparison says `"Sender=Receiver : Error -1"` (bmc.cc:202, 210) where it
  compares the sender with the port's PARENT. So a record one step farther away
  ties with a nearer one exactly if the current parent sent it. So with the parent
  among the senders the comparison is not transitive: the loop may end with a
  sender that another one in the table beats, which the next decision leaves.
  `ScanFindsBest` speaks of tables without the parent, `ElectsBestGrandmaster`
  and `ElectionSettles` of what is left with it.
* After a re-initialisation, which leaves the old records in the ring, a clock
  may have two records that count. If they differ in path length and the clock
  is met again in the right place, the masters alternate with every decision, for
  as long as neither record is updated: slots [clock 3, one step], [clock 3, no
  step], [clock 1, one step] of one grandmaster. `ElectionSettles` excludes it by
  `OneRecordPerClock`.
* A backlog of the parent's Syncs sets the clock more than once: the second was
  stamped before the first set the clock, its offset is as large as the first's,
  and updateClock (servo.cc:287-290) applies it again, since it looks at neither
  the stamp nor the socket. The clock is then off by as much as it was, in the
  other direction, until the next Sync. `TwoWayTime` says so (`TakeStaleSync`): it
  is about no master, and what is measured against it neither.
* A master that sends a Sync while its copy of the last one waits gives both
  FollowUps the number of the second: msgPackFollowUp takes the counter less one
  (msg.cc:173) when the copy is read. Slaves of this program ignore FollowUps.
* The branch of the comparison for "offsetScaledLogVariance are not identical"
  (bmc.cc:256) compares the classes, which are equal at that point: two clocks
  that differ in variance (and in anything after it) compare equal, although the
  comparison is to "return similar to memcmp()" (bmc.cc:180-181), and if one of
  them is the local clock bmcStateDecision falls through to FAULTY
  (bmc.cc:342-344). BestMaster has it as it is, **port** one such clock; `Agree`,
  on which the properties of elections rest, excludes it.
* No code of the package sets `E2E_mode`; `memset` leaves it FALSE. DelayReq and
  DelayResp run only if an option sets it; `handleSync` runs in both modes.
* A slave takes a two-step Sync's own `originTimestamp` and ignores the FollowUp
  that carries the precise one: the code that would wait is commented out
  (protocol.cc:720-734).
* With `maxDelay` set (it is 0 as shipped) a Sync that was too long on its way
  leaves the old offset in place and `updateClock` applies it again
  (servo.cc:207). If that offset has seconds, the clock is set by it once more
  with every such Sync and the error grows by the same amount each time.
  The circumstance with `maxDelay` in **servo** therefore starts below a second.
  A clock that is ahead by more than `maxDelay` takes every Sync for one that was
  too long on its way, and is never put right: hence the room that `HasRoom` asks
  for below `maxDelay`.
* A P2P exchange that straddles a setting of the clock gives a delay that is
  wrong by half the step; the next Sync sets the clock with it, and the exchange
  after that puts it right. If `toState` zeroes the stamps in mid exchange
  (protocol.cc, case PTP_SLAVE) the delay is about half the time of day, and
  until the next exchange the clock is decades off. `Settles` says that both
  heal, `NeverWorse` excludes only the latter. In that state the clock is ahead
  by half the time of day, so that its seconds fit an Integer32 only while the
  time of day is less than two thirds of 2^31 s: until about 2015. **servo** has a
  `Now` that leaves this room, and its `Settles` speaks of such times of day;
  **until_2038** has one that does not.
* `updatePeerDelay` halves seconds and nanoseconds separately (servo.cc:144):
  a round trip of an odd number of seconds loses half a second. The cases keep
  the round trip below one second; beyond, the delay is wrong for good.
* `divTime` converts a negative sum to `uint64_t`: after a setting of the clock
  an E2E delay may be any number, until the next Sync and answer: up to 2^32 s,
  narrowed to an Integer32, so that the time it sets the clock to need not fit
  today either. This too heals in **servo** because its times fit.

## 4. Fairness and bounds

* `PortEngine`: weak fairness of `protocol` (the loop is never blocked: `select`
  is interrupted by the interval timer, and `HandleNothing` counts that tick)
  and of `catch_alarm` (the kernel's interval timer repeats). Nothing is
  assumed of other clocks; `SettlesWhenSilent` takes their silence as premise.
* `PeerDelay`: weak fairness of each daemon's `handle` and `issuePDelayReq` (its
  timer repeats), and of each wire, which delivers what it does not lose.
* `SyncExchange`: weak fairness of `handle` and of a slave's `issueDelayReq` (the
  loop and the timer); the parent's Syncs keep coming, and a request under way is
  answered or lost. These two, and `handleGeneral`, are strongly fair: with a
  socket of one or two messages, others' messages could otherwise keep the same
  ones out for ever, which a socket that queues does not allow. That Syncs do not
  flood the event socket for ever is thereby assumed, not shown.
* `Servo`: time passes (`[]<><<Interval>>_vars`). A step is always possible and
  an interval has a handful, so that this is weak fairness of `Next`.
* Bounds in `SyncExchange`: `env.waiting` (event messages that wait while others
  arrive: one, or two where they pile up, of one sender or of two, the own copies
  besides; TLC has also been run with three, for safety), `env.faults` (requests
  lost or answered twice: one), one request under way when the next is sent, one
  message in the general socket when another arrives there (own ones besides); no
  message lives until its number comes round again (65536 requests). A socket is a
  set, from which any message may be read next, and in which equal messages are
  one: the code's queue allows fewer orders.
* Assumptions about time in `SyncExchange` and `PeerDelay`, which the code does not
  check and which are no part of it: `MayAsk`, a port has read its own copy of a
  DelayReq before it sends the next; `MaySync`, the same of a Sync and its
  FollowUp unless `env.lags`, and then no more than one Sync behind, as slow a port
  as **sync** has; `PreviousExchangeOver`, nothing of a peer delay exchange is
  under way when its requester starts the next, two seconds later.
* In `Servo`:
  `MaxFaults` (one per behaviour, at any moment of it), the `Circumstances`; a
  second of 500 and integers scaled with it, `ap`, `ai`, `stiffness` and
  `ADJ_FREQ_MAX` in about the proportions of the shipped 10, 1000, 6, 512000 to
  10^9. `Residue` is `ai + 2 * 2^stiffness`: 1128 ns with the shipped values.
* Bounds elsewhere: `MaxElapsed` (ticks not yet handed out), `MaxLosses` (lost messages),
  `SequenceIdSpace` (65536 in the code; wrapping happens after three requests),
  `max_foreign_records` (5 as shipped; 2 suffices for wrap and eviction with
  three masters). The timer lengths are small but keep the order of the shipped
  ones: Sync, then Announce and PdelayReq, then the receipt timeout.
* Deadlock is checked in every run. `Terminated` lets PortEngine rest once
  `protocol()` has returned.

## 5. Proofs

Checked by TLAPS for every value of the constants that satisfies the named
ASSUMEs (a table of at least one record, timer lengths of at least one tick,
Announces from clocks other than the port with non-zero identity, any option
set): in **PortEngineProofs**

* `TypeCorrect` - the ring's indices stay in the table.
* `TimersCorrect` - `TimersMatchState` is inductive with `TypeOK`. `ToStateTimers`
  is the core: what `toState` stops is what runs, and it starts what the new
  state needs. `OptionsKept` is needed because a re-initialisation writes the
  options and `UpdateKeepsRunning` because ticks do not start or stop timers.
* `MasterCorrect` - inductive with `TypeOK`; only three transitions lead to
  MASTER and each performs `m1`.
* `ScanReadsOnlyAnnounced` - not inductive as it stands. `TableInv`: the slots
  below the write index are written; a count beyond the index means the ring
  has wrapped and all slots are written; slot 0 is written before anybody is
  followed or a decision is due.
* `FollowersKnowTheirParent` - from `FollowerInv` (a follower's table is not
  empty, and while no decision is pending its parent is in it; an eviction
  always leaves a decision pending) and `NothingPending` (in the action part of
  `doState` the decision has been made).
* `DataIsGenuine` (of PortHistory) - from `GenuineInv` (every written record was
  received) and the lemma that every step of the history is one of PortEngine.
* `Refinement` (`HistorySpec => ImplementsOrdinaryClock`) - each action maps to the
  action of OrdinaryClock it looks like, or to nothing, one lemma per kind of
  change. `DecisionAdopts` (from `ScanReadsOnlyAnnounced`'s invariant and
  `GenuineInv`) gives `Follow` its claim; `PlaceInv`, that only a MASTER is between
  its timers and `handle` and that a port that must initialise does so next, keeps
  late timeouts and Announces from reaching a port that is not up.
  `OrdinaryClockAgrees` says of OrdinaryClock itself that data goes with the role.
* `DecisionsAreRight` - `DecidesForBestGrandmaster`, for a table of any size and
  whoever the parent was. The scan is a function, so `ScanOutranked` takes the
  least number of records after which one of them would outrank what was found;
  `AdoptedRanks` says that `m1` and `s1` copy a rank whole. `FollowerInv` is
  needed where the table is empty.
* `AgreementDecides` - among clocks that agree, none of which names this port as
  its grandmaster, no decision falls through to FAULTY: apart from a clock that
  hears of itself, only the comparison of different variances leads there.

In **BestMasterProofs**, the lemmas on the comparison that both of its users
need: antisymmetry, that it decides where variances are equal, that among clocks
that agree its sign follows the rank of the grandmasters unless these are the same
(`SignFollowsRank`), and that ranks are a linear order (`RanksOrder`).

In **ForeignScanProofs**, for tables of any length in any order: `ScanAntisymmetric`
for all records; `ScanTypeCorrect`; and, for records that agree (`Agree(Records)`,
a hypothesis; those of **scan** do):

* `OnePassSuffices` - `ScanFindsBest`. The invariant `BestSoFar` says it of the
  records compared so far; a step needs that the comparison is transitive, which
  it is when none comes from the parent.
* `ElectionNeverMissesGrandmaster` - `ElectsBestGrandmaster`, with the parent among
  the senders and transitivity gone. A better record loses only to the parent's,
  and only if it is one step nearer (`WinsIfBetter`); that such steps do not add
  up over the scan is the invariant, `PassedOverByAStep`: whoever beats the record
  that held out is, among paths to one grandmaster, no farther than it.
* `ElectionIsStable` - `ElectionSettles`. `ScanPoint` says of each moment of the
  scan what the parent's slot has to do with the result: it is the result if it
  is beaten only by one step and later on (`HoldsOut`), it is not if something
  better comes before it (`MeetsBetter`). After one decision the parent's slot
  is one of these two kinds, after two it holds out (`Settling`), and then it
  stays. It needs one record per clock.

In **PeerDelayProofs**, for any set of ports and roles, any width of the counters
and any number of losses: `TypeCorrect`; and `SendTimes`, that on a link of two
ports a delay computed from the other's follow-up uses both sending times of the
last exchange. The property is not inductive: `MessagesOK` says that whatever is
under way belongs to the last exchange of its requester (a request waits until
the previous exchange is over) and came from the one whose turn it was,
`HeadersOK` that who has a response to follow up has kept a request, and
`SendingTimesOK` that the last request's copy waits in the event socket or its
sending time is t1 already. With the event socket empty, as
`handlePDelayRespFollowUp` finds it, only the latter is left. Messages are
handled as the sets of elements of the queues (`Appended`, `HeadAndTail`).
`UndisturbedStamps`, for the two receive times, needs the order of messages as
well: `ResponsesOK` follows the response from the responder's send over the wire
and the requester's event socket until it is read, says that while nothing was
lost no follow-up to a port is ahead of its response anywhere (`InOrder`), and
that once the response is read both receive times are the last exchange's.

In **SyncExchangeProofs**, for any masters, environments and number of sequence
numbers, and however many messages wait: `TypeCorrect`, `NoOtherMastersScale` (of
`NoSyncAcrossMasters`), `FollowUpsAreNumberedRight` and `Refinement` (`Spec =>
ImplementsTwoWayTime`). `IInv` is made of `FollowUpNamesItsSync`; `VoidedByParent`
(whatever waits while the port is a slave was voided, if at all, by its parent),
which gives `NoSyncAcrossMasters` and holds because `followMaster` finds the event
socket empty; `OneCopy` (at most one own copy of a request waits); and
`CopyBeforeTime` (while the last request's copy waits, the sending time held is
not the last request's). With it each action maps to the action of TwoWayTime it
stands for, or to a stutter: a Sync of the parent to one of three (`RefineSync`),
by whether it is stale and whether it sets the clock.

In **TimeArithProofs**: `NormalizeTimeCorrect`, `AddTimeCorrect`, `SubTimeCorrect`
(the total is exact and the result normalised, for all integers) and
`DivTimeCorrect` (for sums that are not negative and fit). In **ServoProofs**, for
every length of a second, stiffness, circumstance and fault, from `IInv`, an
invariant on rates, offset, delay and stamps:

* `TypeCorrect`, `SecondsTellTheSize`, and `FilterNeverOverflows` (the cutoff of
  `s_exp` bounds the product; y may be anything the filter can hold).
* `SetsClockAsMeasured` - of every step that sets the clock, in either direction.
* `NearbyOnlySteers` and `NearbyStaysNear` - `OnlySteered` and `StaysNear`, for all
  gains, skews, paths and faults that leave room (`HasRoom`, part of `NearBy`, with
  the shipped numbers true of a start up to nearly a second off). The invariant
  speaks of either side of the master in the same words, with a sign s.
  `Turned(s)`: the error has passed a limit only if the rate is the full one, and
  back. What is behind it is `Remembers(s)`: the last raw offset, which is half of
  the offset steered by, tells of the error up to one interval's movement and what
  the delay is short of the path - or a Sync was lost or late, which is paid for
  with the two intervals' room each fault leaves. An offset of `FullRate` is
  answered with the full rate (`FullRateTurns`), because its proportional part is
  twice that and the accumulator takes away one at most. That the raw offset is
  what it should be needs the delay, hence `SteeredOK`, which needs in turn that
  the clock is not set: the three are one invariant, `NearInv`.
* `DelayStaysWithinPath` - `DelayWithinPath`: the stamps of an exchange are on one
  time scale (`StampsOK`), and what the filter adds and rounds stays between zero
  and the path; `DelayWithin` holds its state and last input within these bounds.
* `TimesFitWithinReach` - `Spec /\ []WithinReach(reach) => []TimesFit` for the peer
  mechanism: if the clock's error and the path stay within a reach, its time and
  all the times kept fit until the time of day comes within three reaches of the end of an
  Integer32 of seconds. Void stamps are included, so that the reach of a port that
  changes its state in mid exchange is half the time of day (see section 3), and
  the theorem then asks for more room than **until_2038** leaves. `TimesFitNearby` is the
  same without a hypothesis on the behaviour: a slave nearby is within two seconds,
  and seven seconds of room suffice.

The assumptions are those named in TimeArith and Servo: an Integer32 holds two
seconds' worth of nanoseconds, and the powers of two used by the filter's shifts
divide it.

In **MessagesProofs**, for any version, domain, identity, flag and corrections
(`PortAssumption`): `BufferCorrect`, that what receivers ask of every message was
packed once and survives, and `TimestampsArrive`, `AnswersArrive` and
`AnnouncementsArrive`, that each message is unpacked to what was packed. A field
put is the field got and nothing else changes (`PutField`); a header is unpacked
right if, after the change of the header, only the correction was changed
(`HeaderArrives`), and every message ends in such a header (`IsHead`) with its
fields behind it. A buffer of this size has too many contents for TLC; nothing
in the proofs depends on their number.

Only model-checked: all liveness (`ListeningEnds`, `FaultIsLeft`,
`SettlesWhenSilent`, `MasterKeepsAnnouncing`, `KeepsMeasuring`, `Recalibrates`,
`Settles`, `LearnsSkew`), which is beyond TLAPS; of Servo `NeverWorse`, for clocks
that are set, whose bound depends on what a clock off by a wrong delay can be
steered by before the next exchange puts it right. `TimesFit` is proved where it
holds, within a reach or nearby, on the peer mechanism; end to end it does not hold
either at today's time of day, since after a setting of the clock `divTime` may
return any number.

## 6. Not modelled

* Interface discovery and socket options (system calls), logging, statistics and
  display, signal handlers that write files or exit, the Click registration code
  (generated), `ptpd.cc` (commented out).
* The lost SIGALRM between the two statements of `timerUpdate` (timer.cc:48-49)
  delays a timer by one tick; ticks are taken as handed over in one step.
* Duplicates on the network, other than of an answer to a DelayReq.
* Branches of `servo.cc` that no option of this package selects: `maxStep` of 0,
  `maxAdjust`, `noAdjust`; one-step peer responses, correction fields and
  `integer64_to_internalTime` (float and double arithmetic).

## 7. Plan

1. *(done)* Timers, BestMaster, PortEngine, PortHistory, OrdinaryClock, ForeignScan,
   PeerDelay, SyncExchange with TwoWayTime, TimeArith, Servo, Messages; their
   proofs, and with the order of messages that of
   `UndisturbedStampsBelongTogether`; both refinements; the election with the
   parent in the table; the servo's delay and times, and that a slave nearby is
   only steered and stays near.
2. Servo: a bound for clocks that are set (`NeverWorse`) that follows from the
   constants.
3. ForeignScan: `ElectionSettles` for PortEngine itself, where a re-initialisation
   may leave two records of one clock and the option class below 128 follows none.
4. PeerDelay: three ports (the responder's single header), changes of state in
   mid exchange.
5. An election of two PortEngines that hear each other, against the abstract
   "at most one master once settled", as far as TLC reaches.
