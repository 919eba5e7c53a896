# Verification of nukxLWIP

nukxLWIP is a fork of srsLTE in which the user's IP traffic is aggregated over
LTE and WLAN (LWIP: LTE/WLAN radio level integration with an IPsec tunnel).
There are two copies of the tree: `src/eNB` (base station and core network) and
`src/UE` (terminal).  The layer this fork adds is *LWIPEP*, the encapsulation
protocol: it numbers packets, splits them over the two paths, puts them back in
order at the receiver, reports what was received and adapts the split.  This
project models that layer first, because it is the program's own logic and
because its five threads and three timers make it hard to test.  Below it, RLC is
modelled in both modes: it is where a lost radio transmission is repaired (AM) or
tolerated (UM), and LWIPEP's receiver descends from it.  Of the physical layer the
threads are modelled, which pass subframes from one to the other under a
millisecond's clock.  The other srsLTE layers follow in the plan.

Contents: 1 inventory, 2 modules and their correspondence to the code, 3 runs
and bounds, 4 fairness, 5 proofs, 6 disagreements found, 7 limits, 8 plan.

## 1. Inventory

Paths are relative to `src/`; "eNB lwipep" is `eNB/lib/src/upper/lwipep.cc`, "UE
lwipep" is `UE/lib/src/upper/lwipep.cc`: the same class, diverged.

| Component | State | Operations | What makes it correct |
|---|---|---|---|
| LWIPEP receiver (eNB lwipep) | `rx_window` (a map from number to buffer), `next_sn`, `current_max_sn`, `submitted_sn`, `reordering_sn`, reordering timer, counters of the report | `write_pdu`, `timer_expired`, `measurement_report`, `set_reorder_timeout`, `set_lwipep_wlan` | delivery in order until a packet is given up; nothing lost or repeated; a missing number is always watched by the timer; a buffer has one owner |
| LWIPEP transmitter (UE lwipep; in the eNB's copy the scheduler is commented out) | `tx_packet_count`, ratio, base, two credit counters | `write_sdu`, `get_route`, `set_lwipep_tx_ratio` | packets are split in the ratio; `get_route` ends; no credit survives a change of the ratio |
| Automatic ratio control (UE lwipep and `UE/srsue/src/upper/ue_lwipep_handle_report.cc`) | the flags `enable_auto_control_ratio`, `enable_update_route`, `args.get_args`, `handle`, `get_args`; a 20 ms timer; the estimates of the two rates | `write_pdu` of a report, `handle_args`, `timer_expired`, `update_route`, `set_lwipep_auto_control_ratio` | one report at a time, each leads to a decision, the decision is that of the last report; every lock is released |
| Configuration timer (UE lwipep) | `enable_config`, `switch_config` | started by the first large packet, `timer_expired` | a mode of `write_sdu` is changed between packets |
| Tunnel threads (`eNB/srsenb/src/upper/lwipep_xw.cc`, `UE/srsue/src/upper/lwipep_ipsec.cc`) | sockets, run flags | receive loop, `stop` | every packet gets a buffer of its own; the thread ends |
| Gateways (`eNB/srsenb/src/upper/gtpu.cc`, `UE/srsue/src/upper/gw.cc`) | sockets, TEID maps | `write_pdu`, receive loop | frees what it is given, once |
| Timers (`lib/include/srslte/common/timers.h`) | a table of timers, stepped once per TTI by the MAC | `set`, `run`, `stop`, `step`, `get_unique_id`, `release_id` | a stopped timer does not call back; an id has one owner |
| Thread pool (`lib/src/common/thread_pool.cc`) | `status` and `running` of each worker, a mutex and condition variable for each and one for the caller | `run_thread`, `wait_to_start`, `finished`, `wait_worker`, `start_worker`, `stop` | only an idle worker is given a job; no waiter is forgotten; `stop` ends |
| PHY threads of the eNB (`eNB/srsenb/src/phy`) | `tx_worker_cnt`, `tx_sem`, `is_first_tx`, the mutex and flags of each `phch_worker` | `txrx::run_thread`, `set_time`, `work_imp`, `worker_end`, `phy::stop` | one subframe on the air at a time, in the order of reception; the receiving thread never stands still |
| Buffer pool, queues (`lib/src/common`, `lib/include/srslte/common`) | free and used buffers; bounded queues | `allocate`, `deallocate`, `push`, `pop` | no buffer used twice, no waiter forgotten |
| RLC acknowledged (`lib/src/upper/rlc_am.cc`) | sender: `tx_sdu`, `tx_window`, `retx_queue`, `vt_a`, `vt_s`, poll and prohibit timers; receiver: `rx_window`, `rx_segments`, `vr_r`, `vr_x`, `vr_ms`, `vr_h`, reordering timer, `do_status`, `poll_received` | `write_sdu`, `read_pdu` (status, retransmission, segment, new data), `write_pdu` (data, segment, control), `timer_expired` of both | every SDU once and in order; what leaves `tx_window` was received; what is lost is sent again; a PDU put together from segments is the PDU |
| RLC unacknowledged (`lib/src/upper/rlc_um.cc`) | sender: `tx_sdu`, `vt_us`; receiver: `rx_window`, `rx_sdu`, `vr_ur`, `vr_ux`, `vr_uh`, `pdu_lost`, reordering timer | `write_sdu`, `build_data_pdu`, `handle_data_pdu`, `timer_expired` | whole SDUs in order; only damaged ones are dropped; a gap is watched by the timer |
| RLC container, transparent mode (`lib/src/upper/rlc.cc`, `rlc_tm.cc`) | a map from logical channel to entity | dispatch | - |
| PDCP (`lib/src/upper/pdcp_entity.cc`) | COUNT: hyper frame number and sequence number | `write_sdu`, `write_pdu` | both ends agree on COUNT at the wrap |
| MAC (`eNB/srsenb/src/mac`, `UE/srsue/src/mac`) | HARQ processes, scheduler, random access, SR, BSR, PHR | per TTI | no HARQ process reused in flight; random access ends |
| RRC, NAS, S1AP, MME, HSS, SPGW | connection and attach state of each user | messages | both ends agree; release frees everything |
| The rest of PHY, radio, ASN.1, security | computation on samples and bits | - | - |

`PROJECT.json` gives the sources of each, and which are modelled.

### How they interact

Uplink: the UE's gateway thread calls `write_sdu`, which asks `get_route` for a
path and hands the packet to PDCP (LTE) or to the tunnel (WLAN).  In the eNB the
PDCP thread and the tunnel thread call `write_pdu`; what is in order goes to
GTP-U, which sends it and frees the buffer.  The MAC thread steps the timers: the
reordering timer and the report timer call back into the eNB's lwipep, the 20 ms
timer into `lwipep_hdl_rpt`, the configuration timer into the UE's lwipep.  The
report timer sends what was counted to the UE over LTE; there `write_pdu` gives
the figures to `lwipep_hdl_rpt`, its timer computes a ratio, and `get_route` fetches
it with the next packet.  The console thread calls the setters of all of them.

Under PDCP, an RLC entity is called from three threads: PDCP's (`write_sdu`), the MAC's
scheduler, which asks `read_pdu` for a PDU of the size it granted, and the MAC's
receiver (`write_pdu`); its timers call back from the MAC's timer step.  Sending and
receiving side have a mutex each; a status report is made by the sending side's
`read_pdu` from the receiving side's state, in two separate critical sections, and a
report that arrives goes through the receiving side to the sending side.

In the eNB's physical layer one thread (`txrx`) takes an idle worker of the pool each
millisecond, receives a subframe into its buffer and starts it.  The worker decodes,
asks the MAC for grants, generates the answer and waits in `phch_common::worker_end`
for its turn: a chain of semaphores, one per worker, of which the next is posted once the
radio has the samples.  `phy::stop`, on the console's thread, stops `txrx`, then each
`phch_worker`, then posts all semaphores, then stops the threads of the pool.

State is shared between threads under one mutex per lwipep entity and one in
`lwipep_hdl_rpt`, taken inside the first.  Three things are outside the mutexes, and
most of the hard behaviour comes from them:

- `timers::step` clears `running` *before* it calls back, and the callback then waits
  for the mutex: a packet may come in between;
- the setters of the console take no lock at all;
- `write_pdu` tests whether it may accept a report before it takes the lock.

### What is hard

Packets overtaken, lost, repeated; a timer racing the packet it waits for; a
sequence space that wraps (`RX_MOD_BASE` compares relative to a moving base);
`next_sn` loops that can run a lap round the ring; buffers that change hands on every
branch; counters of `uint32_t` that wrap; windows of two ends that slide along each
other with reports that are old when they arrive; SDUs cut and glued by grants of any
size; a handshake of four threads whose flags the
console clears in the middle; workers of different speed whose results must leave in order,
and a pool that is stopped while they wait.  `hazards` in `PROJECT.json` lists each at its line with
the properties for it.

## 2. Modules and their correspondence to the code

`LwipepRx` - the receiver.  Each variable of the window is the member of the same
name; `rx_window` maps a number to a buffer.  `write_pdu` and `timer_expired` hold the
mutex from their first access to their return, so one action is one call, with every
delivery and the update of the timer in it.  `write_pdu` is split by the branch it takes:
`WritePduDelayed`, `WritePduDuplicate`, `WritePduWindow`, `WritePduReport`, `WritePduBypass`.
The callback of the timer is two actions, because the code is: `TimerTick` (the
step that clears `running`) and `TimerExpired` (with the mutex).  The loops over `next_sn`
are not unrolled: `PassEnds` and `SkipEnds` say after how many iterations a loop ends,
`Advance` what that many iterations deliver, erase and move.  `free` and `handed` are the
pool and the gateway: who owns which buffer.  `out` is what the step gave to the gateway.

`LwipepUplink` - the receiver behind two paths.  It extends `LwipepRx`, uses its actions
unchanged, and adds the UE's numbering (`Send`), a network that delays, reorders, loses
and repeats (`Arrive`, `Lose`), and a history of what the gateway got (`delivered`) and of
the packets that met a packet of another lap in their slot of the window (`clashed`).

`LwipepTx` - `get_route` and `set_lwipep_tx_ratio`.  The latter is called by the gateway's thread
(from `get_route`, `RouteUpdate`) and by the console's, which takes no lock, so both go through it
statement by statement (`RatioSteps`, with the place of each thread in `at`): two assignments, the
tests, the gcd kept in the base for a while, two divisions by it, the final base, two resets.
So are the statements of `get_route`, at `gw`.  Counters wrap at `CounterMod` (2^32 in the code), and a
division by a base the other thread has set to 0 ends the process (`DivideByZero`).

`LwipepControl` - the handshake of the automatic control: PDCP, gateway, MAC and console
threads with a program counter each, both mutexes, and the flags.  The atomic steps
are the stretches between two points where another thread may get in: taking or
releasing a mutex, and a flag read or written outside one.  What decision is computed
is left open; `accepted`, `given`, `decided` and `fetched` record from which report it comes.
`ConsoleSetWlan` passes the two settings on in the order `ue::set_lwipep_wlan` does.

`RlcSn` - what both RLC modes share: sequence numbers, and the stream of SDUs.  The
bytes of all SDUs are one stream, of which an SDU has `SduUnits` units; the payload
of a PDU is a sequence of units, so that loss, repetition, misplacement and an SDU
glued from two others all show.  `RlcAmSn` adds the window of the acknowledged mode.

`RlcAmTx`, `RlcAmRx` - the two sides of `rlc_am`.  `ReadPdu` is `read_pdu`: with no report due it
draws a PDU of a full window, or goes on with `retx_queue` (`DropAcked`, then
`BuildRetxPdu` or `BuildSegment`), or builds a new one (`BuildDataPdu`).  Each sets its poll
bit by `poll_required` and `SetPoll`.  `HandleControlPdu` is the loop over the numbers of a report,
`Examined` and `Acked` say which it looks at and removes.  `WritePdu` is the receiving side:
`HandleDataPdu`, with everything it calls (highest number, `vr_ms`, poll, reassembly,
reordering timer), and `HandleDataPduSegment` with `FirstSegment` and `AddSegment`, which ends in
`HandleDataPdu` if the segments are complete.  Each handler holds its mutex and is one action;
what the code does in two critical sections is two: `ReorderingStep` and
`ReorderingExpired`, `PollTimerStep` and `PollTimerExpired`, and a report, `MakeReport` (`get_status_pdu`) and
`SendReport` (`reset_status`).  LI and FI fields are not needed here, since a unit knows
whether it ends an SDU.

`RlcAm` - a bearer: the sending side of one entity, the receiving side of its peer, data
one way and reports the other, loss by HARQ, overtaking.  `ReliableLink` is what it
promises; `InOrder` and `ReliableIfBusy` instantiate it with the refinement mapping `given <-
written, got <- delivered`, for a promise of safety and one of liveness.

`RlcAmSegments` - `build_segment` and `add_segment_and_check`, byte for byte as far as lengths and
header fields go: one PDU, cut by any sequence of grants, segments lost and reordered, the
PDU cut again.  `Cramped` and `Underflows` say which grants are too small for the PDU's table of
length indicators; the first is counted, since what it does shows later.

`RlcUm` - both sides of `rlc_um`.  `BuildDataPdu` cuts pieces of SDUs; a PDU carries its FI
(`start`, `end`) and one piece per LI and one more; `bare` is a history, where an SDU was begun in a
PDU with none of its bytes.  `Reassemble` has the two loops of
`reassemble_rx_sdus`: `CopyBehind` for what the window has left behind, `CopyNext` for what is next in
order, with their different rules about when a piece counts as damaged.
The fields it works on are one record (`assembly`), because `timer_expired` calls it
repeatedly (`SkipMissing`).

`ThreadPool` - `srslte::thread_pool`.  `at` is where the thread of each worker is, `caller` where the
thread is that uses them.  A section under a mutex that does not wait is one step.  The
two that wait are split where it matters: `NothingToDo` is the test in `wait_to_start`,
after which the worker still holds its mutex, and `Block` gives it up by waiting, so that
a signal sent *without* the mutex (`SignalWorker`) can come in between and be lost, while
`start_worker` must wait for `MutexFree`.  In the same way `LookFurther` and `WaitForWorker` are the test and
the wait of `wait_worker`, and `Announce` needs `QueueFree`.  `find_finished_worker` reads one status
per step, since it takes none of their mutexes.

`PhyPipeline` - extends it with `txrx`, `phch_worker`, `worker_end` and `phy::stop`.  A worker's job is its
sequence of places: "work", "lock", "schedule", "first", "open", "queue", "transmit",
"finish".  `TestFirst` and `OpenChain` are apart because no mutex joins them.  `NoGrants` and
`StoppedJob` are the two ways past `worker_end`.  `pending` is a history: the workers whose
subframes are to be transmitted, in the order of reception.  `configured` is `sched::configured`:
until RRC has set up the cell the MAC answers with a CFI of 0 and nothing is transmitted.

`LwipepRxProofs`, `LwipepUplinkProofs`, `LwipepTxProofs`, `LwipepControlProofs`, `RlcUmProofs`, `RlcAmProofs`,
`PhyPipelineProofs` - theorems (section 5), each of the module without `Proofs`; `Arithmetic` - the lemmas about
integers they share.  `MC...` - the values of constants for TLC.  Operators marked *Mutation* in the modules are deliberately wrong variants of a
definition; no specification uses them, they show that a property can fail.

`PROJECT.json` maps every definition to its lines.

## 3. Runs and bounds

| Run | Properties | Bounds | Shows |
|---|---|---|---|
| `rx` | `TypeOK OneOwner GapHasTimer ExpiryReleases HeadMoves` | ring of 4 numbers, 2 buffers, times 0 and 2 | all orders of packets, ticks, expiries, console commands and frees |
| `uplink` | `InOrderUntilExcused NothingLost NoExtraCopies BufferedDrains` | ring of 6, 7 packets, one of which may come twice, at most 4 in flight | what the gateway sees of a network that loses, repeats and reorders, and what the second lap of the ring costs |
| `tx` | `TypeOK RatioHonoured RouteFound` | 4 decisions, 2 console ratios, counters modulo 16, 5 packets per ratio | the split and the end of the loop, with the console between any two statements of either function |
| `control` | `TypeOK HdlMutexFree UpdateHasDecision DecisionFresh AutoControlAlive` | reports numbered modulo 2, aggregation of both directions on or off | the handshake under all interleavings of four threads |
| `rlc_am` | `RlcAmTypeOK ReleasedReceived WindowsAgree InOrder` | 4 numbers, window 2, 2 SDUs of 2 units, grants of 1 or 2 units, 2 PDUs and 2 reports under way, 1 loss of anything | that nothing is lost or confused by retransmission, segments, old reports and racing timers |
| `rlc_am_busy` | `ReliableIfBusy` | 4 numbers, window 2, 4 SDUs of 1 unit, 1 loss of anything | that a full window always gets through |
| `rlc_am_segments` | `HeaderRestored FitsGrant` | tables of up to 2 LIs, one of 3 and one of 6, pieces of 1, 4 or 8 bytes, grants of 8, 9 or 13 bytes, 2 attempts, 1 segment from a cramped grant | that a PDU is put together as it was if no grant was too small for its table |
| `rlc_um` | `UmTypeOK IntactInOrder CompleteIfUndisturbed GapIsTimed` | 8 numbers, window 4, 5 SDUs of 2 units, grants of 1 or 3 units and two bytes to spare or none, 2 PDUs under way, 1 loss | reassembly behind gaps, expiries that race PDUs, the catching up of a window left behind |
| `phy` | `PhyTypeOK OneOnAir InSequence JobKept GoesOnReceiving StopReachesPool` | 2 workers, no bound on subframes | the pool, the chain of semaphores and `phy::stop` under all interleavings |
| `rlc_am_tail`, `rlc_um_loss`, `phy_stop` | one each | as above, smaller | section 6 |

Why the bounds are enough to be interesting:

- `rx`: the window is half the ring.  With 4 numbers and 2 buffers a gap, a buffered
  packet behind it, a delayed number, a duplicate, the wrap of the ring and a lap of the
  flush all happen.  In the code the ring has 4096 numbers; the theorems of
  section 5 are for every size.  A reordering time of 2 puts a tick between start and
  expiry; 0 is a value the console accepts.
- `uplink`: `excused` becomes true if a packet arrives `WINDOWS_SIZE - 1` or more ahead of
  a missing one (the window pushes the missing one out).  With a ring of 6 that is 2
  ahead, so overtaking by one is *not* excused and must be put right.  Packet 6 has
  the number of packet 0, so the ring is used again: if 0 comes late, after the timer has
  given it up, it is still in its slot when 6 comes, and 6 is dropped (`clashed`).  At most 4 packets
  span the flight: one a whole ring late has the number of a new one, and the code cannot
  tell them apart.  `Doubled` says which packets
  may be repeated, here packet 1.
- `tx`: the automatic control has 0:1, 1:0, 1:3 and 6:4 to choose from (one path only, a multiple,
  a common factor and neither), the user 2:4, which is divided, and 15:0, which is 2^32 - 1 to 0 (what
  `-1:0` becomes) with counters modulo 16.  The two threads meet at every statement.  Modulo 16
  lets the console drive a counter over the wrap.  The theorem `RatioIsHonoured` is for every set of ratios.
- `control`: at most one report is in the handshake while the control is open, so a
  stale decision is that of the previous one and numbers modulo 2 tell it apart.
- `rlc_am`, `rlc_am_busy`: the window is half of `MOD` as in the code; with 4 numbers it fills,
  wraps and stalls.  With 2 units an SDU is cut over two PDUs, a PDU holds
  parts of two, and a PDU of 2 units is sent again in two segments.  `Losable` says what
  HARQ loses: here anything.  A PDU is overtaken at most once
  and no new one is sent while one a whole window behind is under way (`InTime`): in the
  code that is 512 PDUs, and numbers repeat after 1024.  `Spare = 0` gives a report exactly the
  grant its buffer state asked for, `2` the two bytes more with which its loop is never
  cut short.  `SlowPoll`: the poll timer does not expire while an answer is on its way, as
  it is configured; without it `retx_queue` grows with each expiry.  Reports stay in
  order (`ReportsOvertake`; section 6 says why).
- `rlc_am_segments`: a length indicator takes 12 bits, so one and two of them differ in the
  rounding.  Pieces of 1 byte lie within a segment, longer ones are cut.  Two attempts
  with different grants give segments whose offsets do not match.  A grant of 8 bytes is
  cramped for every table, 9 for three indicators and more, and for six its room runs below zero:
  what both properties except does happen in the run.
- `rlc_um`: with a window of 4 and 8 numbers, 5 SDUs are up to 10 PDUs, so that numbers
  wrap.  `Brink = TRUE`: a PDU may be left with two bytes of room, for an indicator and no
  byte of the next SDU.  The first loop of `reassemble_rx_sdus` needs a
  PDU 4 ahead of a missing one: one that is lost while the timer has not expired.  The bound on
  delay is that a PDU is overtaken once: a PDU that is late by a window can be taken
  for a new one.  One loss is what the theorem `IntactSdus` allows with a window of 4; two
  hold as well.

- `phy`: 2 is the default of `nof_phy_threads`, and enough for overtaking, for a chain that wraps
  and for a worker that is taken again while the other still waits.  (The safety
  properties were also checked with 3; with liveness that is too large for a regular
  run.)  `Spaced` says that until the first transmission a subframe is done before
  the next is received, which the comment in `worker_end` (phch_common.cc:111) relies on.
  `phy_stop` has one worker, which is a value `enb.conf` allows.

What the properties say, beyond their comments in the modules:

- `OneOwner` - on every branch of `write_pdu` the buffer goes to exactly one of gateway or
  window.  (Some branches drop it instead, see section 6.)
- `GapHasTimer` - includes the window between the step of the timer and its callback,
  in which the timer is not running and a packet may stop or start it.
- `HeadMoves` - excludes exactly the state `running` with 0 ticks, which the console can
  bring about: `timers::timer::is_running()` is then false, every packet starts the timer
  again, and it never expires.
- `NothingLost` - excepts only packets that met one of another lap in their slot: the
  code tells two packets with one number apart by nothing, and keeps one of them.
- `RatioHonoured` - LTE is never behind its share, and at most two rounds ahead.
  `disturbed` excludes the time after the console and `get_route` overlapped.
- `RouteFound` - whatever the two threads leave behind that set ratios at once, the loop ends,
  with three exceptions that its comment names and section 6 explains: the ratio 0:0, a part of
  2^31 or more, a division by zero.
- `ReleasedReceived` - what left `tx_window` is with the peer, in its window or delivered.
  It relates the two ends: a report is about the past, and the sending side applies
  it to a `vt_a` that other reports have moved.
- `WindowsAgree` - the receiving side's variables, seen from `vt_a`, are in the order `vr_r <=
  vr_h <= vt_s`, with `vr_x` between them while the timer runs.  The order of `vr_ms` is *not*
  part of it: an expiry that races a PDU leaves `vr_ms` behind `vr_r` (rlc_am.cc:1623), and
  the next report names up to a window of numbers as missing that are not.  They
  are sent again for nothing; `InOrder` and `ReleasedReceived` hold all the same.
- `InOrder`, `ReliableIfBusy` - refinement of `ReliableLink`.  The second has `Backlog` =
  `RLC_AM_WINDOW_SIZE`: an SDU must come out once that many have followed it.  Without more
  SDUs it need not, see `rlc_am_tail`.
- `HeaderRestored`, `FitsGrant` - except for grants that are too small for the PDU's own table: `Cramped`
  (at most 6 bytes more than it has indicators, or 8 bytes) and `Underflows` (fewer than 4 more).  These are
  limits of `build_segment` (section 6), not of the run.
- `CompleteIfUndisturbed` - no SDU is dropped, and none stays inside, by reordering alone, but for
  those in `bare` (section 6), which cost no other SDU.
- `IntactInOrder` - PDCP never gets two SDUs glued together, or one with a hole, whatever is
  lost and whenever the timer expires.
- `InSequence` - which worker may transmit follows from semaphores alone; that it is the one
  with the oldest subframe is the whole point of the chain, and holds only because
  `tx_worker_cnt`, not the worker's number, selects the semaphore.
- `GoesOnReceiving` - covers both the hand-over of idle workers and the chain: if a permission
  to transmit got lost, the workers would fill up behind it.  Being at "receive" counts as going on,
  and before the first transmission `Spaced` can keep `txrx` there for as long as a worker is
  busy; that a skipped subframe keeps no mutex in that time is left to `StopReachesPool`.
- `StopReachesPool` - `phy::stop` joins `txrx` first, which may be waiting for a worker, and
  takes each worker's mutex; it says that neither waits for ever.  What follows is `StopEnds`,
  section 6.
- `UpdateHasDecision` - holds also while the user opens and closes the control; the other
  properties of `control` hold until it is closed (`closed`), and why is in section 6.

## 4. Fairness

- `LwipepRx`, `LwipepUplink`: weak fairness of the timer's tick and of its callback: the MAC calls
  `timers::step` each TTI, and the mutex is held for the length of a handler.  Packets
  are not fair: liveness must not depend on further traffic.
- `LwipepTx`: each thread goes on once inside its function.  `RouteFound` supposes that the user
  stops typing ratios, and has the three exceptions of section 3.
- `LwipepControl`: every thread runs.  The mutex of lwipep is contended by three threads;
  POSIX promises no order, so strong fairness of the actions that take it says that no
  thread is starved for ever.  Reports and packets keep coming (the eNB's report timer
  restarts itself; `AutoControlAlive` is about a UE with traffic).

- `RlcAm`: weak fairness of grants while `has_data` (the scheduler serves what
  `get_buffer_state` reports), of the arrival of what is not lost, of the peer's grants for
  reports, and of the timers.  Strong fairness where the code draws at random
  (`retransmit_random_pdu`: each number of the window is drawn sooner or later, if it can be
  drawn again and again), and for the peer's expiry, which waits for a mutex that the making
  of a report takes and releases.  PDCP need not write: `ReliableIfBusy` says what follows
  from what was written.
- `RlcUm`, `RlcAmSegments`: none, their properties are about safety.
- `PhyPipeline`: weak fairness of each thread: the operating system runs a thread that can go
  on.  Weak is enough: a mutex is only contended by a worker and the thread that starts or
  stops it, and neither takes it again and again while the other waits.  The user need not
  stop the program, RRC need not configure the cell.

## 5. Proofs

All are for every value of the constants, from the assumptions next to their
declarations, which TLC evaluates in each run:

- `LwipepRx`: `BUFFER_SIZE` is even and at least 4, sequence numbers are naturals, the default
  reordering time is positive.  `LwipepUplink`: the numbers are those of the packets sent.
- `LwipepTx`: a counter has at least two bits, ratios are of its width.
- `RlcSn`, `RlcAmSn`, `RlcUm`: an SDU has at least one unit; the window is half of the numbers (as 512 of
  1024; of 16, 32 or 1024 in the unacknowledged mode, or 0), of the acknowledged mode more than one: with
  a window of 1 a PDU a window late could not be told from a new one.
- `ThreadPool`: there is at least one worker.

A theorem with a hypothesis of its own names it below.

`LwipepRxProofs`:

- `TypeCorrect` - `TypeOK` is inductive; the loops keep the numbers in the ring
  (`ShiftType`), the window's buffers in the pool (`AdvanceType`).
- `BufferCustody` - `OneOwner`, inductive with `TypeOK`.  The point is `AdvanceOwner`: what a
  loop hands over it also erases, and two slots never held the same buffer.
- `GapWatched` - `GapHasTimer`, inductive with `TypeOK`: the base moves only in
  `WritePduWindow`, which tests for a gap after it, and `next_sn` elsewhere only in
  `TimerExpired`, which tests as well.
- `ExpiryReleasesAll` - that no number between `next_sn` and `reordering_sn` stays
  buffered needs the arithmetic of `RX_MOD_BASE`: `BaseShift` and `ShiftToBase` relate the n-th
  iteration to the n-th number in the order of the window, via uniqueness of remainders.

`LwipepUplinkProofs`, for every size of the ring and any number of packets:

- `InOrder` - `InOrderUntilExcused`, from `Orderly`: until the receiver is entitled to give a packet up,
  its whole state is a function of what arrived: `next_sn` is the first missing number modulo the
  ring, what arrived behind it is in its slot, and all of that is within the window.
- `DeliveredOnce` - `NoExtraCopies`, from `Copies`: a copy delivered or buffered is one that
  arrived.  This holds over any number of laps, with stale packets in the window, since every loop
  hands over a packet only together with its slot (`HandsOver`).
- `NothingElseLost` - `NothingLost`, without any hypothesis, from `Kept`: a packet that arrived was
  delivered, is buffered, or is `clashed`; two packets with one number that meet are the only way to lose one,
  in any number of laps.
- `OneLapNothingLost` - that every packet that arrived was delivered or is buffered, without exception,
  assuming `MaxSent <= BUFFER_SIZE`: no number is used again, so nothing is `clashed`.

`LwipepTxProofs`, for every set of ratios:

- `TxTypeCorrect` - the counters keep their width whatever the two threads that set the ratio
  do between each other's statements, and those of `get_route`.
- `RatioIsHonoured` - `RatioHonoured`, assuming `RatiosFit`: no ratio that is asked for, reduced, makes a counter run
  over 2^32 (a ratio of 2^31 to 2^31 - 1 would; the console takes any word).  `CalmInv`
  says that a thread which sets the ratio undisturbed has, at each statement, what the statements before it
  assigned (`Setting`), ending with the base `InForce` for the ratio and no credit, and otherwise
  (`Resting`) how the two counters account for the lead of LTE over its share (`Credit`, one form for each
  shape of a ratio: one path only, equal, a multiple, neither): the counter of the path with the smaller part
  holds a multiple of the price of a packet, and that multiple tells how many rounds are paid
  for in advance.

`LwipepControlProofs`:

- `ControlTypeCorrect` - `TypeOK` under every interleaving of the four threads.
- `NoReportForgotten` - `UpdateHasDecision` is not inductive: it needs that the threads
  which change these flags exclude each other (`MutexHeld`) and what `handle_args` leaves
  (`FiguresHeld`).
- `HdlMutexReleased`, `DecisionIsFresh` - from `PhaseInv`: until the user closes the
  control, the handshake is in one of its phases (idle, being accepted, waiting for the
  timer, handled, fetched), in which the timer only calls back with figures to handle,
  and what is held, computed and fetched belongs to the last report.

`RlcUmProofs`:

- `UmTypeCorrect` - `UmTypeOK`.  The two loops of `reassemble_rx_sdus` and the moves of the window are
  folds over up to `MOD` numbers; `Passes` says what a pass turns into what, and `Tight` that no
  number in the window is left before `vr_ur`, which is what makes the loops end where they should.
- `GapTimed` - `GapIsTimed`, assuming a window (`rx_window_size > 0`): what starts the timer in `handle_data_pdu` and in
  `timer_expired` covers all orders of expiry and arrival.
- `IntactSdus` - `IntactInOrder`, assuming `MaxLosses + 3 <= rx_window_size`, where `MaxLosses` bounds the losses of
  the bearer's whole life, so that it covers a bearer only until HARQ has lost that many: what is lost, one PDU overtaken and one that
  overtakes stay inside the window.  The hypothesis is needed: a number means a PDU only as long as what is under way and what is
  waited for span less than a window.  With a window of 2 and nothing lost TLC finds
  an expiry that calls back late, three PDUs dropped as too late, and a fourth, overtaking, taken for one of those, whose
  number it has: PDCP gets the first part of one SDU with the second of another.
  The invariant is `Content`.  It names what was sent: `History(H, n)` says how far the
  stream is in PDUs after each of n of them, and `Is(e, H, p)` that `e` is PDU p.  `Trail`
  and `Near` say where the PDUs under way stand in it, `Received` where the receiver
  does: the next PDU to reassemble is the u-th and the highest received the one before the h-th, what waits is
  between (`Kept`), PDCP has SDUs that end before the cut of u (`Outs`), and what is begun is the start of the
  SDU at the cut after the PDU copied last, which is at most a window back (`Recent`), so that
  `pdu_belongs_to_rx_sdu` compares numbers and means PDUs.  `Astray` is the other state the receiver can be in: an expiry
  that calls back late, with nothing missing, takes `vr_ur` beyond `vr_uh` (section 6).
- `UndisturbedComplete` - `CompleteIfUndisturbed`, assuming a window of more than one PDU, for every set of grants
  and either value of `Brink`: the SDUs in `bare` are its only exception.  The invariant is `Calm`: the receiver has all PDUs
  before the u-th and nothing else (`Tidy`), or the next but one as well, the next being the one overtaken (`Swapped`);
  nothing waits that the sender has not under way behind it, what is begun is exactly the part of an SDU before the cut
  (`All`), or nothing if that SDU is in `bare`, and every other SDU before it has come out.  It holds for any number of PDUs under way.

`RlcAmProofs`, over `SafetySpec` (fairness is not needed):

- `AmTypeCorrect` - `RlcAmTypeOK`.  Inductive with `Fits`: what is left of a PDU cut in segments is
  never empty, although acknowledgements, NACKs and draws at random change `retx_queue` and
  `tx_window` behind the segment.
- `WindowsSlide` - `WindowsAgree`, assuming that a report gets the room it asked for (`Spare \subseteq Nat`) and that
  reports do not overtake each other; without either TLC finds it violated.  The
  invariant is `WindowInv`: `tx_window` is what lies between `vt_a` and `vt_s`, at most a window
  (`SendWindow`; that read_pdu draws an old PDU instead of using a number too many is
  `NewOnlyIfRoom`, and needs that a full window leaves nothing acknowledged in `retx_queue`);
  `ReceiveWindow`; a PDU under way is at most a window behind `vt_s` (`UnderWay`); and `Reported`: for each report
  made or under way there is a number, not after `vr_r`, from which on it acknowledges nothing,
  and these are in the order of the reports.  The last is what makes old reports harmless: `vt_a`
  moves past the number behind the first of them, never past that of the next.
- `AcknowledgedIsReceived` - `ReleasedReceived`, and `ComesOutInOrder` - `InOrder`, that the bearer implements
  the safety part of `ReliableLink`; both with the assumptions of `WindowsSlide`, of which they are the
  point.  `ContentInv`, inductive with `WindowInv`, says what is in the payloads: those of `tx_window` are
  consecutive pieces of the stream of SDUs, from the first up to `taken` (`Linked`), and are the
  reference for everything else.  A PDU under way whose number is in the window is the payload of that number, or
  a part of it at its offset (`OnAir`); so is what waits in `rx_window` (`Arrived`), and the segments of a number
  not delivered yet (`Pieced`).  PDCP has the SDUs that end before the payload of `vr_r`, and
  `rx_sdu` the rest of the stream up to there (`Got`).  That a number means the same payload
  on both sides although numbers are used again is `WindowInv`: what falls inside the
  receiving window is in the sending one (`Inside`), and the number `BuildDataPdu` takes into use is that of
  no PDU under way.  The cut into SDUs is `CutStream`: the k-th piece of a stretch that begins
  with an SDU is the k-th SDU after it (`Pieces`, `Rest`), whatever the sizes of the PDUs were.

`PhyPipelineProofs`, for every number of workers:

- `PhyTypeCorrect` - the count of subframes stays within the semaphores, the search for an idle
  worker within the pool.
- `JobStaysKept` - `JobKept` from `PoolInv`: a worker at its job has status `WORKING`, and the one
  that is claimed, received for and started is `IDLE`, then `WORKER_READY`.  It is inductive
  only together with the order in which `phy::stop` proceeds: a worker whose
  `running` is reset goes to `WORKING` without having been started, which must not happen
  while `txrx` is looking for one.
- `AloneOnAir` - `OneOnAir`, assuming `Spaced`, from `ChainInv`: there is at most one permission, in a
  semaphore or with the worker that transmits (`OnePermission`), and before there is one, at most
  one worker has a subframe (`FirstAlone`).
- `TransmitsInSequence` - `InSequence`, assuming `Spaced`: the workers in `pending` are those on their way
  (`QueueInv`), their slots follow one another round the ring up to `tx_worker_cnt`, and the permission
  is at the first of them (`OrderInv`), as long as no subframe is left out (`SetUpInv`).

`Arithmetic` holds what these share: remainders and numbers modulo n, and the least element of a
set of naturals, which replaces induction (no prover here can instantiate an
induction theorem).

Only model-checked: all liveness (`HeadMoves`, `BufferedDrains`, `RouteFound`,
`AutoControlAlive`, `ReliableIfBusy`, `GoesOnReceiving`, `StopReachesPool`), which is outside the provers'
reach.  `IntactInOrder` of `RlcUm` where more is lost than a window has room for, and without a window (MRB).
`HeaderRestored` and `FitsGrant`: what `build_segment` computes is recursive over the indicators.

## 6. Disagreements found

Each is a run that TLC finishes with a counterexample; `findings` in `PROJECT.json`
quotes the comment it contradicts.

- `rlc_am_tail` (`RequestedAgain`): any report stops the poll timer (rlc_am.cc:970), whether or
  not it covers the PDU with the latest poll (`poll_sn` is written and never read).  If a
  report is under way when that PDU is sent, and the PDU is lost, the
  peer knows of nothing missing, the timer is stopped, and the last SDUs stay where they are
  until PDCP has more to send.
- `rlc_um_loss` (`OnlyDamagedMissing`): PDU 0 with a whole SDU is lost; the next SDU is in PDUs
  1 and 2, which arrive.  The expiry sets `pdu_lost` (rlc_um.cc:958).  PDU 1 starts with an SDU
  and has no LI and no end, so nothing clears the flag, and PDU 2 counts as the remainder of a
  lost SDU (874): two SDUs are missing where one was damaged.

- `phy_stop` (`StopEnds`): `thread_pool::worker::stop` resets `running` and signals without the worker's
  mutex (thread_pool.cc:74).  A worker that has just tested `status` and `running` in
  `wait_to_start` (145) and not begun to wait misses the signal, and the join (76) waits for ever.
  The call that would wake it for certain, `start_worker`, which takes the mutex, comes
  after the join (121, 123).

Seen while modelling, without a run of its own:

- eNB lwipep.cc: an expiry stops at `reordering_sn` even if that packet is buffered (190), and
  leaves `submitted_sn` behind the numbers it skips (206), so that a late packet under one of them
  is buffered as new, and stays there for a lap: the packet that then has its number is dropped as its
  duplicate (497; the exception of `NothingLost`).  If `write_pdu` fills the gap between `timers::step` and the
  callback, `next_sn` is outside the window when `timer_expired` starts, and its first loop (177)
  takes it almost a lap round the ring, to a number delivered already.  `write_pdu` drops the
  pointer of a report (561), of a duplicate (505) and of what is buffered under the number of a
  delayed packet (489), so that the pool loses a buffer each time.
- UE lwipep.cc: the user asks for 1:0; after `lte_tx_ratio` is assigned (1131) the
  automatic control sets 0:1, then the console assigns 0 to `wlan_tx_ratio` (1132).  The ratio is
  0:0, which the function refuses (1125), the counters never grow, and `get_route` loops for
  ever with the mutex held (the condition `tx_ratio # Zero` of `RouteFound`).  It does the same after `-1:0`
  or `2147483648:0`, which the console accepts (main.cc:541): the base is 2^32 - 1, which no counter exceeds, or
  2^31, from which twice the ratio wraps to 0.  If one thread sets the base to 0 while the other has just tested that
  the gcd is more than 1 (1140), the other divides by it.
- ue_lwipep_handle_report.cc: `timer_expired` unlocks only inside its `if` (239).  After the user has
  closed and opened the control during a handshake the timer can expire when nothing is left
  to handle; the next report waits for that mutex with the mutex of lwipep taken, and so does
  every packet (the condition `~closed` of `HdlMutexFree`).
- UE lwipep.cc: the console resets the counters without the mutex (1150); between the test and the
  subtraction of `get_route` a counter wraps to nearly 2^32.  Once the configuration
  timer has set `switch_config` to 20, `write_sdu` deallocates the buffer of each LTE packet and
  hands it to PDCP (742).  After a close and an open `get_route` can fetch a decision no report is
  pending for, and `write_pdu` then accepts no report (505, 807).  `ue::set_lwipep_wlan`
  (`UE/srsue/src/ue.cc:404`) passes its two settings on in the opposite order.
- rlc_am.cc: a report overtaken by another has an `ack_sn` behind `vt_a`, which modulo 1024
  is far ahead, so that the whole window counts as acknowledged (983): `ReleasedReceived` fails
  with `ReportsOvertake = TRUE`.  A report in a grant smaller than it asked for can name the
  number in `ack_sn` as missing too, or acknowledge one that is (1654).  `reset_status` wipes out a poll that came
  after `get_status_pdu` (544, 1567).  The first segment of a number can have a poll that waits for
  the reordering timer, which it does not start (1436).  In a grant of up to 8
  bytes, or 6 more than the PDU has indicators, `build_segment` leaves its loop (710) before the indicators of
  the segment are complete or its end is marked; with indicators 1, 1, 8 a grant of 9 bytes does it (`Cramped`).
  With six indicators of one-byte pieces and a grant of 9 bytes `pdu_space` runs below zero (721), so nothing is
  cut for the indicators, and the segment is a byte longer than its grant (`Underflows`); the code only logs it.  `stop` and
  `reestablish` release the timers (254), and only `init` makes them (`HasTimers = FALSE`).
- rlc_um.cc: the loop that pulls SDUs tests the room before it adds a length indicator (453), which
  rlc_am.cc does after (882).  With two bytes left an SDU is begun with none of its bytes, and the
  receiving side drops it as one whose start was lost, with nothing lost on the radio (`bare`, the
  exception of `CompleteIfUndisturbed`).  An expiry whose gap was closed meanwhile still drops the SDU being put together
  (959).  A callback that comes after a window of PDUs has arrived, none of them missing, finds
  a `vr_ux` that looks as if it were ahead (961) and takes `vr_ur` beyond `vr_uh`; the PDUs up to there, up to a window of
  them, are then dropped as too late although HARQ delivered them in order.  With `rx_window_size = 0`, a broadcast bearer, the timer starts after every PDU and
  `GapIsTimed` does not hold: there is no gap to wait for.  The first loop of `reassemble_rx_sdus` drops whole SDUs of a PDU that is not the next after
  the last copied (717).
- eNB PHY: two workers that find `is_first_tx` set put two permissions into the chain, and the order
  is lost for good (`InSequence` fails with `Spaced = FALSE`; the comment calls it "very unlikely").
  After the first transmission a subframe that is skipped (phch_worker.cc:406-425) leaves its semaphore
  posted: those behind it wait until a subframe a round later takes it, and overtakes
  them.  The MAC gives no cause to skip one once the cell is configured.  `phch_worker::stop` may free the buffers of a worker that has passed
  its test of `running` (369) and not yet the mutex (376), and destroys the mutex it then takes.
  `thread_pool::stop` joins each thread twice (76, 124), and does not signal `cvar_queue` although it
  says that it stops "any thread waiting for available worker" (115): `phy::stop` has
  joined that thread before.

## 7. Limits

- Packets are model values: header parsing, checksums and the figures of the report are
  left out.  The decision of `lwipep_hdl_rpt` is any decision.
- RLC: one direction of one bearer; a bearer's other direction is another copy, and the two
  only share the MAC's grants.  SDUs have one length and a payload is counted in units.  Not
  modelled of AM: the count of retransmissions and `max_retx_attempted`, `poll_byte`, NACKs of parts
  (which this code never sends), a full queue or pool, `stop` and `reestablish` as
  steps.  Not modelled of UM: the same life cycle, broadcast bearers, short queues.  Headers of
  `rlc_am` are in `RlcAmSegments`, for one PDU; their bit layout is left out.
- One user (one entity).  The maps from RNTI to entity are not modelled.
- The UE's receiver does not reorder (`enable_lwipep_reordering` is false there).  In the eNB's
  `get_route` (eNB lwipep.cc:661-683) the scheduler is commented out and every downlink packet goes over
  WLAN, so `LwipepTx` is about the uplink only.
- `lwipep_measurement_report` and `rx_route` of the eNB are written and not read.
- In `LwipepTx` and `LwipepControl` memory is sequentially consistent: the fields
  shared without a lock are plain words, and the build may order their accesses otherwise.
- In `LwipepUplink` the console, the gateway's frees and the report timer do nothing;
  `rx` has them.  Radio, ASN.1, security and what a PHY worker computes are computation on data.
- `ThreadPool`: one calling thread; `wait_worker_nb` and `release`, which the eNB does not use, are left
  out, and so are wake-ups without a signal.  `PhyPipeline`: the PRACH worker, the users' tables under the worker's
  mutex, and memory that `phch_worker::stop` frees are left out.  Nothing is started again
  after a stop.

## 8. Plan

In order; each is a module of its own with runs as above.

1. `LwipepEma` - the arithmetic of the decision (ue_lwipep_handle_report.cc:232): that it is
   never 0:0 and never divides by zero (540), that `ratio_record` is indexed within its 9 by 9
   (255), and that a report lost between eNB and UE does not count packets twice.  It
   refines the decision that `LwipepControl` leaves open.
2. `LwipLink` - an abstract receiver that delivers packets in order and may skip some,
   and `LwipepUplink` shown to implement it, as `RlcAm` is shown to implement `ReliableLink`, while no packet is given up.
3. Theorems about LWIPEP that are left: that `RlcAm`'s and the uplink's receivers implement the same
   abstract one.
4. `TimersTable` - ids allocated and released while the MAC steps the table.
5. `BufferPool`, `BlockQueue` - condition variables, the threshold at which allocate waits.
6. Theorems about RLC: `IntactInOrder` of `RlcUm` with a bound on the losses within a window in place of one on all
   of them, and without a window.  The life cycle of the entities: `stop`, `reestablish`, `configure` as steps.
7. `PdcpCount` - COUNT at the wrap of the sequence number.
8. `RandomAccess`, `SchedHarq`; then the attach procedure of NAS, MME and RRC.
