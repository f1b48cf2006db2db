# A verification project for LeoCC

LeoCC is a congestion control for low-earth-orbit satellite paths. The repository
holds two programs:

* **LeoCC** itself, a Linux kernel module (`src/leocc`), in a version for live
  networks, which learns of satellite reconfigurations from a user-space monitor,
  and one for emulation, which knows their schedule;
* **LeoReplayer** (`src/leoreplayer`), a fork of Mahimahi that replays recorded
  capacity and delay traces, with recorders and analysis scripts.

The modules here are translations of that code into TLA+. TLC checks them on small
instances; TLAPS proves the main results for all values of the constants.
`PROJECT.json` ties every definition to the source lines it models, and lists the
hazards, the runs, the theorems and the defects that make each property fail.

## Inventory

| component | state | operations | interacts with | module |
|---|---|---|---|---|
| LeoCC flow, `leocc/live_network/leocc.c` | `struct leocc` of a socket: mode, filters, stamps, gains, saved window; plus the socket's `snd_cwnd` and `icsk_ca_state` | `init`, `cong_control` (`leocc_main`), `cwnd_event`, `ssthresh`, `undo_cwnd`, `set_state` | TCP stack calls it under the socket lock; reads two globals the netlink handler writes; shares `leocc_pacing_gain[0]` with other flows | LeoCC |
| Kalman filters, `leocc_main` | `p_post_*`, `*_hat_post` | one measurement | part of the flow | KalmanFilter |
| ACK aggregation and pacing rate, `leocc.c` | `extra_acked[2]` and the epoch; `sk_pacing_rate`, `has_seen_rtt` | an ACK; `init`, `cwnd_event` | part of the flow; the excess is added to the window | AckAggregation, Pacing |
| Reconfiguration detector, `monitor_ping.c` and `netlink.h` | time of the last ping line; trigger flag and time, RTT samples, `min_rtt_fluctuation` | a line of ping; `netlink_recv_msg` | netlink, synchronous with the sender; globals read by every flow | ReconfigCollector |
| LeoCC simulation, `leocc/simulation/leocc.c` | as the flow, with one `init_stamp` for all | as the flow; the trigger is computed from the clock | other flows, through `init_stamp` | LeoCCSim |
| mm-link queue, `frontend/link_queue.cc` | position in the trace, queue, packet in transit, output | `read_packet`, `wait_time`, `write_packets` | called by Ferry; owns a packet queue | LinkQueue, EagerLink |
| Packet queues, `packet/*_queue.*` | packets, byte and packet counters; CoDel and PIE control state | `enqueue`, `dequeue` | owned by the mm-link queue | PacketQueue |
| mm-delay, mm-loss, mm-onoff, mm-meter queues | packets with release times; link state and next switch | as mm-link | called by Ferry | FerryQueues |
| Ferry, `packet/packetshell.cc` and `util/poller.cc` | two tun devices, a queue, passthrough flag, poller | `loop` | EventLoop, queues, signals | Ferry, Poller |
| PacketShell, EventLoop and ChildProcess | a manager's children, what it knows of each | start, `handle_signal`, `~ChildProcess` | kernel signals and `waitid`; five processes | ProcessTree |
| ByteStreamQueue and DNS proxy | ring buffers of a connection | `push`, `pop`, the relaying loop | two sockets, Poller | DnsProxy |
| HTTP parser | incremental message, queue of complete ones, pending requests | `parse`, `new_request_arrived`, `pop` | proxy | HttpMessages |
| HTTP proxy and store | the two parsers of a connection | relay, `save` | sockets, disk, Poller | HttpProxy |
| Replay server and shell | recorded exchanges; web servers and hosts file | set up the servers; match a request | Apache, dnsmasq, disk | ReplayServer, ReplayShell |
| Live graph | bins and points, mutex, two threads | `advance`, `add_value_now`, draw | packet path, drawing thread | BinnedLiveGraph |
| Network plumbing, recorders, scripts | none of interest | system calls, batch conversion | | |

What is hard in this code: the callbacks of a flow and the netlink handler come in
any order with time-outs, losses and idle periods, and share a few variables with
double duties (`prior_cwnd`, `reconfiguration_trigger_time_ms`,
`probe_rtt_done_stamp`); fields are narrow and clocks wrap; the emulator works
lazily, so every call must first make up for the time that has passed; conditions of
the poller are evaluated before a poll and acted upon after it; signals coalesce;
streams arrive in pieces that end anywhere. `PROJECT.json` has the full list of
hazards.

What makes the parts correct, in short:

* flow: modes and flags agree between callbacks; a restart happens only for a
  reconfiguration, on a bandwidth from after the last start, and gives the window back;
  probes last long enough and end;
* filters: no overflow, no overshoot, they settle;
* estimates: the aggregation added to the window is recent; a flow is paced by what
  it measured and not by a guess;
* detector: the flag is up for its duration and no longer; the fluctuation is that of a
  full buffer;
* emulated link: it delivers what the trace allows when it allows it, in order, and
  drops only what does not fit;
* ferry: a packet leaves when it is due, also if nothing else ever wakes the ferry;
* tree of processes: it ends as a whole, leaves nothing behind, and makes no success of
  the command's failure, except where a descriptor of a ferry hangs up;
* proxies: nothing lost, nothing twice, requests and responses paired, everything ends;
* graph: every value counted once, in its bin.

## Modules

### ReconfigCollector

`monitor_ping` reads a line of ping (`PingLine`): a gap longer than `Threshold` before
it is reported as a reconfiguration, other lines with an RTT as samples
(`ReportReconfiguration`, `ReportSample`), lines without one only end the gap
(`SkipLine`). A netlink datagram to the kernel is handled within `sendmsg`, so
`netlink_recv_msg` is part of the same step. Variables carry the names of the C
statics. `detected_at`, `handled_at` and `first_sample_at` are history. The clock is
in milliseconds and stops at `MaxTime`. Times of a report do not decrease. A
reconfiguration that falls into a running collection does not begin another
(`netlink.h:94-102`), so the buffer then holds samples from before and after it. The
model does what the code does; that samples are of one path is not among the properties,
as the code does not promise it.

### KalmanFilter

The four assignments that update one filter, at their widths: five bits for the
variance, 32 for the products. `last` and `same` remember the last measurements.

### AckAggregation, Pacing, Estimates

`AckAggregation` is `leocc_update_ack_aggregation`. The code keeps the stamp at which
an epoch began; the module keeps the age of the epoch (`epoch_us`), which is all the
code computes from it. Two places hold the largest excess of this window of rounds and
of the one before, so together they are the maximum over a sliding window;
`excesses` is the history it is compared with. A place has 16 bits and the excess is
limited by the window only, so one of 65536 packets or more is cut: `ExtraMod` is
assumed to be above every window that is in use.

`Pacing` is `leocc_bw_to_pacing_rate`, `leocc_init_pacing_rate_from_rtt` and
`leocc_set_pacing_rate`. A flow that starts without an RTT is paced as if it were
1 ms; the first RTT replaces this guess, and until the pipe is full the rate is only
raised from then on. `fastest` and `first` are history: the fastest rate a measurement
has justified, and that of the first RTT. Bandwidth, gain and whether the pipe is full
are any value, as LeoCC's modes decide them; the smoothed RTT and
`SO_MAX_PACING_RATE` belong to the socket and are external.

Both are parts of the same ACK as the filter and share no state with it, so
`Estimates` plays the three as scenes of one behaviour. Its assumption is what the code's
types and set-up give: a window fits the 16 bits of an excess, a window of rounds the five
bits that count them, an RTT that was measured is not 0. `MCEstimates` has the values.

### LeoCC

Every helper of `leocc.c` is an operator from the state of a flow (and what the ACK
reports) to the state of the flow, with the helper's name; `leocc_main` and the other
callbacks are actions that apply their composition, since the socket lock makes a
callback one step for its flow. Packet counting, round accounting and the BDP are data
the properties do not tell apart, and the ACK aggregation estimate and the pacing rate,
on which no mode depends, have modules of their own: a member of
`RateSamples` carries the outcome of each comparison made with them (`round`,
`drained`, `phase_over`, `target`, ...). The max filter of the kernel is external:
`RunningMax` allows whatever a windowed maximum may return. The Kalman estimate is any
value between the old one and the measurement, which `EstimatesProofs` shows of
the filter itself. RTTs are in abstract units; `RttMod - 1` stands for `~0U`, to which
the conversion of an `rtt_us` of -1 also leads.

The stack's part (fast recovery, RTO, CWR, undo) is external, modelled from when it calls
the module. Entering CWR calls `ssthresh`. Entering Recovery calls it unless the socket is
in CWR; entering Loss does from a state below CWR, and otherwise only if the data of the
reduction that goes on has been acknowledged or the timeout repeats (`again`). LeoCC
lets the window grow in CWR, and that growth is not saved by a recovery that follows. So
what an episode owes the flow (`owed`) is the window at its beginning, or the lesser of that
and the window at which CWR began. Not modelled are the reduction for a smaller path MTU
(`tcp_simple_retransmit`), which enters Loss without `ssthresh`, and a DSACK that undoes
in Open.

`owed`, `held` (how long the inflight has been small), `round_held` (whether a round has
begun since) and `measured` (the bandwidths of ACKs since the flow last left STARTUP, that
ACK included) are history. A probe ends by an ACK, which asks for time and round, or by a
resume from idle, which asks for the time alone (`leocc.c:263`). A restart takes
`reconfiguration_max_bw`, which only DRAIN clears: it can be from an earlier probe, for
an expired minimum, with no reconfiguration in it, and then is of the old path. The code
does this, and `RestartOnlyForReconfiguration` claims no more than that it is not from
before DRAIN. `NetlinkHandler` may set both globals to any value at any time, which includes
everything ReconfigCollector does.

### LeoCCSim

The version for emulation has the same helpers, so it instantiates LeoCC with
`global_reconfiguration_trigger` mapped to `InWindow`, the schedule that its
`leocc_main` computes from `tcp_jiffies32 - init_stamp` in 32-bit arithmetic, and
writes its own `leocc_main` and `leocc_init`. A socket that starts moves the schedule
of all others, as `init_stamp` is one static. `probes` counts, as history, the probes
that begin for the trigger while a window lasts.

### PacketQueue, LinkQueue, EagerLink

`PacketQueue` has the six queues as operators on records: the two unlimited or
tail-dropping ones, drophead with its assertion as a predicate, CoDel (verdict,
control law, dropping loop) and PIE (early drops, the measurement of the departure
rate, and `calculate_drop_prob`, with the probability in 1/1024). `LinkQueue` has the
three calls Ferry makes; each begins, where the code does, with `rationalize`, which
uses up every opportunity since the last call, packet by packet and byte by byte.
`EagerLink` is the promise: when the clock reaches t, the opportunities of t take
their bytes off what waits. `ImplementsEagerLink` maps the lazy link, as it would be if
brought up to date now, to the eager one. It is claimed of infinite and droptail
queues: CoDel and PIE read the clock when a packet is dequeued, which is when the link
is brought up to date and not when the opportunity was. Log and meter output is left
out. The clock does not go back.

What the translation shows of the two active queues, beyond the properties:

* CoDel (`codel_packet_queue.cc`) compares `timestamp()`, which counts from the program's start, with the
  arrival times of packets, which are `raw_timestamp()`. The unsigned difference of
  line 40 is always above the target; only the queue's size keeps
  a packet from being dropped. `Epoch` and `Width` keep both clocks and the wrap.
* Its loop (line 74) declares a second `r`: the last packet it dequeues, which it was
  told not to drop, is discarded too, and the one returned is that of line 65. It can
  be the last in the queue, which the NOTE at lines 23-26 says is not dropped.
* PIE catches up with missed updates on the ground that the queue has not changed
  since the last one (`pie_packet_queue.cc:130-135`). That is so at enqueue; `dequeue`
  catches up after it has taken a packet out, so the missed updates see a queue that
  was longer when they were due.

### FerryQueues, Ferry, Poller

`FerryQueues` has the queues of the other tools as one record: packets with a key,
the link's state, its next switch. `Writes` says which sequences of packets the loop of
`write_packets` may write: each packet is on top and due once those before it have left,
and after the last none is. `Switched` is the loop of `wait_time`, turn by turn, over all
random times. `Poller` has what one call of `Poller::poll` decides: which actions are
polled, in which order they are served, that a hang-up ends the round at its
descriptor, and when there is nothing left. `Ferry` is `Ferry::loop`, in the steps
at which it reads the clock or the state: `WaitTime`, `PollBegins` (conditions),
`PollReturns`, one action for each callback, `PollEnds`. Time passes between any two
steps, unless the ferry is `prompt`. With `steps` the wall clock may be stepped back.
No queue here finishes; the link, which can, is LinkQueue's.
`FerryAssumption` is what the tools check of their command line, or the code relies on: a
trace of delays has entries, and a link is not off for no time after it was on for none
(`loss_queue.cc:91`).

### ProcessTree

Five processes: the shell, its children uplink and downlink, and uplink's children
dnsmasq and the command. `run`, `status`, `change` and `pending` are the kernel's:
one record of the last change of state for the parent, at most one pending signal of
a kind. `at` and `place` are the program counter of a manager: starting, the loop,
the search for waitable children, one child at a time, and `~ChildProcess` for each
child left. `handle_signal` is split by signal and by what the search finds
(`HandleTermination`, `HandleContinue`, `HandleChild`; `ScanTerminated`, `ScanStopped`,
`ScanOther`, `ScanEnds`). Starting can fail at any step (`Throw`), a call of the system or
a callback in the loop can (`ThrowInLoop`), a ferry can finish (`Finish`), the command exits,
stops, is continued; the user terminates the shell. `MaxMishaps` bounds how often the
command stops, a loop throws or a descriptor hangs up, together.

When a descriptor of a ferry hangs up (`HangUp`), `Poller::poll` returns Exit with its
default status 0, which the loop returns (`poller.cc:50-53`, `event_loop.cc:106-107`):
the ferry leaves as if it had succeeded. If that is uplink the command is terminated, and
the shell can exit with 0. `SuccessIsDeserved` has this as one of its cases (`hung`,
history). `abort`, which the assertion of drophead leads to, and SIGKILL end a process
without its destructors and are not modelled: `NoOrphans` is about processes that return
or throw.

### DnsProxy

`ByteStreamQueue` with its ring, and the thread of one TCP connection with its four
actions. The sockets block: a connection holds `Room` bytes that its peer has not read
(`unread`), is writable while one more fits, and a write that has begun (`Write`) keeps the
thread until the connection has taken all of it (`WriteGoesOn`) or the peer goes
(`CutShort`); meanwhile neither direction is served. Peers read when they like (`Hear`).
Bytes are numbers, so what arrives shows what is missing or twice. A peer may
close its output, or go altogether; a socket of a peer that has gone may hang up or
throw. Another peer's half-close is seen (the action is cancelled) and not passed on:
`handle_tcp` has no shutdown.

### HttpMessages, ReplayServer, ReplayShell, HttpProxy

`HttpMessages` is the parser as operators: `parse` takes a piece and runs
`ParsingSteps`; a message is `FIRST_LINE_PENDING`, `HEADERS_PENDING`, `BODY_PENDING`
or `COMPLETE`; the chunked parser keeps its own buffer and counts what it has
acknowledged, as in the code. CR and LF are bytes; a method, a header or a chunk
size is one byte. `ReplayServer` has the score by which a recorded exchange is
chosen; `ReplayShell` what mm-webreplay sets up from a recording: a web server for each
recorded address, and a hosts file with a line for each recorded pair of name and address.
Every server answers from the whole recording, while the man page says that each
emulates the one server of its address. `ReplaysTheRecorded` takes a
request all the way: the name resolves to the recorded address, a server listens there,
and it replies with what was recorded. `HttpProxy` is a connection of mm-webrecord: the poll, its four callbacks, a
client and a server whose dialog is chosen in the initial state. Requests may be
pipelined; every split of the streams into reads is explored.

Left out of the dialogs, with what the code does: an interim response (100 Continue)
is taken for the answer of the queued request; the end of the stream completes a
truncated chunked body; a response that announces a trailer and sends none is never
complete; a request whose method is not GET, HEAD or POST makes the parser throw. A recorded request without a Host header is in the dialogs:
`replayshell.cc:111` throws for it, so one such request makes the whole recording
unusable, and `ReplaysTheRecorded` claims nothing of that recording.

### BinnedLiveGraph

One line of one graph, and the steps of the two threads at which they take or release
the mutex, or touch what is shared without it. `adds` remembers for each value the
bins at the call and at the addition. `AdvanceUnconstructed` is the animation that
reaches the end of a bin before the constructor has made `initialize_new_bin_`: an
empty function throws in its thread, anything else crashes. A frame drawn within the
first millisecond of a bin divides the rate by zero; the result is drawn, not kept.

### Container

Ferry, ProcessTree, DnsProxy and BinnedLiveGraph in one module. They are parts of
one container and share no state, so each behaviour plays one of them (`scene`) and
leaves the variables of the others at an initial value. The properties of the four
hold in the initial states of all, so in a scene only its own properties can fail. The
ferry and the proxy are instances of the modules that hold their proofs, so that what is
proved of them can be cited. `MCPacketShell` has the values.

## Runs

| run | checks | bounds and why they are enough |
|---|---|---|
| ReconfigCollector_apart | flag and fluctuation, with reconfigurations apart | two collections and several triggers fit in the time bound; RTTs shorter than and as long as the trigger; a buffer of a few samples fills and is evaluated |
| ReconfigCollector_stuck | the flag's duration with reconfigurations at any time: **violated** | the same instance |
| Estimates | the filter on all sequences over eight measurement values; ACK aggregation; the pacing rate | filter: the state is the estimate alone, so all lengths are covered, with values up to 2000 units and jumps between extremes; aggregation: windows of two rounds, epochs of up to 4 ticks, a threshold of 6 packets that is reached; pacing: a guess of 2 us between RTTs of 1, 4 and 8, a limit that cuts rates and one that does not |
| LeoCC_modes | mode machine | jiffies of 4 values wrap several times within any behaviour; two RTTs, so that minima, drops and expiry happen; no losses |
| LeoCC_window | window and recovery | windows up to the clamp 2, losses, partial ACKs, undo, CWR with and without a recovery after it; both triggers of PROBE_RTT |
| LeoCC_live | liveness, and the order of the phases | one flow, 3 jiffies, 4 phases, the cases that advance the mode machine and those that do not |
| LeoCCSim | at most one probe in a scheduled window | a period of 4 ticks in a clock that wraps after three of them; another socket may move the schedule; a probe lasts 2 ticks, a window 2 |
| LinkQueue | all properties of the link, with each kind of queue but drophead | packets smaller than and equal to an opportunity, a burst of two in one ms, a wrap of the trace, a trace from 0 played once and arrivals after its end, CoDel dropping several packets at once, PIE missing updates |
| LinkQueue_drophead | the assertion in `dequeue`: **violated** | three packets are enough |
| HttpProxy | recording and replay, with what the replay sets up | dialogs with every rule for a body's length, pipelining, a body that looks like the end of the headers; every split of up to 40 bytes; either side closing early |
| PacketShell | the four scenes | ferry: two packets, six tools (of them a trace of delays and a periodic link that are prompt), one step back of the clock, one signal of each kind; tree: one stop of the command, exception in a loop or hang-up, all failures of a start; relay: rings of 3 that fill and wrap, connections of 1 byte that a write of two must wait for, 1 and 4 bytes said; graph: two values and bins of 2 ms |
| ProcessTree_quit | that a shell whose children have quit quits: **violated** | no stops, exceptions in a loop or hang-ups |

One flow is enough for LeoCC's properties of a flow: flows share nothing but the
globals, which the environment already sets arbitrarily, and `leocc_pacing_gain[0]`,
on which none of them depends; the theorems hold for any set of flows. PacketShell is
the largest run (284 thousand states, most of the time for the three liveness
properties).

`CHECK_DEADLOCK FALSE` is in the configurations of systems that stop: PacketShell (the
tree has ended, the ferry was ended, the thread has returned), ProcessTree_quit, and the
detector, whose clock stops at its bound.
HttpProxy has an action for a thread that has returned instead, so that a proxy that
waits for nothing would be reported.

### What the three violated runs show

* `ReconfigCollector_stuck`: `global_reconfiguration_trigger_duration` (200 ms) does
  not bound how long the flag is up. When the 100-sample buffer fills,
  `netlink.h:94` clears the trigger time, also that of a reconfiguration that came
  during the collection; from then on line 68 never lowers the flag.
* `LinkQueue_drophead`: `DroppingPacketQueue::dequeue` asserts that limits hold after
  one packet is taken out, and `DropHeadPacketQueue` drops one packet at a time until
  they hold. With a byte limit two drops may be needed, and the assertion fails.
* `ProcessTree_quit`: `handle_signal` searches all children, since signals coalesce
  (`event_loop.cc:40-41`), but returns at the first that has terminated (line 62). When
  both ferries of an `mm-link --once` finish with 77 before the shell reads its one
  SIGCHLD, the second is never waited for, and the shell does not quit.

### What the properties leave to the code

Where the code does something a reader might not expect and nothing in the repository
promises otherwise, the model has it and the property is stated around it:

* a fluctuation of samples from before and after a reconfiguration (`netlink.h:102`);
* a packet that CoDel discards in its loop though it was told to spare it
  (`codel_packet_queue.cc:74`): `DropsOnlyWhenFull` leaves to CoDel and PIE what they drop
  from more than one packet of the largest size;
* a clock stepped back between the condition and the callback of mm-delay, which ends the
  ferry (`NoBusyWait` and `LeaveOnTime` are for clocks that do not go back);
* a packet read after the link has switched, when the ferry was held up between `wait_time`
  and the read (`TakenWhileOn` and `LeaveOnTime` are for prompt ferries);
* responses not yet written when a peer hangs up (`EverythingRecorded` is for clients that
  leave once all is saved);
* recorded responses to the same request line, scheme and host: any of them is a right
  answer for `ReplaysTheRecorded`;
* a hang-up that makes a ferry exit with 0 (`SuccessIsDeserved`).

### Fairness

* LeoCC, `FairSpec`: time passes (`WF_vars(Tick)`), and a flow that has data to send
  gets ACKs that deliver data, end a round and find the queue drained, in every jiffy
  that recurs. DRAIN paces below the estimated bandwidth and PROBE_RTT caps the window,
  so that queues do drain. Such ACKs do not always find the flow just resumed from
  idle, unless it always is: a flow marked idle before each of its ACKs never enters
  PROBE_RTT (`leocc.c:617`), and nothing is claimed of it.
* ProcessTree: as long as some process can run, one does, and a user does not leave a
  suspended shell suspended. Nothing is assumed of which process runs, so this is
  weaker than the scheduling of any kernel. That a command exits is not assumed.
* Ferry: the process is scheduled, and time passes. DnsProxy: the thread is scheduled,
  and each peer goes on reading what its connection holds, whatever else it does. This is
  needed: without `WF_vars(Hear(p))` TLC refutes `RelayedInTheEnd`, as a peer that stops
  reading blocks the thread in a write and with it the other direction. Nothing in the code
  makes peers read, so the property is about peers that do; a peer that reads only after
  all it says has been taken may wait for ever. Peers need not say anything or close.
* The detector, the estimates, the simulation's schedule, the link, the HTTP proxy and the graph have
  no liveness property. For HttpProxy the absence of deadlock is checked.

## Proofs

Every theorem is about the specification of a run, for every value of the constants that
the named assumptions allow. For each the property is not inductive as it stands; what
follows is what had to be added, and why.

### `ReconfigCollectorProofs`

* `FlagIsHeldForItsDuration`: the trigger time is 0 or that of the last detection, which
  is not in the future. Expiry is decided by the shared trigger time, so the property
  needs it.
* `CollectorIsTyped`: for the range of the fluctuation the buffer, sorted, must have its
  5th percentile below its 95th. `AscendingUpTo` is shown to hold of each choice of a
  smallest remaining sample, up to the whole buffer.
* `FluctuationOfTheBuffer` follows, as only a full buffer is evaluated.
* `FlagComesDown` is about reconfigurations that come one at a time (`ReconfigsApart`;
  without it `ReconfigCollector_stuck` shows `FlagDownAfterItsDuration` false). `ApartInv`:
  while a trigger is pending no gap opens, and the samples of the buffer were stored
  `LineGap` apart, the first of them an RTT after the trigger. The theorem also assumes
  `CollectionOutlastsFlag`: the end of a collection clears the time that lowers the flag,
  which does no harm only since the collection lasts as long as the flag should be up. In
  the code that is 100 samples of lines 10 ms apart against 200 ms.

### `EstimatesProofs`

* `VarianceAlwaysFits`, `EstimateMovesTowardsMeasurement`: the variance is 25, 3 or 2, so
  only three gains occur; for each the update is linear. Assumption: measurements are below
  2^24 (an RTT below 16.7 s; for the bandwidth, one packet per microsecond), so that 256
  times the measurement fits 32 bits.
* `EstimateSettles`: each equal measurement at least halves the distance, but for the one
  that truncation leaves. `Settling` bounds it by 2^(Settled - same); the powers of two are
  a function that the theorem takes with its two equations.
* `AggregationIsRecent`: `AggregationInv` says which rounds each place stands for (the
  latest `extra_acked_win_rtts + 1`, and the `WinRtts` before them), and that it is at least
  each excess of its rounds and one of those remembered.
* `FlowsArePacedAsMeasured`: `PaceInv` ties the rate to whether an RTT has been seen, in
  the code's flag and in history, within the limit of the socket.

### `LeoCCProofs`

One lemma for each helper says what it does to the fields in question; one for each action
composes them.

* `FlowsAreTyped`, `StartupIsPipeNotFull`: the conjunction is inductive between callbacks;
  within `leocc_update_model` the flag runs ahead of the mode, and `CheckDrain` shows
  where they meet again.
* `SavedWindowCoversEpisode` (`PriorCwndCoversEpisode`), `WindowsAreClamped`: what is owed
  is that of the episode's beginning, or of CWR's (see the module).
  `leocc_save_cwnd` overwrites `prior_cwnd` unless `prev_ca_state` or the mode says that an
  episode is on, and `prev_ca_state` lags behind TCP's state until the next ACK. `Covered`
  adds that a flow in Loss has `prev_ca_state` Loss (only Recovery can lag), and that while
  Recovery lags the window itself has not been reduced, so that overwriting loses nothing;
  that what is owed is covered from the start of CWR on; and the clamp, which makes the unclamped restore of `leocc_check_probe_rtt_done`
  harmless.
* `ProbeRttIsHeld`: `after` compares modulo 2^32. `HeldStamp` says what the stamp is while a
  probe has been held for no longer than it must, counted from the present, so that the
  comparison is decided wherever the clock wraps, and also if the stamp comes out as 0.
* `RestartsForReconfiguration`, `DrainsWhatItFilled`: `PhaseStep` says of each helper what
  it may do to the mode; `Books` that `latest_bw` and `reconfiguration_max_bw` are among what
  was measured since STARTUP (or 0), and what `probe_rtt_round_done` means of the rounds; the cycle begins in no phase 1 for every number of phases (the code
  masks the index, which is the remainder of the model since its number is a power of two).
* `RestartsWithItsWindow`: with `Covered` before the step, the step restores the saved
  window and takes from it at most what this ACK reports lost (`GivesBack`,
  `ShortOfLosses`).

### `LeoCCSimProofs`

`OneAnswerPerWindow` (`OneProbePerWindow`), in two halves.

* The schedule: `PassedAt` compares the wrapped product with what it was when the window
  opened. `PassedTicks` shows that a jiffy that passes within a window brings its end a
  jiffy nearer: a product that wraps, or a period that ends, leaves a relative time of less
  than a jiffy, and the window does not open that early. `WindowCloses`: so no window lasts
  as long as a probe.
* The flow: `SimInv` says that one that has begun its probe is still probing, since no
  longer than the window has been open (`Probing`), or that the window is over and the
  flow has no trigger left but in STARTUP, the mode that leads through DRAIN (`Done`).
  Each helper is a `Step` that keeps this, and the end of a probe is one since `HeldStamp`
  and `WindowCloses` put it after the window.

It rests on `WindowAssumption`: the window opens a jiffy after the schedule starts or
later, and a probe is longer than the window. With the numbers of the code (an offset of
12000 ms, a window of 100 ms, a probe of 200 ms) it holds for every `HZ` of the kernel;
`offset` is a module parameter, and the argument says nothing of one within the length of
the window.

### `LinkQueueProofs`

`PacketsKeepTheirOrder` (`FirstInFirstOut`) and `LinkIsTyped` go through every loop of the
link: `rationalize` by opportunity and by packet, the dropping loops of drophead and
CoDel, the missed updates of PIE. Each is a recursive function of the turns, and what it
keeps is proved by induction on them (`OpportunityRounds`, `RationalizeRounds` give the
sequence of what the rounds make). `LinkInv` puts all that was delivered,
what waits to be written, the packet under way and the queue in one ascending order
(`InSteps`); a queue returns its first packet and loses only packets (`Returns`,
`Takes`); and between opportunities the packet under way has lost a byte at least
(`LinkRests`), which is how the code can tell by its bytes whether there is one.
`NothingIsLostWhileThereIsRoom` (`DropsOnlyWhenFull`) follows the number of packets through
the same loops: `Carries` says that what the link holds becomes less only if CoDel may drop
(`MayDrop`), that is from a queue of more bytes than the largest packet has, which the
queue before the call then had too since it ends with it (`SizeSuffix`); `Takes` that a
packet is turned away only for want of room (`Refuses`).

`LinkImplementsEager` (`ImplementsEagerLink`) is the refinement, for every trace and every
link without a memory of time (`Timeless`). Two facts carry it:
* The clock. An opportunity is an entry of the trace in a repetition of it (`Slots`), and
  falls due at `TimeOf`. `ClockInv`, the inductive invariant added to `LinkInv`, says that
  the opportunities that a link has used are a prefix of them (`Past`: those of the
  repetitions before and the first `next_delivery` of this one), none after now. So the
  link that has nothing due has used exactly those up to now (`NothingDue`), and
  `rationalize` takes as many turns as there are slots up to now that it has not used;
  there are never more than its bound `Rounds` (`RationalizeServes`, `UpToFinite`).
* The bytes. `Serves` says what a number of bytes makes of the packets waiting, the first
  of which may be partly sent: what leaves, what waits then, and how much of its first is
  sent. There is one such outcome (`ServesUnique`), bytes after bytes compose
  (`ServesMore`), an opportunity is `PACKET_SIZE` of them whatever the turns of its own
  loop (`OpportunityServes`), and the eager link's `Serve` is that outcome (`EagerServe`).

A packet that is read is then `Arrive`, the bytes written are `Write`, a millisecond is
`Advance` (its slots are those that `Opportunities` counts, `EagerOpportunities`), and
`wait_time` changes nothing that the eager link has: what is brought up to date twice is
as if it were once (`UpToDateRests`). The initial states and each step are shown to map,
which is all that the refinement says, as neither specification has fairness in it.

### `FerryProofs`, `DnsProxyProofs`, `ContainerProofs`

* `PacketsLeaveInOrder`: a packet that may not be overtaken is ahead of the other in what
  was sent and in the queue (`OrderInv`); `FlowInv` ties the keys of the queue to what is
  known of each packet. Nothing is assumed of the clock.
* `NoCallIsInVain`: from the evaluation of the conditions to the callback, some packet on
  top is due (`IsDue`), unless the clock was stepped back. What is on top may change while
  the tun device is read; a packet that replaces another is due no later.
* `PacketsLeaveOnTime`: `PromptInv`: what awaits a read has just arrived, nothing in the
  queue is overdue, and the ferry, when it sleeps, wakes no later than the next release
  (`WakesFor`). This is why it does no harm that the sleep is computed before the packets
  of the poll are read: they are read only in a poll that does not sleep on.
* `PacketsAreTakenWhileOn`: `SwitchInv`: the next switch is a multiple of the period, or
  that and the time on (`InPhase`); the turns of `Switched` are shown to keep it, also
  where a phase takes no time.
* `RelayLosesNothing`: a ring holds what follows the bytes handed over so far, in its order
  from the one position to the other (`RingInv`); an end of stream is final, and only it
  takes an action out of the poll (`EndInv`); what the poll reported stays true until the
  action is served (`ReportInv`), since the other actions of the pass only add what this
  one needs. The last is what keeps the assertions of `bytestream_queue.cc` true without a
  look at the queue before the call. Of the connections it is enough that they hold no more
  than their room (`RoomInv`), whatever that is; that peers read is not assumed.
* `ContainerProofs` carries these over to the container of the run: `FerryKeepsTheOrder`,
  `NoFerryCallsInVain`, `FerryIsOnTime`, `LinkTakesWhileOn`, `ProxyRelaysAsSaid`, as the
  projection of a behaviour on the variables of a scene is one of that part
  (`ScenesArePlayedApart`). And it has the proofs about the tree:
* `NobodyIsLeftBehind` (`NoOrphans`), from the facts that a parent believes only of ended
  processes that they have (`BeliefInv`), and that the children it has not come to do not
  exist (`StartInv`), where a manager may leave at any step of its start or loop;
  `SuccessIsOfTheCommand` (`SuccessIsDeserved`), from the reasons that a
  manager may have to leave with 0 (`StatusInv`), who may signal it (`FatalInv`), what its
  parent knows of it (`KnownInv`), and that a manager waits only for a child of its own
  (`WaitInv`). That is the invariant for as long as no descriptor has hung up; one that has
  stays in history (`HungStays`). A ferry's own 0 means nothing; only together with the shell's having left
  before it is the property inductive. Nothing is assumed of the constants.
* `ValuesAreCounted` (`CountedInItsBin`): the place of each value is the bin that is current
  when it is added (`CountInv`). That bin has come since the call, whichever thread has moved
  it on (`PendingInv`), and no bin that already has a point is added to (`IsOver`): not even
  the one of which the animation makes a point before the constructor has ended, as the
  ferry leaves it in `advance` before it adds. Sums are over the places of the values, so
  that two equal values count twice; a sum follows its bin by the lemmas `SumOfOneMore` and
  `SumOfTheSame`, a maximum by `MaxWithOneMore`.

The induction theorems of the library cannot be used with the provers at hand, so where a
loop is followed the proof takes the least counterexample instead: a set of naturals that
is not empty has a least element, which is a fact without an operator as a parameter.

The assumptions are those named in the modules, which TLC evaluates on every run. The
theorems of `FerryProofs` and `DnsProxyProofs` state them as hypotheses, since their modules
are instantiated, and `ContainerAssumption` discharges them: a ring of two places or more
(the code's has 1 MB), a number of bytes for each peer, `FerryAssumption`, and
`GraphAssumption` (values that are not negative, and bins of a millisecond or more).

### Only model-checked

* Liveness and whatever rests on fairness (`ReconfigurationHandled`, `ProbeRttEnds`,
  `TakenLeaves`, `TreeEnds`, `RelayedInTheEnd`): outside the prover.
* `SavedAsSaid`, `ParsersAccept`, `EverythingRecorded`, `ReplaysTheRecorded`: the parser and
  the matching are RECURSIVE operators over bytes, which take the prover's SMT backend away.

## Plan

Done: the detector, the filters and the other estimates, both versions of the flow, the link with its queues,
the ferry with the other queues, the tree of processes, the DNS relay, the HTTP parser,
proxy, matching and replay set-up, the graph. What is left, in this order:

1. `LeoCCSystem`: flows and the detector composed, with monitor_ping stopping, two
   flows that share `leocc_pacing_gain[0]`, and the repeated restart of one
   reconfiguration.
2. `handle_udp` of the DNS proxy, and the accept loops of the proxies.

## Not modelled

Generated code, the traces and example data, drawing, Apache and TLS glue, set-up of
namespaces and NAT, and the batch scripts: no state machine, or system calls only.
The TSO sizing of LeoCC (`leocc.c:196-238`) is arithmetic without state that others
depend on. The parsing of traces and command lines (linkshell.cc,
delayshell.cc and the like), and the drawing code (graph.cc, display.cc,
cairo_objects.cc) beyond which points a frame keeps, have no state that a property
could be about. `PROJECT.json` gives the status of every component.
