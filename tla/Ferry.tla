-------------------------------- MODULE Ferry --------------------------------
(***************************************************************************)
(* The process that carries packets one way through a container (Ferry::loop *)
(* of PacketShell): it reads one packet at a time from its tun device, puts  *)
(* it in the queue, and writes what the queue releases to the other tun      *)
(* device.  Between polls it asks the queue how long to sleep.               *)
(*                                                                         *)
(* Until SIGUSR1 a ferry made with passthrough bypasses its queue.           *)
(***************************************************************************)
EXTENDS FerryQueues, Poller, Sequences

CONSTANTS
    Setups,        \* the tools (see Setup), with whether each starts in passthrough, is
                   \* prompt and periodic, its signals, and whether its clock steps back
    MaxTime,       \* bound: the clock of the packets stops here
    LastArrival,   \* bound: no packet arrives after this time
    MaxPackets,    \* bound: this many packets arrive
    MaxSteps       \* bound: the wall clock is stepped back this many times

\* A trace of delays is not empty, and no link switches without end in no time.
FerryAssumption ==
    /\ MaxWait \in Nat /\ MaxTime \in Nat /\ LastArrival \in Nat
    /\ MaxPackets \in Nat /\ MaxSteps \in Nat
    /\ \A s \in Setups :
          /\ s.kind \in {"delay", "loss", "switch", "meter"}
          /\ s.delays \in Seq(Nat) /\ (s.kind = "delay" => s.delays # <<>>)
          /\ s.interval \in Nat \ {0}
          /\ s.on_times \subseteq Nat /\ s.off_times \subseteq Nat
          /\ \A on \in s.on_times, off \in s.off_times : on + off > 0
          /\ s.periodic => \E on \in s.on_times, off \in s.off_times :
                              s.on_times = {on} /\ s.off_times = {off}
          /\ {s.passthrough, s.prompt, s.steps, s.periodic} \subseteq BOOLEAN
          /\ s.signals \subseteq {"SIGUSR1", "SIGTERM"}

\* A prompt ferry runs as soon as it can; otherwise time passes between its steps.
VARIABLES
    setup,         \* the tool, whether it starts in passthrough, and is prompt
    now,           \* raw_timestamp, CLOCK_REALTIME in ms
    tun,           \* packets that await a read: id and time of arrival
    signals,       \* signals that await a read
    queue,         \* ferry_queue
    passthrough,   \* passthrough_
    loop,          \* where the ferry is: wait_time, events, poll, serve, exit, thrown
    timeout,       \* what is left of the time it sleeps
    report,        \* the poll in progress, or the events it waits for
    arrived,       \* history: how many packets have arrived
    known,         \* history: for each packet read, whether it was taken, and when it is due
    sent,          \* history: packets written, with the time of it
    steps          \* history: steps of the wall clock

vars == <<setup, now, tun, signals, queue, passthrough, loop, timeout, report, arrived,
          known, sent, steps>>

Init ==
    /\ setup \in Setups
    /\ now = 0 /\ tun = <<>> /\ signals = {}
    /\ queue = NewQueue(now)
    /\ passthrough = setup.passthrough
    /\ loop = "wait_time" /\ timeout = 0 /\ report = NoReport
    /\ arrived = 0 /\ known = <<>> /\ sent = <<>> /\ steps = 0

-----------------------------------------------------------------------------
(* The loop                                                                 *)

\* internal_loop evaluates wait_time, which brings a switching link up to date.
WaitTime ==
    /\ loop = "wait_time"
    /\ queue' \in Switched(setup, queue, now)
    /\ timeout' = wait_time(setup, queue', now)
    /\ loop' = "events"
    /\ UNCHANGED <<setup, now, tun, signals, passthrough, report, arrived, known, sent, steps>>

\* The tun device, the sibling and the signals.  No queue of this module finishes,
\* which would be a third action on the sibling.
actions ==
    <<Action("In", TRUE, TRUE, FALSE),
      Action("Out", TRUE, ~passthrough /\ pending_output(setup, queue, now), FALSE),
      Action("In", TRUE, TRUE, FALSE)>>

PollBegins ==
    /\ loop = "events"
    /\ report' = Report(Events(actions), {})
    /\ loop' = "poll"
    /\ UNCHANGED <<setup, now, tun, signals, queue, passthrough, timeout, arrived, known,
                   sent, steps>>

Ready ==
    report.revents \cap
        ((IF tun # <<>> THEN {1} ELSE {}) \cup {2} \cup (IF signals # {} THEN {3} ELSE {}))

PollReturns ==
    /\ loop = "poll"
    /\ Ready # {} \/ timeout = 0
    /\ report' = Report(Ready, {})
    /\ loop' = IF Ready = {} THEN "wait_time" ELSE "serve"
    /\ UNCHANGED <<setup, now, tun, signals, queue, passthrough, timeout, arrived, known,
                   sent, steps>>

Serve(i) ==
    /\ loop = "serve" /\ Serves(report, i)
    /\ report' = Served(report)

Written(ids) == sent' = sent \o [i \in DOMAIN ids |-> [id |-> ids[i], time |-> now]]

\* Packets have ids in the order of arrival, and are read in this order.
ReadTun ==
    /\ Serve(1)
    /\ tun' = Tail(tun)
    /\ LET p == Head(tun)
       IN  \/ /\ passthrough
              /\ Written(<<p.id>>)
              /\ known' = Append(known, [taken |-> TRUE, due |-> now, at |-> p.time])
              /\ UNCHANGED queue
           \/ /\ ~passthrough
              /\ queue' \in read_packet(setup, queue, p.id, now)
              /\ known' = Append(known,
                     [taken |-> queue' # queue, at |-> p.time,
                      due |-> IF setup.kind = "delay" THEN now + delay(setup, now) ELSE now])
              /\ UNCHANGED sent
    /\ UNCHANGED <<setup, now, signals, passthrough, loop, timeout, arrived, steps>>

\* The poller throws when a callback has not used its descriptor.
WriteSibling ==
    /\ Serve(2)
    /\ \E w \in Writes(setup, queue, now) :
          /\ Written([i \in DOMAIN w |-> w[i].id])
          /\ queue' = without(queue, {w[i] : i \in DOMAIN w})
          /\ loop' = IF w = <<>> THEN "thrown" ELSE "serve"
    /\ UNCHANGED <<setup, now, tun, signals, passthrough, timeout, arrived, known, steps>>

\* handle_signal; SIGTERM stands for the four that end the loop.
ReadSignal ==
    /\ Serve(3)
    /\ \E sig \in signals :
          /\ signals' = signals \ {sig}
          /\ passthrough' = (passthrough /\ sig # "SIGUSR1")
          /\ loop' = IF sig = "SIGTERM" THEN "exit" ELSE "serve"
    /\ UNCHANGED <<setup, now, tun, queue, timeout, arrived, known, sent, steps>>

PollEnds ==
    /\ loop = "serve" /\ Reported(report) = {}
    /\ loop' = "wait_time"
    /\ UNCHANGED <<setup, now, tun, signals, queue, passthrough, timeout, report, arrived,
                   known, sent, steps>>

Loop ==
    \/ WaitTime \/ PollBegins \/ PollReturns
    \/ ReadTun \/ WriteSibling \/ ReadSignal \/ PollEnds

-----------------------------------------------------------------------------
(* The environment                                                          *)

Sleeps == loop = "poll" /\ Ready = {} /\ timeout > 0

\* At MaxTime the clock of the packets stops, and the ferry still wakes up.
Tick ==
    /\ now < MaxTime \/ (loop = "poll" /\ timeout > 0)
    /\ setup.prompt => Sleeps
    /\ now' = Min({now + 1, MaxTime})
    /\ timeout' = IF loop = "poll" THEN Max({0, timeout - 1}) ELSE timeout
    /\ UNCHANGED <<setup, tun, signals, queue, passthrough, loop, report, arrived, known,
                   sent, steps>>

\* The wall clock is stepped back; sleeping goes by another clock.
StepBack ==
    /\ steps < MaxSteps /\ setup.steps /\ now > 0
    /\ now' = now - 1 /\ steps' = steps + 1
    /\ UNCHANGED <<setup, tun, signals, queue, passthrough, loop, timeout, report, arrived,
                   known, sent>>

Arrive ==
    /\ arrived < MaxPackets /\ now <= LastArrival
    /\ arrived' = arrived + 1
    /\ tun' = Append(tun, [id |-> arrived', time |-> now])
    /\ UNCHANGED <<setup, now, signals, queue, passthrough, loop, timeout, report, known,
                   sent, steps>>

\* SIGUSR1 ends passthrough; the parent ends the ferry.
Signal(sig) ==
    /\ sig \in setup.signals \ signals
    /\ sig = "SIGUSR1" => passthrough
    /\ signals' = signals \cup {sig}
    /\ UNCHANGED <<setup, now, tun, queue, passthrough, loop, timeout, report, arrived, known,
                   sent, steps>>

Next ==
    \/ Loop \/ Tick \/ StepBack \/ Arrive
    \/ Signal("SIGUSR1") \/ Signal("SIGTERM")

\* The ferry is scheduled, and time passes.
Spec == Init /\ [][Next]_vars /\ WF_vars(Loop) /\ WF_vars(Tick)

-----------------------------------------------------------------------------
(* Properties                                                               *)

SentIds == {sent[i].id : i \in DOMAIN sent}

\* As long as the clock does not go back, a packet that made the ferry ask for the
\* sibling is still due when the callback reads the clock again.
NoBusyWait == steps = 0 => loop # "thrown"

\* A ferry that is scheduled promptly wakes up for each packet: it leaves when the
\* trace says, and at once if the tool does not delay.
LeaveOnTime ==
    setup.prompt /\ steps = 0 =>
        \A i \in DOMAIN sent : sent[i].time = Max({known[sent[i].id].due, known[sent[i].id].at})

\* A packet overtakes another only if a smaller delay has made it due earlier, or
\* both are due in the same millisecond, also if the clock is stepped back.
LeaveInOrder ==
    \A i, j \in DOMAIN sent :
        (i < j /\ sent[i].id > sent[j].id) =>
            /\ setup.kind = "delay"
            /\ known[sent[i].id].due <= known[sent[j].id].due

\* A prompt ferry of a periodic link takes a packet exactly while the link is on;
\* in a millisecond in which it switches, either can happen.
OnAt(t) == t % (Min(setup.on_times) + Min(setup.off_times)) < Min(setup.on_times)
TakenWhileOn ==
    (setup.kind = "switch" /\ setup.periodic /\ setup.prompt /\ ~setup.passthrough /\ steps = 0) =>
        \A i \in DOMAIN known :
            known[i].taken \in {OnAt(known[i].at), known[i].at > 0 /\ OnAt(known[i].at - 1)}

\* What the queue has taken leaves, unless the ferry is ended, or the packet is due
\* after the clock of the packets stops.
TakenLeaves ==
    LET Awaited == {id \in DOMAIN known : known[id].taken /\ known[id].due <= MaxTime} \ SentIds
    IN  Awaited # {} ~> (Awaited = {} \/ loop \in {"exit", "thrown"})
=============================================================================
