----------------------------- MODULE ProcessTree -----------------------------
(***************************************************************************)
(* The processes of a PacketShell.  The shell starts "uplink" and "downlink"; *)
(* "uplink" starts dnsmasq and the user's command.  Each of the three, a      *)
(* manager, runs an EventLoop with its ChildProcesses: it reads one signal at  *)
(* a time from a signalfd, waits for children that have changed state, and,    *)
(* whatever makes it leave, ends the children it has left (~ChildProcess).     *)
(*                                                                         *)
(* The kernel keeps, for each process, one record of its last change of state  *)
(* for its parent to wait for, and at most one signal of a kind pending.       *)
(***************************************************************************)
EXTENDS Integers, Sequences

CONSTANTS
    MaxMishaps,    \* bound: how often the command is stopped, or a loop throws or finds
                   \* that a descriptor has hung up
    MayFinish      \* whether the trace of a ferry can end (mm-link --once)

Managers == {"shell", "uplink", "downlink"}
Children == [shell |-> <<"uplink", "downlink">>,
             uplink |-> <<"dnsmasq", "command">>,
             downlink |-> <<>>]
Leaves == {"dnsmasq", "command"}
Processes == Managers \cup Leaves
Parent(p) == IF p \in Leaves THEN "uplink" ELSE "shell"
ChildrenOf(p) == {Children[p][i] : i \in DOMAIN Children[p]}

FAILURE == 1
FINISHED == 77
KILLED == 15         \* died on a signal: the status is its number, which is not 0

\* The status with which a child may terminate while its parent goes on; -1: none.
continue_status(p) == IF p = "shell" THEN FINISHED ELSE -1

graceful_termination_signal(c) == IF c = "dnsmasq" THEN "TERM" ELSE "HUP"

VARIABLES
    run,           \* "unborn", "running", "stopped" or "ended"
    status,        \* exit status of a process that has ended
    change,        \* the change of state its parent can wait for, or "none"
    pending,       \* signals pending
    at,            \* where a process is: bare, and a manager goes on to starting, loop,
                   \* scan, end, wait
    place,         \* the child which it is about to start, or to look at
    proc,          \* its ChildProcess for each child: running_, terminated_, exit_status_
    fd_sent,       \* uplink has sent ingress_tun to downlink
    told,          \* history: the user has sent SIGTERM to the shell
    hung,          \* history: a descriptor of a ferry has hung up
    mishaps        \* history: how many of these there have been

vars == <<run, status, change, pending, at, place, proc, fd_sent, told, hung, mishaps>>

NewChild == [running |-> TRUE, terminated |-> FALSE, exit_status |-> 0]

Init ==
    /\ run = [p \in Processes |-> IF p = "shell" THEN "running" ELSE "unborn"]
    /\ status = [p \in Processes |-> 0]
    /\ change = [p \in Processes |-> "none"]
    /\ pending = [p \in Processes |-> {}]
    /\ at = [p \in Processes |-> IF p = "shell" THEN "starting" ELSE "bare"]
    /\ place = [p \in Managers |-> 1]
    /\ proc = [p \in Processes |-> NewChild]
    /\ fd_sent = FALSE /\ told = FALSE /\ hung = FALSE /\ mishaps = 0

-----------------------------------------------------------------------------
(* The kernel                                                               *)

\* A process changes state: its parent can wait for that, and is sent SIGCHLD.
Becomes(p, state, what, exit) ==
    /\ run' = [run EXCEPT ![p] = state]
    /\ status' = [status EXCEPT ![p] = exit]
    /\ change' = [change EXCEPT ![p] = what]
    /\ pending' = IF p = "shell" THEN pending
                  ELSE [pending EXCEPT ![Parent(p)] = @ \cup {"CHLD"}]

\* SIGCONT wakes the processes in `to` that are stopped, whatever they block.
Continue(to, signals) ==
    LET woken == {p \in to : run[p] = "stopped"}
        sent == [p \in Processes |-> IF p \in to \cap Managers
                                     THEN signals[p] \cup {"CONT"} ELSE signals[p]]
    IN  /\ run' = [p \in Processes |-> IF p \in woken THEN "running" ELSE run[p]]
        /\ change' = [p \in Processes |-> IF p \in woken THEN "continued" ELSE change[p]]
        /\ pending' = [p \in Processes |->
              sent[p] \cup (IF \E c \in woken \ {"shell"} : Parent(c) = p THEN {"CHLD"} ELSE {})]
        /\ UNCHANGED status

Steps(p, where) == run[p] = "running" /\ at[p] = where
Goes(p, where) == at' = [at EXCEPT ![p] = where]

\* A leaf, or a manager without an EventLoop yet, does not block signals.
Dies(p) ==
    /\ run[p] = "running"
    /\ at[p] = "bare"
    /\ \/ "TERM" \in pending[p]
       \/ "HUP" \in pending[p] /\ p # "dnsmasq"
    /\ Becomes(p, "ended", "exited", KILLED)
    /\ UNCHANGED <<at, place, proc, fd_sent, told, hung, mishaps>>

-----------------------------------------------------------------------------
(* Starting                                                                 *)

\* The EventLoop is made, and blocks signals from here on.
MakeLoop(p) ==
    /\ Steps(p, "bare")
    /\ p = "downlink" => fd_sent
    /\ Goes(p, "starting")
    /\ UNCHANGED <<run, status, change, pending, place, proc, fd_sent, told, hung, mishaps>>

\* add_child_process
StartChild(p) ==
    /\ Steps(p, "starting") /\ place[p] \in DOMAIN Children[p]
    /\ run' = [run EXCEPT ![Children[p][place[p]]] = "running"]
    /\ place' = [place EXCEPT ![p] = @ + 1]
    /\ UNCHANGED <<status, change, pending, at, proc, fd_sent, told, hung, mishaps>>

\* internal_loop, after send_fd in the uplink
EnterLoop(p) ==
    /\ Steps(p, "starting") /\ place[p] \notin DOMAIN Children[p]
    /\ Goes(p, "loop")
    /\ place' = [place EXCEPT ![p] = 1]
    /\ fd_sent' = (fd_sent \/ p = "uplink")
    /\ UNCHANGED <<run, status, change, pending, proc, told, hung, mishaps>>

\* The manager leaves, by a return or by an exception: its children are destroyed.
Leaves_(p, exit) ==
    /\ Goes(p, "end")
    /\ status' = [status EXCEPT ![p] = exit]

\* Any step of starting can throw.
Throw(p) ==
    /\ Steps(p, "starting")
    /\ Leaves_(p, FAILURE)
    /\ place' = [place EXCEPT ![p] = 1]
    /\ UNCHANGED <<run, change, pending, proc, fd_sent, told, hung, mishaps>>

Mishap == mishaps < MaxMishaps /\ mishaps' = mishaps + 1

\* So can a call of the system, or a callback, in the loop.
ThrowInLoop(p) ==
    /\ Steps(p, "loop") /\ Mishap
    /\ Leaves_(p, FAILURE)
    /\ UNCHANGED <<run, change, pending, place, proc, fd_sent, told, hung>>

-----------------------------------------------------------------------------
(* handle_signal                                                            *)

\* The signalfd delivers the pending signal of the lowest number.
First(signals) ==
    CHOOSE s \in signals :
        LET order == [HUP |-> 1, TERM |-> 15, CHLD |-> 17, CONT |-> 18]
        IN  \A o \in signals : order[s] <= order[o]

ReadSignal(p, s) ==
    /\ Steps(p, "loop") /\ pending[p] # {} /\ s = First(pending[p])

Without(p, s) == [pending EXCEPT ![p] = @ \ {s}]

HandleTermination(p) ==
    /\ \E s \in {"HUP", "TERM"} : ReadSignal(p, s) /\ pending' = Without(p, s)
    /\ Leaves_(p, 0)
    /\ UNCHANGED <<run, change, place, proc, fd_sent, told, hung, mishaps>>

Suspended(p) == {c \in ChildrenOf(p) : ~proc[c].running /\ ~proc[c].terminated}

HandleContinue(p) ==
    /\ ReadSignal(p, "CONT")
    /\ Continue(Suspended(p), Without(p, "CONT"))
    /\ UNCHANGED <<at, place, proc, fd_sent, told, hung, mishaps>>

HandleChild(p) ==
    /\ ReadSignal(p, "CHLD")
    /\ pending' = Without(p, "CHLD")
    /\ Goes(p, "scan")
    /\ UNCHANGED <<run, status, change, place, proc, fd_sent, told, hung, mishaps>>

waitable(c) == ~proc[c].terminated /\ change[c] # "none"

\* What wait makes of a ChildProcess.
Waited(c) ==
    CASE change[c] = "exited" -> [proc[c] EXCEPT !.terminated = TRUE, !.exit_status = status[c]]
      [] change[c] = "stopped" -> [proc[c] EXCEPT !.running = FALSE]
      [] change[c] = "continued" -> [proc[c] EXCEPT !.running = TRUE]

AllTerminated(p, now) == \A c \in ChildrenOf(p) : now[c].terminated

\* A mutant: a child that fails is like one that succeeds.
VerdictOfAnyStatus(p, c, now) ==
    IF AllTerminated(p, now) \/ now[c].exit_status # continue_status(p) THEN Leaves_(p, 0)
    ELSE Goes(p, "loop") /\ UNCHANGED status

\* A terminated child ends the search, with the verdict on the manager.
Verdict(p, c, now) ==
    IF now[c].exit_status \notin {0, continue_status(p)} THEN Leaves_(p, FAILURE)
    ELSE IF AllTerminated(p, now) \/ now[c].exit_status # continue_status(p) THEN Leaves_(p, 0)
    ELSE Goes(p, "loop") /\ UNCHANGED status

ScanTerminated(p) ==
    /\ Steps(p, "scan") /\ place[p] \in DOMAIN Children[p]
    /\ LET c == Children[p][place[p]]
           now == [proc EXCEPT ![c] = Waited(c)]
       IN  /\ waitable(c) /\ change[c] = "exited"
           /\ proc' = now
           /\ change' = [change EXCEPT ![c] = "none"]
           /\ Verdict(p, c, now)
    /\ place' = [place EXCEPT ![p] = 1]
    /\ UNCHANGED <<run, pending, fd_sent, told, hung, mishaps>>

\* The manager of a child that has stopped stops too.  SIGSTOP discards SIGCONT.
ScanStopped(p) ==
    /\ Steps(p, "scan") /\ place[p] \in DOMAIN Children[p]
    /\ LET c == Children[p][place[p]]
       IN  /\ waitable(c) /\ change[c] = "stopped"
           /\ proc' = [proc EXCEPT ![c] = Waited(c)]
           /\ run' = [run EXCEPT ![p] = "stopped"]
           /\ change' = [change EXCEPT ![c] = "none", ![p] = "stopped"]
           /\ pending' = [q \in Processes |->
                 CASE q = p -> pending[p] \ {"CONT"}
                   [] q = Parent(p) /\ p # "shell" -> pending[q] \cup {"CHLD"}
                   [] OTHER -> pending[q]]
    /\ place' = [place EXCEPT ![p] = @ + 1]
    /\ UNCHANGED <<status, at, fd_sent, told, hung, mishaps>>

ScanOther(p) ==
    /\ Steps(p, "scan") /\ place[p] \in DOMAIN Children[p]
    /\ LET c == Children[p][place[p]]
       IN  \/ /\ ~waitable(c)
              /\ UNCHANGED <<proc, change>>
           \/ /\ waitable(c) /\ change[c] = "continued"
              /\ proc' = [proc EXCEPT ![c] = Waited(c)]
              /\ change' = [change EXCEPT ![c] = "none"]
    /\ place' = [place EXCEPT ![p] = @ + 1]
    /\ UNCHANGED <<run, status, pending, at, fd_sent, told, hung, mishaps>>

ScanEnds(p) ==
    /\ Steps(p, "scan") /\ place[p] \notin DOMAIN Children[p]
    /\ Goes(p, "loop")
    /\ place' = [place EXCEPT ![p] = 1]
    /\ UNCHANGED <<run, status, change, pending, proc, fd_sent, told, hung, mishaps>>

\* The third action of a Ferry.
Finish(p) ==
    /\ MayFinish
    /\ p # "shell" /\ Steps(p, "loop")
    /\ Leaves_(p, FINISHED)
    /\ UNCHANGED <<run, change, pending, place, proc, fd_sent, told, hung, mishaps>>

\* A descriptor of a Ferry hangs up, or is in error: poll quits with its default status.
HangUp(p) ==
    /\ p # "shell" /\ Steps(p, "loop") /\ Mishap
    /\ Leaves_(p, 0)
    /\ hung' = TRUE
    /\ UNCHANGED <<run, change, pending, place, proc, fd_sent, told>>

-----------------------------------------------------------------------------
(* ~ChildProcess, for each child in turn                                     *)

\* A mutant: a child that is stopped, or was when it was last looked at, is let be.
LeftRunning(p) == {i \in DOMAIN Children[p] :
               run[Children[p][i]] # "unborn" /\ ~proc[Children[p][i]].terminated
                                           /\ proc[Children[p][i]].running}

Left(p) == {i \in DOMAIN Children[p] :
               run[Children[p][i]] # "unborn" /\ ~proc[Children[p][i]].terminated}

Doomed(p) == Children[p][CHOOSE i \in Left(p) : \A j \in Left(p) : i <= j]

\* A mutant: a child that is suspended is signalled, and not resumed.
SignalChildOnly(p) ==
    /\ Steps(p, "end") /\ Left(p) # {}
    /\ pending' = [pending EXCEPT ![Doomed(p)] = @ \cup {graceful_termination_signal(Doomed(p))}]
    /\ Goes(p, "wait")
    /\ UNCHANGED <<run, status, change, place, proc, fd_sent, told, hung, mishaps>>

\* resume, then the signal that should end it.
SignalChild(p) ==
    /\ Steps(p, "end") /\ Left(p) # {}
    /\ LET c == Doomed(p)
           signalled == [pending EXCEPT ![c] = @ \cup {graceful_termination_signal(c)}]
       IN  Continue(IF proc[c].running THEN {} ELSE {c}, signalled)
    /\ Goes(p, "wait")
    /\ UNCHANGED <<place, proc, fd_sent, told, hung, mishaps>>

WaitChild(p) ==
    /\ Steps(p, "wait")
    /\ LET c == Doomed(p)
       IN  /\ waitable(c)
           /\ proc' = [proc EXCEPT ![c] = Waited(c)]
           /\ change' = [change EXCEPT ![c] = "none"]
    /\ Goes(p, "end")
    /\ UNCHANGED <<run, status, pending, place, fd_sent, told, hung, mishaps>>

Exits(p) ==
    /\ Steps(p, "end") /\ Left(p) = {}
    /\ Becomes(p, "ended", "exited", status[p])
    /\ UNCHANGED <<at, place, proc, fd_sent, told, hung, mishaps>>

-----------------------------------------------------------------------------
(* The user, and the processes that others wrote                             *)

\* The command exits of itself, dnsmasq fails.
LeafExits(p, exit) ==
    /\ run[p] = "running"
    /\ Becomes(p, "ended", "exited", exit)
    /\ UNCHANGED <<at, place, proc, fd_sent, told, hung, mishaps>>

CommandStops ==
    /\ run["command"] = "running" /\ Mishap
    /\ Becomes("command", "stopped", "stopped", 0)
    /\ UNCHANGED <<at, place, proc, fd_sent, told, hung>>

UserContinues ==
    /\ run["shell"] = "stopped"
    /\ Continue({"shell"}, pending)
    /\ UNCHANGED <<at, place, proc, fd_sent, told, hung, mishaps>>

UserTerminates ==
    /\ ~told
    /\ told' = TRUE
    /\ pending' = [pending EXCEPT !["shell"] = @ \cup {"TERM"}]
    /\ UNCHANGED <<run, status, change, at, place, proc, fd_sent, hung, mishaps>>

-----------------------------------------------------------------------------
Manages(p) ==
    \/ MakeLoop(p) \/ StartChild(p) \/ EnterLoop(p)
    \/ HandleTermination(p) \/ HandleContinue(p) \/ HandleChild(p)
    \/ ScanTerminated(p) \/ ScanStopped(p) \/ ScanOther(p) \/ ScanEnds(p)
    \/ SignalChild(p) \/ WaitChild(p) \/ Exits(p)

Next ==
    \/ \E p \in Managers : Manages(p) \/ Throw(p) \/ ThrowInLoop(p) \/ Finish(p) \/ HangUp(p)
    \/ \E p \in Processes : Dies(p)
    \/ \E exit \in {0, FAILURE} : LeafExits("command", exit)
    \/ LeafExits("dnsmasq", FAILURE)
    \/ CommandStops \/ UserContinues \/ UserTerminates

Runs == \E p \in Processes : Dies(p) \/ (p \in Managers /\ Manages(p))

\* As long as a process can run, one does, and the user does not leave the shell
\* suspended.  Nothing is assumed of which process runs.
Fairness == WF_vars(Runs) /\ WF_vars(UserContinues)

Spec == Init /\ [][Next]_vars /\ Fairness

-----------------------------------------------------------------------------
(* Properties                                                               *)

Ended(p) == run[p] \in {"unborn", "ended"}

\* A process that has returned, or thrown an exception, and has ended leaves none of
\* its children behind.
NoOrphans == \A p \in Managers : run[p] = "ended" => \A c \in ChildrenOf(p) : Ended(c)

\* The status of the command gets through the tree: the shell succeeds only if the
\* command did, or was ended because the user, the traces or a descriptor that hung up
\* ended the shell.  (A ferry whose descriptor hangs up is one that has succeeded.)
SuccessIsDeserved ==
    (run["shell"] = "ended" /\ status["shell"] = 0) =>
        \/ told
        \/ hung
        \/ run["command"] = "ended" /\ status["command"] = 0
        \/ status["uplink"] = FINISHED /\ status["downlink"] = FINISHED

\* Once the command has exited or the user has said so the whole tree ends, stopped
\* as parts of it may be; unless the uplink had finished, and the downlink has not.
TreeEnds ==
    (told \/ run["command"] = "ended")
        ~> (run["shell"] = "ended" \/ status["uplink"] = FINISHED)

\* "quit if all children have quit"
QuitsWhenAllHaveQuit ==
    (\A c \in ChildrenOf("shell") : run[c] = "ended") ~> run["shell"] = "ended"
=============================================================================
