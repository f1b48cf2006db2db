---------------------------- MODULE ContainerProofs ----------------------------
(***************************************************************************)
(* Whichever processes of a container return, throw, are stopped or told to end, *)
(* in any order: none ends before its children, and the shell succeeds only if   *)
(* it should.  Both hold for any number of stops, exceptions and hang-ups, with   *)
(* and without traces that end.                                              *)
(*                                                                         *)
(* The graph counts each value once, also if its two threads bring the bins up *)
(* to date in turn, and the first of them before the constructor has ended.    *)
(*                                                                         *)
(* Then the scenes of the container: what is proved of the ferry (FerryProofs), *)
(* of the tree, of the relay (DnsProxyProofs) and of the graph holds of their   *)
(* composition.                                                            *)
(***************************************************************************)
EXTENDS Container, FiniteSetTheorems, TLAPS

-----------------------------------------------------------------------------
(* The tree                                                                 *)

LEMMA Family ==
    /\ Managers \subseteq Processes /\ Leaves \subseteq Processes
    /\ Managers \cap Leaves = {}
    /\ \A p \in Managers : \A i \in DOMAIN Children[p] :
          i \in Nat /\ Children[p][i] \in Processes
    /\ \A p, q \in Managers : \A i \in DOMAIN Children[p], j \in DOMAIN Children[q] :
          Children[p][i] = Children[q][j] => p = q /\ i = j
    /\ \A p \in Managers : \A c : c \in ChildrenOf(p) <=>
          \E i \in DOMAIN Children[p] : c = Children[p][i]
  <1>1. /\ DOMAIN Children["shell"] = {1, 2} /\ DOMAIN Children["uplink"] = {1, 2}
        /\ DOMAIN Children["downlink"] = {}
        /\ Children["shell"][1] = "uplink" /\ Children["shell"][2] = "downlink"
        /\ Children["uplink"][1] = "dnsmasq" /\ Children["uplink"][2] = "command"
    BY DEF Children
  <1>2. /\ Managers \subseteq Processes /\ Leaves \subseteq Processes
        /\ Managers \cap Leaves = {}
    BY DEF Processes, Managers, Leaves
  <1>3. \A p \in Managers : \A i \in DOMAIN Children[p] :
          i \in Nat /\ Children[p][i] \in Processes
    BY <1>1 DEF Processes, Managers, Leaves
  <1>4. \A p, q \in Managers : \A i \in DOMAIN Children[p], j \in DOMAIN Children[q] :
          Children[p][i] = Children[q][j] => p = q /\ i = j
    BY <1>1 DEF Managers
  <1>5. \A p \in Managers : \A c : c \in ChildrenOf(p) <=>
          \E i \in DOMAIN Children[p] : c = Children[p][i]
    BY DEF ChildrenOf
  <1> QED BY <1>2, <1>3, <1>4, <1>5

-----------------------------------------------------------------------------
(* No orphans                                                               *)

TypeInv ==
    /\ run \in [Processes -> {"unborn", "running", "stopped", "ended"}]
    /\ status \in [Processes -> Int]
    /\ change \in [Processes -> {"none", "exited", "stopped", "continued"}]
    /\ at \in [Processes -> {"bare", "starting", "loop", "scan", "end", "wait"}]
    /\ place \in [Managers -> Nat]
    /\ proc \in [Processes -> [running : BOOLEAN, terminated : BOOLEAN, exit_status : Int]]

\* Only of a process that has ended does its parent believe that.
BeliefInv ==
    \A c \in Processes : proc[c].terminated \/ change[c] = "exited" => run[c] = "ended"

\* The children that a manager has still to start do not exist.
StartInv ==
    \A p \in Managers :
        /\ at[p] \in {"bare", "starting"} =>
              \A i \in DOMAIN Children[p] : i >= place[p] => run[Children[p][i]] = "unborn"
        /\ at[p] = "bare" => place[p] = 1

IInv == TypeInv /\ BeliefInv /\ StartInv /\ NoOrphans

LEMMA TypedWait ==
    ASSUME TypeInv, NEW c \in Processes, waitable(c)
    PROVE  /\ Waited(c) \in [running : BOOLEAN, terminated : BOOLEAN, exit_status : Int]
           /\ Waited(c).terminated <=> change[c] = "exited"
           /\ change[c] = "exited" => Waited(c).exit_status = status[c]
  <1>1. /\ proc[c] \in [running : BOOLEAN, terminated : BOOLEAN, exit_status : Int]
        /\ status[c] \in Int /\ ~proc[c].terminated
        /\ change[c] \in {"exited", "stopped", "continued"}
    BY DEF TypeInv, waitable
  <1>2. CASE change[c] = "exited"
    <2>1. Waited(c) = [proc[c] EXCEPT !.terminated = TRUE, !.exit_status = status[c]]
      BY <1>2 DEF Waited
    <2> QED BY <1>1, <1>2, <2>1
  <1>3. CASE change[c] = "stopped"
    <2>1. Waited(c) = [proc[c] EXCEPT !.running = FALSE]
      BY <1>3 DEF Waited
    <2> QED BY <1>1, <1>3, <2>1
  <1>4. CASE change[c] = "continued"
    <2>1. Waited(c) = [proc[c] EXCEPT !.running = TRUE]
      BY <1>4 DEF Waited
    <2> QED BY <1>1, <1>4, <2>1
  <1> QED BY <1>1, <1>2, <1>3, <1>4

\* A step in which no process begins or ends.
LEMMA NobodyEnds ==
    ASSUME IInv, TypeInv',
           \A c \in Processes : Ended(c) => run'[c] = run[c],
           \A c \in Processes : ~Ended(c) => run'[c] \in {"running", "stopped"},
           \A c \in Processes : proc'[c].terminated \/ change'[c] = "exited"
                                    => run[c] = "ended",
           \A p \in Managers : at'[p] \in {"bare", "starting"} =>
                /\ at[p] \in {"bare", "starting"} /\ place'[p] = place[p]
                /\ at'[p] = "bare" => at[p] = "bare"
    PROVE  IInv'
  <1> USE DEF IInv
  <1>1. BeliefInv'
    BY DEF BeliefInv, Ended
  <1>2. StartInv'
    <2> SUFFICES ASSUME NEW p \in Managers, at'[p] \in {"bare", "starting"}
                 PROVE  /\ \A i \in DOMAIN Children[p] :
                              i >= place'[p] => run'[Children[p][i]] = "unborn"
                        /\ at'[p] = "bare" => place'[p] = 1
      BY DEF StartInv, Children
    <2> QED BY Family DEF StartInv, Ended
  <1>3. NoOrphans'
    <2> SUFFICES ASSUME NEW p \in Managers, run'[p] = "ended", NEW c \in ChildrenOf(p)
                 PROVE  run'[c] \in {"unborn", "ended"}
      BY DEF NoOrphans, Ended, ChildrenOf, Children
    <2>1. p \in Processes /\ c \in Processes
      BY Family
    <2>2. run[p] = "ended"
      BY <2>1 DEF Ended
    <2> QED BY <2>1, <2>2 DEF NoOrphans, Ended
  <1> QED BY <1>1, <1>2, <1>3

\* A step in which one process ends, and has no children left.
LEMMA OneEnds ==
    ASSUME IInv, NEW p \in Processes, NEW exit \in Int,
           run[p] = "running", Becomes(p, "ended", "exited", exit),
           UNCHANGED <<at, place, proc>>,
           p \in Managers => \A c \in ChildrenOf(p) : Ended(c)
    PROVE  IInv'
  <1> USE DEF IInv
  <1>1. /\ run' = [run EXCEPT ![p] = "ended"]
        /\ status' = [status EXCEPT ![p] = exit]
        /\ change' = [change EXCEPT ![p] = "exited"]
    BY DEF Becomes
  <1>2. TypeInv'
    BY <1>1 DEF TypeInv
  <1>3. \A c \in Processes : run'[c] = IF c = p THEN "ended" ELSE run[c]
    BY <1>1 DEF TypeInv
  <1>4. BeliefInv'
    BY <1>1, <1>3 DEF BeliefInv, TypeInv
  <1>5. StartInv'
    <2> SUFFICES ASSUME NEW m \in Managers, at[m] \in {"bare", "starting"},
                        NEW i \in DOMAIN Children[m], i >= place[m]
                 PROVE  run'[Children[m][i]] = "unborn"
      BY DEF StartInv, Children
    <2> QED BY <1>3, Family DEF StartInv
  <1>6. NoOrphans'
    <2> SUFFICES ASSUME NEW m \in Managers, run'[m] = "ended", NEW c \in ChildrenOf(m)
                 PROVE  run'[c] \in {"unborn", "ended"}
      BY DEF NoOrphans, Ended, ChildrenOf, Children
    <2> QED BY <1>3, Family DEF NoOrphans, Ended
  <1> QED BY <1>2, <1>4, <1>5, <1>6

\* A step that leaves processes, and what is believed of them, alone.
LEMMA NobodyMoves ==
    ASSUME IInv, NEW p \in Managers, NEW where \in {"starting", "loop", "scan", "end", "wait"},
           Goes(p, where), UNCHANGED <<run, change, proc>>,
           where = "starting" => at[p] = "bare" /\ UNCHANGED place,
           \A q \in Managers : q # p => place'[q] = place[q],
           status' \in [Processes -> Int], place' \in [Managers -> Nat]
    PROVE  IInv'
  <1> USE DEF IInv
  <1>1. /\ at'[p] = where
        /\ \A q \in Processes : q # p => at'[q] = at[q]
    BY Family DEF Goes, TypeInv
  <1>2. TypeInv'
    BY Family DEF TypeInv, Goes
  <1>3. \A q \in Managers : at'[q] \in {"bare", "starting"} =>
            /\ at[q] \in {"bare", "starting"} /\ place'[q] = place[q]
            /\ at'[q] = "bare" => at[q] = "bare"
    <2> SUFFICES ASSUME NEW q \in Managers, at'[q] \in {"bare", "starting"}
                 PROVE  /\ at[q] \in {"bare", "starting"} /\ place'[q] = place[q]
                        /\ at'[q] = "bare" => at[q] = "bare"
      OBVIOUS
    <2>1. CASE q = p
      BY <1>1, <2>1
    <2>2. CASE q # p
      BY <1>1, <2>2, Family
    <2> QED BY <2>1, <2>2
  <1>4. \A c \in Processes : ~Ended(c) => run[c] \in {"running", "stopped"}
    BY DEF Ended, TypeInv
  <1> QED BY <1>2, <1>3, <1>4, NobodyEnds DEF BeliefInv

LEMMA StartingKeeps ==
    ASSUME IInv, NEW p \in Managers,
           MakeLoop(p) \/ EnterLoop(p) \/ Throw(p) \/ ThrowInLoop(p)
             \/ Finish(p) \/ HangUp(p)
    PROVE  IInv'
  <1> USE DEF IInv
  <1>1. p \in Processes /\ status \in [Processes -> Int] /\ place \in [Managers -> Nat]
    BY Family DEF TypeInv
  <1>2. CASE MakeLoop(p)
    BY <1>1, <1>2, NobodyMoves DEF MakeLoop, Steps
  <1>3. CASE EnterLoop(p)
    BY <1>1, <1>3, NobodyMoves DEF EnterLoop, Steps
  <1>4. CASE Throw(p)
    BY <1>1, <1>4, NobodyMoves DEF Throw, Steps, Leaves_, FAILURE
  <1>5. CASE Finish(p)
    BY <1>1, <1>5, NobodyMoves DEF Finish, Steps, Leaves_, FINISHED
  <1>6. CASE HangUp(p)
    BY <1>1, <1>6, NobodyMoves DEF HangUp, Steps, Leaves_
  <1>7. CASE ThrowInLoop(p)
    BY <1>1, <1>7, NobodyMoves DEF ThrowInLoop, Steps, Leaves_, FAILURE
  <1> QED BY <1>2, <1>3, <1>4, <1>5, <1>6, <1>7

\* A child is started by its parent alone, once.
LEMMA StartChildKeeps ==
    ASSUME IInv, NEW p \in Managers, StartChild(p)
    PROVE  IInv'
  <1> USE DEF IInv
  <1> DEFINE b == Children[p][place[p]]
  <1>1. /\ run[p] = "running" /\ at[p] = "starting" /\ place[p] \in DOMAIN Children[p]
        /\ run' = [run EXCEPT ![b] = "running"]
        /\ place' = [place EXCEPT ![p] = @ + 1]
        /\ UNCHANGED <<status, change, at, proc>>
    BY DEF StartChild, Steps
  <1>2. b \in Processes /\ place[p] \in Nat
    BY <1>1, Family DEF TypeInv
  <1>3. run[b] = "unborn"
    BY <1>1, <1>2 DEF StartInv
  <1>4. TypeInv'
    BY <1>1, <1>2 DEF TypeInv
  <1>5. \A c \in Processes : run'[c] = IF c = b THEN "running" ELSE run[c]
    BY <1>1, <1>2 DEF TypeInv
  <1>6. BeliefInv'
    BY <1>1, <1>3, <1>5 DEF BeliefInv
  <1>7. StartInv'
    <2>1. \A m \in Managers : place'[m] = IF m = p THEN place[p] + 1 ELSE place[m]
      BY <1>1 DEF TypeInv
    <2>2. ASSUME NEW m \in Managers, at[m] \in {"bare", "starting"},
                 NEW i \in DOMAIN Children[m], i >= place'[m]
          PROVE  run'[Children[m][i]] = "unborn"
      <3>1. i \in Nat /\ Children[m][i] \in Processes /\ place[m] \in Nat
        BY Family DEF TypeInv
      <3>2. i >= place[m] /\ (m = p => i # place[p])
        BY <1>2, <2>1, <2>2, <3>1
      <3>3. Children[m][i] # b
        BY <1>1, <3>2, Family
      <3> QED BY <1>5, <2>2, <3>1, <3>2, <3>3 DEF StartInv
    <2>3. ASSUME NEW m \in Managers, at[m] = "bare"
          PROVE  place'[m] = 1
      BY <1>1, <2>1, <2>3 DEF StartInv
    <2> QED BY <1>1, <2>2, <2>3 DEF StartInv, Children
  <1>8. NoOrphans'
    <2> SUFFICES ASSUME NEW m \in Managers, run'[m] = "ended", NEW c \in ChildrenOf(m)
                 PROVE  run'[c] \in {"unborn", "ended"}
      BY DEF NoOrphans, Ended, ChildrenOf, Children
    <2>1. m # p /\ run[m] = "ended"
      BY <1>1, <1>3, <1>5, Family
    <2>2. c \in Processes /\ c # b
      BY <1>1, <2>1, Family
    <2> QED BY <1>5, <2>1, <2>2 DEF NoOrphans, Ended
  <1> QED BY <1>4, <1>6, <1>7, <1>8

\* SIGCONT begins and ends nothing.
LEMMA ContinueMoves ==
    ASSUME IInv, NEW to, NEW sigs, Continue(to, sigs)
    PROVE  /\ run' \in [Processes -> {"unborn", "running", "stopped", "ended"}]
           /\ change' \in [Processes -> {"none", "exited", "stopped", "continued"}]
           /\ status' = status
           /\ \A c \in Processes : Ended(c) => run'[c] = run[c]
           /\ \A c \in Processes : ~Ended(c) => run'[c] \in {"running", "stopped"}
           /\ \A c \in Processes : change'[c] = "exited" => run[c] = "ended"
  <1> DEFINE woken == {p \in to : run[p] = "stopped"}
  <1>1. /\ run' = [p \in Processes |-> IF p \in woken THEN "running" ELSE run[p]]
        /\ change' = [p \in Processes |-> IF p \in woken THEN "continued" ELSE change[p]]
        /\ status' = status
    BY DEF Continue
  <1> QED BY <1>1 DEF IInv, TypeInv, BeliefInv, Ended

LEMMA SignalsKeep ==
    ASSUME IInv, NEW p \in Managers,
           HandleTermination(p) \/ HandleContinue(p) \/ HandleChild(p) \/ SignalChild(p)
    PROVE  IInv'
  <1> USE DEF IInv
  <1>1. p \in Processes /\ status \in [Processes -> Int] /\ place \in [Managers -> Nat]
    BY Family DEF TypeInv
  <1>2. CASE HandleTermination(p)
    BY <1>1, <1>2, NobodyMoves DEF HandleTermination, Leaves_
  <1>3. CASE HandleChild(p)
    BY <1>1, <1>3, NobodyMoves DEF HandleChild
  <1>4. CASE HandleContinue(p)
    <2>1. Continue(Suspended(p), Without(p, "CONT")) /\ UNCHANGED <<at, place, proc>>
      BY <1>4 DEF HandleContinue
    <2>2. TypeInv'
      BY <2>1, ContinueMoves DEF TypeInv
    <2> QED BY <2>1, <2>2, ContinueMoves, NobodyEnds DEF BeliefInv
  <1>5. CASE SignalChild(p)
    <2>1. PICK to, sigs : Continue(to, sigs)
      BY <1>5 DEF SignalChild
    <2>2. at[p] = "end" /\ Goes(p, "wait") /\ UNCHANGED <<place, proc>>
      BY <1>5 DEF SignalChild, Steps
    <2>3. TypeInv'
      BY <1>1, <2>1, <2>2, ContinueMoves DEF TypeInv, Goes
    <2>4. \A q \in Managers : at'[q] \in {"bare", "starting"} => at'[q] = at[q]
      BY <1>1, <2>2, Family DEF Goes, TypeInv
    <2> QED BY <2>1, <2>2, <2>3, <2>4, ContinueMoves, NobodyEnds DEF BeliefInv
  <1> QED BY <1>2, <1>3, <1>4, <1>5

\* A manager that waits for a child believes what the kernel has recorded.
LEMMA WaitingKeeps ==
    ASSUME IInv, NEW p \in Managers, NEW c \in Processes, waitable(c),
           proc' = [proc EXCEPT ![c] = Waited(c)],
           \/ change' = [change EXCEPT ![c] = "none"] /\ run' = run
           \/ /\ change' = [change EXCEPT ![c] = "none", ![p] = "stopped"]
              /\ run' = [run EXCEPT ![p] = "stopped"] /\ run[p] = "running",
           at[p] \in {"scan", "wait"},
           at' = at \/ Goes(p, "loop") \/ Goes(p, "end"),
           \A q \in Managers : q # p => place'[q] = place[q],
           status' \in [Processes -> Int], place' \in [Managers -> Nat]
    PROVE  IInv'
  <1> USE DEF IInv
  <1>1. p \in Processes
    BY Family
  <1>2. /\ Waited(c) \in [running : BOOLEAN, terminated : BOOLEAN, exit_status : Int]
        /\ Waited(c).terminated => change[c] = "exited"
    BY TypedWait
  <1>3. TypeInv'
    <2>1. run' \in [Processes -> {"unborn", "running", "stopped", "ended"}]
      BY DEF TypeInv
    <2>2. change' \in [Processes -> {"none", "exited", "stopped", "continued"}]
      BY DEF TypeInv
    <2>3. proc' \in [Processes ->
              [running : BOOLEAN, terminated : BOOLEAN, exit_status : Int]]
      BY <1>2 DEF TypeInv
    <2>4. at' \in [Processes -> {"bare", "starting", "loop", "scan", "end", "wait"}]
      BY <1>1 DEF TypeInv, Goes
    <2> QED BY <2>1, <2>2, <2>3, <2>4 DEF TypeInv
  <1>4. \A o \in Processes : Ended(o) => run'[o] = run[o]
    BY <1>1 DEF Ended, TypeInv
  <1>5. \A o \in Processes : ~Ended(o) => run'[o] \in {"running", "stopped"}
    BY <1>1 DEF Ended, TypeInv
  <1>6. \A o \in Processes : proc'[o].terminated \/ change'[o] = "exited"
                                 => run[o] = "ended"
    <2> SUFFICES ASSUME NEW o \in Processes, proc'[o].terminated \/ change'[o] = "exited"
                 PROVE  run[o] = "ended"
      OBVIOUS
    <2>1. CASE proc'[o].terminated
      <3>1. proc'[o] = IF o = c THEN Waited(c) ELSE proc[o]
        BY DEF TypeInv
      <3> QED BY <1>2, <2>1, <3>1 DEF BeliefInv
    <2>2. CASE change'[o] = "exited"
      <3>1. change[o] = "exited"
        BY <1>1, <2>2 DEF TypeInv
      <3> QED BY <3>1 DEF BeliefInv
    <2> QED BY <2>1, <2>2
  <1>7. \A q \in Managers : at'[q] \in {"bare", "starting"} =>
            at'[q] = at[q] /\ place'[q] = place[q]
    <2> SUFFICES ASSUME NEW q \in Managers, at'[q] \in {"bare", "starting"}
                 PROVE  at'[q] = at[q] /\ place'[q] = place[q]
      OBVIOUS
    <2>1. q # p
      BY <1>1 DEF Goes, TypeInv
    <2>2. at'[q] = at[q]
      BY <1>1, <2>1, Family DEF Goes, TypeInv
    <2> QED BY <2>1, <2>2
  <1> QED BY <1>3, <1>4, <1>5, <1>6, <1>7, NobodyEnds

LEMMA ScanKeeps ==
    ASSUME IInv, NEW p \in Managers,
           ScanTerminated(p) \/ ScanStopped(p) \/ ScanOther(p) \/ ScanEnds(p)
    PROVE  IInv'
  <1> USE DEF IInv
  <1> DEFINE c == Children[p][place[p]]
  <1>1. /\ p \in Processes /\ status \in [Processes -> Int]
        /\ place \in [Managers -> Nat] /\ place[p] \in Nat
    BY Family DEF TypeInv
  <1>2. CASE ScanTerminated(p)
    <2>1. /\ c \in Processes /\ at[p] = "scan"
      BY <1>2, Family DEF ScanTerminated, Steps
    <2>2. /\ waitable(c) /\ proc' = [proc EXCEPT ![c] = Waited(c)]
          /\ change' = [change EXCEPT ![c] = "none"] /\ run' = run
          /\ place' = [place EXCEPT ![p] = 1]
          /\ Verdict(p, c, [proc EXCEPT ![c] = Waited(c)])
      BY <1>2 DEF ScanTerminated
    <2>3. /\ Goes(p, "loop") \/ Goes(p, "end")
          /\ status' \in [Processes -> Int]
      BY <1>1, <2>2 DEF Verdict, Leaves_, FAILURE
    <2>4. place' \in [Managers -> Nat] /\ \A q \in Managers : q # p => place'[q] = place[q]
      BY <1>1, <2>2
    <2> QED BY <2>1, <2>2, <2>3, <2>4, WaitingKeeps
  <1>3. CASE ScanStopped(p)
    <2>1. /\ c \in Processes /\ at[p] = "scan" /\ run[p] = "running"
      BY <1>3, Family DEF ScanStopped, Steps
    <2>2. /\ waitable(c) /\ proc' = [proc EXCEPT ![c] = Waited(c)]
          /\ change' = [change EXCEPT ![c] = "none", ![p] = "stopped"]
          /\ run' = [run EXCEPT ![p] = "stopped"]
          /\ place' = [place EXCEPT ![p] = @ + 1]
          /\ UNCHANGED <<status, at>>
      BY <1>3 DEF ScanStopped
    <2>3. place' \in [Managers -> Nat] /\ \A q \in Managers : q # p => place'[q] = place[q]
      BY <1>1, <2>2
    <2> QED BY <1>1, <2>1, <2>2, <2>3, WaitingKeeps
  <1>4. CASE ScanOther(p)
    <2>1. /\ c \in Processes /\ at[p] = "scan"
          /\ place' = [place EXCEPT ![p] = @ + 1]
          /\ UNCHANGED <<run, status, at>>
      BY <1>4, Family DEF ScanOther, Steps
    <2>2. /\ place' \in [Managers -> Nat]
          /\ \A q \in Managers : q # p => place'[q] = place[q]
      BY <1>1, <2>1
    <2>3. CASE UNCHANGED <<proc, change>>
      <3>1. TypeInv'
        BY <2>1, <2>2, <2>3 DEF TypeInv
      <3>2. \A o \in Processes : ~Ended(o) => run[o] \in {"running", "stopped"}
        BY DEF Ended, TypeInv
      <3> QED BY <2>1, <2>2, <2>3, <3>1, <3>2, NobodyEnds DEF BeliefInv
    <2>4. CASE /\ waitable(c) /\ proc' = [proc EXCEPT ![c] = Waited(c)]
               /\ change' = [change EXCEPT ![c] = "none"]
      BY <1>1, <2>1, <2>2, <2>4, WaitingKeeps
    <2> QED BY <1>4, <2>3, <2>4 DEF ScanOther
  <1>5. CASE ScanEnds(p)
    BY <1>1, <1>5, NobodyMoves DEF ScanEnds
  <1> QED BY <1>2, <1>3, <1>4, <1>5

LEMMA WaitChildKeeps ==
    ASSUME IInv, NEW p \in Managers, WaitChild(p)
    PROVE  IInv'
  <1> USE DEF IInv
  <1> DEFINE c == Doomed(p)
  <1>1. /\ at[p] = "wait" /\ Goes(p, "end") /\ waitable(c)
        /\ proc' = [proc EXCEPT ![c] = Waited(c)]
        /\ change' = [change EXCEPT ![c] = "none"]
        /\ UNCHANGED <<run, status, place>>
    BY DEF WaitChild, Steps
  <1>2. CASE c \in Processes
    BY <1>1, <1>2, WaitingKeeps DEF TypeInv
  <1>3. CASE c \notin Processes
    <2>1. proc' = proc /\ change' = change
      BY <1>1, <1>3 DEF TypeInv
    <2> QED BY <1>1, <2>1, NobodyMoves DEF TypeInv
  <1> QED BY <1>2, <1>3

LEMMA EndsKeep ==
    ASSUME IInv,
           \/ \E p \in Processes : Dies(p)
           \/ \E p \in Managers : Exits(p)
           \/ \E exit \in {0, FAILURE} : LeafExits("command", exit)
           \/ LeafExits("dnsmasq", FAILURE)
    PROVE  IInv'
  <1> USE DEF IInv
  <1>1. ASSUME NEW p \in Processes, Dies(p)
        PROVE  IInv'
    <2>1. ASSUME p \in Managers
          PROVE  \A c \in ChildrenOf(p) : Ended(c)
      <3>1. at[p] = "bare" /\ place[p] = 1
        BY <1>1, <2>1 DEF Dies, StartInv
      <3>2. \A i \in DOMAIN Children[p] : i >= 1
        BY <2>1 DEF Managers, Children
      <3> QED BY <2>1, <3>1, <3>2, Family DEF StartInv, Ended
    <2> QED BY <1>1, <2>1, OneEnds DEF Dies, KILLED
  <1>2. ASSUME NEW p \in Managers, Exits(p)
        PROVE  IInv'
    <2>1. \A c \in ChildrenOf(p) : Ended(c)
      <3> SUFFICES ASSUME NEW i \in DOMAIN Children[p] PROVE Ended(Children[p][i])
        BY Family
      <3>1. \/ run[Children[p][i]] = "unborn"
            \/ proc[Children[p][i]].terminated
        BY <1>2 DEF Exits, Left
      <3> QED BY <3>1, Family DEF BeliefInv, Ended
    <2>2. p \in Processes /\ status[p] \in Int
      BY Family DEF TypeInv
    <2> QED BY <1>2, <2>1, <2>2, OneEnds DEF Exits, Steps
  <1>3. ASSUME NEW p \in Leaves, NEW exit \in {0, FAILURE}, LeafExits(p, exit)
        PROVE  IInv'
    <2>1. p \in Processes /\ p \notin Managers /\ exit \in Int
      BY Family DEF FAILURE
    <2> QED BY <1>3, <2>1, OneEnds DEF LeafExits
  <1> QED BY <1>1, <1>2, <1>3 DEF Leaves

LEMMA UserKeeps ==
    ASSUME IInv, CommandStops \/ UserContinues \/ UserTerminates
    PROVE  IInv'
  <1> USE DEF IInv
  <1>1. \A c \in Processes : ~Ended(c) => run[c] \in {"running", "stopped"}
    BY DEF Ended, TypeInv
  <1>2. CASE CommandStops
    <2>1. /\ run["command"] = "running" /\ "command" \in Processes
          /\ run' = [run EXCEPT !["command"] = "stopped"]
          /\ status' = [status EXCEPT !["command"] = 0]
          /\ change' = [change EXCEPT !["command"] = "stopped"]
          /\ UNCHANGED <<at, place, proc>>
      BY <1>2 DEF CommandStops, Becomes, Processes, Leaves
    <2>2. TypeInv'
      BY <2>1 DEF TypeInv
    <2>3. \A c \in Processes : Ended(c) => run'[c] = run[c]
      BY <2>1 DEF Ended, TypeInv
    <2>4. \A c \in Processes : ~Ended(c) => run'[c] \in {"running", "stopped"}
      BY <1>1, <2>1 DEF TypeInv
    <2>5. \A c \in Processes : proc'[c].terminated \/ change'[c] = "exited"
                                   => run[c] = "ended"
      BY <2>1 DEF BeliefInv, TypeInv
    <2> QED BY <2>1, <2>2, <2>3, <2>4, <2>5, NobodyEnds
  <1>3. CASE UserContinues
    <2>1. Continue({"shell"}, pending) /\ UNCHANGED <<at, place, proc>>
      BY <1>3 DEF UserContinues
    <2>2. TypeInv'
      BY <2>1, ContinueMoves DEF TypeInv
    <2> QED BY <2>1, <2>2, ContinueMoves, NobodyEnds DEF BeliefInv
  <1>4. CASE UserTerminates
    BY <1>1, <1>4, NobodyEnds DEF UserTerminates, TypeInv, BeliefInv
  <1> QED BY <1>2, <1>3, <1>4

LEMMA InitIsTyped ==
    ASSUME Init
    PROVE  IInv
  <1>1. \A p \in Managers : \A i \in DOMAIN Children[p] : Children[p][i] # "shell"
    BY DEF Managers, Children
  <1>2. TypeInv
    BY DEF Init, TypeInv, NewChild
  <1>3. BeliefInv
    BY DEF Init, BeliefInv, NewChild
  <1>4. StartInv
    BY <1>1, Family DEF Init, StartInv
  <1>5. NoOrphans
    BY Family DEF Init, NoOrphans
  <1> QED BY <1>2, <1>3, <1>4, <1>5 DEF IInv

LEMMA StepKeeps ==
    ASSUME IInv, [Next]_vars
    PROVE  IInv'
  <1>1. ASSUME NEW p \in Managers,
               Manages(p) \/ Throw(p) \/ ThrowInLoop(p) \/ Finish(p) \/ HangUp(p)
        PROVE  IInv'
    BY <1>1, StartingKeeps, StartChildKeeps, SignalsKeep, ScanKeeps, WaitChildKeeps, EndsKeep
       DEF Manages
  <1>2. CASE UNCHANGED vars
    BY <1>2 DEF vars, IInv, TypeInv, BeliefInv, StartInv, NoOrphans, Ended
  <1> QED BY <1>1, <1>2, EndsKeep, UserKeeps DEF Next

\* Whatever makes a manager leave - a signal, the verdict on a child, a trace or a
\* descriptor of a ferry, an exception, or a signal it does not block yet - when it has
\* ended, so have its children.
THEOREM NobodyIsLeftBehind == Spec => []NoOrphans
  <1>1. Init => IInv
    BY InitIsTyped
  <1>2. IInv /\ [Next]_vars => IInv'
    BY StepKeeps
  <1>3. IInv => NoOrphans
    BY DEF IInv
  <1> QED BY <1>1, <1>2, <1>3, PTL DEF Spec

-----------------------------------------------------------------------------
(* The shell's status                                                       *)

Ferries == {"uplink", "downlink"}
Fatal == {"HUP", "TERM"}

HasLeft(p) == at[p] \in {"end", "wait"} \/ run[p] = "ended"

CommandSucceeded == run["command"] = "ended" /\ status["command"] = 0
BothFinished == status["uplink"] = FINISHED /\ status["downlink"] = FINISHED

\* Why a manager may leave with 0.
MaySucceed(p) ==
    CASE p = "shell" -> told \/ CommandSucceeded \/ BothFinished
      [] p = "uplink" -> HasLeft("shell") \/ CommandSucceeded
      [] p = "downlink" -> HasLeft("shell")

\* Only the user, or a shell that leaves, tells a manager to end.
FatalInv ==
    /\ pending \in [Processes -> SUBSET {"HUP", "TERM", "CHLD", "CONT"}]
    /\ pending["shell"] \cap Fatal # {} => told
    /\ \A p \in Ferries : pending[p] \cap Fatal # {} => HasLeft("shell")

\* What a process leaves with: 77 only from a ferry that has finished, 0 with reason.
StatusInv ==
    /\ \A p \in Managers : HasLeft(p) /\ status[p] = 0 => MaySucceed(p)
    /\ \A p \in Ferries : status[p] = FINISHED => HasLeft(p)
    /\ run["dnsmasq"] = "ended" => status["dnsmasq"] \in {FAILURE, KILLED}
    /\ run["command"] = "ended" => status["command"] \in {0, FAILURE, KILLED}

\* A parent knows the status; a shell goes on only after a ferry that has finished.
KnownInv ==
    \A c \in Processes : proc[c].terminated =>
        /\ proc[c].exit_status = status[c]
        /\ c \in Ferries => HasLeft("shell") \/ status[c] = FINISHED

JInv == FatalInv /\ StatusInv /\ KnownInv

LEMMA Names ==
    /\ "shell" \in Managers /\ "uplink" \in Managers /\ "downlink" \in Managers
    /\ "shell" \notin Ferries /\ Ferries \subseteq Managers /\ Managers \subseteq Processes
    /\ "command" \in Leaves /\ "dnsmasq" \in Leaves /\ Leaves \subseteq Processes
    /\ Managers \cap Leaves = {}
    /\ \A c \in Processes : c \in Managers \/ c \in Leaves
    /\ \A p \in Managers : p = "shell" \/ p \in Ferries
  BY DEF Managers, Leaves, Processes, Ferries

\* Who has left, and why, is settled; it is enough to look at who leaves now.
LEMMA SettledStays ==
    ASSUME IInv, JInv,
           pending' \in [Processes -> SUBSET {"HUP", "TERM", "CHLD", "CONT"}],
           \A p \in Managers : HasLeft(p) => HasLeft(p)' /\ status'[p] = status[p],
           \A c \in Leaves : run[c] = "ended" => run'[c] = "ended" /\ status'[c] = status[c],
           told => told',
           \A p \in Managers : HasLeft(p)' /\ ~HasLeft(p) /\ status'[p] = 0 => MaySucceed(p),
           \A p \in Ferries : ~HasLeft(p)' => status'[p] = status[p],
           \A c \in Leaves : run'[c] = "ended" /\ run[c] # "ended" =>
                status'[c] \in {FAILURE, KILLED} \/ (c = "command" /\ status'[c] = 0),
           pending'["shell"] \cap Fatal \subseteq pending["shell"] \/ told',
           \A p \in Ferries : pending'[p] \cap Fatal \subseteq pending[p] \/ HasLeft("shell"),
           \A c \in Processes : proc'[c].terminated =>
                \/ proc[c].terminated /\ proc'[c].exit_status = proc[c].exit_status
                \/ /\ run[c] = "ended" /\ proc'[c].exit_status = status[c]
                   /\ c \in Ferries => HasLeft("shell")' \/ status[c] = FINISHED
    PROVE  JInv'
  <1> USE DEF IInv, JInv
  <1>1. CommandSucceeded => CommandSucceeded'
    BY Names DEF CommandSucceeded
  <1>2. BothFinished => BothFinished'
    BY Names DEF BothFinished, StatusInv, Ferries
  <1>3. HasLeft("shell") => HasLeft("shell")'
    BY Names
  <1>4. \A p \in Managers : MaySucceed(p) => MaySucceed(p)'
    <2> SUFFICES ASSUME NEW p \in Managers, MaySucceed(p) PROVE MaySucceed(p)'
      OBVIOUS
    <2>1. CASE p = "shell"
      BY <1>1, <1>2, <2>1 DEF MaySucceed
    <2>2. CASE p = "uplink"
      BY <1>1, <1>3, <2>2 DEF MaySucceed
    <2>3. CASE p = "downlink"
      BY <1>3, <2>3 DEF MaySucceed
    <2> QED BY <2>1, <2>2, <2>3 DEF Managers
  <1>5. FatalInv'
    BY <1>3 DEF FatalInv, Ferries, Fatal
  <1>6. StatusInv'
    <2>1. ASSUME NEW p \in Managers, HasLeft(p)', status'[p] = 0
          PROVE  MaySucceed(p)'
      <3>1. MaySucceed(p)
        BY <2>1 DEF StatusInv
      <3> QED BY <1>4, <3>1
    <2>2. ASSUME NEW p \in Ferries, status'[p] = FINISHED
          PROVE  HasLeft(p)'
      BY <2>2, Names DEF StatusInv
    <2>3. run'["dnsmasq"] = "ended" => status'["dnsmasq"] \in {FAILURE, KILLED}
      BY Names DEF StatusInv
    <2>4. run'["command"] = "ended" => status'["command"] \in {0, FAILURE, KILLED}
      BY Names DEF StatusInv
    <2> QED BY <2>1, <2>2, <2>3, <2>4 DEF StatusInv, Managers, Ferries
  <1>7. KnownInv'
    <2> SUFFICES ASSUME NEW c \in Processes, proc'[c].terminated
                 PROVE  /\ proc'[c].exit_status = status'[c]
                        /\ c \in Ferries => HasLeft("shell")' \/ status'[c] = FINISHED
      BY DEF KnownInv, Ferries, Processes, Managers, Leaves
    <2>1. run[c] = "ended"
      BY DEF BeliefInv
    <2>2. status'[c] = status[c]
      BY <2>1, Names DEF HasLeft
    <2> QED BY <1>3, <2>2 DEF KnownInv
  <1> QED BY <1>5, <1>6, <1>7

\* The lowest numbers first: a signal that is read is pending.
LEMMA ReadIsPending ==
    ASSUME FatalInv, NEW p \in Processes, NEW s, ReadSignal(p, s)
    PROVE  s \in pending[p]
  <1> DEFINE order == [HUP |-> 1, TERM |-> 15, CHLD |-> 17, CONT |-> 18]
  <1>1. pending[p] # {} /\ pending[p] \subseteq {"HUP", "TERM", "CHLD", "CONT"}
    BY DEF FatalInv, ReadSignal
  <1>2. /\ order["HUP"] = 1 /\ order["TERM"] = 15
        /\ order["CHLD"] = 17 /\ order["CONT"] = 18
    OBVIOUS
  <1> HIDE DEF order
  <1>3. \E t \in pending[p] : \A o \in pending[p] : order[t] <= order[o]
    <2>1. CASE "HUP" \in pending[p]
      BY <1>1, <1>2, <2>1
    <2>2. CASE "HUP" \notin pending[p] /\ "TERM" \in pending[p]
      BY <1>1, <1>2, <2>2
    <2>3. CASE "HUP" \notin pending[p] /\ "TERM" \notin pending[p] /\ "CHLD" \in pending[p]
      BY <1>1, <1>2, <2>3
    <2>4. CASE pending[p] = {"CONT"}
      BY <1>2, <2>4
    <2> QED BY <1>1, <2>1, <2>2, <2>3, <2>4
  <1> QED BY <1>3 DEF ReadSignal, First, order

LEMMA DoomedIsChild ==
    ASSUME NEW p \in Managers, Left(p) # {}
    PROVE  Doomed(p) \in ChildrenOf(p)
  <1>1. Left(p) \subseteq {1, 2} /\ Left(p) \subseteq DOMAIN Children[p]
    BY DEF Left, Managers, Children
  <1>2. \E i \in Left(p) : \A j \in Left(p) : i <= j
    <2>1. CASE 1 \in Left(p) BY <1>1, <2>1
    <2>2. CASE Left(p) = {2} BY <2>2
    <2> QED BY <1>1, <2>1, <2>2
  <1> QED BY <1>1, <1>2, Family DEF Doomed

SentTyped == pending' \in [Processes -> SUBSET {"HUP", "TERM", "CHLD", "CONT"}]

\* A manager goes from one place to another without leaving.
LEMMA GoesOn ==
    ASSUME IInv, JInv, NEW p \in Managers, NEW where \in {"starting", "loop", "scan"},
           Goes(p, where), at[p] \notin {"end", "wait"},
           SentTyped, \A q \in Processes : pending'[q] \subseteq pending[q],
           UNCHANGED <<status, proc, told>>,
           \A c \in Processes : run'[c] = "ended" <=> run[c] = "ended"
    PROVE  JInv'
  <1> USE DEF IInv, JInv
  <1>1. \A q \in Managers : HasLeft(q)' <=> HasLeft(q)
    <2>1. at'[p] = where /\ \A q \in Processes : q # p => at'[q] = at[q]
      BY Names DEF Goes, TypeInv
    <2> QED BY <2>1, Names DEF HasLeft
  <1>2. \A q \in Processes : pending'[q] \cap Fatal \subseteq pending[q]
    OBVIOUS
  <1>3. \A c \in Processes : proc'[c].terminated =>
            proc[c].terminated /\ proc'[c].exit_status = proc[c].exit_status
    OBVIOUS
  <1> QED BY <1>1, <1>2, <1>3, Names, SettledStays DEF SentTyped

LEMMA GoingOnSettles ==
    ASSUME IInv, JInv, NEW p \in Managers,
           MakeLoop(p) \/ StartChild(p) \/ EnterLoop(p) \/ HandleChild(p) \/ ScanEnds(p)
    PROVE  JInv'
  <1> USE DEF IInv, JInv
  <1>1. pending \in [Processes -> SUBSET {"HUP", "TERM", "CHLD", "CONT"}]
    BY DEF FatalInv
  <1>2. CASE MakeLoop(p)
    BY <1>1, <1>2, GoesOn DEF MakeLoop, Steps, SentTyped
  <1>3. CASE EnterLoop(p)
    BY <1>1, <1>3, GoesOn DEF EnterLoop, Steps, SentTyped
  <1>4. CASE HandleChild(p)
    <2>1. /\ pending' = [pending EXCEPT ![p] = @ \ {"CHLD"}] /\ at[p] = "loop"
          /\ Goes(p, "scan") /\ UNCHANGED <<run, status, proc, told>>
      BY <1>4 DEF HandleChild, Without, ReadSignal, Steps
    <2>2. SentTyped /\ \A q \in Processes : pending'[q] \subseteq pending[q]
      BY <1>1, <2>1 DEF SentTyped
    <2> QED BY <2>1, <2>2, GoesOn
  <1>5. CASE ScanEnds(p)
    BY <1>1, <1>5, GoesOn DEF ScanEnds, Steps, SentTyped
  <1>6. CASE StartChild(p)
    <2> DEFINE b == Children[p][place[p]]
    <2>1. /\ at[p] = "starting" /\ place[p] \in DOMAIN Children[p]
          /\ run' = [run EXCEPT ![b] = "running"]
          /\ UNCHANGED <<status, pending, at, proc, told>>
      BY <1>6 DEF StartChild, Steps
    <2>2. run[b] = "unborn" /\ b \in Processes /\ place[p] \in Nat
      BY <2>1, Family DEF StartInv, TypeInv
    <2>3. \A c \in Processes : run'[c] = "ended" <=> run[c] = "ended"
      BY <2>1, <2>2 DEF TypeInv
    <2>4. \A q \in Managers : HasLeft(q)' <=> HasLeft(q)
      BY <2>1, <2>3, Names DEF HasLeft
    <2> QED BY <1>1, <2>1, <2>3, <2>4, Names, SettledStays
  <1> QED BY <1>2, <1>3, <1>4, <1>5, <1>6

\* SIGCONT, and what is sent with it, begins and ends nothing.
LEMMA ContinueSends ==
    ASSUME IInv, FatalInv, NEW to,
           NEW sigs \in [Processes -> SUBSET {"HUP", "TERM", "CHLD", "CONT"}],
           Continue(to, sigs)
    PROVE  /\ SentTyped
           /\ \A q \in Processes : pending'[q] \cap Fatal = sigs[q] \cap Fatal
           /\ \A c \in Processes : run'[c] = "ended" <=> run[c] = "ended"
           /\ status' = status
  <1>1. PICK woken :
            pending' = [p \in Processes |->
                (IF p \in to \cap Managers THEN sigs[p] \cup {"CONT"} ELSE sigs[p])
                  \cup (IF \E c \in woken \ {"shell"} : Parent(c) = p THEN {"CHLD"} ELSE {})]
    <2> DEFINE w == {p \in to : run[p] = "stopped"}
    <2>1. pending' = [p \in Processes |->
                (IF p \in to \cap Managers THEN sigs[p] \cup {"CONT"} ELSE sigs[p])
                  \cup (IF \E c \in w \ {"shell"} : Parent(c) = p THEN {"CHLD"} ELSE {})]
      BY DEF Continue
    <2> QED BY <2>1
  <1>2. \A q \in Processes :
            /\ pending'[q] \subseteq sigs[q] \cup {"CONT", "CHLD"}
            /\ sigs[q] \subseteq pending'[q]
    BY <1>1
  <1>3. SentTyped
    <2>1. \A q \in Processes : pending'[q] \in SUBSET {"HUP", "TERM", "CHLD", "CONT"}
      BY <1>2
    <2>2. pending' = [q \in Processes |-> pending'[q]]
      BY <1>1
    <2> QED BY <2>1, <2>2 DEF SentTyped
  <1>4. \A q \in Processes : pending'[q] \cap Fatal = sigs[q] \cap Fatal
    BY <1>2 DEF Fatal
  <1>5. /\ \A c \in Processes : run'[c] = "ended" <=> run[c] = "ended"
        /\ status' = status
    BY ContinueMoves DEF Ended
  <1> QED BY <1>3, <1>4, <1>5

LEMMA ContinuingSettles ==
    ASSUME IInv, JInv, NEW p \in Managers,
           HandleContinue(p) \/ SignalChild(p) \/ UserContinues
    PROVE  JInv'
  <1> USE DEF IInv, JInv
  <1>1. pending \in [Processes -> SUBSET {"HUP", "TERM", "CHLD", "CONT"}]
    BY DEF FatalInv
  <1>2. ASSUME NEW to, NEW sigs \in [Processes -> SUBSET {"HUP", "TERM", "CHLD", "CONT"}],
               Continue(to, sigs),
               \A q \in Managers : at'[q] \in {"end", "wait"} <=> at[q] \in {"end", "wait"},
               UNCHANGED <<proc, told>>,
               sigs["shell"] \cap Fatal \subseteq pending["shell"],
               \A q \in Ferries : sigs[q] \cap Fatal \subseteq pending[q] \/ HasLeft("shell")
        PROVE  JInv'
    <2>1. /\ SentTyped
          /\ \A q \in Processes : pending'[q] \cap Fatal = sigs[q] \cap Fatal
          /\ \A c \in Processes : run'[c] = "ended" <=> run[c] = "ended"
          /\ status' = status
      BY <1>2, ContinueSends
    <2>2. \A q \in Managers : HasLeft(q)' <=> HasLeft(q)
      BY <1>2, <2>1, Names DEF HasLeft
    <2>3. pending'["shell"] \cap Fatal \subseteq pending["shell"]
      BY <1>2, <2>1, Names
    <2>4. \A q \in Ferries : pending'[q] \cap Fatal \subseteq pending[q] \/ HasLeft("shell")
      BY <1>2, <2>1, Names
    <2> QED BY <1>2, <2>1, <2>2, <2>3, <2>4, Names, SettledStays DEF SentTyped
  <1>3. CASE HandleContinue(p)
    <2> DEFINE sigs == Without(p, "CONT")
    <2>1. /\ Continue(Suspended(p), sigs) /\ UNCHANGED <<at, proc, told>>
      BY <1>3 DEF HandleContinue
    <2>2. /\ sigs \in [Processes -> SUBSET {"HUP", "TERM", "CHLD", "CONT"}]
          /\ \A q \in Processes : sigs[q] \subseteq pending[q]
      BY <1>1, Names DEF Without
    <2> HIDE DEF sigs
    <2>3. \A q \in Processes : sigs[q] \cap Fatal \subseteq pending[q]
      BY <2>2
    <2> QED BY <1>2, <2>1, <2>2, <2>3, Names
  <1>4. CASE SignalChild(p)
    <2> DEFINE c == Doomed(p)
               sigs == [pending EXCEPT ![c] = @ \cup {graceful_termination_signal(c)}]
    <2>1. /\ at[p] = "end" /\ Left(p) # {} /\ Goes(p, "wait") /\ UNCHANGED <<proc, told>>
          /\ Continue(IF proc[c].running THEN {} ELSE {c}, sigs)
      BY <1>4 DEF SignalChild, Steps
    <2>2. c \in ChildrenOf(p)
      BY <2>1, DoomedIsChild
    <2>3. c \in Processes /\ c # "shell" /\ (c \in Ferries => p = "shell")
      <3>1. /\ ChildrenOf("shell") = Ferries /\ ChildrenOf("uplink") \subseteq Leaves
            /\ ChildrenOf("downlink") = {}
        BY DEF ChildrenOf, Children, Ferries, Leaves
      <3> QED BY <2>2, <3>1, Names DEF Managers
    <2>4. graceful_termination_signal(c) \in {"HUP", "TERM"}
      BY DEF graceful_termination_signal
    <2> HIDE DEF c
    <2>5. /\ sigs \in [Processes -> SUBSET {"HUP", "TERM", "CHLD", "CONT"}]
          /\ \A q \in Processes : q # c => sigs[q] = pending[q]
      BY <1>1, <2>3, <2>4
    <2>6. \A q \in Managers : at'[q] \in {"end", "wait"} <=> at[q] \in {"end", "wait"}
      BY <2>1, Names DEF Goes, TypeInv
    <2>7. \A q \in Ferries : sigs[q] \cap Fatal \subseteq pending[q] \/ HasLeft("shell")
      BY <2>1, <2>3, <2>5, Names DEF HasLeft
    <2>8. sigs["shell"] \cap Fatal \subseteq pending["shell"]
      BY <2>3, <2>5, Names
    <2> HIDE DEF sigs
    <2> QED BY <1>2, <2>1, <2>5, <2>6, <2>7, <2>8
  <1>5. CASE UserContinues
    <2>1. Continue({"shell"}, pending) /\ UNCHANGED <<at, proc, told>>
      BY <1>5 DEF UserContinues
    <2> QED BY <1>1, <1>2, <2>1
  <1> QED BY <1>3, <1>4, <1>5

\* A manager leaves.
LEMMA LeavingSettles ==
    ASSUME IInv, JInv, NEW p \in Managers, NEW exit \in Int,
           run[p] = "running", at[p] \notin {"end", "wait"},
           Leaves_(p, exit), UNCHANGED <<run, told>>,
           SentTyped, \A q \in Processes : pending'[q] \subseteq pending[q],
           exit = 0 => MaySucceed(p),
           \A c \in Processes : proc'[c].terminated =>
                \/ proc[c].terminated /\ proc'[c].exit_status = proc[c].exit_status
                \/ /\ run[c] = "ended" /\ proc'[c].exit_status = status[c]
                   /\ c \in Ferries => p = "shell"
    PROVE  JInv'
  <1> USE DEF IInv, JInv
  <1>1. /\ at'[p] = "end" /\ status'[p] = exit
        /\ \A q \in Processes : q # p => at'[q] = at[q] /\ status'[q] = status[q]
    BY Names DEF Leaves_, Goes, TypeInv
  <1>2. HasLeft(p)' /\ ~HasLeft(p)
    BY <1>1 DEF HasLeft
  <1>3. \A q \in Managers : q # p => (HasLeft(q)' <=> HasLeft(q)) /\ status'[q] = status[q]
    BY <1>1, Names DEF HasLeft
  <1>4. \A q \in Managers : HasLeft(q) => HasLeft(q)' /\ status'[q] = status[q]
    BY <1>2, <1>3
  <1>5. \A c \in Leaves : run[c] = "ended" => run'[c] = "ended" /\ status'[c] = status[c]
    BY <1>1, Names
  <1>6. \A q \in Managers : HasLeft(q)' /\ ~HasLeft(q) /\ status'[q] = 0 => MaySucceed(q)
    BY <1>1, <1>3
  <1>7. \A q \in Ferries : ~HasLeft(q)' => status'[q] = status[q]
    BY <1>2, <1>3, Names
  <1>8. /\ pending'["shell"] \cap Fatal \subseteq pending["shell"]
        /\ \A q \in Ferries : pending'[q] \cap Fatal \subseteq pending[q]
    BY Names
  <1>9. \A c \in Processes : proc'[c].terminated =>
            \/ proc[c].terminated /\ proc'[c].exit_status = proc[c].exit_status
            \/ /\ run[c] = "ended" /\ proc'[c].exit_status = status[c]
               /\ c \in Ferries => HasLeft("shell")' \/ status[c] = FINISHED
    BY <1>2
  <1> QED BY <1>4, <1>5, <1>6, <1>7, <1>8, <1>9, SettledStays DEF SentTyped

LEMMA TellingSettles ==
    ASSUME IInv, JInv, NEW p \in Managers,
           HandleTermination(p) \/ Throw(p) \/ ThrowInLoop(p) \/ Finish(p)
    PROVE  JInv'
  <1> USE DEF IInv, JInv
  <1>1. pending \in [Processes -> SUBSET {"HUP", "TERM", "CHLD", "CONT"}] /\ p \in Processes
    BY Names DEF FatalInv
  <1>2. CASE HandleTermination(p)
    <2>1. PICK s \in {"HUP", "TERM"} :
              ReadSignal(p, s) /\ pending' = [pending EXCEPT ![p] = @ \ {s}]
      BY <1>2 DEF HandleTermination, Without
    <2>2. /\ run[p] = "running" /\ at[p] = "loop" /\ Leaves_(p, 0)
          /\ UNCHANGED <<run, proc, told>>
      BY <1>2, <2>1 DEF HandleTermination, ReadSignal, Steps
    <2>3. s \in pending[p]
      BY <1>1, <2>1, ReadIsPending
    <2>4. pending[p] \cap Fatal # {}
      BY <2>3 DEF Fatal
    <2>5. MaySucceed(p)
      <3>1. CASE p = "shell"
        BY <2>4, <3>1 DEF FatalInv, MaySucceed
      <3>2. CASE p = "uplink"
        BY <2>4, <3>2 DEF FatalInv, MaySucceed, Ferries
      <3>3. CASE p = "downlink"
        BY <2>4, <3>3 DEF FatalInv, MaySucceed, Ferries
      <3> QED BY <3>1, <3>2, <3>3 DEF Managers
    <2>6. SentTyped /\ \A q \in Processes : pending'[q] \subseteq pending[q]
      BY <1>1, <2>1 DEF SentTyped
    <2> QED BY <2>2, <2>5, <2>6, LeavingSettles
  <1>3. CASE Throw(p) \/ ThrowInLoop(p)
    <2>1. /\ run[p] = "running" /\ at[p] \in {"starting", "loop"} /\ Leaves_(p, 1)
          /\ UNCHANGED <<run, pending, proc, told>>
      BY <1>3 DEF Throw, ThrowInLoop, Steps, FAILURE
    <2> QED BY <1>1, <2>1, LeavingSettles DEF SentTyped
  <1>4. CASE Finish(p)
    <2>1. /\ run[p] = "running" /\ at[p] = "loop" /\ Leaves_(p, 77)
          /\ UNCHANGED <<run, pending, proc, told>>
      BY <1>4 DEF Finish, Steps, FINISHED
    <2> QED BY <1>1, <2>1, LeavingSettles DEF SentTyped
  <1> QED BY <1>2, <1>3, <1>4

\* The verdict on a child: a shell that goes on, or leaves with 0, had reason.
LEMMA ScanTerminatedSettles ==
    ASSUME IInv, JInv, NEW p \in Managers, ScanTerminated(p)
    PROVE  JInv'
  <1> USE DEF IInv, JInv
  <1> DEFINE c == Children[p][place[p]]
             seen == [proc EXCEPT ![c] = Waited(c)]
  <1>1. /\ run[p] = "running" /\ at[p] = "scan" /\ place[p] \in DOMAIN Children[p]
        /\ waitable(c) /\ change[c] = "exited" /\ proc' = seen
        /\ Verdict(p, c, seen) /\ UNCHANGED <<run, pending, told>>
    BY DEF ScanTerminated, Steps
  <1>2. /\ p \in Processes /\ c \in Processes /\ c \in ChildrenOf(p)
        /\ pending \in [Processes -> SUBSET {"HUP", "TERM", "CHLD", "CONT"}]
    BY <1>1, Family DEF FatalInv
  <1>3. run[c] = "ended"
    BY <1>1, <1>2 DEF BeliefInv
  <1>4. Waited(c).terminated /\ Waited(c).exit_status = status[c] /\ status[c] \in Int
    BY <1>1, <1>2, TypedWait DEF TypeInv
  <1>5. \A o \in Processes : proc'[o] = IF o = c THEN Waited(c) ELSE proc[o]
    BY <1>1, <1>2 DEF TypeInv
  <1>6. /\ p = "shell" => c \in Ferries
        /\ p = "uplink" => c \in {"dnsmasq", "command"}
        /\ p # "downlink"
    <2>1. /\ ChildrenOf("shell") = Ferries
          /\ ChildrenOf("uplink") = {"dnsmasq", "command"} /\ ChildrenOf("downlink") = {}
      BY DEF ChildrenOf, Children, Ferries
    <2> QED BY <1>2, <2>1
  <1>7. seen[c].exit_status = status[c] /\ ~HasLeft(p)
    BY <1>1, <1>2, <1>4, <1>5 DEF HasLeft
  <1>8. p = "uplink" => (status[c] = 0 => CommandSucceeded)
    BY <1>3, <1>6 DEF StatusInv, CommandSucceeded, FAILURE, KILLED
  <1>9. p = "shell" => (status[c] = 0 => CommandSucceeded)
    <2> SUFFICES ASSUME p = "shell", status[c] = 0 PROVE CommandSucceeded
      OBVIOUS
    <2>1. HasLeft(c) /\ c \in Managers
      BY <1>3, <1>6, Names DEF HasLeft
    <2>2. MaySucceed(c)
      BY <2>1 DEF StatusInv
    <2>3. c = "uplink" \/ c = "downlink"
      BY <1>6 DEF Ferries
    <2> QED BY <1>7, <2>2, <2>3 DEF MaySucceed
  <1>10. p = "shell" /\ status[c] = FINISHED /\ AllTerminated(p, seen) => BothFinished
    <2> SUFFICES ASSUME p = "shell", status[c] = FINISHED, AllTerminated(p, seen),
                        NEW o \in Ferries
                 PROVE  status[o] = FINISHED
      BY DEF BothFinished, Ferries
    <2>1. o \in Processes /\ o \in ChildrenOf("shell")
      BY Names DEF ChildrenOf, Children, Ferries
    <2>2. seen[o].terminated
      BY <2>1 DEF AllTerminated
    <2>3. CASE o = c
      BY <2>3
    <2>4. CASE o # c
      BY <1>1, <1>5, <1>7, <2>1, <2>2, <2>4 DEF KnownInv
    <2> QED BY <2>3, <2>4
  <1> HIDE DEF c, seen
  <1>11. \A o \in Processes : proc'[o].terminated =>
            \/ proc[o].terminated /\ proc'[o].exit_status = proc[o].exit_status
            \/ o = c /\ run[o] = "ended" /\ proc'[o].exit_status = status[o]
    BY <1>3, <1>4, <1>5
  <1>12. SentTyped /\ \A q \in Processes : pending'[q] \subseteq pending[q]
    BY <1>1, <1>2 DEF SentTyped
  <1>13. ASSUME NEW exit \in {0, FAILURE}, Leaves_(p, exit), exit = 0 => MaySucceed(p)
         PROVE  JInv'
    <2>1. exit \in Int
      BY DEF FAILURE
    <2>2. c \in Ferries => p = "shell"
      BY <1>6 DEF Ferries, Managers
    <2> QED BY <1>1, <1>11, <1>12, <1>13, <2>1, <2>2, LeavingSettles
  <1>14. CASE status[c] \notin {0, continue_status(p)}
    <2>1. Leaves_(p, FAILURE)
      BY <1>1, <1>7, <1>14 DEF Verdict
    <2> QED BY <1>13, <2>1 DEF FAILURE
  <1>15. CASE /\ status[c] \in {0, continue_status(p)}
              /\ AllTerminated(p, seen) \/ status[c] # continue_status(p)
    <2>1. Leaves_(p, 0)
      BY <1>1, <1>7, <1>15 DEF Verdict
    <2>2. MaySucceed(p)
      <3>1. CASE p = "shell"
        BY <1>9, <1>10, <1>15, <3>1 DEF MaySucceed, continue_status
      <3>2. CASE p = "uplink"
        <4>1. status[c] # -1
          BY <1>3, <1>6, <3>2 DEF StatusInv, FAILURE, KILLED
        <4> QED BY <1>8, <1>15, <3>2, <4>1 DEF MaySucceed, continue_status
      <3> QED BY <1>6, <3>1, <3>2 DEF Managers
    <2> QED BY <1>13, <2>1, <2>2
  <1>16. CASE /\ status[c] = continue_status(p) /\ ~AllTerminated(p, seen)
    <2>1. Goes(p, "loop") /\ UNCHANGED status
      BY <1>1, <1>7, <1>16 DEF Verdict
    <2>2. \A q \in Managers : HasLeft(q)' <=> HasLeft(q)
      BY <1>1, <2>1, Names DEF HasLeft, Goes, TypeInv
    <2>3. c \in Ferries => status[c] = FINISHED
      BY <1>6, <1>16 DEF continue_status, Ferries, Managers
    <2>4. \A o \in Processes : proc'[o].terminated =>
            \/ proc[o].terminated /\ proc'[o].exit_status = proc[o].exit_status
            \/ /\ run[o] = "ended" /\ proc'[o].exit_status = status[o]
               /\ o \in Ferries => HasLeft("shell")' \/ status[o] = FINISHED
      BY <1>11, <2>3
    <2> QED BY <1>1, <1>2, <2>1, <2>2, <2>4, Names, SettledStays
  <1> QED BY <1>14, <1>15, <1>16

\* The child that a manager waits for is one of its own, and still to be waited for.
WaitInv == \A p \in Managers : at[p] = "wait" => Left(p) # {}

LEMMA WaitStays ==
    ASSUME IInv, WaitInv,
           \A c \in Processes : run[c] # "unborn" => run'[c] # "unborn",
           \A q \in Managers : at'[q] = "wait" =>
                \/ /\ at[q] = "wait"
                   /\ \A c \in ChildrenOf(q) : proc'[c].terminated => proc[c].terminated
                \/ Left(q)' # {}
    PROVE  WaitInv'
  <1> SUFFICES ASSUME NEW q \in Managers, at'[q] = "wait", at[q] = "wait",
                      \A c \in ChildrenOf(q) : proc'[c].terminated => proc[c].terminated
               PROVE  Left(q)' # {}
    BY DEF WaitInv, Left, Children
  <1>1. PICK i \in DOMAIN Children[q] :
            run[Children[q][i]] # "unborn" /\ ~proc[Children[q][i]].terminated
    BY DEF WaitInv, Left
  <1>2. Children[q][i] \in Processes /\ Children[q][i] \in ChildrenOf(q)
    BY Family
  <1>3. run'[Children[q][i]] # "unborn" /\ ~proc'[Children[q][i]].terminated
    BY <1>1, <1>2
  <1> QED BY <1>3 DEF Left, Children

LEMMA NobodyUnborn ==
    ASSUME IInv, [Next]_vars
    PROVE  \A c \in Processes : run[c] # "unborn" => run'[c] # "unborn"
  <1> SUFFICES ASSUME NEW c \in Processes, run[c] # "unborn" PROVE run'[c] # "unborn"
    OBVIOUS
  <1> USE DEF IInv
  <1>1. ASSUME NEW p, NEW state \in {"stopped", "ended"}, NEW what, NEW exit,
               Becomes(p, state, what, exit)
        PROVE  run'[c] # "unborn"
    <2>1. run' = [run EXCEPT ![p] = state]
      BY <1>1 DEF Becomes
    <2> QED BY <2>1 DEF TypeInv
  <1>2. ASSUME NEW to, NEW sigs, Continue(to, sigs)
        PROVE  run'[c] # "unborn"
    BY <1>2, ContinueMoves DEF Ended
  <1>3. ASSUME NEW p \in Managers,
               Manages(p) \/ Throw(p) \/ ThrowInLoop(p) \/ Finish(p) \/ HangUp(p)
        PROVE  run'[c] # "unborn"
    <2>1. CASE StartChild(p) \/ ScanStopped(p)
      <3>1. \/ run' = [run EXCEPT ![Children[p][place[p]]] = "running"]
            \/ run' = [run EXCEPT ![p] = "stopped"]
        BY <2>1 DEF StartChild, ScanStopped
      <3> QED BY <3>1 DEF TypeInv
    <2>2. CASE HandleContinue(p)
      BY <1>2, <2>2 DEF HandleContinue
    <2>3. CASE SignalChild(p)
      BY <1>2, <2>3 DEF SignalChild
    <2>4. CASE Exits(p)
      BY <1>1, <2>4 DEF Exits
    <2>5. CASE \/ MakeLoop(p) \/ EnterLoop(p) \/ HandleTermination(p) \/ HandleChild(p)
               \/ ScanTerminated(p) \/ ScanOther(p) \/ ScanEnds(p) \/ WaitChild(p)
               \/ Throw(p) \/ ThrowInLoop(p) \/ Finish(p) \/ HangUp(p)
      <3>1. run' = run
        BY <2>5 DEF MakeLoop, EnterLoop, HandleTermination, HandleChild, ScanTerminated,
                    ScanOther, ScanEnds, WaitChild, Throw, ThrowInLoop, Finish, HangUp
      <3> QED BY <3>1
    <2> QED BY <1>3, <2>1, <2>2, <2>3, <2>4, <2>5 DEF Manages
  <1>4. CASE \/ \E p \in Processes : Dies(p)
             \/ \E exit \in {0, FAILURE} : LeafExits("command", exit)
             \/ LeafExits("dnsmasq", FAILURE) \/ CommandStops
    BY <1>1, <1>4 DEF Dies, LeafExits, CommandStops
  <1>5. CASE UserContinues
    BY <1>2, <1>5 DEF UserContinues
  <1>6. CASE UserTerminates \/ UNCHANGED vars
    BY <1>6 DEF UserTerminates, vars
  <1> QED BY <1>3, <1>4, <1>5, <1>6 DEF Next

LEMMA WaitKept ==
    ASSUME IInv, WaitInv, [Next]_vars
    PROVE  WaitInv'
  <1> USE DEF IInv
  <1>1. \A c \in Processes : run[c] # "unborn" => run'[c] # "unborn"
    BY NobodyUnborn
  <1>2. ASSUME proc' = proc, \A q \in Managers : at'[q] = "wait" => at[q] = "wait"
        PROVE  WaitInv'
    BY <1>1, <1>2, WaitStays
  <1>3. ASSUME NEW p \in Managers, NEW where \in {"starting", "loop", "scan", "end"},
               Goes(p, where)
        PROVE  \A q \in Managers : at'[q] = "wait" => at[q] = "wait" /\ q # p
    BY <1>3, Names DEF Goes, TypeInv
  <1>4. ASSUME NEW p \in Managers,
               \/ MakeLoop(p) \/ StartChild(p) \/ EnterLoop(p) \/ HandleTermination(p)
               \/ HandleContinue(p) \/ HandleChild(p) \/ ScanEnds(p) \/ Exits(p)
               \/ Throw(p) \/ ThrowInLoop(p) \/ Finish(p) \/ HangUp(p)
        PROVE  WaitInv'
    <2>1. /\ proc' = proc
          /\ at' = at \/ \E where \in {"starting", "loop", "scan", "end"} : Goes(p, where)
      BY <1>4 DEF MakeLoop, StartChild, EnterLoop, HandleTermination, HandleContinue,
                  HandleChild, ScanEnds, Exits, Throw, ThrowInLoop, Finish, HangUp, Leaves_
    <2> QED BY <1>2, <1>3, <2>1
  <1>5. ASSUME NEW p \in Managers, NEW c \in ChildrenOf(p),
               proc' = proc \/ proc' = [proc EXCEPT ![c] = Waited(c)],
               \A q \in Managers : at'[q] = "wait" => at[q] = "wait" /\ q # p
        PROVE  WaitInv'
    <2>1. \A q \in Managers : q # p => c \notin ChildrenOf(q)
      BY Family
    <2>2. \A q \in Managers : \A o \in ChildrenOf(q) : o \in Processes
      BY Family
    <2>3. \A q \in Managers : at'[q] = "wait" =>
              /\ at[q] = "wait"
              /\ \A o \in ChildrenOf(q) : proc'[o].terminated => proc[o].terminated
      BY <1>5, <2>1, <2>2 DEF TypeInv
    <2> QED BY <1>1, <2>3, WaitStays
  <1>6. ASSUME NEW p \in Managers, ScanTerminated(p) \/ ScanStopped(p) \/ ScanOther(p)
        PROVE  WaitInv'
    <2> DEFINE c == Children[p][place[p]]
    <2>1. /\ c \in ChildrenOf(p) /\ at[p] = "scan"
          /\ proc' = proc \/ proc' = [proc EXCEPT ![c] = Waited(c)]
      BY <1>6, Family DEF ScanTerminated, ScanStopped, ScanOther, Steps
    <2>2. at' = at \/ \E where \in {"starting", "loop", "scan", "end"} : Goes(p, where)
      BY <1>6 DEF ScanTerminated, ScanStopped, ScanOther, Verdict, Leaves_
    <2>3. \A q \in Managers : at'[q] = "wait" => at[q] = "wait" /\ q # p
      BY <1>3, <2>1, <2>2
    <2> QED BY <1>5, <2>1, <2>3
  <1>7. ASSUME NEW p \in Managers, WaitChild(p)
        PROVE  WaitInv'
    <2>1. /\ at[p] = "wait" /\ Goes(p, "end")
          /\ proc' = [proc EXCEPT ![Doomed(p)] = Waited(Doomed(p))]
      BY <1>7 DEF WaitChild, Steps
    <2>2. Doomed(p) \in ChildrenOf(p)
      BY <2>1, DoomedIsChild DEF WaitInv
    <2>3. \A q \in Managers : at'[q] = "wait" => at[q] = "wait" /\ q # p
      BY <1>3, <2>1
    <2> QED BY <1>5, <2>1, <2>2, <2>3
  <1>8. ASSUME NEW p \in Managers, SignalChild(p)
        PROVE  WaitInv'
    <2>1. Left(p) # {} /\ Goes(p, "wait") /\ proc' = proc
      BY <1>8 DEF SignalChild
    <2>2. Left(p)' # {}
      <3>1. PICK i \in DOMAIN Children[p] :
                run[Children[p][i]] # "unborn" /\ ~proc[Children[p][i]].terminated
        BY <2>1 DEF Left
      <3>2. run'[Children[p][i]] # "unborn"
        BY <1>1, <3>1, Family
      <3> QED BY <2>1, <3>1, <3>2 DEF Left, Children
    <2>3. \A q \in Managers : at'[q] = "wait" => at[q] = "wait" \/ q = p
      BY <2>1, Names DEF Goes, TypeInv
    <2> QED BY <1>1, <2>1, <2>2, <2>3, WaitStays
  <1>9. CASE \/ \E p \in Processes : Dies(p)
             \/ \E exit \in {0, FAILURE} : LeafExits("command", exit)
             \/ LeafExits("dnsmasq", FAILURE)
             \/ CommandStops \/ UserContinues \/ UserTerminates \/ UNCHANGED vars
    <2>1. proc' = proc /\ at' = at
      BY <1>9 DEF Dies, LeafExits, CommandStops, UserContinues, UserTerminates, vars
    <2> QED BY <1>2, <2>1
  <1> QED BY <1>4, <1>6, <1>7, <1>8, <1>9 DEF Next, Manages

\* A manager that looks at a child which has not ended, or is ending itself.
LEMMA LookingSettles ==
    ASSUME IInv, JInv, WaitInv, NEW p \in Managers,
           ScanStopped(p) \/ ScanOther(p) \/ WaitChild(p)
    PROVE  JInv'
  <1> USE DEF IInv, JInv
  <1>1. pending \in [Processes -> SUBSET {"HUP", "TERM", "CHLD", "CONT"}] /\ p \in Processes
    BY Names DEF FatalInv
  <1>2. ASSUME NEW c \in Processes, waitable(c), proc' = [proc EXCEPT ![c] = Waited(c)],
               change[c] = "exited" => (p # "shell" /\ c \notin Ferries) \/ HasLeft("shell")
        PROVE  \A o \in Processes : proc'[o].terminated =>
                   \/ proc[o].terminated /\ proc'[o].exit_status = proc[o].exit_status
                   \/ /\ run[o] = "ended" /\ proc'[o].exit_status = status[o]
                      /\ o \in Ferries => HasLeft("shell") \/ status[o] = FINISHED
    <2>1. /\ Waited(c).terminated <=> change[c] = "exited"
          /\ change[c] = "exited" => Waited(c).exit_status = status[c] /\ run[c] = "ended"
      BY <1>2, TypedWait DEF BeliefInv
    <2>2. \A o \in Processes : proc'[o] = IF o = c THEN Waited(c) ELSE proc[o]
      BY <1>2 DEF TypeInv
    <2> QED BY <1>2, <2>1, <2>2
  <1>3. CASE ScanStopped(p)
    <2> DEFINE c == Children[p][place[p]]
    <2>1. /\ run[p] = "running" /\ waitable(c) /\ change[c] = "stopped"
          /\ proc' = [proc EXCEPT ![c] = Waited(c)] /\ run' = [run EXCEPT ![p] = "stopped"]
          /\ UNCHANGED <<status, at, told>> /\ place[p] \in DOMAIN Children[p]
      BY <1>3 DEF ScanStopped, Steps
    <2>2. /\ SentTyped
          /\ \A q \in Processes : pending'[q] \subseteq pending[q] \cup {"CHLD"}
      <3>1. pending' = [q \in Processes |->
                 CASE q = p -> pending[p] \ {"CONT"}
                   [] q = Parent(p) /\ p # "shell" -> pending[q] \cup {"CHLD"}
                   [] OTHER -> pending[q]]
        BY <1>3 DEF ScanStopped
      <3>2. \A q \in Processes : pending'[q] \subseteq pending[q] \cup {"CHLD"}
        BY <3>1
      <3>3. \A q \in Processes : pending'[q] \in SUBSET {"HUP", "TERM", "CHLD", "CONT"}
        BY <1>1, <3>2
      <3>4. pending' = [q \in Processes |-> pending'[q]]
        BY <3>1
      <3> QED BY <3>2, <3>3, <3>4 DEF SentTyped
    <2>3. \A q \in Processes : pending'[q] \cap Fatal \subseteq pending[q]
      BY <2>2 DEF Fatal
    <2>4. c \in Processes
      BY <2>1, Family
    <2>5. \A o \in Processes : run'[o] = "ended" <=> run[o] = "ended"
      BY <1>1, <2>1 DEF TypeInv
    <2>6. \A q \in Managers : HasLeft(q)' <=> HasLeft(q)
      BY <2>1, <2>5, Names DEF HasLeft
    <2>7. \A o \in Processes : proc'[o].terminated =>
              proc[o].terminated /\ proc'[o].exit_status = proc[o].exit_status
      <3>1. ~Waited(c).terminated
        BY <2>1, <2>4, TypedWait
      <3>2. \A o \in Processes : proc'[o] = IF o = c THEN Waited(c) ELSE proc[o]
        BY <2>1, <2>4 DEF TypeInv
      <3> QED BY <3>1, <3>2
    <2> QED BY <2>1, <2>2, <2>3, <2>5, <2>6, <2>7, Names, SettledStays DEF SentTyped
  <1>4. CASE ScanOther(p)
    <2> DEFINE c == Children[p][place[p]]
    <2>1. /\ UNCHANGED <<run, status, pending, at, told>> /\ c \in Processes
          /\ \/ proc' = proc
             \/ /\ waitable(c) /\ change[c] = "continued"
                /\ proc' = [proc EXCEPT ![c] = Waited(c)]
      BY <1>4, Family DEF ScanOther
    <2>2. \A q \in Managers : HasLeft(q)' <=> HasLeft(q)
      BY <2>1 DEF HasLeft
    <2>3. \A o \in Processes : proc'[o].terminated =>
              proc[o].terminated /\ proc'[o].exit_status = proc[o].exit_status
      <3>1. CASE proc' = proc
        BY <3>1
      <3>2. CASE /\ waitable(c) /\ change[c] = "continued"
                 /\ proc' = [proc EXCEPT ![c] = Waited(c)]
        <4>1. ~Waited(c).terminated
          BY <2>1, <3>2, TypedWait
        <4>2. \A o \in Processes : proc'[o] = IF o = c THEN Waited(c) ELSE proc[o]
          BY <2>1, <3>2 DEF TypeInv
        <4> QED BY <4>1, <4>2
      <3> QED BY <2>1, <3>1, <3>2
    <2> QED BY <1>1, <2>1, <2>2, <2>3, Names, SettledStays
  <1>5. CASE WaitChild(p)
    <2> DEFINE c == Doomed(p)
    <2>1. /\ at[p] = "wait" /\ Goes(p, "end") /\ waitable(c)
          /\ proc' = [proc EXCEPT ![c] = Waited(c)]
          /\ UNCHANGED <<run, status, pending, told>>
      BY <1>5 DEF WaitChild, Steps
    <2>2. \A q \in Managers : HasLeft(q)' <=> HasLeft(q)
      BY <2>1, Names DEF HasLeft, Goes, TypeInv
    <2>3. CASE c \notin Processes
      <3>1. proc' = proc
        BY <2>1, <2>3 DEF TypeInv
      <3> QED BY <1>1, <2>1, <2>2, <3>1, Names, SettledStays
    <2>4. CASE c \in Processes
      <3>1. change[c] = "exited" => (p # "shell" /\ c \notin Ferries) \/ HasLeft("shell")
        <4>1. CASE p = "shell"
          BY <2>1, <4>1 DEF HasLeft
        <4>2. CASE p # "shell"
          <5>1. c \in ChildrenOf(p)
            BY <2>1, DoomedIsChild DEF WaitInv
          <5>2. c \notin Ferries
            BY <4>2, <5>1 DEF ChildrenOf, Children, Managers, Ferries
          <5> QED BY <4>2, <5>2
        <4> QED BY <4>1, <4>2
      <3> QED BY <1>1, <1>2, <2>1, <2>2, <2>4, <3>1, Names, SettledStays
    <2> QED BY <2>3, <2>4
  <1> QED BY <1>3, <1>4, <1>5

LEMMA EndsSettle ==
    ASSUME IInv, JInv,
           \/ \E p \in Processes : Dies(p)
           \/ \E p \in Managers : Exits(p)
           \/ \E exit \in {0, FAILURE} : LeafExits("command", exit)
           \/ LeafExits("dnsmasq", FAILURE)
    PROVE  JInv'
  <1> USE DEF IInv, JInv
  <1>1. ASSUME NEW p \in Processes, NEW exit \in Int,
               run[p] = "running", Becomes(p, "ended", "exited", exit),
               UNCHANGED <<at, proc, told>>,
               p \in Managers => \/ at[p] = "bare" /\ exit = KILLED
                                 \/ at[p] = "end" /\ exit = status[p],
               p \in Leaves => exit \in {FAILURE, KILLED} \/ (p = "command" /\ exit = 0)
        PROVE  JInv'
    <2>1. /\ run' = [run EXCEPT ![p] = "ended"] /\ status' = [status EXCEPT ![p] = exit]
          /\ pending' = IF p = "shell" THEN pending
                        ELSE [pending EXCEPT ![Parent(p)] = @ \cup {"CHLD"}]
      BY <1>1 DEF Becomes
    <2>2. /\ SentTyped
          /\ \A q \in Processes : pending'[q] \subseteq pending[q] \cup {"CHLD"}
      BY <2>1 DEF SentTyped, FatalInv
    <2>3. \A q \in Processes : pending'[q] \cap Fatal \subseteq pending[q]
      BY <2>2 DEF Fatal
    <2>4. \A o \in Processes : /\ run'[o] = IF o = p THEN "ended" ELSE run[o]
                               /\ status'[o] = IF o = p THEN exit ELSE status[o]
      BY <1>1, <2>1 DEF TypeInv
    <2>5. \A q \in Managers : q # p => (HasLeft(q)' <=> HasLeft(q)) /\ status'[q] = status[q]
      BY <1>1, <2>4, Names DEF HasLeft
    <2>6. /\ p \in Managers => HasLeft(p)' /\ status'[p] = exit
          /\ p \in Managers /\ HasLeft(p) => status'[p] = status[p]
          /\ p \in Managers /\ ~HasLeft(p) => status'[p] # 0
      BY <1>1, <2>4 DEF HasLeft, KILLED
    <2>7. \A q \in Managers : HasLeft(q) => HasLeft(q)' /\ status'[q] = status[q]
      BY <2>5, <2>6
    <2>8. \A q \in Managers : HasLeft(q)' /\ ~HasLeft(q) /\ status'[q] = 0 => MaySucceed(q)
      BY <2>5, <2>6
    <2>9. \A q \in Ferries : ~HasLeft(q)' => status'[q] = status[q]
      BY <2>5, <2>6, Names
    <2>10. \A c \in Leaves : run[c] = "ended" => run'[c] = "ended" /\ status'[c] = status[c]
      BY <1>1, <2>4, Names
    <2>11. \A c \in Leaves : run'[c] = "ended" /\ run[c] # "ended" =>
                status'[c] \in {FAILURE, KILLED} \/ (c = "command" /\ status'[c] = 0)
      BY <1>1, <2>4, Names
    <2> QED BY <1>1, <2>2, <2>3, <2>7, <2>8, <2>9, <2>10, <2>11, Names, SettledStays
            DEF SentTyped
  <1>2. ASSUME NEW p \in Processes, Dies(p)
        PROVE  JInv'
    <2>1. KILLED \in Int
      BY DEF KILLED
    <2> QED BY <1>1, <1>2, <2>1 DEF Dies
  <1>3. ASSUME NEW p \in Managers, Exits(p)
        PROVE  JInv'
    <2>1. p \in Processes /\ p \notin Leaves /\ status[p] \in Int
      BY Names DEF TypeInv
    <2> QED BY <1>1, <1>3, <2>1 DEF Exits, Steps
  <1>4. ASSUME NEW p \in Leaves, NEW exit \in {0, FAILURE}, LeafExits(p, exit),
               p = "command" \/ exit = FAILURE
        PROVE  JInv'
    <2>1. p \in Processes /\ p \notin Managers /\ exit \in Int
      BY Names DEF FAILURE
    <2> QED BY <1>1, <1>4, <2>1 DEF LeafExits
  <1> QED BY <1>2, <1>3, <1>4, Names

LEMMA UserSettles ==
    ASSUME IInv, JInv, CommandStops \/ UserTerminates \/ UNCHANGED vars
    PROVE  JInv'
  <1> USE DEF IInv, JInv
  <1>1. pending \in [Processes -> SUBSET {"HUP", "TERM", "CHLD", "CONT"}]
    BY DEF FatalInv
  <1>2. CASE CommandStops
    <2>1. /\ run["command"] = "running" /\ UNCHANGED <<at, proc, told>>
          /\ run' = [run EXCEPT !["command"] = "stopped"]
          /\ status' = [status EXCEPT !["command"] = 0]
          /\ pending' = [pending EXCEPT ![Parent("command")] = @ \cup {"CHLD"}]
      BY <1>2 DEF CommandStops, Becomes
    <2>2. /\ SentTyped
          /\ \A q \in Processes : pending'[q] \subseteq pending[q] \cup {"CHLD"}
      BY <1>1, <2>1 DEF SentTyped
    <2>3. \A q \in Processes : pending'[q] \cap Fatal \subseteq pending[q]
      BY <2>2 DEF Fatal
    <2>4. \A o \in Processes :
              /\ run'[o] = IF o = "command" THEN "stopped" ELSE run[o]
              /\ status'[o] = IF o = "command" THEN 0 ELSE status[o]
      BY <2>1 DEF TypeInv
    <2>5. \A q \in Managers : (HasLeft(q)' <=> HasLeft(q)) /\ status'[q] = status[q]
      BY <2>1, <2>4, Names DEF HasLeft
    <2>6. \A c \in Leaves : /\ run'[c] = "ended" <=> run[c] = "ended"
                            /\ run[c] = "ended" => status'[c] = status[c]
      BY <2>1, <2>4, Names
    <2> QED BY <2>1, <2>2, <2>3, <2>5, <2>6, Names, SettledStays DEF SentTyped
  <1>3. CASE UserTerminates
    <2>1. /\ UNCHANGED <<run, status, at, proc>> /\ told' = TRUE
          /\ pending' = [pending EXCEPT !["shell"] = @ \cup {"TERM"}]
      BY <1>3 DEF UserTerminates
    <2>2. /\ pending' \in [Processes -> SUBSET {"HUP", "TERM", "CHLD", "CONT"}]
          /\ \A q \in Ferries : pending'[q] = pending[q]
      BY <1>1, <2>1, Names
    <2>3. \A q \in Managers : HasLeft(q)' <=> HasLeft(q)
      BY <2>1 DEF HasLeft
    <2> QED BY <2>1, <2>2, <2>3, SettledStays
  <1>4. CASE UNCHANGED vars
    BY <1>4 DEF vars, FatalInv, StatusInv, KnownInv, MaySucceed, HasLeft, CommandSucceeded,
                BothFinished
  <1> QED BY <1>2, <1>3, <1>4

LEMMA InitSettles ==
    ASSUME Init
    PROVE  JInv /\ WaitInv
  <1>1. \A p \in Managers : ~HasLeft(p) /\ at[p] # "wait" /\ status[p] = 0
    BY Names DEF Init, HasLeft
  <1>2. FatalInv
    BY Names DEF Init, FatalInv
  <1>3. StatusInv
    BY <1>1, Names DEF Init, StatusInv, FINISHED
  <1>4. KnownInv
    BY DEF Init, KnownInv, NewChild
  <1> QED BY <1>1, <1>2, <1>3, <1>4 DEF JInv, WaitInv

LEMMA StepSettles ==
    ASSUME IInv, JInv, WaitInv, [Next]_vars, ~hung'
    PROVE  JInv'
  <1>1. ASSUME NEW p \in Managers, Manages(p) \/ Throw(p) \/ ThrowInLoop(p) \/ Finish(p)
        PROVE  JInv'
    BY <1>1, GoingOnSettles, ContinuingSettles, TellingSettles, ScanTerminatedSettles,
       LookingSettles, EndsSettle DEF Manages
  <1>2. CASE UserContinues
    BY <1>2, Names, ContinuingSettles
  <1>3. ASSUME NEW p \in Managers PROVE ~HangUp(p)
    BY DEF HangUp
  <1> QED BY <1>1, <1>2, <1>3, EndsSettle, UserSettles DEF Next

LEMMA HungStays ==
    ASSUME hung, [Next]_vars
    PROVE  hung'
  <1>1. ASSUME NEW p \in Managers, Manages(p) PROVE hung'
    BY <1>1 DEF Manages, MakeLoop, StartChild, EnterLoop, HandleTermination, HandleContinue,
                HandleChild, ScanTerminated, ScanStopped, ScanOther, ScanEnds, SignalChild,
                WaitChild, Exits
  <1>2. ASSUME NEW p \in Managers, Throw(p) \/ ThrowInLoop(p) \/ Finish(p) \/ HangUp(p)
        PROVE  hung'
    BY <1>2 DEF Throw, ThrowInLoop, Finish, HangUp
  <1>3. ASSUME NEW p, NEW exit, Dies(p) \/ LeafExits(p, exit) PROVE hung'
    BY <1>3 DEF Dies, LeafExits
  <1>4. CASE CommandStops \/ UserContinues \/ UserTerminates \/ UNCHANGED vars
    BY <1>4 DEF CommandStops, UserContinues, UserTerminates, vars
  <1> QED BY <1>1, <1>2, <1>3, <1>4 DEF Next

\* Status 0 gets out of the tree only from a command that exited with it, because the
\* user ended the shell, because both traces had ended, or once a descriptor of a ferry
\* has hung up: no other failure on the way - an exception while it starts or in the
\* loop, a child that a signal killed - and no order in which children end and are
\* waited for, becomes a success.
THEOREM SuccessIsOfTheCommand == Spec => []SuccessIsDeserved
  <1> DEFINE Settled == IInv /\ WaitInv /\ (hung \/ JInv)
  <1>1. Init => Settled
    BY InitIsTyped, InitSettles
  <1>2. Settled /\ [Next]_vars => Settled'
    BY StepKeeps, StepSettles, WaitKept, HungStays
  <1>3. Settled => SuccessIsDeserved
    BY Names DEF JInv, StatusInv, HasLeft, MaySucceed, CommandSucceeded, BothFinished,
                 SuccessIsDeserved
  <1> QED BY <1>1, <1>2, <1>3, PTL DEF Spec

-----------------------------------------------------------------------------
(* The graph                                                                *)

\* Amounts of which a sum can be taken.
Summable(v) == Len(v) \in Nat /\ \A i \in 1 .. Len(v) : v[i].amount \in Nat

\* The sums of the first values of v that are at the places I.
SumsOf(f, v, I) ==
    /\ f \in [0 .. Len(v) -> Nat] /\ f[0] = 0
    /\ \A n \in 1 .. Len(v) : f[n] = f[n - 1] + IF n \in I THEN v[n].amount ELSE 0

\* There are such sums, and Sum is the last.
LEMMA SumIsLast ==
    ASSUME NEW v, Summable(v), NEW I
    PROVE  \E f : SumsOf(f, v, I) /\ G!Sum(v, I) = f[Len(v)]
  <1> DEFINE N == Len(v)
             x(n) == IF n \in I THEN v[n].amount ELSE 0
             Sums(f, m) == /\ f \in [0 .. m -> Nat] /\ f[0] = 0
                           /\ \A n \in 1 .. m : f[n] = f[n - 1] + x(n)
             T == {m \in Nat : m <= N => \E f : Sums(f, m)}
  <1>1. N \in Nat /\ \A n \in 1 .. N : x(n) \in Nat
    BY DEF Summable
  <1> HIDE DEF N, x
  <1>2. 0 \in T
    <2> DEFINE z == [k \in {0} |-> 0]
    <2>1. 0 .. 0 = {0} /\ 1 .. 0 = {}
      OBVIOUS
    <2>2. z \in [{0} -> Nat] /\ z[0] = 0
      OBVIOUS
    <2> HIDE DEF z
    <2>3. Sums(z, 0)
      BY <2>1, <2>2
    <2> QED
      BY <2>3
  <1>3. ASSUME NEW m \in Nat, m \in T PROVE m + 1 \in T
    <2>0. m + 1 \in Nat
      OBVIOUS
    <2>1. SUFFICES ASSUME m + 1 <= N PROVE \E f : Sums(f, m + 1)
      BY <2>0, Zenon
    <2>2. PICK f : Sums(f, m)
      BY <1>1, <1>3, <2>1
    <2> DEFINE h == [k \in 0 .. m + 1 |-> IF k = m + 1 THEN f[m] + x(m + 1) ELSE f[k]]
    <2>3. f[m] \in Nat /\ x(m + 1) \in Nat
      BY <1>1, <2>1, <2>2, SMT
    <2>4. h \in [0 .. m + 1 -> Nat] /\ h[0] = 0
      BY <2>2, <2>3, SMT
    <2>5. ASSUME NEW n \in 1 .. m + 1 PROVE h[n] = h[n - 1] + x(n)
      BY <2>2, <2>3, SMT
    <2> QED
      BY <2>4, <2>5
  <1>4. T = Nat
    <2> HIDE DEF T
    <2>1. T \in SUBSET Nat
      BY DEF T
    <2> QED
      BY <1>2, <1>3, <2>1, F!NatSet
  <1>5. PICK f : Sums(f, N)
    <2>1. N \in T
      BY <1>1, <1>4, Zenon
    <2>2. N <= N
      BY <1>1, SMT
    <2> QED
      BY <2>1, <2>2, Zenon
  <1> DEFINE Eq(g) == g = [n \in 0 .. N |-> IF n = 0 THEN 0 ELSE g[n - 1] + x(n)]
             g == CHOOSE y : Eq(y)
  <1>6. Eq(f)
    BY <1>1, <1>5, SMT
  <1>7. Eq(g)
    <2> HIDE DEF Eq
    <2> QED
      BY <1>6, Zenon
  <1>8. G!Sum(v, I) = g[N]
    BY Zenon DEF G!Sum, N, x
  <1> HIDE DEF g
  <1> DEFINE U == {m \in Nat : m <= N => g[m] = f[m]}
  <1>9. 0 \in U
    BY <1>1, <1>5, <1>7, SMT
  <1>10. ASSUME NEW m \in Nat, m \in U PROVE m + 1 \in U
    BY <1>1, <1>5, <1>7, <1>10, SMT
  <1>11. U = Nat
    <2> HIDE DEF U
    <2>1. U \in SUBSET Nat
      BY DEF U
    <2> QED
      BY <1>9, <1>10, <2>1, F!NatSet
  <1>12. g[N] = f[N]
    BY <1>1, <1>11, SMT
  <1>13. SumsOf(f, v, I)
    BY <1>5 DEF SumsOf, N, x
  <1> QED
    BY <1>8, <1>12, <1>13 DEF N

\* Sums of the same amounts are the same.
LEMMA SumsAgree ==
    ASSUME NEW v, Summable(v), NEW I, NEW f, SumsOf(f, v, I),
           NEW w, Summable(w), NEW J, NEW g, SumsOf(g, w, J),
           NEW m \in Nat, m <= Len(v), m <= Len(w),
           \A i \in 1 .. m : v[i].amount = w[i].amount /\ (i \in I <=> i \in J)
    PROVE  f[m] = g[m]
  <1> DEFINE U == {k \in Nat : k <= m => f[k] = g[k]}
  <1>1. 0 \in U
    BY DEF SumsOf
  <1>2. ASSUME NEW k \in Nat, k \in U PROVE k + 1 \in U
    <2>1. SUFFICES ASSUME k + 1 <= m PROVE f[k + 1] = g[k + 1]
      OBVIOUS
    <2>2. /\ k + 1 \in 1 .. m /\ k + 1 \in 1 .. Len(v) /\ k + 1 \in 1 .. Len(w) /\ k <= m
          /\ (k + 1) - 1 = k
      BY <2>1, SMT DEF Summable
    <2>3. f[k] = g[k]
      BY <1>2, <2>2
    <2>4. /\ f[k + 1] = f[k] + IF k + 1 \in I THEN v[k + 1].amount ELSE 0
          /\ g[k + 1] = g[k] + IF k + 1 \in J THEN w[k + 1].amount ELSE 0
      BY <2>2, Zenon DEF SumsOf
    <2> QED
      BY <2>2, <2>3, <2>4
  <1>3. U = Nat
    <2> HIDE DEF U
    <2>1. U \in SUBSET Nat
      BY DEF U
    <2> QED
      BY <1>1, <1>2, <2>1, F!NatSet
  <1>4. m \in U /\ m <= m
    BY <1>3, SMT
  <1> QED
    BY <1>4

\* The sum of no values.
LEMMA SumOfNothing ==
    ASSUME NEW v, Summable(v)
    PROVE  G!Sum(v, {}) = 0
  <1>1. PICK f : SumsOf(f, v, {}) /\ G!Sum(v, {}) = f[Len(v)]
    BY SumIsLast
  <1> DEFINE N == Len(v)
             U == {k \in Nat : k <= N => f[k] = 0}
  <1>2. 0 \in U
    BY <1>1 DEF SumsOf
  <1>3. ASSUME NEW k \in Nat, k \in U PROVE k + 1 \in U
    <2>1. SUFFICES ASSUME k + 1 <= N PROVE f[k + 1] = 0
      OBVIOUS
    <2>2. k + 1 \in 1 .. N /\ k <= N /\ (k + 1) - 1 = k
      BY <2>1, SMT DEF Summable
    <2>3. f[k + 1] = f[k] + 0
      BY <1>1, <2>2 DEF SumsOf
    <2> QED
      BY <1>3, <2>2, <2>3
  <1>4. U = Nat
    <2> HIDE DEF U
    <2>1. U \in SUBSET Nat
      BY DEF U
    <2> QED
      BY <1>2, <1>3, <2>1, F!NatSet
  <1>5. N \in U /\ N <= N
    <2>1. N \in Nat
      BY DEF Summable
    <2> HIDE DEF N, U
    <2> QED
      BY <1>4, <2>1, SMT
  <1> QED
    BY <1>1, <1>5

\* A sum stays when one more value is known.
LEMMA SumOfTheSame ==
    ASSUME NEW v, Summable(v), NEW w, Summable(w), Len(w) = Len(v) \/ Len(w) = Len(v) + 1,
           \A i \in 1 .. Len(v) : w[i].amount = v[i].amount,
           NEW I, I \subseteq 1 .. Len(v)
    PROVE  G!Sum(w, I) = G!Sum(v, I)
  <1>1. PICK f : SumsOf(f, v, I) /\ G!Sum(v, I) = f[Len(v)]
    BY SumIsLast
  <1>2. PICK g : SumsOf(g, w, I) /\ G!Sum(w, I) = g[Len(w)]
    BY SumIsLast
  <1> DEFINE N == Len(v)
  <1>3. N \in Nat /\ N <= N /\ N <= Len(w)
    BY SMT DEF Summable
  <1>4. f[N] = g[N]
    BY <1>1, <1>2, <1>3, SumsAgree
  <1>5. CASE Len(w) = N + 1
    <2>1. N + 1 \in 1 .. Len(w) /\ (N + 1) - 1 = N /\ ~(N + 1 \in 1 .. N)
      BY <1>3, <1>5, SMT
    <2>2. g[N + 1] = g[N] + 0
      BY <1>2, <2>1 DEF SumsOf
    <2>3. g[N] \in Nat
      BY <1>2, <1>3, SMT DEF SumsOf
    <2> QED
      BY <1>1, <1>2, <1>4, <1>5, <2>2, <2>3
  <1> QED
    BY <1>1, <1>2, <1>4, <1>5

\* A sum when the last value is one more of them.
LEMMA SumOfOneMore ==
    ASSUME NEW v, Summable(v), NEW w, Summable(w), Len(w) = Len(v), Len(v) # 0,
           \A i \in 1 .. Len(v) : w[i].amount = v[i].amount,
           NEW I, Len(v) \notin I
    PROVE  G!Sum(w, I \cup {Len(v)}) = G!Sum(v, I) + v[Len(v)].amount
  <1> DEFINE N == Len(v)
             J == I \cup {N}
  <1>1. PICK f : SumsOf(f, v, I) /\ G!Sum(v, I) = f[N]
    BY SumIsLast
  <1>2. PICK g : SumsOf(g, w, J) /\ G!Sum(w, J) = g[N]
    BY SumIsLast
  <1>3. N \in Nat /\ N - 1 \in Nat /\ N - 1 <= N /\ N \in 1 .. N
    BY SMT DEF Summable
  <1>4. \A i \in 1 .. N - 1 : i \in 1 .. N /\ i # N
    BY <1>3, SMT
  <1>5. f[N - 1] = g[N - 1]
    <2>1. \A i \in 1 .. N - 1 : v[i].amount = w[i].amount /\ (i \in I <=> i \in J)
      BY <1>4
    <2> HIDE DEF J
    <2> QED
      BY <1>1, <1>2, <1>3, <2>1, SumsAgree
  <1>6. /\ f[N] = f[N - 1] + 0 /\ g[N] = g[N - 1] + v[N].amount
    BY <1>1, <1>2, <1>3 DEF SumsOf
  <1>7. f[N - 1] \in Nat /\ v[N].amount \in Nat
    BY <1>1, <1>3, SMT DEF SumsOf, Summable
  <1> QED
    BY <1>1, <1>2, <1>5, <1>6, <1>7

\* The largest of some numbers.
IsMax(m, S) == m \in S /\ S \subseteq Int /\ \A y \in S : m >= y

\* Max finds it.
LEMMA MaxIs ==
    ASSUME NEW S, NEW m, IsMax(m, S)
    PROVE  G!Max(S) = m
  <1>1. \A x \in S : (\A y \in S : x >= y) => x = m
    BY SMT DEF IsMax
  <1>2. m \in S /\ \A y \in S : m >= y
    BY DEF IsMax
  <1> QED
    BY <1>1, <1>2, Zenon DEF G!Max

\* With one number more.
LEMMA MaxWithOneMore ==
    ASSUME NEW S, NEW m, IsMax(m, S), NEW a \in Int
    PROVE  IsMax(G!Max({m, a}), S \cup {a})
  <1> DEFINE n == IF m >= a THEN m ELSE a
  <1>1. m \in Int
    BY DEF IsMax
  <1>2. IsMax(n, {m, a})
    BY <1>1, SMT DEF IsMax
  <1>3. G!Max({m, a}) = n
    BY <1>2, MaxIs
  <1>4. IsMax(n, S \cup {a})
    BY <1>1, SMT DEF IsMax
  <1> QED
    BY <1>3, <1>4

\* A later time is in no earlier bin.
LEMMA BinsInOrder ==
    ASSUME G!GraphAssumption
    PROVE  /\ \A a \in Nat : G!Bin(a) \in Nat
           /\ \A a, b \in Nat : a <= b => G!Bin(a) <= G!Bin(b)
           /\ G!Bin(0) = 0
  <1> DEFINE w == BinWidth
  <1>0. w \in Nat /\ w > 0
    BY SMT DEF G!GraphAssumption
  <1> HIDE DEF w
  <1>1. ASSUME NEW a \in Nat
        PROVE  \E p \in Nat, z \in Nat : G!Bin(a) = p /\ z < w /\ a = w * p + z
    <2> DEFINE p == a \div w
               z == a % w
    <2>1. p \in Int /\ z \in 0 .. w - 1 /\ a = w * p + z
      BY <1>0, SMT
    <2>2. G!Bin(a) = p
      BY DEF G!Bin, w
    <2> HIDE DEF p, z
    <2>3. ASSUME p <= -1 PROVE FALSE
      <3>1. w * p <= w * (-1)
        BY <1>0, <2>1, <2>3, SMT
      <3>2. w * (-1) = -w
        BY <1>0, SMT
      <3> QED
        BY <1>0, <2>1, <3>1, <3>2, SMT
    <2>4. p \in Nat /\ z \in Nat /\ z < w
      BY <1>0, <2>1, <2>3, SMT
    <2> QED
      BY <2>1, <2>2, <2>4
  <1>2. ASSUME NEW a \in Nat, NEW b \in Nat, a <= b PROVE G!Bin(a) <= G!Bin(b)
    <2>1. PICK p \in Nat, z \in Nat : G!Bin(a) = p /\ z < w /\ a = w * p + z
      BY <1>1
    <2>2. PICK q \in Nat, y \in Nat : G!Bin(b) = q /\ y < w /\ b = w * q + y
      BY <1>1
    <2>3. ASSUME q + 1 <= p PROVE FALSE
      <3>1. w * (q + 1) <= w * p
        BY <1>0, <2>3, SMT
      <3>2. w * (q + 1) = w * q + w
        BY <1>0, SMT
      <3> DEFINE c == w * p
                 d == w * q
      <3>3. c \in Nat /\ d \in Nat /\ d + w <= c /\ a = c + z /\ b = d + y
        BY <1>0, <2>1, <2>2, <3>1, <3>2, SMT
      <3> HIDE DEF c, d
      <3> QED
        BY <1>0, <1>2, <2>2, <3>3, SMT
    <2> QED
      BY <2>1, <2>2, <2>3, SMT
  <1>3. G!Bin(0) = 0
    <2>1. PICK p \in Nat, z \in Nat : G!Bin(0) = p /\ z < w /\ 0 = w * p + z
      BY <1>1
    <2>2. ASSUME p >= 1 PROVE FALSE
      <3>1. w * 1 <= w * p /\ w * 1 = w
        BY <1>0, <2>2, SMT
      <3> DEFINE c == w * p
      <3> HIDE DEF c
      <3> QED
        BY <1>0, <2>1, <3>1, SMT DEF c
    <2> QED
      BY <2>1, <2>2, SMT
  <1> QED
    BY <1>1, <1>2, <1>3

GraphSteps == {"construct", "idle", "advance", "bins", "add", "join", "done", "exception",
               "crash", "halted?", "draw"}

\* What each variable of the graph is; no thread has looked at a later time than now.
GraphTyped ==
    /\ rate \in BOOLEAN /\ clock \in 0 .. MaxClock
    /\ read \in [G!Threads -> 0 .. clock]
    /\ step \in [G!Threads -> GraphSteps]
    /\ constructed \in BOOLEAN /\ (~constructed => step["ferry"] \in {"construct", "crash"})
    /\ value_this_bin \in Int /\ current_bin \in 0 .. G!Bin(clock)
    /\ adds \in Seq([amount : Nat, from : Nat, to : Int])
    /\ data_points \in Seq([bin : Nat, value : Int])

\* The value whose call is under way is not added, and its bin has come when it is.
PendingInv ==
    step["ferry"] \in {"advance", "bins", "add"} =>
        LET last == adds[Len(adds)]
        IN  /\ Len(adds) # 0 /\ last.to = -1
            /\ step["ferry"] = "advance" => last.from <= G!Bin(clock)
            /\ step["ferry"] = "bins" => last.from <= G!Bin(read["ferry"])
            /\ step["ferry"] = "add" => last.from <= current_bin

\* No value is added to a bin that has a point: it is over, or it is the bin in which the
\* animation met its missing member, which the ferry leaves before it adds.
IsOver(b) ==
    \/ b < current_bin
    \/ /\ b = current_bin /\ current_bin < G!Bin(clock)
       /\ step["ferry"] # "add"
       /\ step["ferry"] = "bins" => current_bin < G!Bin(read["ferry"])

PointsInv == \A i \in DOMAIN data_points : IsOver(data_points[i].bin)

\* Values are in bins that have come, as they should be.
Values(pl) == {adds[i].amount : i \in G!Placed(pl, current_bin)}
                  \cup {IF current_bin = G!Bin(0) THEN 0 ELSE -1}

CountInv ==
    \E pl \in [G!Added -> 0 .. G!Bin(MaxClock)] :
        /\ G!Counted(pl)
        /\ \A i \in G!Added : pl[i] <= current_bin
        /\ ~rate => IsMax(value_this_bin, Values(pl))

GraphInv == GraphTyped /\ PendingInv /\ PointsInv /\ CountInv

\* The values are summable, and no value is placed beyond them.
LEMMA GraphFacts ==
    ASSUME GraphTyped
    PROVE  /\ Len(adds) \in Nat /\ DOMAIN adds = 1 .. Len(adds)
           /\ \A i \in 1 .. Len(adds) :
                 adds[i].amount \in Nat /\ adds[i].from \in Nat /\ adds[i].to \in Int
           /\ Summable(adds) /\ G!Added \subseteq 1 .. Len(adds)
           /\ \A pl, b : G!Placed(pl, b) \subseteq 1 .. Len(adds)
  <1> DEFINE R == [amount : Nat, from : Nat, to : Int]
  <1>1. /\ Len(adds) \in Nat /\ DOMAIN adds = 1 .. Len(adds)
        /\ \A i \in 1 .. Len(adds) : adds[i] \in R
    <2>1. adds \in Seq(R)
      BY DEF GraphTyped
    <2> HIDE DEF R
    <2> QED
      BY <2>1, SMT
  <1>2. \A i \in 1 .. Len(adds) :
           adds[i].amount \in Nat /\ adds[i].from \in Nat /\ adds[i].to \in Int
    BY <1>1
  <1> QED
    BY <1>1, <1>2 DEF Summable, G!Added, G!Placed

\* The beginning.
LEMMA GraphInit ==
    ASSUME G!GraphAssumption, G!Init
    PROVE  GraphInv
  <1>1. /\ rate \in BOOLEAN /\ clock = 0 /\ value_this_bin = 0 /\ current_bin = G!Bin(0)
        /\ data_points = <<>> /\ constructed = FALSE /\ adds = <<>>
        /\ step = [ferry |-> "construct", animation |-> "halted?"]
        /\ read = [t \in G!Threads |-> 0]
    BY DEF G!Init
  <1>2. G!Bin(0) = 0 /\ MaxClock \in Nat /\ G!Bin(MaxClock) \in Nat
    BY BinsInOrder DEF G!GraphAssumption
  <1>3. step["ferry"] = "construct" /\ step \in [G!Threads -> GraphSteps]
    BY <1>1 DEF GraphSteps, G!Threads
  <1>4. GraphTyped
    <2>1. 0 \in 0 .. MaxClock /\ 0 \in 0 .. 0 /\ 0 \in Int
      BY <1>2, SMT
    <2>2. <<>> \in Seq([amount : Nat, from : Nat, to : Int])
      OBVIOUS
    <2>3. <<>> \in Seq([bin : Nat, value : Int])
      OBVIOUS
    <2>4. read \in [G!Threads -> 0 .. clock]
      BY <1>1, <2>1
    <2>5. clock \in 0 .. MaxClock /\ current_bin \in 0 .. G!Bin(clock) /\ value_this_bin \in Int
      BY <1>1, <1>2, <2>1
    <2> QED
      BY <1>1, <1>3, <2>2, <2>3, <2>4, <2>5, Zenon DEF GraphTyped
  <1>5. PendingInv /\ PointsInv
    BY <1>1, <1>3 DEF PendingInv, PointsInv
  <1>6. CountInv
    <2> DEFINE pl == [i \in {} |-> 0]
    <2>1. G!Added = {} /\ \A b : G!Placed(pl, b) = {}
      BY <1>1 DEF G!Added, G!Placed
    <2>2. pl \in [G!Added -> 0 .. G!Bin(MaxClock)]
      BY <2>1
    <2> HIDE DEF pl
    <2>3. rate => G!Combined(0, {}) = 0
      <3>1. Summable(adds)
        BY <1>4, GraphFacts
      <3> QED
        BY <3>1, SumOfNothing DEF G!Combined
    <2>4. {adds[i].amount : i \in {}} \cup {IF current_bin = G!Bin(0) THEN 0 ELSE -1} = {0}
      BY <1>1
    <2>5. IsMax(value_this_bin, Values(pl)) /\ Values(pl) = {0}
      BY <1>1, <2>1, <2>4 DEF IsMax, Values
    <2>6. G!Combined(current_bin, G!Placed(pl, current_bin)) = value_this_bin
      <3>1. CASE rate
        BY <1>1, <1>2, <2>1, <2>3, <3>1
      <3>2. CASE ~rate
        BY <2>5, <3>2, MaxIs DEF G!Combined, Values
      <3> QED
        BY <3>1, <3>2
    <2>7. G!Counted(pl)
      BY <1>1, <2>1, <2>6 DEF G!Counted
    <2> QED
      BY <2>1, <2>2, <2>5, <2>7 DEF CountInv
  <1> QED
    BY <1>4, <1>5, <1>6 DEF GraphInv

\* What does not touch the bin adds nothing, also if it takes points away.
LEMMA CountStays ==
    ASSUME CountInv, UNCHANGED <<rate, value_this_bin, current_bin, adds>>,
           \A i \in DOMAIN data_points' :
              \E j \in DOMAIN data_points : data_points'[i] = data_points[j]
    PROVE  CountInv'
  <1>1. PICK pl \in [G!Added -> 0 .. G!Bin(MaxClock)] :
              /\ G!Counted(pl)
              /\ \A i \in G!Added : pl[i] <= current_bin
              /\ ~rate => IsMax(value_this_bin, Values(pl))
    BY DEF CountInv
  <1>2. /\ G!Added' = G!Added /\ \A b : G!Placed(pl, b)' = G!Placed(pl, b)
        /\ Values(pl)' = Values(pl)
        /\ \A b, I : G!Combined(b, I)' = G!Combined(b, I)
    BY DEF G!Added, G!Placed, Values, G!Combined
  <1>3. G!Counted(pl)'
    <2>1. \A i \in DOMAIN data_points' :
             data_points'[i].value = G!Combined(data_points'[i].bin,
                                                G!Placed(pl, data_points'[i].bin))
      <3> SUFFICES ASSUME NEW i \in DOMAIN data_points'
                   PROVE  data_points'[i].value = G!Combined(data_points'[i].bin,
                                                      G!Placed(pl, data_points'[i].bin))
        OBVIOUS
      <3>1. PICK j \in DOMAIN data_points : data_points'[i] = data_points[j]
        OBVIOUS
      <3>2. data_points[j].value = G!Combined(data_points[j].bin,
                                              G!Placed(pl, data_points[j].bin))
        BY <1>1, Zenon DEF G!Counted
      <3> QED
        BY <3>1, <3>2, Zenon
    <2>2. /\ \A i \in G!Added : adds[i].from <= pl[i] /\ pl[i] <= adds[i].to
          /\ value_this_bin = G!Combined(current_bin, G!Placed(pl, current_bin))
      BY <1>1, Zenon DEF G!Counted
    <2> QED
      BY <1>2, <2>1, <2>2, Zenon DEF G!Counted
  <1> QED
    BY <1>1, <1>2, <1>3, Zenon DEF CountInv, G!Bin

\* advance: the bin becomes a point, and the next begins with no value.
LEMMA AdvanceBinKeeps ==
    ASSUME G!GraphAssumption, GraphInv, NEW t \in G!Threads, G!AdvanceBin(t)
    PROVE  GraphInv'
  <1> DEFINE p == [bin |-> current_bin, value |-> value_this_bin]
  <1>1. /\ current_bin < G!Bin(read[t]) /\ step[t] = "bins"
        /\ data_points' = Append(data_points, p)
        /\ value_this_bin' = IF rate THEN 0 ELSE -1
        /\ current_bin' = current_bin + 1
        /\ UNCHANGED <<rate, clock, mutex, constructed, halt, step, read, adds>>
    BY DEF G!AdvanceBin, G!initialize_new_bin, G!Steps
  <1>2. /\ clock \in Nat /\ clock <= MaxClock /\ MaxClock \in Nat /\ read[t] \in Nat
        /\ read[t] <= clock /\ current_bin \in Nat
        /\ data_points \in Seq([bin : Nat, value : Int])
    <2>1. read[t] \in 0 .. clock /\ clock \in 0 .. MaxClock /\ MaxClock \in Nat
          /\ current_bin \in 0 .. G!Bin(clock)
      BY DEF GraphInv, GraphTyped, G!GraphAssumption
    <2> QED
      BY <2>1, SMT DEF GraphInv, GraphTyped
  <1>3. /\ G!Bin(read[t]) <= G!Bin(clock) /\ G!Bin(clock) <= G!Bin(MaxClock)
        /\ G!Bin(read[t]) \in Nat /\ G!Bin(clock) \in Nat /\ G!Bin(MaxClock) \in Nat
        /\ G!Bin(0) = 0
    BY <1>2, BinsInOrder
  <1>4. current_bin + 1 \in 0 .. G!Bin(clock) /\ current_bin <= G!Bin(MaxClock)
    BY <1>1, <1>2, <1>3, SMT
  <1>5. p \in [bin : Nat, value : Int]
    BY <1>2 DEF GraphInv, GraphTyped
  <1>6. /\ data_points' \in Seq([bin : Nat, value : Int])
        /\ \A i \in DOMAIN data_points' :
              data_points'[i] = p \/ \E j \in DOMAIN data_points : data_points'[i] = data_points[j]
    <2> DEFINE R == [bin : Nat, value : Int]
    <2>1. data_points \in Seq(R) /\ p \in R /\ data_points' = Append(data_points, p)
      BY <1>1, <1>2, <1>5
    <2> HIDE DEF p, R
    <2>2. /\ data_points' \in Seq(R)
          /\ \A i \in DOMAIN data_points' :
                data_points'[i] = p \/ (i \in DOMAIN data_points /\ data_points'[i] = data_points[i])
      BY <2>1, SMT
    <2> QED
      BY <2>2 DEF R
  <1>7. GraphTyped'
    <2>1. value_this_bin' \in Int
      BY <1>1
    <2> QED
      BY <1>1, <1>4, <1>6, <2>1 DEF GraphInv, GraphTyped, G!Bin
  <1>8. PendingInv'
    <2> SUFFICES ASSUME step["ferry"] \in {"advance", "bins", "add"}
                 PROVE  PendingInv'
      BY <1>1 DEF PendingInv
    <2>1. Len(adds) # 0 /\ Len(adds) \in 1 .. Len(adds) /\ adds[Len(adds)].from \in Nat
      <3>1. Len(adds) # 0 /\ Len(adds) \in Nat
        BY GraphFacts DEF GraphInv, PendingInv
      <3>2. Len(adds) \in 1 .. Len(adds)
        BY <3>1, SMT
      <3> QED
        BY <3>1, <3>2, GraphFacts DEF GraphInv
    <2>2. adds[Len(adds)].from <= current_bin => adds[Len(adds)].from <= current_bin + 1
      BY <1>2, <2>1, SMT
    <2> QED
      BY <1>1, <2>2 DEF GraphInv, PendingInv, G!Bin
  <1>9. PointsInv'
    <2>1. \A j \in DOMAIN data_points : data_points[j].bin \in Nat
      <3> DEFINE R == [bin : Nat, value : Int]
      <3>1. data_points \in Seq(R)
        BY <1>2
      <3> HIDE DEF R
      <3>2. \A j \in DOMAIN data_points : data_points[j] \in R
        BY <3>1, SMT
      <3> QED
        BY <3>2 DEF R
    <2>2. ASSUME NEW i \in DOMAIN data_points' PROVE data_points'[i].bin < current_bin + 1
      <3>1. CASE data_points'[i] = p
        BY <1>2, <3>1, SMT
      <3>2. ASSUME NEW j \in DOMAIN data_points, data_points'[i] = data_points[j]
            PROVE  data_points'[i].bin < current_bin + 1
        <4>1. data_points[j].bin \in Nat /\ data_points[j].bin <= current_bin
          <5>1. data_points[j].bin \in Nat
            BY <2>1
          <5>2. IsOver(data_points[j].bin)
            BY Zenon DEF GraphInv, PointsInv
          <5> QED
            BY <1>2, <5>1, <5>2, SMT DEF IsOver
        <4> QED
          BY <1>2, <3>2, <4>1, SMT
      <3> QED
        BY <1>6, <3>1, <3>2
    <2> QED
      BY <1>1, <2>2 DEF PointsInv, IsOver
  <1>10. CountInv'
    <2>1. PICK pl \in [G!Added -> 0 .. G!Bin(MaxClock)] :
              /\ G!Counted(pl)
              /\ \A i \in G!Added : pl[i] <= current_bin
              /\ ~rate => IsMax(value_this_bin, Values(pl))
      BY DEF GraphInv, CountInv
    <2>2. /\ G!Added' = G!Added /\ \A b : G!Placed(pl, b)' = G!Placed(pl, b)
          /\ \A b, I : G!Combined(b, I)' = G!Combined(b, I)
      BY <1>1 DEF G!Added, G!Placed, G!Combined, G!Bin
    <2>3. \A i \in G!Added : pl[i] \in Nat /\ pl[i] <= current_bin + 1 /\ pl[i] # current_bin + 1
      <3>1. \A i \in G!Added : pl[i] \in 0 .. G!Bin(MaxClock)
        BY <2>1
      <3> QED
        BY <1>2, <1>3, <2>1, <3>1, SMT
    <2>4. G!Placed(pl, current_bin + 1) = {}
      BY <2>3 DEF G!Placed
    <2>5. current_bin + 1 # 0
      BY <1>2, SMT
    <2>6. ~rate => Values(pl)' = {-1}
      <3>1. Values(pl)' = {adds[i].amount : i \in {}} \cup {-1}
        BY <1>1, <1>3, <2>2, <2>4, <2>5 DEF Values, G!Bin
      <3> QED
        BY <3>1
    <2>7. ~rate => IsMax(-1, {-1})
      BY SMT DEF IsMax
    <2>8. ~rate => IsMax(value_this_bin, Values(pl))'
      BY <1>1, <2>6, <2>7 DEF IsMax
    <2>9. G!Combined(current_bin + 1, {}) = IF rate THEN 0 ELSE -1
      <3>1. CASE rate
        <4>1. Summable(adds)
          BY GraphFacts DEF GraphInv
        <4> QED
          BY <3>1, <4>1, SumOfNothing DEF G!Combined
      <3>2. CASE ~rate
        <4>1. G!Combined(current_bin + 1, {}) = G!Max({adds[i].amount : i \in {}} \cup {-1})
          BY <1>3, <2>5, <3>2 DEF G!Combined
        <4>2. {adds[i].amount : i \in {}} \cup {-1} = {-1}
          OBVIOUS
        <4>3. G!Max({-1}) = -1
          BY <2>7, <3>2, MaxIs
        <4> QED
          BY <3>2, <4>1, <4>2, <4>3
      <3> QED
        BY <3>1, <3>2
    <2>10. \A i \in DOMAIN data_points' :
              data_points'[i].value = G!Combined(data_points'[i].bin,
                                                 G!Placed(pl, data_points'[i].bin))
      <3>1. p.bin = current_bin /\ p.value = value_this_bin
        OBVIOUS
      <3> HIDE DEF p
      <3> QED
        BY <1>6, <2>1, <3>1 DEF G!Counted
    <2>11. G!Counted(pl)'
      <3>1. /\ value_this_bin' = G!Combined(current_bin + 1, G!Placed(pl, current_bin + 1))
        BY <1>1, <2>4, <2>9
      <3>2. \A i \in G!Added : adds[i].from <= pl[i] /\ pl[i] <= adds[i].to
        BY <2>1 DEF G!Counted
      <3> QED
        BY <1>1, <2>2, <2>10, <3>1, <3>2, Zenon DEF G!Counted
    <2> QED
      BY <1>1, <2>1, <2>2, <2>3, <2>8, <2>11 DEF CountInv, G!Bin
  <1> QED
    BY <1>7, <1>8, <1>9, <1>10 DEF GraphInv

\* A thread goes to its next step.
LEMMA GoesTo ==
    ASSUME GraphTyped, NEW t \in G!Threads, NEW s \in GraphSteps, G!Goes(t, s)
    PROVE  /\ step' \in [G!Threads -> GraphSteps] /\ step'[t] = s
           /\ \A u \in G!Threads : u # t => step'[u] = step[u]
  BY DEF G!Goes, GraphTyped

\* Points that stay are still over.
LEMMA PointsStay ==
    ASSUME PointsInv,
           \A i \in DOMAIN data_points' :
              \E j \in DOMAIN data_points : data_points'[i] = data_points[j],
           \A b : IsOver(b) => IsOver(b)'
    PROVE  PointsInv'
  BY DEF PointsInv

\* The animation's own steps touch neither the bin nor the ferry.
LEMMA AnimationKeeps ==
    ASSUME GraphInv, UNCHANGED <<rate, clock, value_this_bin, current_bin, constructed, adds>>,
           step' \in [G!Threads -> GraphSteps], step'["ferry"] = step["ferry"],
           read' \in [G!Threads -> 0 .. clock], read'["ferry"] = read["ferry"],
           data_points' \in Seq([bin : Nat, value : Int]),
           \A i \in DOMAIN data_points' :
              \E j \in DOMAIN data_points : data_points'[i] = data_points[j]
    PROVE  GraphInv'
  <1>1. GraphTyped'
    BY Zenon DEF GraphInv, GraphTyped, G!Bin
  <1>2. PendingInv'
    BY Zenon DEF GraphInv, PendingInv, G!Bin
  <1>3. PointsInv'
    <2>1. \A b : IsOver(b) => IsOver(b)'
      BY Zenon DEF IsOver, G!Bin
    <2> QED
      BY <2>1, PointsStay DEF GraphInv
  <1>4. CountInv'
    BY CountStays DEF GraphInv
  <1> QED
    BY <1>1, <1>2, <1>3, <1>4 DEF GraphInv

\* So do those of the ferry between its calls.
LEMMA FerryRests ==
    ASSUME GraphInv, UNCHANGED <<rate, clock, value_this_bin, current_bin, data_points, read, adds>>,
           step' \in [G!Threads -> GraphSteps],
           step'["ferry"] \in {"idle", "join", "done", "exception"},
           constructed' = TRUE
    PROVE  GraphInv'
  <1>1. GraphTyped'
    BY DEF GraphInv, GraphTyped, G!Bin
  <1>2. PendingInv'
    BY DEF PendingInv
  <1>3. PointsInv'
    <2>1. \A b : IsOver(b) => IsOver(b)'
      BY DEF IsOver, G!Bin
    <2> QED
      BY <2>1, PointsStay DEF GraphInv
  <1>4. CountInv'
    BY CountStays DEF GraphInv
  <1> QED
    BY <1>1, <1>2, <1>3, <1>4 DEF GraphInv

\* Time passes.
LEMMA GraphTickKeeps ==
    ASSUME G!GraphAssumption, GraphInv, G!Tick
    PROVE  GraphInv'
  <1>1. /\ clock' = clock + 1 /\ clock < MaxClock
        /\ UNCHANGED <<rate, value_this_bin, current_bin, data_points, constructed, step, read,
                       adds>>
    BY DEF G!Tick
  <1>2. /\ clock \in Nat /\ current_bin \in 0 .. G!Bin(clock)
        /\ read \in [G!Threads -> 0 .. clock] /\ MaxClock \in Nat
    <2>1. clock \in 0 .. MaxClock /\ MaxClock \in Nat
      BY DEF GraphInv, GraphTyped, G!GraphAssumption
    <2> QED
      BY <2>1, SMT DEF GraphInv, GraphTyped
  <1>3. clock' \in Nat /\ clock' \in 0 .. MaxClock /\ clock <= clock'
    BY <1>1, <1>2, SMT
  <1>4. G!Bin(clock) <= G!Bin(clock') /\ G!Bin(clock) \in Nat /\ G!Bin(clock') \in Nat
    BY <1>2, <1>3, BinsInOrder
  <1>5. current_bin \in 0 .. G!Bin(clock') /\ 0 .. clock \subseteq 0 .. clock'
    BY <1>2, <1>3, <1>4, SMT
  <1>6. G!Bin(clock)' = G!Bin(clock')
    BY DEF G!Bin
  <1>7. GraphTyped'
    <2>1. read \in [G!Threads -> 0 .. clock']
      BY <1>2, <1>5
    <2>2. G!Bin(clock)' = G!Bin(clock')
      BY DEF G!Bin
    <2> QED
      BY <1>1, <1>3, <1>5, <2>1, <2>2, Zenon DEF GraphInv, GraphTyped
  <1>8. PendingInv'
    <2> SUFFICES ASSUME step["ferry"] \in {"advance", "bins", "add"} PROVE PendingInv'
      BY <1>1 DEF PendingInv
    <2> DEFINE f == adds[Len(adds)].from
    <2>1. f \in Nat /\ Len(adds) # 0
      <3>1. Len(adds) # 0 /\ Len(adds) \in Nat
        BY GraphFacts DEF GraphInv, PendingInv
      <3>2. Len(adds) \in 1 .. Len(adds)
        BY <3>1, SMT
      <3> QED
        BY <3>1, <3>2, GraphFacts DEF GraphInv
    <2>2. f <= G!Bin(clock) => f <= G!Bin(clock')
      <3> HIDE DEF f
      <3> QED
        BY <1>4, <2>1, SMT
    <2> QED
      BY <1>1, <2>2 DEF GraphInv, PendingInv, G!Bin
  <1>9. PointsInv'
    <2>1. current_bin < G!Bin(clock) => current_bin < G!Bin(clock')
      BY <1>2, <1>4, SMT
    <2>2. \A b : IsOver(b) => IsOver(b)'
      BY <1>1, <2>1 DEF IsOver, G!Bin
    <2>3. \A i \in DOMAIN data_points' :
             \E j \in DOMAIN data_points : data_points'[i] = data_points[j]
      BY <1>1
    <2> QED
      BY <2>2, <2>3, PointsStay DEF GraphInv
  <1>10. CountInv'
    <2>3. \A i \in DOMAIN data_points' :
             \E j \in DOMAIN data_points : data_points'[i] = data_points[j]
      BY <1>1
    <2> QED
      BY <1>1, <2>3, CountStays DEF GraphInv
  <1> QED
    BY <1>7, <1>8, <1>9, <1>10 DEF GraphInv

\* advance begins: it looks at the clock, which is not before the call.
LEMMA AdvanceKeeps ==
    ASSUME G!GraphAssumption, GraphInv, NEW t \in G!Threads, G!Advance(t)
    PROVE  GraphInv'
  <1>1. /\ step[t] = "advance" /\ read' = [read EXCEPT ![t] = clock] /\ G!Goes(t, "bins")
        /\ UNCHANGED <<rate, clock, value_this_bin, current_bin, data_points, constructed, adds>>
    BY DEF G!Advance, G!Steps
  <1>2. /\ step' \in [G!Threads -> GraphSteps] /\ step'[t] = "bins"
        /\ \A u \in G!Threads : u # t => step'[u] = step[u]
    BY <1>1, GoesTo DEF GraphInv, GraphSteps
  <1>3. /\ read' \in [G!Threads -> 0 .. clock] /\ read'[t] = clock
        /\ \A u \in G!Threads : u # t => read'[u] = read[u]
    <2>1. clock \in 0 .. clock
      <3>1. clock \in 0 .. MaxClock
        BY DEF GraphInv, GraphTyped
      <3> QED
        BY <3>1, SMT
    <2> QED
      BY <1>1, <2>1 DEF GraphInv, GraphTyped
  <1>4. "ferry" \in G!Threads /\ data_points' \in Seq([bin : Nat, value : Int])
        /\ \A i \in DOMAIN data_points' :
             \E j \in DOMAIN data_points : data_points'[i] = data_points[j]
    BY <1>1 DEF G!Threads, GraphInv, GraphTyped
  <1>5. CASE t # "ferry"
    <2>1. step'["ferry"] = step["ferry"] /\ read'["ferry"] = read["ferry"]
      BY <1>2, <1>3, <1>4, <1>5
    <2> QED
      BY <1>1, <1>2, <1>3, <1>4, <2>1, AnimationKeeps
  <1>6. CASE t = "ferry"
    <2>1. GraphTyped'
      <3>1. constructed
        BY <1>1, <1>6 DEF GraphInv, GraphTyped
      <3> QED
        BY <1>1, <1>2, <1>3, <1>4, <3>1, Zenon DEF GraphInv, GraphTyped, G!Bin
    <2>2. PendingInv'
      BY <1>1, <1>2, <1>3, <1>6 DEF GraphInv, PendingInv, G!Bin
    <2>3. PointsInv'
      <3>1. \A b : IsOver(b) => IsOver(b)'
        BY <1>1, <1>2, <1>3, <1>6 DEF IsOver, G!Bin
      <3> QED
        BY <1>4, <3>1, PointsStay DEF GraphInv
    <2>4. CountInv'
      BY <1>1, <1>4, CountStays DEF GraphInv
    <2> QED
      BY <2>1, <2>2, <2>3, <2>4 DEF GraphInv
  <1> QED
    BY <1>5, <1>6

\* advance ends: the bin of the call has come, and a bin that is over has gone.
LEMMA AdvanceEndsKeeps ==
    ASSUME G!GraphAssumption, GraphInv,
           G!AdvanceEnds("ferry", "add") \/ G!AdvanceEnds("animation", "draw")
    PROVE  GraphInv'
  <1>0. "ferry" \in G!Threads /\ "animation" \in G!Threads
        /\ "add" \in GraphSteps /\ "draw" \in GraphSteps
    BY DEF G!Threads, GraphSteps
  <1>1. UNCHANGED <<rate, clock, value_this_bin, current_bin, data_points, constructed, read,
                    adds>>
    BY DEF G!AdvanceEnds
  <1>2. /\ data_points' \in Seq([bin : Nat, value : Int]) /\ read' \in [G!Threads -> 0 .. clock]
        /\ \A i \in DOMAIN data_points' :
             \E j \in DOMAIN data_points : data_points'[i] = data_points[j]
    BY <1>1 DEF GraphInv, GraphTyped
  <1>3. CASE G!AdvanceEnds("animation", "draw")
    <2>1. step' \in [G!Threads -> GraphSteps] /\ step'["ferry"] = step["ferry"]
      BY <1>0, <1>3, GoesTo DEF GraphInv, G!AdvanceEnds
    <2> QED
      BY <1>1, <1>2, <2>1, AnimationKeeps
  <1>4. CASE G!AdvanceEnds("ferry", "add")
    <2>1. step["ferry"] = "bins" /\ current_bin >= G!Bin(read["ferry"])
      BY <1>4 DEF G!AdvanceEnds, G!Steps
    <2>2. step' \in [G!Threads -> GraphSteps] /\ step'["ferry"] = "add"
      BY <1>0, <1>4, GoesTo DEF GraphInv, G!AdvanceEnds
    <2>3. current_bin \in Nat /\ G!Bin(read["ferry"]) \in Nat
      <3>1. current_bin \in 0 .. G!Bin(clock) /\ read["ferry"] \in 0 .. clock
            /\ clock \in 0 .. MaxClock
        BY <1>0 DEF GraphInv, GraphTyped
      <3>2. read["ferry"] \in Nat /\ current_bin \in Nat
        BY <3>1, SMT
      <3> QED
        BY <3>2, BinsInOrder
    <2>4. GraphTyped'
      <3>1. constructed
        BY <2>1 DEF GraphInv, GraphTyped
      <3> QED
        BY <1>1, <1>2, <2>2, <3>1, Zenon DEF GraphInv, GraphTyped, G!Bin
    <2>5. PendingInv'
      <3> DEFINE f == adds[Len(adds)].from
      <3>1. f \in Nat
        <4>1. Len(adds) # 0 /\ Len(adds) \in Nat
          BY <2>1, GraphFacts DEF GraphInv, PendingInv
        <4>2. Len(adds) \in 1 .. Len(adds)
          BY <4>1, SMT
        <4> QED
          BY <4>2, GraphFacts DEF GraphInv
      <3>2. f <= G!Bin(read["ferry"]) => f <= current_bin
        <4> HIDE DEF f
        <4> QED
          BY <2>1, <2>3, <3>1, SMT
      <3> QED
        BY <1>1, <2>1, <2>2, <3>2 DEF GraphInv, PendingInv
    <2>6. PointsInv'
      <3>1. ~(current_bin < G!Bin(read["ferry"]))
        BY <2>1, <2>3, SMT
      <3>2. \A b : IsOver(b) => IsOver(b)'
        BY <1>1, <2>1, <2>2, <3>1 DEF IsOver, G!Bin
      <3> QED
        BY <1>2, <3>2, PointsStay DEF GraphInv
    <2>7. CountInv'
      BY <1>1, <1>2, CountStays DEF GraphInv
    <2> QED
      BY <2>4, <2>5, <2>6, <2>7 DEF GraphInv
  <1> QED
    BY <1>3, <1>4

\* The animation meets its missing member: there is a point of the bin, which nothing has
\* been added to, and which the ferry leaves before it adds.
LEMMA UnconstructedKeeps ==
    ASSUME G!GraphAssumption, GraphInv, G!AdvanceUnconstructed("animation")
    PROVE  GraphInv'
  <1> DEFINE p == [bin |-> current_bin, value |-> value_this_bin]
             R == [bin : Nat, value : Int]
  <1>0. "ferry" \in G!Threads /\ "animation" \in G!Threads /\ "ferry" # "animation"
        /\ "exception" \in GraphSteps /\ "crash" \in GraphSteps
    BY DEF G!Threads, GraphSteps
  <1>1. /\ current_bin < G!Bin(read["animation"]) /\ ~constructed
        /\ data_points' = Append(data_points, p)
        /\ G!Goes("animation", "exception") \/ step' = [s \in G!Threads |-> "crash"]
        /\ UNCHANGED <<rate, clock, value_this_bin, current_bin, constructed, read, adds>>
    BY DEF G!AdvanceUnconstructed
  <1>2. step["ferry"] \in {"construct", "crash"}
    BY <1>1 DEF GraphInv, GraphTyped
  <1>3. step' \in [G!Threads -> GraphSteps] /\ step'["ferry"] \in {"construct", "crash"}
    <2>1. CASE G!Goes("animation", "exception")
      BY <1>0, <1>2, <2>1, GoesTo DEF GraphInv
    <2>2. CASE step' = [s \in G!Threads |-> "crash"]
      BY <1>0, <2>2
    <2> QED
      BY <1>1, <2>1, <2>2
  <1>4. current_bin \in Nat /\ current_bin < G!Bin(clock)
    <2>1. current_bin \in 0 .. G!Bin(clock) /\ read["animation"] \in 0 .. clock
          /\ clock \in 0 .. MaxClock
      BY <1>0 DEF GraphInv, GraphTyped
    <2>2. read["animation"] \in Nat /\ current_bin \in Nat /\ clock \in Nat
          /\ read["animation"] <= clock
      BY <2>1, SMT
    <2>3. G!Bin(read["animation"]) <= G!Bin(clock) /\ G!Bin(read["animation"]) \in Nat
          /\ G!Bin(clock) \in Nat
      BY <2>2, BinsInOrder
    <2> QED
      BY <1>1, <2>2, <2>3, SMT
  <1>5. /\ data_points' \in Seq(R)
        /\ \A i \in DOMAIN data_points' :
              data_points'[i] = p \/ (i \in DOMAIN data_points /\ data_points'[i] = data_points[i])
    <2>1. data_points \in Seq(R) /\ p \in R /\ data_points' = Append(data_points, p)
      BY <1>1, <1>4 DEF GraphInv, GraphTyped
    <2> HIDE DEF p, R
    <2> QED
      BY <2>1, SMT
  <1>6. GraphTyped'
    BY <1>1, <1>3, <1>5 DEF GraphInv, GraphTyped, G!Bin
  <1>7. PendingInv'
    BY <1>3 DEF PendingInv
  <1>8. PointsInv'
    <2>1. \A b : IsOver(b) => IsOver(b)'
      BY <1>1, <1>3 DEF IsOver, G!Bin
    <2>2. IsOver(current_bin)'
      BY <1>1, <1>3, <1>4 DEF IsOver, G!Bin
    <2>3. ASSUME NEW i \in DOMAIN data_points', NEW b, b = data_points'[i].bin
          PROVE  IsOver(b)'
      <3>1. CASE data_points'[i] = p
        <4>1. b = current_bin
          BY <2>3, <3>1
        <4> QED
          BY <1>1, <2>2, <4>1 DEF IsOver
      <3>2. CASE i \in DOMAIN data_points /\ data_points'[i] = data_points[i]
        <4>1. IsOver(b)
          BY <2>3, <3>2 DEF GraphInv, PointsInv
        <4> QED
          BY <2>1, <4>1
      <3> QED
        BY <1>5, <3>1, <3>2
    <2> QED
      BY <2>3 DEF PointsInv, IsOver
  <1>9. CountInv'
    <2>1. PICK pl \in [G!Added -> 0 .. G!Bin(MaxClock)] :
              /\ G!Counted(pl)
              /\ \A i \in G!Added : pl[i] <= current_bin
              /\ ~rate => IsMax(value_this_bin, Values(pl))
      BY DEF GraphInv, CountInv
    <2>2. /\ G!Added' = G!Added /\ \A b : G!Placed(pl, b)' = G!Placed(pl, b)
          /\ Values(pl)' = Values(pl)
          /\ \A b, I : G!Combined(b, I)' = G!Combined(b, I)
      BY <1>1 DEF G!Added, G!Placed, Values, G!Combined, G!Bin
    <2>3. \A i \in DOMAIN data_points' :
              data_points'[i].value = G!Combined(data_points'[i].bin,
                                                 G!Placed(pl, data_points'[i].bin))
      <3>1. p.bin = current_bin /\ p.value = value_this_bin
        OBVIOUS
      <3> HIDE DEF p
      <3> QED
        BY <1>5, <2>1, <3>1 DEF G!Counted
    <2>4. /\ \A i \in G!Added : adds[i].from <= pl[i] /\ pl[i] <= adds[i].to
          /\ value_this_bin = G!Combined(current_bin, G!Placed(pl, current_bin))
      BY <2>1, Zenon DEF G!Counted
    <2>5. G!Counted(pl)'
      BY <1>1, <2>2, <2>3, <2>4, Zenon DEF G!Counted
    <2> QED
      BY <1>1, <2>1, <2>2, <2>5, Zenon DEF CountInv, G!Bin
  <1> QED
    BY <1>6, <1>7, <1>8, <1>9 DEF GraphInv

\* A frame: points that have left it are taken away.
LEMMA FrameKeeps ==
    ASSUME GraphInv, G!Draw \/ G!LookAtHalt
    PROVE  GraphInv'
  <1> DEFINE R == [bin : Nat, value : Int]
  <1>0. "ferry" \in G!Threads /\ "animation" \in G!Threads /\ "ferry" # "animation"
        /\ "halted?" \in GraphSteps /\ "done" \in GraphSteps /\ "advance" \in GraphSteps
    BY DEF G!Threads, GraphSteps
  <1>1. UNCHANGED <<rate, clock, value_this_bin, current_bin, constructed, read, adds>>
    BY DEF G!Draw, G!LookAtHalt
  <1>2. step' \in [G!Threads -> GraphSteps] /\ step'["ferry"] = step["ferry"]
    <2>1. PICK s \in GraphSteps : G!Goes("animation", s)
      BY <1>0 DEF G!Draw, G!LookAtHalt
    <2> QED
      BY <1>0, <2>1, GoesTo DEF GraphInv
  <1>3. data_points \in Seq(R) /\ read' \in [G!Threads -> 0 .. clock]
        /\ read'["ferry"] = read["ferry"]
    BY <1>1 DEF GraphInv, GraphTyped
  <1> HIDE DEF R
  <1>4. /\ data_points' \in Seq(R)
        /\ \A i \in DOMAIN data_points' :
             \E j \in DOMAIN data_points : data_points'[i] = data_points[j]
    <2>1. CASE G!LookAtHalt
      BY <1>3, <2>1 DEF G!LookAtHalt
    <2>2. CASE G!Draw
      <3> DEFINE old == {i \in DOMAIN data_points :
                           (data_points[i].bin + 1) * BinWidth < read["animation"] - Window}
                 c == Cardinality(old)
                 m == G!Max({1, c})
                 N == Len(data_points)
      <3>1. data_points' = SubSeq(data_points, m, N)
        <4>1. data_points' = G!Kept(data_points, read["animation"])
          BY <2>2 DEF G!Draw
        <4>2. G!Kept(data_points, read["animation"]) = SubSeq(data_points, m, N)
          <5>1. G!Cardinality(old) = c
            BY Zenon DEF G!Cardinality, Cardinality
          <5>2. G!Kept(data_points, read["animation"])
                    = SubSeq(data_points, G!Max({1, G!Cardinality(old)}), N)
            BY DEF G!Kept
          <5> QED
            BY <5>1, <5>2, Zenon
        <4> QED
          BY <4>1, <4>2, Zenon
      <3>2. N \in Nat /\ DOMAIN data_points = 1 .. N
        BY <1>3, SMT
      <3>3. c \in Nat
        <4>1. IsFiniteSet(1 .. N)
          <5>1. 1 \in Int /\ N \in Int
            BY <3>2, SMT
          <5> QED
            BY <5>1, FS_Interval
        <4>2. old \subseteq 1 .. N
          BY <3>2
        <4> HIDE DEF old
        <4> QED
          BY <4>1, <4>2, FS_Subset, FS_CardinalityType
      <3> HIDE DEF c
      <3>4. m \in Nat /\ m >= 1
        <4>1. IsMax(IF c >= 1 THEN c ELSE 1, {1, c})
          BY <3>3, SMT DEF IsMax
        <4>2. m = IF c >= 1 THEN c ELSE 1
          BY <4>1, MaxIs
        <4> HIDE DEF m
        <4> QED
          BY <3>3, <4>2, SMT
      <3> HIDE DEF m, N
      <3>5. /\ data_points' \in Seq(R)
            /\ \A i \in DOMAIN data_points' :
                  i + m - 1 \in 1 .. N /\ data_points'[i] = data_points[i + m - 1]
        BY <1>3, <3>1, <3>2, <3>4, SMT DEF N
      <3> QED
        BY <3>2, <3>5
    <2> QED
      BY <2>1, <2>2
  <1> QED
    BY <1>1, <1>2, <1>3, <1>4, AnimationKeeps DEF R

\* The ferry's thread between its calls.
LEMMA FerryThreadKeeps ==
    ASSUME GraphInv, G!Construct \/ G!Halt \/ G!Join
    PROVE  GraphInv'
  <1>0. "ferry" \in G!Threads /\ "idle" \in GraphSteps /\ "join" \in GraphSteps
        /\ "done" \in GraphSteps
    BY DEF G!Threads, GraphSteps
  <1>1. UNCHANGED <<rate, clock, value_this_bin, current_bin, data_points, read, adds>>
    BY DEF G!Construct, G!Halt, G!Join
  <1>2. PICK s \in {"idle", "join", "done"} : G!Goes("ferry", s)
    BY DEF G!Construct, G!Halt, G!Join
  <1>3. step' \in [G!Threads -> GraphSteps] /\ step'["ferry"] = s
    BY <1>0, <1>2, GoesTo DEF GraphInv
  <1>4. constructed' = TRUE
    <2>1. CASE G!Construct
      BY <2>1 DEF G!Construct
    <2>2. CASE G!Halt \/ G!Join
      BY <2>2 DEF G!Halt, G!Join, G!Steps, GraphInv, GraphTyped
    <2> QED
      BY <2>1, <2>2
  <1> QED
    BY <1>1, <1>2, <1>3, <1>4, FerryRests

\* What bins make of the values that they have depends on their amounts only.
LEMMA CombinedStays ==
    ASSUME GraphTyped, Summable(adds'), rate' = rate,
           Len(adds') = Len(adds) \/ Len(adds') = Len(adds) + 1,
           \A i \in 1 .. Len(adds) : adds'[i].amount = adds[i].amount
    PROVE  \A b, I : I \subseteq 1 .. Len(adds) =>
              /\ G!Combined(b, I)' = G!Combined(b, I)
              /\ {adds'[i].amount : i \in I} = {adds[i].amount : i \in I}
  <1> SUFFICES ASSUME NEW b, NEW I, I \subseteq 1 .. Len(adds)
               PROVE  /\ G!Combined(b, I)' = G!Combined(b, I)
                      /\ {adds'[i].amount : i \in I} = {adds[i].amount : i \in I}
    OBVIOUS
  <1>1. G!Sum(adds', I) = G!Sum(adds, I)
    BY GraphFacts, SumOfTheSame
  <1>2. {adds'[i].amount : i \in I} = {adds[i].amount : i \in I}
    OBVIOUS
  <1> QED
    BY <1>1, <1>2, Zenon DEF G!Combined, G!Bin

\* A call: its value is known, and in no bin.
LEMMA CallKeeps ==
    ASSUME G!GraphAssumption, GraphInv, G!Call
    PROVE  GraphInv'
  <1> DEFINE L == Len(adds)
             R == [amount : Nat, from : Nat, to : Int]
             new == [amount |-> Amounts[L + 1], from |-> G!Bin(clock), to |-> -1]
  <1>0. "ferry" \in G!Threads /\ "advance" \in GraphSteps
    BY DEF G!Threads, GraphSteps
  <1>1. /\ step["ferry"] = "idle" /\ L < Len(Amounts) /\ adds' = Append(adds, new)
        /\ G!Goes("ferry", "advance")
        /\ UNCHANGED <<rate, clock, value_this_bin, current_bin, data_points, constructed, read>>
    BY DEF G!Call, G!Steps
  <1>2. step' \in [G!Threads -> GraphSteps] /\ step'["ferry"] = "advance"
    BY <1>0, <1>1, GoesTo DEF GraphInv
  <1>3. /\ L \in Nat /\ DOMAIN adds = 1 .. L
        /\ \A b, pl : G!Placed(pl, b) \subseteq 1 .. L
    BY GraphFacts DEF GraphInv
  <1>4. clock \in Nat /\ G!Bin(clock) \in Nat
    <2>1. clock \in 0 .. MaxClock
      BY DEF GraphInv, GraphTyped
    <2>2. clock \in Nat
      BY <2>1, SMT
    <2> QED
      BY <2>2, BinsInOrder
  <1>5. new \in R
    <2>1. Amounts[L + 1] \in Nat
      <3>1. Amounts \in Seq(Nat)
        BY DEF G!GraphAssumption
      <3> HIDE DEF L
      <3> QED
        BY <1>1, <1>3, <3>1, SMT
    <2> QED
      BY <1>4, <2>1
  <1>6. /\ adds' \in Seq(R) /\ Len(adds') = L + 1 /\ adds'[L + 1] = new
        /\ \A i \in 1 .. L : adds'[i] = adds[i]
        /\ DOMAIN adds' = 1 .. L + 1 /\ L + 1 \in 1 .. L + 1 /\ ~(L + 1 \in 1 .. L)
        /\ 1 .. L + 1 = (1 .. L) \cup {L + 1} /\ L + 1 # 0
    <2>1. adds \in Seq(R) /\ adds' = Append(adds, new)
      BY <1>1 DEF GraphInv, GraphTyped
    <2> HIDE DEF R, new
    <2> QED
      BY <1>3, <1>5, <2>1, SMT
  <1>7. GraphTyped'
    <2>1. constructed
      BY <1>1 DEF GraphInv, GraphTyped
    <2> HIDE DEF L
    <2> QED
      BY <1>1, <1>2, <1>6, <2>1, Zenon DEF GraphInv, GraphTyped, G!Bin
  <1>8. PendingInv'
    <2>1. G!Bin(clock) <= G!Bin(clock)
      BY <1>4, SMT
    <2>2. adds'[Len(adds')] = new
      BY <1>6
    <2> HIDE DEF L
    <2> QED
      BY <1>1, <1>2, <1>6, <2>1, <2>2 DEF PendingInv, G!Bin
  <1>9. PointsInv'
    <2>1. \A b : IsOver(b) => IsOver(b)'
      BY <1>1, <1>2 DEF IsOver, G!Bin
    <2>2. \A i \in DOMAIN data_points' :
             \E j \in DOMAIN data_points : data_points'[i] = data_points[j]
      BY <1>1
    <2> QED
      BY <2>1, <2>2, PointsStay DEF GraphInv
  <1>10. CountInv'
    <2>1. PICK pl \in [G!Added -> 0 .. G!Bin(MaxClock)] :
              /\ G!Counted(pl)
              /\ \A i \in G!Added : pl[i] <= current_bin
              /\ ~rate => IsMax(value_this_bin, Values(pl))
      BY DEF GraphInv, CountInv
    <2>2. \A b, I : I \subseteq 1 .. L =>
              /\ G!Combined(b, I)' = G!Combined(b, I)
              /\ {adds'[i].amount : i \in I} = {adds[i].amount : i \in I}
      <3>1. Summable(adds')
        <4>1. \A i \in 1 .. Len(adds') : adds'[i] \in R
          <5>1. adds' \in Seq(R)
            BY <1>6
          <5> HIDE DEF R, new
          <5> QED
            BY <5>1, SMT
        <4>2. Len(adds') \in Nat
          BY <1>3, <1>6
        <4> QED
          BY <4>1, <4>2 DEF Summable
      <3>2. Len(adds') = Len(adds) + 1 /\ \A i \in 1 .. Len(adds) : adds'[i].amount = adds[i].amount
        BY <1>6
      <3> QED
        BY <1>1, <3>1, <3>2, CombinedStays DEF GraphInv
    <2>3. G!Added' = G!Added
      <3>1. new.to = -1 /\ ~(-1 >= 0)
        OBVIOUS
      <3> HIDE DEF new, L
      <3> QED
        BY <1>3, <1>6, <3>1 DEF G!Added
    <2>4. \A b : G!Placed(pl, b)' = G!Placed(pl, b)
      BY <2>3 DEF G!Placed
    <2>5. Values(pl)' = Values(pl)
      <3>1. {adds'[i].amount : i \in G!Placed(pl, current_bin)}
                = {adds[i].amount : i \in G!Placed(pl, current_bin)}
        BY <1>3, <2>2
      <3> QED
        BY <1>1, <2>4, <3>1 DEF Values, G!Bin
    <2>6. G!Counted(pl)'
      <3>1. \A i \in G!Added : adds'[i].from <= pl[i] /\ pl[i] <= adds'[i].to
        <4>1. \A i \in G!Added : i \in 1 .. L
          BY <1>3 DEF G!Added
        <4> HIDE DEF L
        <4> QED
          BY <1>6, <2>1, <4>1 DEF G!Counted
      <3>2. /\ \A i \in DOMAIN data_points :
                  data_points[i].value = G!Combined(data_points[i].bin,
                                                    G!Placed(pl, data_points[i].bin))
            /\ value_this_bin = G!Combined(current_bin, G!Placed(pl, current_bin))
        BY <2>1, Zenon DEF G!Counted
      <3>3. \A b : G!Combined(b, G!Placed(pl, b))' = G!Combined(b, G!Placed(pl, b))
        BY <1>3, <2>2, <2>4
      <3> QED
        BY <1>1, <2>3, <3>1, <3>2, <3>3, Zenon DEF G!Counted
    <2> QED
      BY <1>1, <2>1, <2>3, <2>5, <2>6, Zenon DEF CountInv, G!Bin
  <1> QED
    BY <1>7, <1>8, <1>9, <1>10 DEF GraphInv

\* A value is added: the current bin has it from now on, and no point has.
LEMMA AddKeeps ==
    ASSUME G!GraphAssumption, GraphInv, G!Add
    PROVE  GraphInv'
  <1> DEFINE R == [amount : Nat, from : Nat, to : Int]
  <1>0. "ferry" \in G!Threads /\ "idle" \in GraphSteps /\ "exception" \in GraphSteps
    BY DEF G!Threads, GraphSteps
  <1>1. /\ step["ferry"] = "add"
        /\ UNCHANGED <<rate, clock, current_bin, data_points, constructed, read>>
    BY DEF G!Add, G!Steps
  <1>2. constructed
    BY <1>1 DEF GraphInv, GraphTyped
  <1>3. CASE G!Goes("ferry", "exception") /\ UNCHANGED <<value_this_bin, adds>>
    <2>1. step' \in [G!Threads -> GraphSteps] /\ step'["ferry"] = "exception"
      BY <1>0, <1>3, GoesTo DEF GraphInv
    <2>2. constructed' = TRUE
      BY <1>1, <1>2 DEF GraphInv, GraphTyped
    <2> QED
      BY <1>1, <1>3, <2>1, <2>2, FerryRests
  <1>4. CASE /\ value_this_bin' = IF rate THEN value_this_bin + adds[Len(adds)].amount
                                  ELSE G!Max({value_this_bin, adds[Len(adds)].amount})
             /\ adds' = [adds EXCEPT ![Len(adds)].to = G!Bin(clock)]
             /\ G!Goes("ferry", "idle")
    <2>1. step' \in [G!Threads -> GraphSteps] /\ step'["ferry"] = "idle"
      BY <1>0, <1>4, GoesTo DEF GraphInv
    <2>2. PICK L : L = Len(adds)
      OBVIOUS
    <2>3. PICK amount : amount = adds[L].amount
      OBVIOUS
    <2>4. PICK now_bin : now_bin = G!Bin(clock)
      OBVIOUS
    <2>5. PICK bin : bin = current_bin
      OBVIOUS
    <2>6. /\ L \in Nat /\ L \in 1 .. L /\ DOMAIN adds = 1 .. L /\ adds \in Seq(R)
          /\ adds[L].to = -1 /\ adds[L].from <= bin
          /\ amount \in Nat /\ adds[L].from \in Nat /\ Summable(adds)
          /\ \A pl, b : G!Placed(pl, b) \subseteq 1 .. L
      <3>1. /\ L \in Nat /\ DOMAIN adds = 1 .. L /\ adds \in Seq(R) /\ Summable(adds)
            /\ L # 0 /\ adds[L].to = -1 /\ adds[L].from <= bin
            /\ \A pl, b : G!Placed(pl, b) \subseteq 1 .. L
        BY <1>1, <2>2, <2>5, GraphFacts DEF GraphInv, GraphTyped, PendingInv
      <3>2. L \in 1 .. L
        BY <3>1, SMT
      <3> QED
        BY <2>2, <2>3, <3>1, <3>2, GraphFacts DEF GraphInv
    <2>7. /\ now_bin \in Nat /\ bin \in Nat /\ bin <= now_bin /\ value_this_bin \in Int
          /\ bin \in 0 .. now_bin /\ bin \in 0 .. G!Bin(MaxClock)
      <3>1. clock \in 0 .. MaxClock /\ bin \in 0 .. now_bin /\ MaxClock \in Nat
            /\ value_this_bin \in Int
        BY <2>4, <2>5 DEF GraphInv, GraphTyped, G!GraphAssumption
      <3>2. clock \in Nat /\ clock <= MaxClock
        BY <3>1, SMT
      <3>3. /\ now_bin \in Nat /\ G!Bin(MaxClock) \in Nat /\ now_bin <= G!Bin(MaxClock)
        BY <2>4, <3>1, <3>2, BinsInOrder
      <3> QED
        BY <3>1, <3>3, SMT
    <2>8. /\ adds' \in Seq(R) /\ Len(adds') = L /\ DOMAIN adds' = 1 .. L
          /\ \A i \in 1 .. L : adds'[i].amount = adds[i].amount /\ adds'[i].from = adds[i].from
          /\ adds'[L].to = now_bin
          /\ \A i \in 1 .. L : i # L => adds'[i].to = adds[i].to
      <3>1. \A i \in 1 .. L : adds[i] \in R
        <4> HIDE DEF R
        <4> QED
          BY <2>2, <2>6, SMT
      <3>2. PICK new : new = [adds[L] EXCEPT !.to = now_bin]
        OBVIOUS
      <3>3. /\ new \in R /\ new.amount = adds[L].amount /\ new.from = adds[L].from
            /\ new.to = now_bin
        <4>1. adds[L] \in R
          BY <2>6, <3>1
        <4> QED
          BY <2>7, <3>2, <4>1
      <3>4. adds' = [adds EXCEPT ![L] = new]
        BY <1>4, <2>2, <2>4, <3>2
      <3>5. /\ adds' \in Seq(R) /\ Len(adds') = L /\ DOMAIN adds' = 1 .. L
            /\ \A i \in 1 .. L : adds'[i] = IF i = L THEN new ELSE adds[i]
        <4> HIDE DEF R
        <4> QED
          BY <2>2, <2>6, <3>3, <3>4, SMT
      <3> HIDE DEF R
      <3> QED
        BY <2>6, <3>3, <3>5
    <2>9. Summable(adds')
      BY <2>2, <2>6, <2>8 DEF Summable
    <2>10. PICK pl \in [G!Added -> 0 .. G!Bin(MaxClock)] :
              /\ G!Counted(pl)
              /\ \A i \in G!Added : pl[i] <= current_bin
              /\ ~rate => IsMax(value_this_bin, Values(pl))
      BY DEF GraphInv, CountInv
    <2>11. PICK added : added = G!Added
      OBVIOUS
    <2>12. L \notin added /\ G!Added' = added \cup {L} /\ added \subseteq 1 .. L
      <3>1. now_bin >= 0 /\ ~(-1 >= 0)
        BY <2>7, SMT
      <3>2. L \notin added
        BY <2>6, <2>11, <3>1 DEF G!Added
      <3>3. G!Added' = {i \in 1 .. L : adds'[i].to >= 0}
        BY <2>8 DEF G!Added
      <3> QED
        BY <2>6, <2>8, <2>11, <3>1, <3>2, <3>3 DEF G!Added
    <2>13. PICK nu \in [added \cup {L} -> 0 .. G!Bin(MaxClock)] :
              nu[L] = bin /\ \A i \in added : nu[i] = pl[i]
      <3> DEFINE f == [i \in added \cup {L} |-> IF i = L THEN bin ELSE pl[i]]
      <3>1. /\ f \in [added \cup {L} -> 0 .. G!Bin(MaxClock)]
            /\ f[L] = bin /\ \A i \in added : f[i] = pl[i]
        BY <2>7, <2>10, <2>11, <2>12
      <3> HIDE DEF f
      <3> QED
        BY <3>1
    <2>14. PICK has : has = G!Placed(pl, bin)
      OBVIOUS
    <2>15. PICK has2 : has2 = has \cup {L}
      OBVIOUS
    <2>16. has \subseteq 1 .. L /\ L \notin has /\ has2 \subseteq 1 .. L
      BY <2>6, <2>11, <2>12, <2>14, <2>15 DEF G!Placed
    <2>17. /\ G!Placed(nu, bin)' = has2
           /\ \A b : b # bin => G!Placed(nu, b)' = G!Placed(pl, b)
      <3>1. \A b : G!Placed(nu, b)' = {i \in added \cup {L} : nu[i] = b}
        BY <2>12 DEF G!Placed
      <3> QED
        BY <2>11, <2>12, <2>13, <2>14, <2>15, <3>1 DEF G!Placed
    <2>18. \A b, I : I \subseteq 1 .. L =>
              /\ G!Combined(b, I)' = G!Combined(b, I)
              /\ {adds'[i].amount : i \in I} = {adds[i].amount : i \in I}
      BY <1>1, <2>2, <2>8, <2>9, CombinedStays DEF GraphInv
    <2>19. value_this_bin = G!Combined(bin, has)
      BY <2>5, <2>10, <2>14 DEF G!Counted
    <2>20. ~rate => IsMax(value_this_bin, Values(nu))'
      <3> SUFFICES ASSUME ~rate PROVE IsMax(value_this_bin', Values(nu)')
        BY <1>1 DEF IsMax
      <3>1. IsMax(value_this_bin', Values(pl) \cup {amount})
        <4>1. amount \in Int /\ value_this_bin' = G!Max({value_this_bin, amount})
          BY <1>4, <2>2, <2>3, <2>6
        <4> QED
          BY <2>10, <4>1, MaxWithOneMore
      <3>2. PICK d : d = IF bin = G!Bin(0) THEN 0 ELSE -1
        OBVIOUS
      <3>3. Values(nu)' = {adds'[i].amount : i \in has2} \cup {d}
        BY <1>1, <2>5, <2>17, <3>2 DEF Values, G!Bin
      <3>4. {adds'[i].amount : i \in has2} = {adds[i].amount : i \in has} \cup {amount}
        <4>1. {adds'[i].amount : i \in has} = {adds[i].amount : i \in has}
          BY <2>16, <2>18
        <4>2. adds'[L].amount = amount
          BY <2>3, <2>6, <2>8
        <4>3. {adds'[i].amount : i \in has \cup {L}}
                  = {adds'[i].amount : i \in has} \cup {adds'[L].amount}
          OBVIOUS
        <4> QED
          BY <2>15, <4>1, <4>2, <4>3
      <3>5. Values(pl) = {adds[i].amount : i \in has} \cup {d}
        BY <2>5, <2>14, <3>2 DEF Values
      <3>6. Values(nu)' = Values(pl) \cup {amount}
        BY <3>3, <3>4, <3>5
      <3> QED
        BY <3>1, <3>6
    <2>21. value_this_bin' = G!Combined(bin, has2)' /\ value_this_bin' \in Int
      <3>1. CASE rate
        <4>1. G!Sum(adds', has2) = G!Sum(adds, has) + amount
          <5>1. /\ Len(adds') = Len(adds) /\ Len(adds) # 0 /\ Len(adds) \notin has
                /\ \A i \in 1 .. Len(adds) : adds'[i].amount = adds[i].amount
            BY <2>2, <2>6, <2>8, <2>16
          <5>2. G!Sum(adds', has \cup {Len(adds)}) = G!Sum(adds, has) + adds[Len(adds)].amount
            BY <2>6, <2>9, <5>1, SumOfOneMore
          <5> QED
            BY <2>2, <2>3, <2>15, <5>2, Zenon
        <4>2. value_this_bin = G!Sum(adds, has)
          BY <2>19, <3>1 DEF G!Combined
        <4>3. value_this_bin' = value_this_bin + amount
          BY <1>4, <2>2, <2>3, <3>1
        <4>4. value_this_bin' \in Int
          BY <2>6, <2>7, <4>3, SMT
        <4>5. G!Combined(bin, has2)' = G!Sum(adds', has2)
          BY <1>1, <3>1, Zenon DEF G!Combined
        <4> QED
          BY <4>1, <4>2, <4>3, <4>4, <4>5
      <3>2. CASE ~rate
        <4>1. IsMax(value_this_bin', Values(nu)')
          BY <2>20, <3>2 DEF IsMax
        <4>2. G!Max(Values(nu)') = value_this_bin' /\ value_this_bin' \in Int
          BY <4>1, MaxIs DEF IsMax
        <4>3. Values(nu)' = {adds'[i].amount : i \in has2}
                               \cup {IF bin = G!Bin(0) THEN 0 ELSE -1}
          BY <1>1, <2>5, <2>17 DEF Values, G!Bin
        <4>4. G!Combined(bin, has2)' = G!Max(Values(nu)')
          BY <1>1, <3>2, <4>3, Zenon DEF G!Combined, G!Bin
        <4> QED
          BY <4>2, <4>4
      <3> QED
        BY <3>1, <3>2
    <2>22. GraphTyped'
      <3> HIDE DEF R
      <3> QED
        BY <1>1, <2>1, <2>8, <2>21, Zenon DEF GraphInv, GraphTyped, G!Bin, R
    <2>23. PendingInv'
      BY <2>1 DEF PendingInv
    <2>24. PointsInv' /\ \A i \in DOMAIN data_points : data_points[i].bin # bin
      <3>1. \A b : IsOver(b) => IsOver(b)' /\ b # bin
        <4>1. ~(bin < bin)
          BY <2>7, SMT
        <4> QED
          BY <1>1, <2>1, <2>5, <4>1, Zenon DEF IsOver
      <3>2. \A i \in DOMAIN data_points' :
               \E j \in DOMAIN data_points : data_points'[i] = data_points[j]
        BY <1>1
      <3>3. \A i \in DOMAIN data_points : IsOver(data_points[i].bin)
        BY Zenon DEF GraphInv, PointsInv
      <3> QED
        BY <3>1, <3>2, <3>3, PointsStay DEF GraphInv
    <2>25. G!Counted(nu)'
      <3>1. \A i \in added \cup {L} : adds'[i].from <= nu[i] /\ nu[i] <= adds'[i].to
        <4>1. adds'[L].from <= nu[L] /\ nu[L] <= adds'[L].to
          BY <2>6, <2>7, <2>8, <2>13
        <4>2. \A i \in added : adds[i].from <= pl[i] /\ pl[i] <= adds[i].to
          BY <2>10, <2>11 DEF G!Counted
        <4>3. \A i \in added : i \in 1 .. L /\ i # L
          BY <2>12
        <4> QED
          BY <2>8, <2>13, <4>1, <4>2, <4>3
      <3>2. \A i \in DOMAIN data_points :
               data_points[i].value
                  = G!Combined(data_points[i].bin, G!Placed(nu, data_points[i].bin))'
        <4> SUFFICES ASSUME NEW i \in DOMAIN data_points
                     PROVE  data_points[i].value
                               = G!Combined(data_points[i].bin, G!Placed(nu, data_points[i].bin))'
          OBVIOUS
        <4>1. PICK b : b = data_points[i].bin
          OBVIOUS
        <4>2. data_points[i].value = G!Combined(b, G!Placed(pl, b))
          BY <2>10, <4>1, Zenon DEF G!Counted
        <4>3. PICK I : I = G!Placed(pl, b)
          OBVIOUS
        <4>4. I \subseteq 1 .. L /\ G!Placed(nu, b)' = I
          BY <2>6, <2>17, <2>24, <4>1, <4>3
        <4>5. G!Combined(b, I)' = G!Combined(b, I)
          BY <2>18, <4>4
        <4>6. data_points[i].bin' = b
          BY <1>1, <4>1
        <4> QED
          BY <4>2, <4>3, <4>4, <4>5, <4>6
      <3>3. value_this_bin' = G!Combined(current_bin, G!Placed(nu, current_bin))'
        BY <1>1, <2>5, <2>17, <2>21
      <3> QED
        BY <1>1, <2>12, <3>1, <3>2, <3>3, Zenon DEF G!Counted
    <2>26. CountInv'
      <3>1. nu \in [G!Added' -> 0 .. G!Bin(MaxClock)']
        BY <2>12, <2>13 DEF G!Bin
      <3>2. \A i \in G!Added' : nu[i] <= current_bin'
        <4>1. \A i \in added : nu[i] <= bin
          BY <2>5, <2>10, <2>11, <2>13
        <4>2. bin <= bin
          BY <2>7, SMT
        <4> QED
          BY <1>1, <2>5, <2>12, <2>13, <4>1, <4>2
      <3>3. ~rate' => IsMax(value_this_bin, Values(nu))'
        BY <1>1, <2>20
      <3> QED
        BY <2>25, <3>1, <3>2, <3>3, Zenon DEF CountInv
    <2> QED
      BY <2>22, <2>23, <2>24, <2>26 DEF GraphInv
  <1> QED
    BY <1>1, <1>3, <1>4 DEF G!Add

\* Every step of the graph.
LEMMA GraphNext ==
    ASSUME G!GraphAssumption, GraphInv, [G!Next]_(G!vars)
    PROVE  GraphInv'
  <1>0. "ferry" \in G!Threads /\ "animation" \in G!Threads
    BY DEF G!Threads
  <1>1. CASE G!Construct \/ G!Halt \/ G!Join
    BY <1>1, FerryThreadKeeps
  <1>2. CASE G!Call
    BY <1>2, CallKeeps
  <1>3. CASE G!Add
    BY <1>3, AddKeeps
  <1>4. CASE G!LookAtHalt \/ G!Draw
    BY <1>4, FrameKeeps
  <1>5. ASSUME NEW t \in G!Threads, G!Advance(t) PROVE GraphInv'
    BY <1>5, AdvanceKeeps
  <1>6. ASSUME NEW t \in G!Threads, G!AdvanceBin(t) PROVE GraphInv'
    BY <1>6, AdvanceBinKeeps
  <1>7. CASE G!AdvanceEnds("ferry", "add") \/ G!AdvanceEnds("animation", "draw")
    BY <1>7, AdvanceEndsKeeps
  <1>8. CASE G!AdvanceUnconstructed("animation")
    BY <1>8, UnconstructedKeeps
  <1>9. CASE G!Tick
    BY <1>9, GraphTickKeeps
  <1>10. CASE UNCHANGED G!vars
    <2>1. UNCHANGED <<rate, clock, value_this_bin, current_bin, data_points, constructed, step,
                      read, adds>>
      BY <1>10 DEF G!vars
    <2>2. /\ step' \in [G!Threads -> GraphSteps] /\ read' \in [G!Threads -> 0 .. clock]
          /\ data_points' \in Seq([bin : Nat, value : Int])
      BY <2>1, Zenon DEF GraphInv, GraphTyped
    <2> QED
      BY <2>1, <2>2, AnimationKeeps
  <1> QED
    BY <1>0, <1>1, <1>2, <1>3, <1>4, <1>5, <1>6, <1>7, <1>8, <1>9, <1>10, Zenon
    DEF G!Next, G!Ferry, G!Animation

\* The places of the invariant are those that the property asks for.
LEMMA GraphCounts ==
    ASSUME GraphInv
    PROVE  G!CountedInItsBin
  BY Zenon DEF GraphInv, CountInv, G!CountedInItsBin

-----------------------------------------------------------------------------
(* The scenes of the container                                              *)

\* A step of the container is a step of each of its parts, or leaves it as it is.
LEMMA ScenesArePlayedApart ==
    /\ ShellInit => Init /\ F!Init /\ D!Init /\ G!Init
    /\ [ShellNext]_shell_vars => /\ [Next]_vars /\ [F!Next]_(F!vars) /\ [D!Next]_(D!vars)
                                 /\ [G!Next]_(G!vars)
  <1>1. ShellInit => Init /\ F!Init /\ D!Init /\ G!Init
    BY DEF ShellInit
  <1>2. ASSUME [ShellNext]_shell_vars PROVE [Next]_vars
    BY <1>2 DEF ShellNext, InTree, InFerry, InDns, InGraph, shell_vars
  <1>3. ASSUME [ShellNext]_shell_vars PROVE [F!Next]_(F!vars)
    BY <1>3 DEF ShellNext, InTree, InFerry, InDns, InGraph, shell_vars, ferry_vars, F!vars
  <1>4. ASSUME [ShellNext]_shell_vars PROVE [D!Next]_(D!vars)
    BY <1>4 DEF ShellNext, InTree, InFerry, InDns, InGraph, shell_vars, dns_vars, D!vars
  <1>5. ASSUME [ShellNext]_shell_vars PROVE [G!Next]_(G!vars)
    BY <1>5 DEF ShellNext, InTree, InFerry, InDns, InGraph, shell_vars, graph_vars, G!vars
  <1> QED
    BY <1>1, <1>2, <1>3, <1>4, <1>5

\* Until the wall clock is stepped back, the check of the poller that a callback has used
\* its descriptor never ends a ferry of the container (poller.cc 55-75).
THEOREM NoFerryCallsInVain == ShellSpec => []NoBusyWait
  <1>1. F!Init /\ [][F!Next]_(F!vars) => []F!NoBusyWait
    BY ContainerAssumption, F!NoCallIsInVain
  <1>2. NoBusyWait <=> F!NoBusyWait
    BY DEF NoBusyWait
  <1> QED
    BY <1>1, <1>2, ScenesArePlayedApart, PTL DEF ShellSpec

\* Each packet of a prompt ferry leaves in the millisecond in which it is due, or has
\* arrived if that is later (delay_queue.cc 51-73; packetshell.cc 168-199).
THEOREM FerryIsOnTime == ShellSpec => []LeaveOnTime
  <1>1. F!Init /\ [][F!Next]_(F!vars) => []F!LeaveOnTime
    BY ContainerAssumption, F!PacketsLeaveOnTime
  <1>2. LeaveOnTime <=> F!LeaveOnTime
    BY DEF LeaveOnTime
  <1> QED
    BY <1>1, <1>2, ScenesArePlayedApart, PTL DEF ShellSpec

\* A packet overtakes another only in mm-delay, and only if it was due no later, also if
\* the wall clock is stepped back (delay_queue.cc 40-58; packetshell.cc 168-199).
THEOREM FerryKeepsTheOrder == ShellSpec => []LeaveInOrder
  <1>1. F!Init /\ [][F!Next]_(F!vars) => []F!LeaveInOrder
    BY ContainerAssumption, F!PacketsLeaveInOrder
  <1>2. LeaveInOrder <=> F!LeaveInOrder
    BY DEF LeaveInOrder
  <1> QED
    BY <1>1, <1>2, ScenesArePlayedApart, PTL DEF ShellSpec

\* A prompt ferry of a periodic link takes exactly what arrives while the link is on, up
\* to the millisecond of a switch (loss_queue.cc 15-20, 58-78, 96-104).
THEOREM LinkTakesWhileOn == ShellSpec => []TakenWhileOn
  <1>1. F!Init /\ [][F!Next]_(F!vars) => []F!TakenWhileOn
    BY ContainerAssumption, F!PacketsAreTakenWhileOn
  <1>2. TakenWhileOn <=> F!TakenWhileOn
    BY DEF TakenWhileOn
  <1> QED
    BY <1>1, <1>2, ScenesArePlayedApart, PTL DEF ShellSpec

\* Each peer of a DNS connection gets what the other has said, in order, without a gap
\* and without a byte twice, and all of it at an end that no peer has caused.
THEOREM ProxyRelaysAsSaid == ShellSpec => []RelayedAsSaid
  <1>1. D!Init /\ [][D!Next]_(D!vars) => []D!RelayedAsSaid
    BY ContainerAssumption, D!RelayKeeps
  <1>2. RelayedAsSaid <=> D!RelayedAsSaid
    BY DEF RelayedAsSaid
  <1> QED
    BY <1>1, <1>2, ScenesArePlayedApart, PTL DEF ShellSpec

\* Each value that is added to a graph is counted once, in a bin between that of the call
\* and that of the addition, for any values, widths of bins and frames, whichever thread
\* brings the bins up to date (binned_livegraph.cc 28-53, 72-121, 143-169).
THEOREM ValuesAreCounted == ShellSpec => []CountedInItsBin
  <1>1. G!Init => GraphInv
    BY ContainerAssumption, GraphInit
  <1>2. GraphInv /\ [G!Next]_(G!vars) => GraphInv'
    BY ContainerAssumption, GraphNext
  <1>3. GraphInv => CountedInItsBin
    BY GraphCounts DEF CountedInItsBin
  <1> QED
    BY <1>1, <1>2, <1>3, ScenesArePlayedApart, PTL DEF ShellSpec
=============================================================================
