--------------------------- MODULE BinnedLiveGraph ---------------------------
(***************************************************************************)
(* The graph that mm-link and mm-meter can draw: values are added to a bin    *)
(* until its time is over, and then become a point.  Two threads do that: the *)
(* ferry's, which adds values, and the graph's own, which draws frames.  Both *)
(* bring the bins up to date under one mutex; the ferry adds under a second    *)
(* use of it, and frames are drawn from the bin without it.                   *)
(*                                                                         *)
(* One line of one graph is modelled: a rate sums the values of a bin, a delay *)
(* keeps their maximum, and has no value (-1) until there is one.             *)
(***************************************************************************)
EXTENDS Integers, Sequences, FiniteSetsExt

CONSTANTS
    Amounts,       \* the values that are added, in this order
    BinWidth,      \* bin_width_ms_
    Window,        \* a point older than this is outside a frame
    MaxClock       \* bound: the clock stops here

Threads == {"ferry", "animation"}

\* Values are unsigned, and a bin lasts a millisecond or more.
GraphAssumption ==
    /\ Amounts \in Seq(Nat)
    /\ BinWidth \in Nat \ {0} /\ Window \in Nat /\ MaxClock \in Nat

VARIABLES
    rate,              \* whether this is a graph of a rate
    clock,             \* timestamp()
    value_this_bin,
    current_bin,
    data_points,       \* the line, from its first bin on: the bin and its value
    mutex,             \* the thread that holds it, or "free"
    constructed,       \* initialize_new_bin_ exists
    halt,
    step,              \* what each thread does next
    read,              \* the time which a thread has read in advance
    adds               \* history: for each value, the bins at the call and at the addition

vars == <<rate, clock, value_this_bin, current_bin, data_points, mutex, constructed, halt,
          step, read, adds>>

Bin(time) == time \div BinWidth

\* The constructor values the first bin at 0 in either graph, and has started the
\* animation before its last member is there.
Init ==
    /\ rate \in BOOLEAN
    /\ clock = 0 /\ value_this_bin = 0 /\ current_bin = Bin(clock) /\ data_points = <<>>
    /\ mutex = "free" /\ constructed = FALSE /\ halt = FALSE
    /\ step = [ferry |-> "construct", animation |-> "halted?"]
    /\ read = [t \in Threads |-> 0]
    /\ adds = <<>>

Goes(t, s) == step[t] # s /\ step' = [step EXCEPT ![t] = s]
Steps(t, s) == step[t] = s

initialize_new_bin == IF rate THEN 0 ELSE -1

-----------------------------------------------------------------------------
(* advance                                                                  *)

Lock(t) == mutex = "free" /\ mutex' = t
Unlock(t) == mutex = t /\ mutex' = "free"

Advance(t) ==
    /\ Steps(t, "advance")
    /\ Lock(t)
    /\ read' = [read EXCEPT ![t] = clock]
    /\ Goes(t, "bins")
    /\ UNCHANGED <<rate, clock, value_this_bin, current_bin, data_points, constructed, halt,
                   adds>>

\* The point, and the new bin.
AdvanceBin(t) ==
    /\ Steps(t, "bins") /\ current_bin < Bin(read[t]) /\ constructed
    /\ data_points' = Append(data_points, [bin |-> current_bin, value |-> value_this_bin])
    /\ value_this_bin' = initialize_new_bin
    /\ current_bin' = current_bin + 1
    /\ UNCHANGED <<rate, clock, mutex, constructed, halt, step, read, adds>>

\* Without initialize_new_bin_ the point is there, and what is called may be empty,
\* which ends the animation, or anything.
AdvanceUnconstructed(t) ==
    /\ Steps(t, "bins") /\ current_bin < Bin(read[t]) /\ ~constructed
    /\ data_points' = Append(data_points, [bin |-> current_bin, value |-> value_this_bin])
    /\ \/ Goes(t, "exception") /\ Unlock(t)
       \/ step' = [s \in Threads |-> "crash"] /\ UNCHANGED mutex
    /\ UNCHANGED <<rate, clock, value_this_bin, current_bin, constructed, halt, read, adds>>

AdvanceEnds(t, next) ==
    /\ Steps(t, "bins") /\ current_bin >= Bin(read[t])
    /\ Unlock(t)
    /\ Goes(t, next)
    /\ UNCHANGED <<rate, clock, value_this_bin, current_bin, data_points, constructed, halt,
                   read, adds>>

-----------------------------------------------------------------------------
(* The ferry's thread                                                       *)

Construct ==
    /\ Steps("ferry", "construct")
    /\ constructed' = TRUE
    /\ Goes("ferry", "idle")
    /\ UNCHANGED <<rate, clock, value_this_bin, current_bin, data_points, mutex, halt, read,
                   adds>>

\* A mutant: a value is added to the bin of the last time that anyone looked.
CallWithoutAdvance ==
    /\ Steps("ferry", "idle") /\ Len(adds) < Len(Amounts)
    /\ adds' = Append(adds, [amount |-> Amounts[Len(adds) + 1], from |-> Bin(clock), to |-> -1])
    /\ Goes("ferry", "add")
    /\ UNCHANGED <<rate, clock, value_this_bin, current_bin, data_points, mutex, constructed,
                   halt, read>>

\* add_value_now, set_max_value_now
Call ==
    /\ Steps("ferry", "idle") /\ Len(adds) < Len(Amounts)
    /\ adds' = Append(adds, [amount |-> Amounts[Len(adds) + 1], from |-> Bin(clock), to |-> -1])
    /\ Goes("ferry", "advance")
    /\ UNCHANGED <<rate, clock, value_this_bin, current_bin, data_points, mutex, constructed,
                   halt, read>>

\* The second lock is held for this step.
Add ==
    /\ Steps("ferry", "add") /\ mutex = "free"
    /\ LET amount == adds[Len(adds)].amount
       IN  IF rate /\ value_this_bin < 0
           THEN Goes("ferry", "exception") /\ UNCHANGED <<value_this_bin, adds>>
           ELSE /\ value_this_bin' = IF rate THEN value_this_bin + amount
                                     ELSE Max({value_this_bin, amount})
                /\ adds' = [adds EXCEPT ![Len(adds)].to = Bin(clock)]
                /\ Goes("ferry", "idle")
    /\ UNCHANGED <<rate, clock, current_bin, data_points, mutex, constructed, halt, read>>

\* ~BinnedLiveGraph, up to the end of join
Halt ==
    /\ Steps("ferry", "idle")
    /\ halt' = TRUE
    /\ Goes("ferry", "join")
    /\ UNCHANGED <<rate, clock, value_this_bin, current_bin, data_points, mutex, constructed,
                   read, adds>>

Join ==
    /\ Steps("ferry", "join") /\ step.animation \in {"done", "exception"}
    /\ Goes("ferry", "done")
    /\ UNCHANGED <<rate, clock, value_this_bin, current_bin, data_points, mutex, constructed,
                   halt, read, adds>>

-----------------------------------------------------------------------------
(* animation_loop.  A frame takes any time.                                  *)

LookAtHalt ==
    /\ Steps("animation", "halted?")
    /\ Goes("animation", IF halt THEN "done" ELSE "advance")
    /\ UNCHANGED <<rate, clock, value_this_bin, current_bin, data_points, mutex, constructed,
                   halt, read, adds>>

\* Points that have left the frame are taken away, up to the last one of them.
Kept(points, time) ==
    LET old == {i \in DOMAIN points : (points[i].bin + 1) * BinWidth < time - Window}
    IN  SubSeq(points, Max({1, Cardinality(old)}), Len(points))

\* blocking_draw
Draw ==
    /\ Steps("animation", "draw")
    /\ data_points' = Kept(data_points, read["animation"])
    /\ Goes("animation", "halted?")
    /\ UNCHANGED <<rate, clock, value_this_bin, current_bin, mutex, constructed, halt, read,
                   adds>>

Ferry == Construct \/ Call \/ Add \/ Advance("ferry") \/ AdvanceBin("ferry")
            \/ AdvanceEnds("ferry", "add") \/ Halt \/ Join
Animation == LookAtHalt \/ Draw \/ Advance("animation") \/ AdvanceBin("animation")
            \/ AdvanceUnconstructed("animation") \/ AdvanceEnds("animation", "draw")

Tick ==
    /\ clock < MaxClock
    /\ clock' = clock + 1
    /\ UNCHANGED <<rate, value_this_bin, current_bin, data_points, mutex, constructed, halt,
                   step, read, adds>>

Next == Ferry \/ Animation \/ Tick

Spec == Init /\ [][Next]_vars /\ WF_vars(Ferry) /\ WF_vars(Animation)

-----------------------------------------------------------------------------
(* Properties                                                               *)

\* The sum of the amounts at the places I.
Sum(values, I) ==
    LET sum[n \in 0 .. Len(values)] ==
            IF n = 0 THEN 0 ELSE sum[n - 1] + IF n \in I THEN values[n].amount ELSE 0
    IN  sum[Len(values)]

\* What a bin makes of the values that were added to it.
Combined(bin, I) ==
    IF rate THEN Sum(adds, I)
    ELSE Max({adds[i].amount : i \in I} \cup {IF bin = Bin(0) THEN 0 ELSE -1})

\* The values that were added, and those of them that a bin has.
Added == {i \in DOMAIN adds : adds[i].to >= 0}
Placed(place, bin) == {i \in Added : place[i] = bin}

\* Each value is in a bin between that of the call and that of the addition, and what the
\* points and the current bin have is what they make of theirs.
Counted(place) ==
    /\ \A i \in Added : adds[i].from <= place[i] /\ place[i] <= adds[i].to
    /\ \A i \in DOMAIN data_points :
          data_points[i].value = Combined(data_points[i].bin, Placed(place, data_points[i].bin))
    /\ value_this_bin = Combined(current_bin, Placed(place, current_bin))

\* Every value that was added is counted once, in a bin between that of the call and
\* that of the addition, whichever thread brought the bins up to date: no point, nor
\* the current bin, has more or less.
CountedInItsBin == \E place \in [Added -> 0 .. Bin(MaxClock)] : Counted(place)
=============================================================================
