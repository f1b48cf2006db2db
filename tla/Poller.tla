------------------------------- MODULE Poller -------------------------------
(***************************************************************************)
(* One call of Poller::poll serves, in the order in which the actions were   *)
(* added, the callbacks of the descriptors that the system call reported.    *)
(* Interest is evaluated before the system call, and the report is that of   *)
(* the system call: neither is evaluated again as callbacks run.             *)
(*                                                                         *)
(* A user of this module has a sequence of Actions and, between the system   *)
(* call and the end of its callbacks, a Report.                              *)
(***************************************************************************)
EXTENDS Integers, FiniteSetsExt

Action(direction, active, interested, eof) ==
    [direction |-> direction, active |-> active, interested |-> interested, eof |-> eof]

\* A descriptor that has reached its end is not polled for input.
Events(actions) ==
    {i \in DOMAIN actions :
        /\ actions[i].active /\ actions[i].interested
        /\ ~(actions[i].direction = "In" /\ actions[i].eof)}

\* With nothing to wait for, poll returns Exit without the system call.
NothingToPoll(actions) == Events(actions) = {}

\* `revents` are the actions left to serve. `hung` are those whose descriptor has
\* hung up, or failed: the poll ends with Exit when the loop gets to one.
Report(revents, hung) == [revents |-> revents, hung |-> hung]
NoReport == Report({}, {})

Reported(r) == r.revents \cup r.hung
At(r) == Min(Reported(r))
Serves(r, i) == Reported(r) # {} /\ At(r) = i /\ i \notin r.hung
HangsUp(r) == Reported(r) # {} /\ At(r) \in r.hung
Served(r) == [r EXCEPT !.revents = @ \ {At(r)}]
=============================================================================
