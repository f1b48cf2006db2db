---------------------------- MODULE MCPacketShell ----------------------------
(***************************************************************************)
(* Values for TLC: one ferry of each tool, prompt or not.                      *)
(***************************************************************************)
EXTENDS Container, TLC

Q == INSTANCE FerryQueues

With(s, passes, prompt, back, sigs, periodic) ==
    s @@ [passthrough |-> passes, prompt |-> prompt, steps |-> back, signals |-> sigs,
          periodic |-> periodic]

Delayed == Q!Setup("delay", <<3, 1>>, 2, {}, {})
Lossy == Q!Setup("loss", <<>>, 1, {}, {})
Periodic == Q!Setup("switch", <<>>, 1, {1}, {2})
Stochastic == Q!Setup("switch", <<>>, 1, {0, 2}, {1})
Metered == Q!Setup("meter", <<>>, 1, {}, {})

MCSetups ==
    {With(Delayed, FALSE, TRUE, FALSE, {}, FALSE),
     With(Delayed, FALSE, FALSE, TRUE, {"SIGTERM"}, FALSE),
     With(Lossy, FALSE, FALSE, FALSE, {}, FALSE),
     With(Periodic, FALSE, TRUE, FALSE, {}, TRUE),
     With(Stochastic, FALSE, FALSE, FALSE, {}, FALSE),
     With(Metered, TRUE, FALSE, FALSE, {"SIGUSR1"}, FALSE)}

\* More than the ring holds, so that it fills and its ends wrap.
MCSpoken == [client |-> 1, server |-> 4]

\* Sums of them tell which of them were added.
MCAmounts == <<2, 1>>
=============================================================================
