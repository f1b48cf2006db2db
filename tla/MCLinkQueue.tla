---------------------------- MODULE MCLinkQueue ----------------------------
(* LinkQueue on traces of a few milliseconds.  Burst has an idle ms and two   *)
(* opportunities in one; Zero starts with one at its very beginning.          *)
EXTENDS LinkQueue

MCLinks ==
    LET Burst == <<1, 1, 3>>
        Zero == <<0, 2>>
        Steady == <<1>>
        None == <<0, 0>>
    IN  {Link(Args("droptail", 2, 4, None), Burst, TRUE, {1, 3}, 5),
         Link(Args("infinite", 0, 0, None), Zero, FALSE, {1, 3}, 5),
         Link(Args("codel", 6, 0, <<1, 1>>), Steady, TRUE, {3}, 7),
         Link(Args("pie", 4, 0, <<2, 1>>), Steady, TRUE, {3}, 7)}

DropHeadLink == {Link(Args("drophead", 0, 3, <<0, 0>>), <<1, 1, 3>>, TRUE, {1, 2, 3}, 4)}
=============================================================================
