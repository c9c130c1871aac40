------------------------- MODULE MCFlexTtiMacScheduler -------------------------
(* Values for model checking FlexTtiMacScheduler. *)
EXTENDS FlexTtiMacScheduler

CtrlSymbols == [dl |-> 9, ul |-> 7]

Traffic(dl, ul) == [d \in Dirs |-> IF d = "dl" THEN dl ELSE ul]

\* One UE, no slots format, and no end
Base == [layer |-> "even", format |-> <<>>, resvDl |-> 3, resvSwitch |-> 0, ues |-> {1},
         traffic |-> Traffic({0}, {0}), drops |-> FALSE, releases |-> FALSE,
         slots |-> Unbounded]

\* Blocks that just fit, one direction at a time: retransmissions, timeouts,
\* answers that come too late
Harq == {[Base EXCEPT !.traffic = Traffic({0, 3}, {0})],
         [Base EXCEPT !.traffic = Traffic({3}, {0}), !.drops = TRUE],
         [Base EXCEPT !.traffic = Traffic({0}, {0, 2}), !.drops = TRUE]}

\* Two UEs and both directions in a few slots, UEs that leave
Leaving == {[Base EXCEPT !.traffic = Traffic({0, 2}, {0, 1}), !.releases = TRUE,
                         !.ues = {1, 2}, !.slots = 3]}

\* Three UEs that share one slot
Sharing == {[Base EXCEPT !.layer = "all", !.ues = Ues, !.slots = 1, !.resvDl = n,
                         !.traffic = Traffic({0, 1, 3, 5}, {0, 1, 3, 5})] : n \in {0, 4}}

\* Formats with switching slots, in every layer
Formats == {[Base EXCEPT !.layer = l, !.format = f, !.slots = 6,
                         !.traffic = Traffic({0, 1, 2}, {0, 1, 2})] :
              l \in Layers, f \in {<<"dl", "switch", "ul">>, <<"dl", "ul">>}}

AllScenarios == Harq \cup Leaving \cup Sharing \cup Formats
================================================================================
