-------------------------- MODULE MCChartDiscovery --------------------------
(***************************************************************************)
(* Small instances of ChartDiscovery.                                      *)
(***************************************************************************)
EXTENDS ChartDiscovery, TLC

\* bound: all requests are for one chart, the other one is not discovered yet; a
\* correlated chart is only viewed, since votes look for either kind alike
RacesInit ==
    \E c \in Charts :
        /\ Init
        /\ \A r \in Requests : call[r].chart = c /\ (c \in Correlated => call[r].op = "view")
        /\ \A d \in Charts \ {c} : table[d] = NoRow

RacesSpec == RacesInit /\ [][Next]_vars

\* requests of either kind are interchangeable, and so are users where
\* Outsiders is empty
Symmetry ==
    Permutations(Users) \cup Permutations(Requests \ Faulty)
      \cup Permutations(Faulty)
=============================================================================
