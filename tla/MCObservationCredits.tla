------------------------ MODULE MCObservationCredits ------------------------
(***************************************************************************)
(* Small instances of ObservationCredits.                                  *)
(***************************************************************************)
EXTENDS ObservationCredits, TLC

\* users are interchangeable, and so are the requests of either kind
Symmetry ==
    Permutations(Users) \cup Permutations(Requests \ Faulty)
      \cup Permutations(Faulty)
=============================================================================
