--------------------------- MODULE MCCorrelations ---------------------------
(***************************************************************************)
(* Two tables and one job, for what the source says of its buckets.        *)
(***************************************************************************)
EXTENDS Correlations, TLC

CONSTANTS t1, t2

\* twenty days and the first: steps of two days, ten of them and the last day
TwentyDays == {0..20}

\* four days in common, each of them a bucket but the last
FewDays == {0..5, 2..7}

\* tables are interchangeable
Symmetry == Permutations(Tables)
=============================================================================
