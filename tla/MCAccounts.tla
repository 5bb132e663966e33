----------------------------- MODULE MCAccounts -----------------------------
(***************************************************************************)
(* Small instances of Accounts.                                            *)
(***************************************************************************)
EXTENDS Accounts, TLC

\* requests are interchangeable, and so are the names, the addresses, the words
Symmetry ==
    Permutations(Requests) \cup Permutations(Names)
        \cup Permutations(Addresses) \cup Permutations(Words)
=============================================================================
