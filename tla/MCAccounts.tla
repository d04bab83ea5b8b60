------------------------------ MODULE MCAccounts ------------------------------
(* Instances of Accounts for model checking. *)
EXTENDS Accounts, TLC

\* Handlers, addresses, Google accounts and tokens are interchangeable: sound,
\* as no run checks liveness.
Symmetry == Permutations(Procs) \cup Permutations(Emails) \cup Permutations(Googles)
=============================================================================
