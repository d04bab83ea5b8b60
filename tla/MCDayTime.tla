------------------------------ MODULE MCDayTime ------------------------------
(***************************************************************************)
(* An instance of DayTime for TLC: what is stored at boot and what users   *)
(* submit while handlers take turns.                                       *)
(***************************************************************************)
EXTENDS DayTime, TLC

Doc(n, g, a, r, t) == [name |-> n, group |-> g, active |-> a, repeat |-> r, trig |-> t]
Change(f) == f @@ KeepAll

\* Sequential administration: one handler at a time, every kind of request.
SeqBoot == {Doc(n, None, TRUE, Unset, "cron") : n \in Names}
SeqCreations == {Doc(n, g, TRUE, 2, "cron") : n \in Names, g \in Groups}
           \cup {Doc(n, None, TRUE, Unset, "both") : n \in Names}
           \cup {Doc(n, None, a, Unset, "bad") : n \in Names, a \in BOOLEAN}
SeqUpdates == {Change([name |-> n]) : n \in Names}
         \cup {Change([group |-> g]) : g \in Groups}
         \cup {Change([active |-> a]) : a \in {"on", "off"}}
         \cup {Change([trig |-> "bad"])}
         \cup {Change([name |-> n, active |-> "on"]) : n \in Names}

\* Ids, names and handlers are interchangeable: sound for the runs that check no
\* liveness.
Symmetry == Permutations(Ids) \cup Permutations(Names) \cup Permutations(Procs)
=============================================================================
