----------------------------- MODULE MCScenarios -----------------------------
(***************************************************************************)
(* Instances of Scenarios for TLC: what is stored at boot and what users   *)
(* submit in each run.                                                     *)
(***************************************************************************)
EXTENDS Scenarios, TLC

Doc(n, g, a, r, t) == [name |-> n, group |-> g, active |-> a, repeat |-> r, trig |-> t]
Change(f) == f @@ KeepAll

\* One handler at a time and group purges: a third id for those left behind.
SeqBoot == {Doc(n, None, TRUE, Unset, "cron") : n \in Names}
PurgeCreations == {Doc(n, g, TRUE, Unset, "cron") : n \in Names, g \in Groups}
             \cup {Doc(n, None, FALSE, Unset, "cron") : n \in Names}
PurgeUpdates == {Change([name |-> n]) : n \in Names}
           \cup {Change([active |-> a]) : a \in {"on", "off"}}
           \cup {Change([group |-> g]) : g \in Groups}
           \cup {Change([trig |-> t]) : t \in {"cron", "device"}}
           \cup {Change([name |-> n, active |-> "on"]) : n \in Names}

\* Ids, names and handlers are interchangeable: sound for the runs that check no
\* liveness.
Symmetry == Permutations(Ids) \cup Permutations(Names) \cup Permutations(Procs)

\* Concurrent executions of scenarios without a group, while users remove
\* scenarios, switch them off or blank their repeatTimes.
RunBoot == {Doc(n, None, TRUE, r, t) : n \in Names, r \in {Unset, 2}, t \in {"cron", "both"}}
RunUpdates == {Change([active |-> "off"]), Change([repeat |-> Null])}

\* No handler of this run reaches a position where it adds, rolls back or has a group
\* to look after (HandlerCalm, a part of CalmInv), so the steps from there are left out.
CalmContinue(p) ==
  \/ ReadCounted(p) \/ SaveUpdate(p) \/ Reschedule(p) \/ Delete(p) \/ Unschedule(p)
  \/ \E e \in proc[p].queue : Execute(p, e) \/ SkipExecution(p, e)
CalmNext == Restart \/ \E p \in Procs : Start(p) \/ CalmContinue(p)
CalmSpec == Init /\ [][CalmNext]_vars
=============================================================================
