----------------------------- MODULE MCAutomation -----------------------------
(***************************************************************************)
(* Instances of Automation for TLC: a lamp and a fan, and scenarios that   *)
(* update each other's devices, wait for both, or wait for a command.      *)
(***************************************************************************)
EXTENDS Automation

CONSTANTS s1, s2, lamp, fan

On(d) == [kind |-> "controls", dev |-> d, is |-> "on"]
Off(d) == [kind |-> "controls", dev |-> d, is |-> "off"]
Cron == [kind |-> "cron", dev |-> lamp, is |-> "on"]
Press(d) == [kind |-> "command", dev |-> d, is |-> "on"]
R(sources, logic, d, v) == [sources |-> sources, logic |-> logic, actions |-> {[dev |-> d, val |-> v]}]
Both(r1, r2) == [n \in Names |-> IF n = s1 THEN r1 ELSE r2]

\* An action that sets measurements only asks for nothing.
Mute(sources, logic) == [sources |-> sources, logic |-> logic, actions |-> {}]
Home(r1, r2, inputs) == [rules |-> [n \in Names |-> IF n = s1 THEN r1 ELSE r2], calls |-> inputs]
C(kind, d, v) == [kind |-> kind, dev |-> d, val |-> v]

\* Each scenario switches on the device the other one watches.
PingPong == Home(R(<<On(lamp)>>, "AND", fan, "on"), R(<<On(fan)>>, "AND", lamp, "on"),
                 {C("update", lamp, "on"), C("update", lamp, "off"), C("refuse", fan, Same)})
\* A scenario watches two devices.
Meeting == Home(R(<<On(lamp), On(fan)>>, "AND", lamp, "off"), R(<<On(lamp)>>, "AND", fan, "on"),
                {C("update", lamp, "on"), C("update", fan, "off")})
\* A schedule that counts down, its actions set measurements only.
Countdown == Home(Mute(<<Cron>>, "AND"), Mute(<<Cron>>, "AND"), {})
\* A schedule with an alternative, whose action another scenario waits for.
Ticking == Home(R(<<On(fan), On(lamp)>>, "OR", lamp, "on"), R(<<Cron>>, "AND", fan, "on"), {})
\* A switch whose messages hold its state, too, and a device that is removed.
Pressed == Home(R(<<Press(lamp), Off(fan)>>, "AND", fan, "on"),
                Mute(<<On(lamp)>>, "AND"),
                {C("command", lamp, Same), C("command", lamp, "on"), C("remove", fan, Same)})

Doc(n, r, t) == [name |-> n, group |-> None, active |-> TRUE, repeat |-> r, trig |-> t]
Boot == {Doc(n, r, t) : n \in Names, r \in {1, 2, MaxRepeat}, t \in {"cron", "both", "device"}}
   \cup {Doc(n, Unset, "device") : n \in Names}
MCHomes == {PingPong, Meeting, Countdown, Ticking, Pressed}

\* Ids are interchangeable: one naming of the documents stands for all.
MCInit ==
  /\ AutoInit
  /\ \A d \in Devices : stored[d] = "off"
  /\ \A i \in Ids : scenarios[i] # None /\ scenarios[i].name = i
  /\ <<home, scenarios[s1].repeat, scenarios[s2].repeat>> \in
       {<<PingPong, Unset, Unset>>, <<PingPong, 2, 2>>, <<Meeting, Unset, Unset>>,
        <<Countdown, 2, MaxRepeat>>, <<Ticking, 1, 2>>, <<Pressed, Unset, Unset>>}
MCSpec == MCInit /\ [][AutoNext]_autoVars /\ AutoFairness
=============================================================================
