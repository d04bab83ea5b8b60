--------------------------- MODULE MCTriggerLogic ---------------------------
EXTENDS TriggerLogic

CONSTANTS lamp, remote, power, on

When(device, controls, commands) ==
    [type |-> "device", device |-> device, controls |-> controls,
     measurements |-> Nothing, commands |-> commands]
Are == power :> on

MCSources == {[type |-> "cron"], When(lamp, Are, Nothing), When(remote, Nothing, Are)}
=============================================================================
