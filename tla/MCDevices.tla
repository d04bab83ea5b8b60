------------------------------ MODULE MCDevices ------------------------------
(* Instances of Devices for model checking. *)
EXTENDS Devices, TLC

CONSTANTS a, b, m, v1, v2

Strict(item) == [strict |-> TRUE, item |-> item]
Item(x, y, z) == (a :> x) @@ (b :> y) @@ (m :> z)

\* Both controls, one with a default, and the measurement.
All == Strict(Item(Null, v1, Null))
\* One control less.
Fewer == Strict(Item(Null, Undeclared, Null))
\* No controls section, and a default for the measurement.
Sensor == Strict(Item(Undeclared, Undeclared, v1))

\* Nothing declared is nothing refused.
Lenient == [strict |-> FALSE, item |-> Item(Null, Undeclared, Undeclared)]

SomeConfigs == {All, Fewer, Sensor, Lenient}

\* Handlers and keys are interchangeable: sound, as no run checks liveness.
Symmetry == Permutations(Procs) \cup Permutations(CKeys)
=============================================================================
