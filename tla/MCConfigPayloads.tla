-------------------------- MODULE MCConfigPayloads --------------------------
EXTENDS ScenarioPayloads

Item(name, path, type, values, constraints, default) ==
    [name |-> name, path |-> path, type |-> type, values |-> values,
     constraints |-> constraints, default |-> default, required |-> FALSE]
RequiredItem(name, type, values) ==
    [Item(name, Absent, type, values, {}, Null) EXCEPT !.required = TRUE]
Entry(name, path) == [name |-> name, path |-> path]

\* A switch that says ON and OFF, one whose contacts are the other way round, the
\* buttons of a remote, modes with and without a text of their own, and a value
\* without a name.
Switch == <<Entry("true", "ON"), Entry("false", "OFF")>>
Inverted == <<Entry("true", "false"), Entry("false", "true")>>
Buttons == <<Entry("true", "up"), Entry("false", "down")>>
Modes == <<Entry("1", "ON"), Entry("false", Absent), Entry(Absent, "OFF")>>

MCRawItems ==
    {Item(n, p, "boolean", v, {}, Bool(TRUE)) :
        n \in {"on", "mode"}, p \in {Absent, "state"}, v \in {<<>>, Switch, Inverted, Buttons}}
    \cup {Item(n, p, "enum", v, {}, Text("OFF")) :
        n \in {"on", "mode"}, p \in {Absent, "state"}, v \in {<<>>, Modes}}
    \cup {Item("mode", p, t, <<>>, {"integer", "format"}, d) :
        p \in {Absent, "state"}, t \in {"number", "string"}, d \in {Value("number", "1.5"), Text("1.5")}}
    \cup {Item("on", Absent, "object", <<>>, {}, Null), Item("on", Absent, "toggle", Switch, {}, Null),
          Item(Absent, "state", "boolean", Switch, {}, Null),
          Item("mode", "on", "boolean", Switch, {}, Bool(TRUE)),
          RequiredItem("on", "boolean", Switch), RequiredItem("mode", "number", <<>>)}

MCValues == {Null, Bool(TRUE), Bool(FALSE), Value("number", "1"), Value("number", "1.5"),
             Text("1"), Text("ON"), Text("OFF"), Text("up"), Text("down"), Text("false"), Value("object", "[object Object]")}
\* DeviceControlsDto has on a boolean; a brand with texts of its own for mode.
MCBrandRefused ==
    {[name |-> "on", value |-> v] : v \in {w \in MCValues : w.type \notin {"boolean", "null"}}}
    \cup {[name |-> "mode", value |-> v] : v \in {Text("1.5"), Text("OFF"), Bool(FALSE), Value("number", "1.5")}}
MCRefused == [c \in {"min", "max", "integer", "minLength", "maxLength", "pattern", "format"} |->
                 CASE c = "integer" -> {"1.5"} [] c = "format" -> {"OFF"} [] OTHER -> {}]
=============================================================================
