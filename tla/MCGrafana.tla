------------------------------ MODULE MCGrafana -------------------------------
(***************************************************************************)
(* Small instance of Grafana: frames of a tsdb and of a kv read with NaN  *)
(* values, label columns, two labels (so that their map order matters),   *)
(* an empty frame and a pre-1970 timestamp; query lines that select every *)
(* metric, named metrics, a label column, a backend or nothing at all.    *)
(***************************************************************************)
EXTENDS Grafana

V(t, x) == [t |-> t, v |-> x]

Tm(ns) == [t |-> "time", v |-> ns]

Col(dt, vs) == [dtype |-> dt, vals |-> vs]

(* A tsdb frame of one host: cpu with a NaN, one row before 1970.       *)
FrameHost ==
    [names  |-> <<"cpu">>,
     cols   |-> ("cpu" :> Col("float", <<V("float", "1.5"), V("float", "NaN")>>)),
     index  |-> ("time" :> Col("time", <<Tm(1500000), Tm(-1500000)>>)),
     labels |-> ("host" :> "h1"),
     rows   |-> 2]

(* A tsdb frame with two labels, one of them also a label column.       *)
FrameHostDC ==
    [names  |-> <<"mem", "host", "cpu">>,
     cols   |-> ("mem" :> Col("int", <<V("int", "1"), V("int", "2")>>))
                @@ ("host" :> Col("string", <<V("string", "h1"), V("string", "h1")>>))
                @@ ("cpu" :> Col("float", <<V("float", "NaN"), V("float", "2.5")>>)),
     index  |-> ("time" :> Col("time", <<Tm(2000000), Tm(3000000)>>)),
     labels |-> ("host" :> "h1") @@ ("dc" :> "d1"),
     rows   |-> 2]

(* An empty frame.                                                       *)
FrameEmpty ==
    [names  |-> <<"cpu">>,
     cols   |-> ("cpu" :> Col("float", <<>>)),
     index  |-> ("time" :> Col("time", <<>>)),
     labels |-> ("host" :> "h1") @@ ("dc" :> "d1"),
     rows   |-> 0]

(* A kv frame: no labels, no time index.                                 *)
FrameKV ==
    [names  |-> <<"cpu", "mem">>,
     cols   |-> ("cpu" :> Col("float", <<V("float", "NaN")>>))
                @@ ("mem" :> Col("bool", <<V("bool", "true")>>)),
     index  |-> [c \in {} |-> Col("string", <<>>)],
     labels |-> [l \in {} |-> "none"],
     rows   |-> 1]

MCFrames == {FrameHost, FrameHostDC, FrameEmpty, FrameKV}

Item(key, val) == [key |-> key, val |-> val]

MCTargetLines ==
    { <<Item("backend", "kv"), Item("fields", <<"*">>)>>,
      <<Item("fields", <<"cpu", "mem">>)>>,
      <<Item("backend", "tsdb"), Item("fields", <<"cpu", "host">>)>>,
      <<Item("table_name", "t"), Item("other", "x")>>,
      <<Item("backend", "stream")>> }

MCNameOrder == <<"cpu", "host", "mem">>

MCMaxFrames == 2

MCMaxTargets == 2

=============================================================================
