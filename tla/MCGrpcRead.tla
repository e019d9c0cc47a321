------------------------------ MODULE MCGrpcRead ------------------------------
(***************************************************************************)
(* GrpcRead with backends of up to three frames drawn from four: a frame  *)
(* of every column variant with a sub-second time index, a frame with an *)
(* empty column, a frame with a timestamp past the protobuf range, and a *)
(* frame whose only out-of-range time is the value of a label column of  *)
(* size 0, which pbLabelCol never converts.  The Timestamp range is      *)
(* scaled down to seconds -1..1.                                         *)
(***************************************************************************)
EXTENDS GrpcRead

T(s, ns) == [sec |-> s, nsec |-> ns]

Slice(n, d, vs) == [kind |-> "slice", name |-> n, dtype |-> d, vals |-> vs, size |-> Len(vs)]

Label(n, d, v, k) == [kind |-> "label", name |-> n, dtype |-> d, vals |-> <<v>>, size |-> k]

FrameAll ==
    [names   |-> <<"x", "host">>,
     cols    |-> [c \in {"x", "host"} |->
                    IF c = "x" THEN Slice("x", "int", <<1, 2>>) ELSE Label("host", "string", "h", 2)],
     indices |-> <<Slice("time", "time", <<T(0, 5), T(-1, 0)>>)>>,
     labels  |-> [l \in {"host"} |-> "h"]]

FrameEmpty ==
    [names   |-> <<"y">>,
     cols    |-> [c \in {"y"} |-> Slice("y", "float", << >>)],
     indices |-> << >>,
     labels  |-> [l \in {} |-> "none"]]

FrameFar ==
    [names   |-> <<"t">>,
     cols    |-> [c \in {"t"} |-> Slice("t", "time", <<T(0, 0), T(1, 0)>>)],
     indices |-> << >>,
     labels  |-> [l \in {} |-> "none"]]

FrameFarLabel ==
    [names   |-> <<"t">>,
     cols    |-> [c \in {"t"} |-> Label("t", "time", T(1, 0), 0)],
     indices |-> << >>,
     labels  |-> [l \in {} |-> "none"]]

MCFrames == {FrameAll, FrameEmpty, FrameFar, FrameFarLabel}

MCMaxFrames == 3

(* The frames of the instance are frames the frames package can build.  *)
ASSUME MCFramesWellFormed == WellFormedFrames

MCMinValidSeconds == -1

MCMaxValidSeconds == 1

=============================================================================
