------------------------------- MODULE GrpcRead -------------------------------
(***************************************************************************)
(* The gRPC read handler (src/grpc/server.go, Server.Read): a goroutine   *)
(* runs api.Read, which iterates the backend's frame iterator and sends   *)
(* every frame on the unbuffered channel ch, stores the iterator's error  *)
(* in apiError and closes ch; the handler ranges over ch, converts each   *)
(* frame with frameMessage (src/grpc/marshal.go) and sends it on the gRPC *)
(* stream, returning at the first error, or apiError once ch is closed.  *)
(*                                                                         *)
(* A frame is a record of its data column names, its columns by name,  *)
(* its index columns and its labels; a column is a slice column (one     *)
(* value per row), a label column (one value and a length) or another    *)
(* implementation of frames.Column.  frameMessage is modelled by what it *)
(* builds: the protobuf Frame of the columns and indices, with the       *)
(* timestamps converted by TimestampProto, which fails outside the range *)
(* of the protobuf Timestamp.  stream.Send fails when the client has     *)
(* gone away.                                                            *)
(***************************************************************************)
EXTENDS Integers, Sequences

CONSTANTS
    Frames,             \* the frames a backend iterator may yield
    MaxFrames,          \* bound on the number of frames the backend yields
    MinValidSeconds,    \* first second a protobuf Timestamp represents
    MaxValidSeconds     \* first second past the range of a protobuf Timestamp

ASSUME GrpcAssumption ==
    /\ MaxFrames \in Nat
    /\ MinValidSeconds \in Int /\ MaxValidSeconds \in Int

VARIABLES
    frames,     \* the frames of the backend iterator, in order
    iterErr,    \* the backend iterator ends with an error
    ppc,        \* the api.Read goroutine: "iter", "send" (blocked in ch <- frame), "done"
    pi,         \* frames the goroutine has taken from the iterator
    apiError,   \* the goroutine's apiError
    chClosed,   \* ch has been closed (defer close(ch))
    cpc,        \* the handler: "recv" (in range ch), "got" (holding a frame), "returned"
    held,       \* the frame the handler received last
    stream,     \* the protobuf frames sent on the gRPC stream, in order
    result      \* what Server.Read returned

vars == <<frames, iterErr, ppc, pi, apiError, chClosed, cpc, held, stream, result>>

Results == {"none", "nil", "marshalErr", "sendErr", "apiErr"}

-----------------------------------------------------------------------------
(* src/grpc/marshal.go.  A time.Time is [sec, nsec] as Go keeps it, with *)
(* nsec in 0..10^9-1.                                                    *)

(* ptypes.TimestampProto: the seconds and nanoseconds of the time; it    *)
(* fails when the seconds are outside the Timestamp's range.             *)
TimestampProtoFails(t) ==
    t.sec < MinValidSeconds \/ t.sec >= MaxValidSeconds

(* Mutant: the nanoseconds dropped.                                      *)
TimestampProtoSecondsOnly(t) == [seconds |-> t.sec, nanos |-> 0]

TimestampProto(t) == [seconds |-> t.sec, nanos |-> t.nsec]

(* pbSliceCol: the values go to the array of the column's DType; every   *)
(* timestamp is converted, and the first failure is returned.            *)
pbSliceColFails(c) ==
    c.dtype = "time" /\ \E i \in DOMAIN c.vals : TimestampProtoFails(c.vals[i])

TypedArray(c, d) ==
    IF c.dtype # d THEN << >>
    ELSE IF d = "time" THEN [i \in DOMAIN c.vals |-> TimestampProto(c.vals[i])]
    ELSE c.vals

pbSliceCol(c) ==
    [name |-> c.name, ints |-> TypedArray(c, "int"), floats |-> TypedArray(c, "float"),
     strings |-> TypedArray(c, "string"), times |-> TypedArray(c, "time"),
     bools |-> TypedArray(c, "bool")]

(* pbLabelCol: name, size and DType name; the value (the column's value  *)
(* at 0) only when the size is positive, a time converted.               *)
pbLabelColFails(c) ==
    c.size > 0 /\ c.dtype = "time" /\ TimestampProtoFails(c.vals[1])

pbLabelCol(c) ==
    [name |-> c.name, size |-> c.size, dtype |-> c.dtype,
     value |-> IF c.size = 0 THEN "unset"
               ELSE IF c.dtype = "time" THEN TimestampProto(c.vals[1])
               ELSE c.vals[1]]

(* columnMessage: a slice or a label column; any other implementation of *)
(* frames.Column is an error.                                            *)
columnMessageFails(c) ==
    \/ c.kind \notin {"slice", "label"}
    \/ c.kind = "slice" /\ pbSliceColFails(c)
    \/ c.kind = "label" /\ pbLabelColFails(c)

columnMessage(c) ==
    IF c.kind = "slice" THEN [slice |-> pbSliceCol(c)] ELSE [label |-> pbLabelCol(c)]

(* frameMessage: every data column (frame.Column may fail for a name),   *)
(* then every index column; the frame's labels are not part of the      *)
(* message.                                                              *)
frameMessageFails(f) ==
    \/ \E i \in DOMAIN f.names :
          f.names[i] \notin DOMAIN f.cols \/ columnMessageFails(f.cols[f.names[i]])
    \/ \E i \in DOMAIN f.indices : columnMessageFails(f.indices[i])

frameMessage(f) ==
    [columns |-> [i \in DOMAIN f.names |-> columnMessage(f.cols[f.names[i]])],
     indices |-> [i \in DOMAIN f.indices |-> columnMessage(f.indices[i])]]

-----------------------------------------------------------------------------
Init ==
    /\ frames \in UNION {[1..n -> Frames] : n \in 0..MaxFrames}
    /\ iterErr \in BOOLEAN
    /\ ppc = "iter"
    /\ pi = 0
    /\ apiError = "nil"
    /\ chClosed = FALSE
    /\ cpc = "recv"
    /\ held = 0
    /\ stream = <<>>
    /\ result = "none"

(* Mutant: the iterator's end not checked before the send.             *)
ProducerNextUnbounded ==
    /\ ppc = "iter"
    /\ pi' = pi + 1
    /\ ppc' = "send"
    /\ UNCHANGED <<frames, iterErr, apiError, chClosed, cpc, held, stream, result>>

(* api.Read: the backend iterator's Next returns true, and the goroutine *)
(* goes on to send its frame.                                            *)
ProducerNext ==
    /\ ppc = "iter"
    /\ pi < Len(frames)
    /\ pi' = pi + 1
    /\ ppc' = "send"
    /\ UNCHANGED <<frames, iterErr, apiError, chClosed, cpc, held, stream, result>>

(* Mutant: the goroutine returns without closing ch.                     *)
ProducerReturnNoClose ==
    /\ ppc = "iter"
    /\ pi = Len(frames)
    /\ apiError' = IF iterErr THEN "err" ELSE "nil"
    /\ ppc' = "done"
    /\ UNCHANGED <<frames, iterErr, pi, chClosed, cpc, held, stream, result>>

(* The iterator's Next returns false: api.Read returns iter.Err(), which *)
(* the goroutine stores in apiError before its deferred close(ch).       *)
ProducerReturn ==
    /\ ppc = "iter"
    /\ pi = Len(frames)
    /\ apiError' = IF iterErr THEN "err" ELSE "nil"
    /\ ppc' = "done"
    /\ chClosed' = TRUE
    /\ UNCHANGED <<frames, iterErr, pi, cpc, held, stream, result>>

(* The unbuffered channel hands the frame from the goroutine's send to   *)
(* the handler's range.                                                  *)
Handoff ==
    /\ ppc = "send"
    /\ cpc = "recv"
    /\ ppc' = "iter"
    /\ cpc' = "got"
    /\ held' = pi
    /\ UNCHANGED <<frames, iterErr, pi, apiError, chClosed, stream, result>>

(* Mutant: the handler returns nil once ch is closed.                    *)
RangeEndNil ==
    /\ cpc = "recv"
    /\ chClosed
    /\ cpc' = "returned"
    /\ result' = "nil"
    /\ UNCHANGED <<frames, iterErr, ppc, pi, apiError, chClosed, held, stream>>

(* The range ends on the closed channel: return apiError.                *)
RangeEnd ==
    /\ cpc = "recv"
    /\ chClosed
    /\ cpc' = "returned"
    /\ result' = IF apiError = "err" THEN "apiErr" ELSE "nil"
    /\ UNCHANGED <<frames, iterErr, ppc, pi, apiError, chClosed, held, stream>>

(* Mutant: frameMessage's error not checked before stream.Send.          *)
SendFrameUnchecked ==
    /\ cpc = "got"
    /\ \/ /\ result' = "sendErr"
          /\ cpc' = "returned"
          /\ UNCHANGED stream
       \/ /\ stream' = Append(stream, frameMessage(frames[held]))
          /\ cpc' = "recv"
          /\ UNCHANGED result
    /\ UNCHANGED <<frames, iterErr, ppc, pi, apiError, chClosed, held>>

(* The loop body: frameMessage, then stream.Send; either error is        *)
(* returned at once.                                                     *)
SendFrame ==
    /\ cpc = "got"
    /\ \/ /\ frameMessageFails(frames[held])
          /\ result' = "marshalErr"
          /\ cpc' = "returned"
          /\ UNCHANGED stream
       \/ /\ ~frameMessageFails(frames[held])
          /\ result' = "sendErr"
          /\ cpc' = "returned"
          /\ UNCHANGED stream
       \/ /\ ~frameMessageFails(frames[held])
          /\ stream' = Append(stream, frameMessage(frames[held]))
          /\ cpc' = "recv"
          /\ UNCHANGED result
    /\ UNCHANGED <<frames, iterErr, ppc, pi, apiError, chClosed, held>>

Producer == ProducerNext \/ ProducerReturn

Handler == Handoff \/ RangeEnd \/ SendFrame

Next == Producer \/ Handler

(* Both goroutines are scheduled by the Go runtime; a Send returns or    *)
(* fails.                                                                *)
Spec == Init /\ [][Next]_vars /\ WF_vars(Producer) /\ WF_vars(Handler)

-----------------------------------------------------------------------------
(* Every variable has its type.                                          *)
TypeOK ==
    /\ frames \in Seq(Frames) /\ Len(frames) <= MaxFrames
    /\ iterErr \in BOOLEAN
    /\ ppc \in {"iter", "send", "done"}
    /\ pi \in 0..Len(frames)
    /\ apiError \in {"nil", "err"}
    /\ chClosed \in BOOLEAN
    /\ cpc \in {"recv", "got", "returned"}
    /\ held \in 0..Len(frames)
    /\ stream \in Seq({frameMessage(f) : f \in Frames}) /\ Len(stream) <= Len(frames)
    /\ result \in Results

(* Server.Read returns nil only when the client has been sent every      *)
(* frame of the backend, in order, and the backend's iterator ended      *)
(* without error: an error the goroutine hands over through apiError is  *)
(* never lost, whatever the interleaving of the two goroutines.          *)
ReadResultHonest ==
    cpc = "returned" /\ result = "nil" =>
        /\ stream = [i \in 1..Len(frames) |-> frameMessage(frames[i])]
        /\ ~iterErr

(* The client's view of a message, after the RPC mapping of the spec    *)
(* (section 6): a slice column's DType is the one of its non-empty typed *)
(* array, a timestamp is time.Unix(seconds, nanos).                      *)
DTypes == {"int", "float", "string", "time", "bool"}

ArrayOf(s, d) ==
    CASE d = "int" -> s.ints [] d = "float" -> s.floats [] d = "string" -> s.strings
      [] d = "time" -> s.times [] d = "bool" -> s.bools

TimeOf(ts) == [sec |-> ts.seconds, nsec |-> ts.nanos]

DecodeColumn(m) ==
    IF "slice" \in DOMAIN m
    THEN LET ds == {d \in DTypes : ArrayOf(m.slice, d) # << >>}
             d  == IF ds = {} THEN "unknown" ELSE CHOOSE x \in ds : TRUE
             vs == IF ds = {} THEN << >> ELSE ArrayOf(m.slice, d)
         IN  [kind |-> "slice", name |-> m.slice.name, dtype |-> d, size |-> Len(vs),
              vals |-> IF d = "time" THEN [i \in DOMAIN vs |-> TimeOf(vs[i])] ELSE vs]
    ELSE [kind |-> "label", name |-> m.label.name, dtype |-> m.label.dtype,
          size |-> m.label.size,
          vals |-> IF m.label.size = 0 THEN << >>
                   ELSE IF m.label.dtype = "time" THEN <<TimeOf(m.label.value)>>
                   ELSE <<m.label.value>>]

DecodeFrame(m) ==
    [columns |-> [i \in DOMAIN m.columns |-> DecodeColumn(m.columns[i])],
     indices |-> [i \in DOMAIN m.indices |-> DecodeColumn(m.indices[i])]]

(* The columns the frames package builds (spec section 2): a column's    *)
(* DType is one of the five; its values form a sequence, a time being    *)
(* Go's seconds and nanoseconds; a materialized (slice) column's length *)
(* is its array's size, a broadcast (label) column holds one value.      *)
NanosPerSecond == 1000 * 1000 * 1000

Times == [sec : Int, nsec : 0..(NanosPerSecond - 1)]

WellFormedColumn(c) ==
    /\ c.dtype \in DTypes
    /\ Len(c.vals) \in Nat /\ c.vals = [i \in 1..Len(c.vals) |-> c.vals[i]]
    /\ c.dtype = "time" => \A i \in DOMAIN c.vals : c.vals[i] \in Times
    /\ c.kind = "slice" => c.size = Len(c.vals)
    /\ c.kind = "label" => Len(c.vals) = 1

WellFormedFrames ==
    \A f \in Frames :
        /\ \A n \in DOMAIN f.cols : WellFormedColumn(f.cols[n])
        /\ \A i \in DOMAIN f.indices : WellFormedColumn(f.indices[i])

(* What a reader of a column can observe: nothing of a label column of  *)
(* size 0 but its name and DType, and no DType of an empty slice column, *)
(* whose message has every typed array empty.                            *)
Observable(c) ==
    [kind |-> c.kind, name |-> c.name, size |-> c.size,
     dtype |-> IF c.kind = "slice" /\ c.vals = << >> THEN "unknown" ELSE c.dtype,
     vals |-> IF c.size = 0 THEN << >> ELSE c.vals]

FrameContent(f) ==
    [columns |-> [i \in DOMAIN f.names |-> Observable(f.cols[f.names[i]])],
     indices |-> [i \in DOMAIN f.indices |-> Observable(f.indices[i])]]

(* The j-th message the client receives decodes to the j-th frame of     *)
(* the backend: its data columns in order, its index columns, every      *)
(* variant, DType, value and length, timestamps to the nanosecond.  This *)
(* couples the ordering of the two goroutines (the handler sends the    *)
(* frame it received, in the order api.Read produced them) with the      *)
(* losslessness of frameMessage.  Labels are not compared: the message  *)
(* has no field for them.                                                *)
StreamRoundTrip ==
    \A j \in 1..Len(stream) : DecodeFrame(stream[j]) = FrameContent(frames[j])

(* The read path's promise (ReadStream): hiding the goroutine, the       *)
(* channel and the frame the handler holds, the stream grows by the      *)
(* message of the next backend frame, in order, and Server.Read returns  *)
(* a marshal or send error at that frame or, with every frame sent, the  *)
(* iterator's error, and it does return.                                 *)
RS == INSTANCE ReadStream WITH Message <- frameMessage, Unconvertible <- frameMessageFails

ReadStreamSpec == RS!Spec

(* Server.Read always returns.                                           *)
ReadReturns ==
    <>(cpc = "returned")

(* The api.Read goroutine always finishes, so the backend iterator it     *)
(* holds is released, whatever the handler did.                          *)
ProducerTerminates ==
    <>(ppc = "done")

=============================================================================
