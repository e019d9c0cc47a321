--------------------------- MODULE GrpcReadProofs ----------------------------
(***************************************************************************)
(* Proofs about the gRPC read handler (GrpcRead): type correctness, that *)
(* Server.Read returns nil only after the message of every frame of a    *)
(* cleanly ended iteration was sent, in order, and that every message    *)
(* sent decodes to its frame, for every set of frames and every bound.  *)
(* The first two keep the messages opaque; the last rests on what        *)
(* frameMessage builds and on the shape of the frames package's columns. *)
(***************************************************************************)
EXTENDS GrpcRead, TLAPS

(* Frames taken from the iterator and handed to the handler: all but the *)
(* one the goroutine is blocked sending.                                 *)
Handed == IF ppc = "send" THEN pi - 1 ELSE pi

(* The goroutine: a blocked send holds a frame taken from the iterator;  *)
(* ch is closed exactly when it finished, with the iterator drained and  *)
(* apiError set from it.                                                 *)
ProducerInv ==
    /\ ppc = "send" => pi >= 1
    /\ chClosed <=> ppc = "done"
    /\ ppc = "done" => pi = Len(frames)
    /\ apiError = IF ppc = "done" /\ iterErr THEN "err" ELSE "nil"

(* The handler: every frame handed over has been sent, except the one it *)
(* holds; the stream is the messages of the first frames, in order.      *)
HandlerInv ==
    /\ cpc = "recv" => Len(stream) = Handed
    /\ cpc = "got" => held = Handed /\ held >= 1 /\ Len(stream) = held - 1
    /\ \A i \in 1..Len(stream) : stream[i] = frameMessage(frames[i])

(* A result is set exactly when the handler returned, and nil only with  *)
(* every frame sent and a clean end of the iterator.                     *)
ResultInv ==
    /\ result # "none" <=> cpc = "returned"
    /\ result = "nil" => Len(stream) = Len(frames) /\ ~iterErr

(* The inductive invariant.                                               *)
IInv ==
    /\ TypeOK
    /\ ProducerInv
    /\ HandlerInv
    /\ ResultInv

-----------------------------------------------------------------------------
(* The initial state satisfies the inductive invariant.                  *)
LEMMA InitIInv == Init => IInv
  <1> SUFFICES ASSUME Init PROVE IInv
    OBVIOUS
  <1>1. frames \in Seq(Frames) /\ Len(frames) <= MaxFrames
    <2>1. PICK n \in 0..MaxFrames : frames \in [1..n -> Frames]
      BY DEF Init
    <2>2. QED
      BY <2>1, GrpcAssumption
  <1>2. << >> \in Seq({frameMessage(f) : f \in Frames})
    OBVIOUS
  <1>3. TypeOK
    <2>1. pi \in 0..Len(frames) /\ held \in 0..Len(frames) /\ Len(stream) <= Len(frames)
      BY <1>1 DEF Init
    <2>2. stream \in Seq({frameMessage(f) : f \in Frames})
      BY <1>2 DEF Init
    <2>3. QED
      BY <1>1, <2>1, <2>2 DEF Init, TypeOK, Results
  <1>4. QED
    BY <1>3 DEF Init, IInv, ProducerInv, HandlerInv, ResultInv, Handed

(* Every action keeps the inductive invariant; one step per action.      *)
LEMMA NextIInv == IInv /\ [Next]_vars => IInv'
  <1> SUFFICES ASSUME IInv, [Next]_vars PROVE IInv'
    OBVIOUS
  <1> USE DEF IInv, TypeOK, ProducerInv, HandlerInv, ResultInv, Handed, Results
  <1>1. CASE ProducerNext
    BY <1>1 DEF ProducerNext
  <1>2. CASE ProducerReturn
    BY <1>2 DEF ProducerReturn
  <1>3. CASE Handoff
    BY <1>3 DEF Handoff
  <1>4. CASE RangeEnd
    BY <1>4 DEF RangeEnd
  <1>5. CASE SendFrame
    <2>1. held \in 1..Len(frames) /\ frames[held] \in Frames
      BY <1>5 DEF SendFrame
    <2>2. CASE frameMessageFails(frames[held]) /\ result' = "marshalErr"
                /\ cpc' = "returned" /\ UNCHANGED stream
      BY <1>5, <2>2 DEF SendFrame
    <2>3. CASE ~frameMessageFails(frames[held]) /\ result' = "sendErr"
                /\ cpc' = "returned" /\ UNCHANGED stream
      BY <1>5, <2>3 DEF SendFrame
    <2>4. CASE ~frameMessageFails(frames[held])
                /\ stream' = Append(stream, frameMessage(frames[held]))
                /\ cpc' = "recv" /\ UNCHANGED result
      <3>1. frameMessage(frames[held]) \in {frameMessage(f) : f \in Frames}
        BY <2>1
      <3>2. \A i \in 1..Len(stream') : stream'[i] = frameMessage(frames[i])
        BY <1>5, <2>1, <2>4 DEF SendFrame
      <3>3. QED
        BY <1>5, <2>1, <2>4, <3>1, <3>2 DEF SendFrame
    <2>5. QED
      BY <1>5, <2>2, <2>3, <2>4 DEF SendFrame
  <1>6. CASE UNCHANGED vars
    BY <1>6 DEF vars
  <1>7. QED
    BY <1>1, <1>2, <1>3, <1>4, <1>5, <1>6 DEF Next, Producer, Handler

(* The inductive invariant holds in every reachable state.               *)
LEMMA AlwaysIInv == Spec => []IInv
  BY InitIInv, NextIInv, PTL DEF Spec

(* Every variable of Server.Read's model keeps its type: in particular   *)
(* the handler only ever holds, and marshals, a frame the iterator       *)
(* produced, and sends no more messages than there are frames.           *)
THEOREM TypeCorrect == Spec => []TypeOK
  BY AlwaysIInv, PTL DEF IInv

(* Server.Read returns nil only when the message of every frame of the   *)
(* backend was sent, in order, and the iterator ended without error, for *)
(* every interleaving of the api.Read goroutine and the handler.         *)
THEOREM ReadHonest == Spec => []ReadResultHonest
  <1>1. IInv => ReadResultHonest
    <2> SUFFICES ASSUME IInv, cpc = "returned", result = "nil"
                 PROVE  /\ stream = [i \in 1..Len(frames) |-> frameMessage(frames[i])]
                        /\ ~iterErr
      BY DEF ReadResultHonest
    <2>1. Len(stream) = Len(frames) /\ ~iterErr
      BY DEF IInv, ResultInv
    <2>2. stream \in Seq({frameMessage(f) : f \in Frames})
      BY DEF IInv, TypeOK
    <2>3. \A i \in 1..Len(stream) : stream[i] = frameMessage(frames[i])
      BY DEF IInv, HandlerInv
    <2>4. QED
      BY <2>1, <2>2, <2>3
  <1>2. QED
    BY <1>1, AlwaysIInv, PTL


-----------------------------------------------------------------------------
(* frameMessage loses nothing a reader can observe.                      *)

(* The typed arrays of pbSliceCol: the column's values, converted for    *)
(* timestamps, in the array of its DType, every other array empty.        *)
LEMMA SliceArrays ==
    ASSUME NEW c, NEW d \in DTypes
    PROVE  ArrayOf(pbSliceCol(c), d) = TypedArray(c, d)
  <1> DEFINE s == pbSliceCol(c)
  <1>1. d = "int" \/ d = "float" \/ d = "string" \/ d = "time" \/ d = "bool"
    BY DEF DTypes
  <1>2. CASE d = "int"
    <2>1. ArrayOf(s, d) = s.ints
      BY <1>2, Zenon DEF ArrayOf
    <2>2. QED
      BY <1>2, <2>1 DEF pbSliceCol
  <1>3. CASE d = "float"
    <2>1. ArrayOf(s, d) = s.floats
      BY <1>3, Zenon DEF ArrayOf
    <2>2. QED
      BY <1>3, <2>1 DEF pbSliceCol
  <1>4. CASE d = "string"
    <2>1. ArrayOf(s, d) = s.strings
      BY <1>4, Zenon DEF ArrayOf
    <2>2. QED
      BY <1>4, <2>1 DEF pbSliceCol
  <1>5. CASE d = "time"
    <2>1. ArrayOf(s, d) = s.times
      BY <1>5, Zenon DEF ArrayOf
    <2>2. QED
      BY <1>5, <2>1 DEF pbSliceCol
  <1>6. CASE d = "bool"
    <2>1. ArrayOf(s, d) = s.bools
      BY <1>6, Zenon DEF ArrayOf
    <2>2. QED
      BY <1>6, <2>1 DEF pbSliceCol
  <1>7. QED
    BY <1>1, <1>2, <1>3, <1>4, <1>5, <1>6

(* A timestamp converted by TimestampProto and back is the same time.    *)
LEMMA TimeRoundTrip ==
    ASSUME NEW t \in Times
    PROVE  TimeOf(TimestampProto(t)) = t
  <1>1. t = [sec |-> t.sec, nsec |-> t.nsec]
    BY DEF Times
  <1>2. QED
    BY <1>1 DEF TimeOf, TimestampProto

(* A slice column the frames package built and pbSliceCol converted     *)
(* decodes to what a reader observes of it.                              *)
LEMMA SliceRoundTrip ==
    ASSUME NEW c, WellFormedColumn(c), c.kind = "slice", ~pbSliceColFails(c)
    PROVE  DecodeColumn(columnMessage(c)) = Observable(c)
  <1> DEFINE s  == pbSliceCol(c)
             ds == {d \in DTypes : ArrayOf(s, d) # << >>}
             d0 == IF ds = {} THEN "unknown" ELSE CHOOSE x \in ds : TRUE
             vs == IF ds = {} THEN << >> ELSE ArrayOf(s, d0)
  <1>1. columnMessage(c) = [slice |-> s]
    BY DEF columnMessage
  <1>2. DecodeColumn([slice |-> s]) =
          [kind |-> "slice", name |-> s.name, dtype |-> d0, size |-> Len(vs),
           vals |-> IF d0 = "time" THEN [i \in DOMAIN vs |-> TimeOf(vs[i])] ELSE vs]
    BY DEF DecodeColumn
  <1>0. s.name = c.name
    BY DEF pbSliceCol
  <1>3. c.dtype \in DTypes /\ Len(c.vals) \in Nat /\ c.vals = [i \in 1..Len(c.vals) |-> c.vals[i]]
        /\ c.size = Len(c.vals)
    BY DEF WellFormedColumn
  <1>4. \A d \in DTypes : ArrayOf(s, d) = TypedArray(c, d)
    BY SliceArrays
  <1>5. CASE c.vals = << >>
    <2>1. \A d \in DTypes : TypedArray(c, d) = << >>
      BY <1>5 DEF TypedArray
    <2>2. ds = {}
      BY <1>4, <2>1
    <2>3. QED
      BY <1>0, <1>1, <1>2, <1>3, <1>5, <2>2 DEF Observable
  <1>6. CASE c.vals # << >>
    <2>1. Len(c.vals) # 0
      BY <1>3, <1>6
    <2>2. TypedArray(c, c.dtype) # << >> /\ \A d \in DTypes \ {c.dtype} : TypedArray(c, d) = << >>
      BY <1>3, <2>1 DEF TypedArray
    <2>3. ds = {c.dtype}
      BY <1>3, <1>4, <2>2
    <2>4. (CHOOSE x \in ds : TRUE) = c.dtype
      BY <2>3
    <2>5. CASE c.dtype = "time"
      <3>1. TypedArray(c, c.dtype) = [i \in DOMAIN c.vals |-> TimestampProto(c.vals[i])]
        BY <2>5 DEF TypedArray
      <3>2. \A i \in DOMAIN c.vals : TimeOf(TimestampProto(c.vals[i])) = c.vals[i]
        BY <2>5, TimeRoundTrip DEF WellFormedColumn
      <3>3. [i \in DOMAIN c.vals |-> TimeOf(TimestampProto(c.vals[i]))] = c.vals
        BY <1>3, <3>2
      <3>4. QED
        BY <1>0, <1>1, <1>2, <1>3, <1>4, <1>6, <2>1, <2>3, <2>4, <2>5, <3>1, <3>3 DEF Observable
    <2>6. CASE c.dtype # "time"
      <3>1. TypedArray(c, c.dtype) = c.vals
        BY <2>6 DEF TypedArray
      <3>2. QED
        BY <1>0, <1>1, <1>2, <1>3, <1>4, <1>6, <2>1, <2>3, <2>4, <2>6, <3>1 DEF Observable
    <2>7. QED
      BY <2>5, <2>6
  <1>7. QED
    BY <1>5, <1>6

(* A label column and its pbLabelCol message: name, DType, size, and    *)
(* the value when the size is positive.                                   *)
LEMMA LabelRoundTrip ==
    ASSUME NEW c, WellFormedColumn(c), c.kind = "label"
    PROVE  DecodeColumn(columnMessage(c)) = Observable(c)
  <1> DEFINE l == pbLabelCol(c)
  <1>1. columnMessage(c) = [label |-> l]
    BY DEF columnMessage
  <1>2. DecodeColumn([label |-> l]) =
          [kind |-> "label", name |-> l.name, dtype |-> l.dtype, size |-> l.size,
           vals |-> IF l.size = 0 THEN << >>
                    ELSE IF l.dtype = "time" THEN <<TimeOf(l.value)>> ELSE <<l.value>>]
    BY DEF DecodeColumn
  <1>3. Len(c.vals) = 1 /\ c.vals = [i \in 1..Len(c.vals) |-> c.vals[i]]
    BY DEF WellFormedColumn
  <1>4. c.vals = <<c.vals[1]>>
    BY <1>3
  <1>5. c.dtype = "time" => TimeOf(TimestampProto(c.vals[1])) = c.vals[1]
    BY <1>3, TimeRoundTrip DEF WellFormedColumn
  <1>6. QED
    BY <1>1, <1>2, <1>4, <1>5 DEF pbLabelCol, Observable


(* A column that columnMessage converts decodes to what a reader         *)
(* observes of it.                                                        *)
LEMMA ColumnRoundTrip ==
    ASSUME NEW c, WellFormedColumn(c), ~columnMessageFails(c)
    PROVE  DecodeColumn(columnMessage(c)) = Observable(c)
  <1>1. \/ c.kind = "slice" /\ ~pbSliceColFails(c)
        \/ c.kind = "label"
    BY DEF columnMessageFails
  <1>2. QED
    BY <1>1, SliceRoundTrip, LabelRoundTrip

(* A frame of the frames package that frameMessage converts decodes to  *)
(* its data columns in order and its index columns.                      *)
LEMMA FrameRoundTrip ==
    ASSUME NEW f,
           \A n \in DOMAIN f.cols : WellFormedColumn(f.cols[n]),
           \A i \in DOMAIN f.indices : WellFormedColumn(f.indices[i]),
           ~frameMessageFails(f)
    PROVE  DecodeFrame(frameMessage(f)) = FrameContent(f)
  <1>1. \A i \in DOMAIN f.names :
           DecodeColumn(columnMessage(f.cols[f.names[i]])) = Observable(f.cols[f.names[i]])
    <2> SUFFICES ASSUME NEW i \in DOMAIN f.names
                 PROVE  DecodeColumn(columnMessage(f.cols[f.names[i]])) = Observable(f.cols[f.names[i]])
      OBVIOUS
    <2>1. f.names[i] \in DOMAIN f.cols /\ ~columnMessageFails(f.cols[f.names[i]])
      BY DEF frameMessageFails
    <2>2. QED
      BY <2>1, ColumnRoundTrip
  <1>2. \A i \in DOMAIN f.indices :
           DecodeColumn(columnMessage(f.indices[i])) = Observable(f.indices[i])
    <2> SUFFICES ASSUME NEW i \in DOMAIN f.indices
                 PROVE  DecodeColumn(columnMessage(f.indices[i])) = Observable(f.indices[i])
      OBVIOUS
    <2>1. ~columnMessageFails(f.indices[i])
      BY DEF frameMessageFails
    <2>2. QED
      BY <2>1, ColumnRoundTrip
  <1>3. QED
    BY <1>1, <1>2 DEF DecodeFrame, frameMessage, FrameContent

-----------------------------------------------------------------------------
(* The handler sends a frame only after frameMessage converted it.       *)
SentInv ==
    \A i \in 1..Len(stream) : ~frameMessageFails(frames[i])

LEMMA InitSentInv == Init => SentInv
  BY DEF Init, SentInv

LEMMA NextSentInv == IInv /\ SentInv /\ [Next]_vars => SentInv'
  <1> SUFFICES ASSUME IInv, SentInv, [Next]_vars PROVE SentInv'
    OBVIOUS
  <1>1. stream \in Seq({frameMessage(f) : f \in Frames})
    BY DEF IInv, TypeOK
  <1>2. CASE SendFrame /\ stream' = Append(stream, frameMessage(frames[held]))
    <2>1. cpc = "got" /\ ~frameMessageFails(frames[held]) /\ frames' = frames
      BY <1>2 DEF SendFrame
    <2>2. held = Len(stream) + 1
      BY <1>1, <2>1 DEF IInv, HandlerInv, TypeOK
    <2>3. QED
      BY <1>1, <1>2, <2>1, <2>2 DEF SentInv
  <1>3. CASE ~(SendFrame /\ stream' = Append(stream, frameMessage(frames[held])))
    <2>1. UNCHANGED <<frames, stream>>
      BY <1>3 DEF Next, Producer, Handler, ProducerNext, ProducerReturn, Handoff,
                  RangeEnd, SendFrame, vars
    <2>2. QED
      BY <2>1 DEF SentInv
  <1>4. QED
    BY <1>2, <1>3

(* The j-th message the client receives on the stream decodes to the     *)
(* j-th frame the backend iterator yielded, column by column, index by  *)
(* index, timestamps to the nanosecond: the api.Read goroutine and the   *)
(* handler pass frames through the unbuffered channel one at a time, in  *)
(* order, and frameMessage converts every slice and label column        *)
(* without loss.  The hypothesis is what the frames package guarantees   *)
(* of its columns (WellFormedFrames); the instance of the runs satisfies *)
(* it (MCFramesWellFormed).                                               *)
THEOREM StreamFaithful ==
    ASSUME WellFormedFrames
    PROVE  Spec => []StreamRoundTrip
  <1>1. Init => IInv /\ SentInv
    BY InitIInv, InitSentInv
  <1>2. IInv /\ SentInv /\ [Next]_vars => (IInv /\ SentInv)'
    BY NextIInv, NextSentInv
  <1>3. IInv /\ SentInv => StreamRoundTrip
    <2> SUFFICES ASSUME IInv, SentInv, NEW j \in 1..Len(stream)
                 PROVE  DecodeFrame(stream[j]) = FrameContent(frames[j])
      BY DEF StreamRoundTrip
    <2>1. Len(stream) <= Len(frames) /\ frames \in Seq(Frames)
      BY DEF IInv, TypeOK
    <2>2. frames[j] \in Frames /\ stream[j] = frameMessage(frames[j])
      BY <2>1 DEF IInv, HandlerInv
    <2>3. ~frameMessageFails(frames[j])
      BY DEF SentInv
    <2>4. QED
      BY <2>2, <2>3, FrameRoundTrip DEF WellFormedFrames
  <1>4. QED
    BY <1>1, <1>2, <1>3, PTL DEF Spec


-----------------------------------------------------------------------------
(* Server.Read implements the read path's promise (ReadStream).          *)

(* RangeEnd is Finish: ch is closed only once the goroutine drained the  *)
(* iterator, every frame handed over was sent, and apiError is the       *)
(* iterator's error.                                                      *)
LEMMA RangeEndFinish ==
    ASSUME IInv, RangeEnd
    PROVE  RS!Finish
  <1>1. ppc = "done" /\ pi = Len(frames) /\ apiError = IF iterErr THEN "err" ELSE "nil"
    BY DEF RangeEnd, IInv, ProducerInv
  <1>2. Len(stream) = Len(frames) /\ result = "none"
    BY <1>1 DEF RangeEnd, IInv, HandlerInv, Handed, ResultInv
  <1>3. QED
    BY <1>1, <1>2 DEF RangeEnd, RS!Finish

(* SendFrame works on the next frame: the handler holds the frame right  *)
(* after the last one it sent.                                            *)
LEMMA HeldIsNext ==
    ASSUME IInv, cpc = "got"
    PROVE  /\ held = Len(stream) + 1
           /\ Len(stream) < Len(frames)
           /\ RS!NextFrame = frames[held]
           /\ result = "none"
  <1>1. held = Handed /\ held >= 1 /\ Len(stream) = held - 1
    BY DEF IInv, HandlerInv
  <1>2. held \in 0..Len(frames) /\ stream \in Seq({frameMessage(f) : f \in Frames})
        /\ frames \in Seq(Frames)
    BY DEF IInv, TypeOK
  <1>3. result = "none"
    BY DEF IInv, ResultInv
  <1>4. QED
    BY <1>1, <1>2, <1>3 DEF RS!NextFrame

LEMMA SendFrameStep ==
    ASSUME IInv, SendFrame
    PROVE  RS!Emit \/ RS!Fail
  <1>1. /\ held = Len(stream) + 1 /\ Len(stream) < Len(frames)
        /\ RS!NextFrame = frames[held] /\ result = "none"
    BY HeldIsNext DEF SendFrame
  <1>2. UNCHANGED <<frames, iterErr>>
    BY DEF SendFrame
  <1>3. CASE frameMessageFails(frames[held])
    <2>1. result' = "marshalErr" /\ UNCHANGED stream
      BY <1>3 DEF SendFrame
    <2>2. RS!Fail
      BY <1>1, <1>2, <1>3, <2>1 DEF RS!Fail
    <2>3. QED
      BY <2>2
  <1>4. CASE ~frameMessageFails(frames[held])
    <2>1. \/ result' = "sendErr" /\ UNCHANGED stream
          \/ stream' = Append(stream, frameMessage(frames[held])) /\ UNCHANGED result
      BY <1>4 DEF SendFrame
    <2>2. QED
      BY <1>1, <1>2, <1>4, <2>1 DEF RS!Fail, RS!Emit
  <1>5. QED
    BY <1>3, <1>4

(* Every behaviour of Server.Read, its goroutine and its channel is a   *)
(* behaviour of the read path's promise: the steps of the goroutine and *)
(* the hand-off over ch leave the response unchanged, each iteration of *)
(* the handler's loop sends the next frame's message or fails at that   *)
(* frame, and the end of the range returns the iterator's error.         *)
THEOREM ReadRefinement == Spec => RS!SafetySpec
  <1>1. Init => RS!Init
    BY DEF Init, RS!Init
  <1>2. IInv /\ [Next]_vars => [RS!Next]_(RS!rvars)
    <2> SUFFICES ASSUME IInv, [Next]_vars PROVE [RS!Next]_(RS!rvars)
      OBVIOUS
    <2>1. CASE ProducerNext \/ ProducerReturn \/ Handoff
      BY <2>1 DEF ProducerNext, ProducerReturn, Handoff, RS!rvars
    <2>2. CASE RangeEnd
      BY <2>2, RangeEndFinish DEF RS!Next
    <2>3. CASE SendFrame
      BY <2>3, SendFrameStep DEF RS!Next
    <2>4. CASE UNCHANGED vars
      BY <2>4 DEF vars, RS!rvars
    <2>5. QED
      BY <2>1, <2>2, <2>3, <2>4 DEF Next, Producer, Handler
  <1>3. QED
    BY <1>1, <1>2, AlwaysIInv, PTL DEF Spec, RS!SafetySpec

=============================================================================
