------------------------------ MODULE ReadStream ------------------------------
(***************************************************************************)
(* What the read path promises (spec section 3, read path: the Nth frame *)
(* decoded is exactly the Nth frame encoded), with no goroutine or       *)
(* channel in it.  The response stream grows by the message of the next  *)
(* frame of the backend, one frame at a time, in order; the read ends    *)
(* with an error at a frame that cannot be converted or cannot be sent,  *)
(* or, once every frame is on the stream, with the iterator's own error  *)
(* or with success.                                                       *)
(*                                                                         *)
(* GrpcRead implements this specification under the instance RS defined  *)
(* there, which maps Message and Unconvertible to frameMessage and       *)
(* frameMessageFails.                                                     *)
(***************************************************************************)
EXTENDS Naturals, Sequences

CONSTANTS
    Frames,             \* the frames a backend iterator may yield
    MaxFrames,          \* bound on the number of frames the backend yields
    Message(_),         \* the wire message of a frame
    Unconvertible(_)    \* the frame has no wire message

VARIABLES
    frames,     \* the frames of the backend, in order
    iterErr,    \* the backend's iteration ends with an error
    stream,     \* the messages sent to the client, in order
    result      \* "none" while the read runs, then what it returned

rvars == <<frames, iterErr, stream, result>>

(* The frame whose message goes out next.                                *)
NextFrame == frames[Len(stream) + 1]

Init ==
    /\ frames \in UNION {[1..n -> Frames] : n \in 0..MaxFrames}
    /\ iterErr \in BOOLEAN
    /\ stream = <<>>
    /\ result = "none"

(* The message of the next frame is sent.                                *)
Emit ==
    /\ result = "none"
    /\ Len(stream) < Len(frames)
    /\ ~Unconvertible(NextFrame)
    /\ stream' = Append(stream, Message(NextFrame))
    /\ UNCHANGED <<frames, iterErr, result>>

(* The read fails at the next frame: it has no message, or the client is *)
(* gone when its message is sent.                                        *)
Fail ==
    /\ result = "none"
    /\ Len(stream) < Len(frames)
    /\ result' = IF Unconvertible(NextFrame) THEN "marshalErr" ELSE "sendErr"
    /\ UNCHANGED <<frames, iterErr, stream>>

(* Every frame is on the stream: the read returns the iterator's error.  *)
Finish ==
    /\ result = "none"
    /\ Len(stream) = Len(frames)
    /\ result' = IF iterErr THEN "apiErr" ELSE "nil"
    /\ UNCHANGED <<frames, iterErr, stream>>

Next == Emit \/ Fail \/ Finish

(* The read runs until it returns.                                       *)
Spec == Init /\ [][Next]_rvars /\ WF_rvars(Next)

(* The safety part of the specification.                                  *)
SafetySpec == Init /\ [][Next]_rvars

=============================================================================
