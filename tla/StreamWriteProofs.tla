-------------------------- MODULE StreamWriteProofs --------------------------
(***************************************************************************)
(* Proofs about the streaming write path (StreamWrite): type correctness,  *)
(* the backpressure invariant of Add over the io.Pipe, and that a          *)
(* successful WaitForComplete means the server acknowledged exactly the    *)
(* frames Add accepted, for every value of MaxFrames and MaxWaits.         *)
(***************************************************************************)
EXTENDS StreamWrite, TLAPS

(* The request body as the transport has read it: equal to the frames    *)
(* Add accepted, except for the frame of a blocked Add, which is either  *)
(* still offered in the pipe or already read but not acknowledged.       *)
BodyInv ==
    IF cpc = "blocked"
       THEN /\ sent \in Frames
            /\ \/ pipe = sent /\ body = added
               \/ pipe = NoFrame /\ body = Append(added, sent)
       ELSE pipe = NoFrame /\ body = added

(* Once the write end is closed, no Add can block in the pipe again.     *)
ClosedInv ==
    wclosed => cpc # "blocked"

(* A 200 from the server was given at end of stream: the write end was   *)
(* closed and the body it read is what Add accepted.                     *)
OkInv ==
    tpc \in {"returned", "done"} /\ outcome = "ok" => wclosed /\ body = added

(* The channel holds nothing, or the goroutine's single result.          *)
ChanInv ==
    ch = <<>> \/ (ch = <<outcome>> /\ tpc = "done")

(* A caller that finished with success received a 200 after Do returned. *)
DoneInv ==
    cpc = "done" /\ ret = "ok" => outcome = "ok" /\ tpc = "done"

(* Before Write the goroutine has not been started.                      *)
StartInv ==
    cpc = "init" => tpc = "unstarted"

(* A caller waiting or timed out has closed the write end.               *)
WaitedInv ==
    cpc \in {"selecting", "timedout"} => wclosed

(* The inductive invariant.                                               *)
IInv ==
    /\ TypeOK
    /\ StartInv
    /\ BodyInv
    /\ ClosedInv
    /\ OkInv
    /\ ChanInv
    /\ DoneInv
    /\ WaitedInv

-----------------------------------------------------------------------------
(* The initial state satisfies the inductive invariant.                  *)
LEMMA InitIInv == Init => IInv
  <1> SUFFICES ASSUME Init PROVE IInv
    OBVIOUS
  <1>1. <<>> \in Seq(Frames) /\ <<>> \in Seq(Outcomes)
    OBVIOUS
  <1>2. TypeOK
    <2>1. sent \in 0..MaxFrames /\ waits \in 0..MaxWaits
      BY BoundsAssumption DEF Init
    <2>2. pipe \in Frames \cup {NoFrame}
      BY DEF Init, NoFrame
    <2>3. QED
      BY <1>1, <2>1, <2>2 DEF Init, TypeOK, CallerPCs, TransportPCs, Returns, Outcomes
  <1>3. QED
    BY <1>2 DEF Init, IInv, StartInv, BodyInv, ClosedInv, OkInv, ChanInv, DoneInv,
          WaitedInv, NoFrame

(* What the receive branch of WaitForComplete's select does with a result *)
(* of Do: a nil response crashes the caller, any other ends the wait     *)
(* with the status mapped to an error and the response body closed.      *)
LEMMA ReceiveEffect ==
    ASSUME NEW hr, Receive(hr)
    PROVE  /\ hr = "neterr" => /\ cpc' = "crashed"
                               /\ ret' = ret
                               /\ respClosed' = respClosed
           /\ hr # "neterr" => /\ cpc' = "done"
                               /\ ret' = StatusReturn(hr)
                               /\ respClosed' = TRUE
  BY DEF Receive

(* Every step of the write path keeps every variable in its type.        *)
LEMMA TypeStep == IInv /\ [Next]_vars => TypeOK'
  <1> SUFFICES ASSUME IInv, [Next]_vars PROVE TypeOK'
    OBVIOUS
  <1> USE BoundsAssumption
  <1> USE DEF TypeOK, Frames, NoFrame, CallerPCs, TransportPCs, Returns, Outcomes
  <1>0. TypeOK /\ BodyInv /\ ChanInv
    BY DEF IInv
  <1>1. CASE Write
    BY <1>0, <1>1 DEF Write
  <1>2. CASE Add
    BY <1>0, <1>2 DEF Add
  <1>3. CASE AddDone
    <2>1. sent \in Frames
      BY <1>0, <1>3 DEF AddDone, BodyInv
    <2>2. QED
      BY <1>0, <1>3, <2>1 DEF AddDone
  <1>4. CASE WaitForComplete
    BY <1>0, <1>4 DEF WaitForComplete
  <1>5. CASE WaitRecv
    <2>1. cpc = "selecting" /\ ch # <<>> /\ ch' = Tail(ch) /\ Receive(Head(ch))
          /\ UNCHANGED <<sent, added, pipe, wclosed, waits, tpc, body, outcome>>
      BY <1>5 DEF WaitRecv
    <2>2. ch = <<outcome>>
      BY <1>0, <2>1 DEF ChanInv
    <2>3. ch' = <<>> /\ Receive(outcome)
      BY <2>1, <2>2
    <2>4. cpc' \in {"crashed", "done"} /\ ret' \in Returns /\ respClosed' \in BOOLEAN
      BY <1>0, <2>3, ReceiveEffect DEF StatusReturn
    <2>5. QED
      BY <1>0, <2>1, <2>3, <2>4
  <1>6. CASE WaitTimeout
    BY <1>0, <1>6 DEF WaitTimeout
  <1>7. CASE TransportRead
    BY <1>0, <1>7 DEF TransportRead
  <1>8. CASE TransportRespond
    BY <1>0, <1>8 DEF TransportRespond
  <1>9. CASE TransportSend
    <2>1. /\ ch = <<>>
          /\ ch' = Append(ch, outcome)
          /\ UNCHANGED <<cpc, ret, respClosed, sent, added, pipe, wclosed, waits, body, outcome>>
          /\ tpc' = "done"
      BY <1>0, <1>9 DEF TransportSend, ChanCap, ChanInv
    <2>2. QED
      BY <1>0, <2>1
  <1>10. CASE UNCHANGED vars
    BY <1>0, <1>10 DEF vars
  <1>11. QED
    BY <1>1, <1>2, <1>3, <1>4, <1>5, <1>6, <1>7, <1>8, <1>9, <1>10
       DEF Next, Caller, Transport

(* Every step of the write path, the caller's and the transport's,       *)
(* preserves the invariants that relate the caller, the pipe, the        *)
(* transport and the channel.                                            *)
LEMMA InvStep ==
    IInv /\ [Next]_vars => (StartInv /\ BodyInv /\ ClosedInv /\ OkInv /\ ChanInv /\ DoneInv)'
  <1> SUFFICES ASSUME IInv, [Next]_vars
               PROVE  (StartInv /\ BodyInv /\ ClosedInv /\ OkInv /\ ChanInv /\ DoneInv)'
    OBVIOUS
  <1>0. /\ StartInv /\ BodyInv /\ ClosedInv /\ OkInv /\ ChanInv /\ DoneInv
        /\ sent \in 0..MaxFrames
    BY DEF IInv, TypeOK
  <1> USE BoundsAssumption
  <1> USE DEF StartInv, BodyInv, ClosedInv, OkInv, ChanInv, DoneInv, NoFrame
  <1>1. CASE Write
    <2>1. PICK valid \in BOOLEAN :
                IF valid THEN /\ cpc' = "idle"
                              /\ tpc' = "sending"
                              /\ UNCHANGED ret
                         ELSE /\ cpc' = "done"
                              /\ ret' = "errParams"
                              /\ UNCHANGED tpc
      BY <1>1 DEF Write
    <2>2. cpc = "init" /\ UNCHANGED <<sent, added, pipe, wclosed, waits, body, outcome, ch, respClosed>>
      BY <1>1 DEF Write
    <2>3. CASE valid
      BY <1>0, <2>1, <2>2, <2>3
    <2>4. CASE ~valid
      BY <1>0, <2>1, <2>2, <2>4
    <2>5. QED
      BY <2>3, <2>4
  <1>2. CASE Add
    <2>1. CASE wclosed
      BY <1>0, <1>2, <2>1 DEF Add
    <2>2. CASE ~wclosed
      BY <1>0, <1>2, <2>2 DEF Add, Frames
    <2>3. QED
      BY <2>1, <2>2
  <1>3. CASE AddDone
    BY <1>0, <1>3 DEF AddDone, Frames
  <1>4. CASE WaitForComplete
    BY <1>0, <1>4 DEF WaitForComplete
  <1>5. CASE WaitRecv
    <2>1. cpc = "selecting" /\ ch # <<>> /\ ch' = Tail(ch) /\ Receive(Head(ch))
          /\ UNCHANGED <<sent, added, pipe, wclosed, waits, tpc, body, outcome>>
      BY <1>5 DEF WaitRecv
    <2>2. ch = <<outcome>> /\ tpc = "done"
      BY <1>0, <2>1
    <2>3. Receive(outcome) /\ ch' = <<>>
      BY <2>1, <2>2
    <2>4. CASE outcome = "neterr"
      <3>1. cpc' = "crashed" /\ ret' = ret /\ respClosed' = respClosed
        BY <2>3, <2>4, ReceiveEffect
      <3>2. QED
        BY <1>0, <2>1, <2>2, <2>3, <3>1
    <2>5. CASE outcome # "neterr"
      <3>1. cpc' = "done" /\ ret' = StatusReturn(outcome)
        BY <2>3, <2>5, ReceiveEffect
      <3>2. ret' = "ok" => outcome = "ok"
        BY <3>1 DEF StatusReturn
      <3>3. QED
        BY <1>0, <2>1, <2>2, <2>3, <3>1, <3>2
    <2>6. QED
      BY <2>4, <2>5
  <1>6. CASE WaitTimeout
    BY <1>0, <1>6 DEF WaitTimeout
  <1>7. CASE TransportRead
    BY <1>0, <1>7 DEF TransportRead
  <1>8. CASE TransportRespond
    BY <1>0, <1>8 DEF TransportRespond
  <1>9. CASE TransportSend
    BY <1>0, <1>9 DEF TransportSend, ChanCap
  <1>10. CASE UNCHANGED vars
    BY <1>0, <1>10 DEF vars
  <1>11. QED
    BY <1>1, <1>2, <1>3, <1>4, <1>5, <1>6, <1>7, <1>8, <1>9, <1>10
       DEF Next, Caller, Transport

(* Only WaitForComplete enters the select, and it closes the write end   *)
(* first, which nothing reopens.                                         *)
LEMMA WaitedStep == IInv /\ [Next]_vars => WaitedInv'
  <1> SUFFICES ASSUME IInv, [Next]_vars PROVE WaitedInv'
    OBVIOUS
  <1>0. WaitedInv
    BY DEF IInv
  <1> USE DEF WaitedInv
  <1>1. CASE WaitRecv
    BY <1>0, <1>1, ReceiveEffect DEF WaitRecv
  <1>2. CASE UNCHANGED vars
    BY <1>0, <1>2 DEF vars
  <1>3. QED
    BY <1>0, <1>1, <1>2 DEF Next, Caller, Transport, Write, Add, AddDone, WaitForComplete,
                            WaitTimeout, TransportRead, TransportRespond, TransportSend

(* The inductive invariant is preserved by every step.                   *)
LEMMA NextIInv == IInv /\ [Next]_vars => IInv'
  BY TypeStep, InvStep, WaitedStep DEF IInv

(* The inductive invariant holds in every reachable state.               *)
LEMMA AlwaysIInv == Spec => []IInv
  BY InitIInv, NextIInv, PTL DEF Spec

(* Type correctness of the write path.                                   *)
THEOREM TypeCorrect == Spec => []TypeOK
  BY AlwaysIInv, PTL DEF IInv

(* Add over the io.Pipe is backpressured: every frame Add accepted has   *)
(* been read by the transport, in order, and at most one more is read.   *)
THEOREM Backpressure == Spec => []AddedIsConsumed
  <1>1. IInv => AddedIsConsumed
    BY DEF IInv, BodyInv, AddedIsConsumed
  <1>2. QED
    BY <1>1, AlwaysIInv, PTL

(* A successful WaitForComplete means the server acknowledged exactly    *)
(* the frames Add accepted.                                              *)
THEOREM SuccessDelivers == Spec => []SuccessImpliesDelivered
  <1>1. IInv => SuccessImpliesDelivered
    BY DEF IInv, OkInv, DoneInv, SuccessImpliesDelivered
  <1>2. QED
    BY <1>1, AlwaysIInv, PTL
-----------------------------------------------------------------------------
(* The write path implements the safety part of the design's single-slot *)
(* completion (WriteCompletion under the mapping WC): an Add returns nil *)
(* only once its frame was read, a 200 only comes at end of body, the    *)
(* goroutine fills the channel once and WaitForComplete reports what it  *)
(* took from it.                                                          *)
THEOREM Refinement == Spec => (WC!SafetySpec)
  <1>1. Init => WC!Init
    BY DEF Init, WC!Init, CallerView, ResultView, CallView, WC!Statuses
  <1>2. IInv /\ [Next]_vars => [WC!Next]_(WC!avars)
    <2> SUFFICES ASSUME IInv, [Next]_vars PROVE [WC!Next]_(WC!avars)
      OBVIOUS
    <2>0. /\ TypeOK /\ StartInv /\ BodyInv /\ ClosedInv /\ ChanInv /\ WaitedInv
      BY DEF IInv
    <2>1. CASE Write
      <3>1. PICK valid \in BOOLEAN :
                  IF valid THEN /\ cpc' = "idle"
                                /\ tpc' = "sending"
                                /\ UNCHANGED ret
                           ELSE /\ cpc' = "done"
                                /\ ret' = "errParams"
                                /\ UNCHANGED tpc
        BY <2>1 DEF Write
      <3>2. cpc = "init" /\ tpc = "unstarted"
            /\ UNCHANGED <<sent, added, pipe, wclosed, waits, body, outcome, ch, respClosed>>
        BY <2>0, <2>1 DEF Write, StartInv
      <3>3. WC!Start
        BY <3>1, <3>2 DEF WC!Start, CallerView, ResultView, CallView
      <3>4. QED
        BY <3>3 DEF WC!Next
    <2>2. CASE Add
      <3>1. cpc \in {"idle", "timedout"}
            /\ UNCHANGED <<added, wclosed, waits, tpc, body, outcome, ch, respClosed>>
        BY <2>2 DEF Add
      <3>2. CASE wclosed
        <4>1. ret' = "errClosed" /\ UNCHANGED cpc
          BY <2>2, <3>2 DEF Add
        <4>2. WC!Refuse
          BY <3>1, <3>2, <4>1 DEF WC!Refuse, CallerView, ResultView, CallView
        <4>3. QED
          BY <4>2 DEF WC!Next
      <3>3. CASE ~wclosed
        <4>1. cpc = "idle" /\ cpc' = "blocked" /\ UNCHANGED ret
          BY <2>0, <2>2, <3>1, <3>3 DEF Add, WaitedInv
        <4>2. QED
          BY <3>1, <4>1 DEF WC!avars, CallerView, ResultView, CallView
      <3>4. QED
        BY <3>2, <3>3
    <2>3. CASE AddDone
      <3>1. /\ cpc = "blocked" /\ pipe = NoFrame /\ cpc' = "idle"
            /\ added' = Append(added, sent) /\ ret' = "ok"
            /\ UNCHANGED <<sent, pipe, wclosed, waits, tpc, body, outcome, ch, respClosed>>
        BY <2>3 DEF AddDone
      <3>2. body = Append(added, sent) /\ added \in Seq(Frames) /\ sent \in Frames
        BY <2>0, <3>1, BoundsAssumption DEF BodyInv, TypeOK, NoFrame, Frames
      <3>3. Len(body) = Len(added) + 1
        BY <3>2
      <3>4. WC!Ack
        BY <3>1, <3>2, <3>3 DEF WC!Ack, CallerView, ResultView, CallView
      <3>5. QED
        BY <3>4 DEF WC!Next
    <2>4. CASE WaitForComplete
      <3>1. /\ cpc \in {"idle", "timedout"} /\ wclosed' = TRUE /\ cpc' = "selecting"
            /\ UNCHANGED <<ret, sent, added, pipe, tpc, body, outcome, ch, respClosed>>
        BY <2>4 DEF WaitForComplete
      <3>2. body = added
        BY <2>0, <3>1 DEF BodyInv
      <3>3. WC!Close
        BY <3>1, <3>2 DEF WC!Close, CallerView, ResultView, CallView
      <3>4. QED
        BY <3>3 DEF WC!Next
    <2>5. CASE WaitRecv
      <3>1. cpc = "selecting" /\ ch # <<>> /\ ch' = Tail(ch) /\ Receive(Head(ch))
            /\ UNCHANGED <<sent, added, pipe, wclosed, waits, tpc, body, outcome>>
        BY <2>5 DEF WaitRecv
      <3>2. ch = <<outcome>> /\ outcome \in Outcomes
        BY <2>0, <3>1 DEF ChanInv, TypeOK
      <3>3. Receive(outcome) /\ ch' = <<>> /\ Head(ch) = outcome
        BY <3>1, <3>2
      <3>4. CallerView' = "done" /\ ResultView' = WC!Verdict(outcome)
        <4>1. CASE outcome = "neterr"
          BY <3>3, <4>1, ReceiveEffect DEF WC!Verdict, CallerView, ResultView
        <4>2. CASE outcome # "neterr"
          BY <3>2, <3>3, <4>2, ReceiveEffect DEF WC!Verdict, StatusReturn, Outcomes,
                                                   CallerView, ResultView
        <4>3. QED
          BY <4>1, <4>2
      <3>5. WC!Receive
        BY <3>1, <3>3, <3>4 DEF WC!Receive, CallerView, ResultView, CallView
      <3>6. QED
        BY <3>5 DEF WC!Next
    <2>6. CASE WaitTimeout
      <3>1. WC!Timeout
        BY <2>6 DEF WaitTimeout, WC!Timeout, CallerView, ResultView, CallView
      <3>2. QED
        BY <3>1 DEF WC!Next
    <2>7. CASE TransportRead
      <3>1. /\ tpc = "sending" /\ pipe # NoFrame /\ body' = Append(body, pipe)
            /\ UNCHANGED <<cpc, ret, sent, added, wclosed, waits, tpc, outcome, ch, respClosed>>
        BY <2>7 DEF TransportRead
      <3>2. cpc = "blocked" /\ body = added /\ pipe \in Frames
        BY <2>0, <3>1 DEF BodyInv, TypeOK, NoFrame
      <3>3. WC!Hand
        BY <3>1, <3>2 DEF WC!Hand, CallerView, ResultView, CallView
      <3>4. QED
        BY <3>3 DEF WC!Next
    <2>8. CASE TransportRespond
      <3>1. PICK o \in Outcomes :
                /\ o = "ok" => wclosed /\ pipe = NoFrame
                /\ outcome' = o
        BY <2>8 DEF TransportRespond
      <3>2. tpc = "sending" /\ tpc' = "returned"
            /\ UNCHANGED <<cpc, ret, sent, added, pipe, wclosed, waits, body, ch, respClosed>>
        BY <2>8 DEF TransportRespond
      <3>3. wclosed /\ pipe = NoFrame => body = added
        BY <2>0 DEF ClosedInv, BodyInv
      <3>4. WC!Respond
        BY <3>1, <3>2, <3>3 DEF WC!Respond, WC!Statuses, Outcomes, CallerView, ResultView, CallView
      <3>5. QED
        BY <3>4 DEF WC!Next
    <2>9. CASE TransportSend
      <3>1. /\ tpc = "returned" /\ tpc' = "done" /\ ch = <<>>
            /\ ch' = Append(ch, outcome)
            /\ UNCHANGED <<cpc, ret, respClosed, sent, added, pipe, wclosed, waits, body, outcome>>
        BY <2>0, <2>9 DEF TransportSend, ChanCap, ChanInv
      <3>2. WC!Signal
        BY <3>1 DEF WC!Signal, CallerView, ResultView, CallView
      <3>3. QED
        BY <3>2 DEF WC!Next
    <2>10. CASE UNCHANGED vars
      BY <2>10 DEF vars, WC!avars, CallerView, ResultView, CallView
    <2>11. QED
      BY <2>1, <2>2, <2>3, <2>4, <2>5, <2>6, <2>7, <2>8, <2>9, <2>10
         DEF Next, Caller, Transport
  <1>3. QED
    BY <1>1, <1>2, AlwaysIInv, PTL DEF Spec, WC!SafetySpec
=============================================================================
