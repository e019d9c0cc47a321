----------------------------- MODULE StreamWrite -----------------------------
(***************************************************************************)
(* The streaming write path of the frames client (src/client.go, the same  *)
(* code as src/http/client.go): Client.Write, streamFrameAppender.Add,     *)
(* streamFrameAppender.WaitForComplete and the goroutine that performs the *)
(* blocking HTTP call.                                                     *)
(*                                                                         *)
(* Write creates an io.Pipe, makes its read end the request body (behind   *)
(* an io.MultiReader that also carries the encoded request header) and     *)
(* starts a goroutine calling http.DefaultClient.Do, which sends its       *)
(* result on a channel of capacity one.  Add encodes a frame into the      *)
(* pipe's write end; an io.Pipe write blocks until the reader has consumed *)
(* it.  WaitForComplete closes the write end, then selects between the     *)
(* channel and a timer.                                                    *)
(*                                                                         *)
(* Frames are abstracted to their position 1..MaxFrames in the caller's    *)
(* sequence; the frame bytes, the request header and the logging are left *)
(* out.  The transport (net/http) and the remote server are the            *)
(* environment: while the request is being sent the transport reads the    *)
(* body, and Do returns either a response or a network error; the server  *)
(* answers 200 only after it has read the body to its end, and may answer  *)
(* an error status at any time.                                            *)
(***************************************************************************)
EXTENDS Naturals, Sequences

CONSTANTS
    MaxFrames,  \* bound on the number of frames the caller adds
    MaxWaits    \* bound on the number of WaitForComplete calls (retries after a timeout)

ASSUME BoundsAssumption ==
    /\ MaxFrames \in Nat
    /\ MaxWaits \in Nat \ {0}

VARIABLES
    cpc,        \* the caller's control point
    ret,        \* what the caller's last call returned
    sent,       \* frames handed to encoder.Encode so far (the next frame is sent + 1)
    added,      \* frames for which Add returned nil, in order
    pipe,       \* the frame a blocked pipe Write is offering, or NoFrame
    wclosed,    \* the pipe's write end has been closed
    waits,      \* WaitForComplete calls so far
    tpc,        \* the transport goroutine's control point
    body,       \* frames the transport has read from the request body, in order
    outcome,    \* what http.DefaultClient.Do returned
    ch,         \* the appender's result channel a.ch
    respClosed  \* the response body has been closed

vars == <<cpc, ret, sent, added, pipe, wclosed, waits, tpc, body, outcome, ch, respClosed>>

Frames == 1..MaxFrames

NoFrame == 0

(* Results of Do: a 200 response, a non-200 response, or a nil response   *)
(* with a non-nil error.                                                  *)
Outcomes == {"ok", "bad", "neterr"}

CallerPCs == {"init", "idle", "blocked", "selecting", "timedout", "done", "crashed"}

TransportPCs == {"unstarted", "sending", "returned", "done"}

Returns == {"none", "ok", "errParams", "errClosed", "errStatus", "timeout"}

(* Mutant: an unbuffered result channel. *)
ChanCapUnbuffered == 0

(* make(chan *appenderHTTPResponse, 1) *)
ChanCap == 1

-----------------------------------------------------------------------------
(* Mutant: the status check dropped, hr.err returned for every response. *)
StatusReturnUnchecked(hr) == "ok"

(* Mutant: Do's result passed back as it is instead of the error built   *)
(* from the status.                                                      *)
StatusReturnRaw(hr) == hr

(* The error WaitForComplete returns for a response it received: the      *)
(* status check, then hr.err, which is nil whenever Do returned a response.*)
StatusReturn(hr) == IF hr = "ok" THEN "ok" ELSE "errStatus"

(* The receive branch of WaitForComplete's select.  hr.resp is nil when   *)
(* Do failed, and hr.resp.StatusCode then panics.                         *)
Receive(hr) ==
    \/ /\ hr = "neterr"
       /\ cpc' = "crashed"
       /\ UNCHANGED <<ret, respClosed>>
    \/ /\ hr # "neterr"
       /\ cpc' = "done"
       /\ ret' = StatusReturn(hr)
       /\ respClosed' = TRUE

Init ==
    /\ cpc = "init"
    /\ ret = "none"
    /\ sent = 0
    /\ added = <<>>
    /\ pipe = NoFrame
    /\ wclosed = FALSE
    /\ waits = 0
    /\ tpc = "unstarted"
    /\ body = <<>>
    /\ outcome = "ok"
    /\ ch = <<>>
    /\ respClosed = FALSE

(* Client.Write: a request without backend or table (or one that fails   *)
(* to encode) is refused before anything starts; otherwise the pipe is   *)
(* created and the goroutine started.                                    *)
Write ==
    /\ cpc = "init"
    /\ \E valid \in BOOLEAN :
          IF valid THEN /\ cpc' = "idle"
                        /\ tpc' = "sending"
                        /\ UNCHANGED ret
                   ELSE /\ cpc' = "done"
                        /\ ret' = "errParams"
                        /\ UNCHANGED tpc
    /\ UNCHANGED <<sent, added, pipe, wclosed, waits, body, outcome, ch, respClosed>>

(* streamFrameAppender.Add, first half: encoder.Encode writes the next    *)
(* frame into the pipe.  On a closed write end the write fails at once   *)
(* with io.ErrClosedPipe; otherwise the caller blocks in the write.      *)
Add ==
    /\ cpc \in {"idle", "timedout"}
    /\ sent < MaxFrames
    /\ IF wclosed
          THEN /\ ret' = "errClosed"
               /\ UNCHANGED <<cpc, sent, pipe>>
          ELSE /\ sent' = sent + 1
               /\ pipe' = sent + 1
               /\ cpc' = "blocked"
               /\ UNCHANGED ret
    /\ UNCHANGED <<added, wclosed, waits, tpc, body, outcome, ch, respClosed>>

(* Mutant: Add returns before the reader has taken the frame, as over a  *)
(* buffered writer.                                                      *)
AddDoneUnblocked ==
    /\ cpc = "blocked"
    /\ cpc' = "idle"
    /\ added' = Append(added, sent)
    /\ ret' = "ok"
    /\ UNCHANGED <<sent, pipe, wclosed, waits, tpc, body, outcome, ch, respClosed>>

(* Add, second half: the pipe write returns once the reader has taken    *)
(* the frame, and Add returns nil.                                       *)
AddDone ==
    /\ cpc = "blocked"
    /\ pipe = NoFrame
    /\ cpc' = "idle"
    /\ added' = Append(added, sent)
    /\ ret' = "ok"
    /\ UNCHANGED <<sent, pipe, wclosed, waits, tpc, body, outcome, ch, respClosed>>

(* WaitForComplete: close the write end (closing an io.PipeWriter again   *)
(* is harmless), then block in the select.                                *)
WaitForComplete ==
    /\ cpc \in {"idle", "timedout"}
    /\ waits < MaxWaits
    /\ wclosed' = TRUE
    /\ waits' = waits + 1
    /\ cpc' = "selecting"
    /\ UNCHANGED <<ret, sent, added, pipe, tpc, body, outcome, ch, respClosed>>

(* The select takes the goroutine's result from the channel.             *)
WaitRecv ==
    /\ cpc = "selecting"
    /\ ch # <<>>
    /\ Receive(Head(ch))
    /\ ch' = Tail(ch)
    /\ UNCHANGED <<sent, added, pipe, wclosed, waits, tpc, body, outcome>>

(* The select's time.After case fires: the wait returns a timeout error  *)
(* and leaves the call and its result where they are.                    *)
WaitTimeout ==
    /\ cpc = "selecting"
    /\ cpc' = "timedout"
    /\ ret' = "timeout"
    /\ UNCHANGED <<sent, added, pipe, wclosed, waits, tpc, body, outcome, ch, respClosed>>

-----------------------------------------------------------------------------
(* The environment: net/http reading the request body and the server     *)
(* answering.                                                            *)

(* The transport reads the frame a blocked Add is offering.               *)
TransportRead ==
    /\ tpc = "sending"
    /\ pipe # NoFrame
    /\ body' = Append(body, pipe)
    /\ pipe' = NoFrame
    /\ UNCHANGED <<cpc, ret, sent, added, wclosed, waits, tpc, outcome, ch, respClosed>>

(* Do returns.  A 200 comes only after the body reached end of stream    *)
(* (write end closed, nothing pending); an error status or a network     *)
(* error can come at any point, after which nothing reads the pipe.      *)
TransportRespond ==
    /\ tpc = "sending"
    /\ \E o \in Outcomes :
          /\ o = "ok" => wclosed /\ pipe = NoFrame
          /\ outcome' = o
    /\ tpc' = "returned"
    /\ UNCHANGED <<cpc, ret, sent, added, pipe, wclosed, waits, body, ch, respClosed>>

(* The goroutine's send appender.ch <- &appenderHTTPResponse{resp, err}:  *)
(* into the buffer if it has room, or handed straight to a receiver      *)
(* waiting in the select when the channel is unbuffered.                 *)
TransportSend ==
    /\ tpc = "returned"
    /\ tpc' = "done"
    /\ \/ /\ Len(ch) < ChanCap
          /\ ch' = Append(ch, outcome)
          /\ UNCHANGED <<cpc, ret, respClosed>>
       \/ /\ ChanCap = 0
          /\ cpc = "selecting"
          /\ Receive(outcome)
          /\ UNCHANGED ch
    /\ UNCHANGED <<sent, added, pipe, wclosed, waits, body, outcome>>

-----------------------------------------------------------------------------
Caller == Write \/ Add \/ AddDone \/ WaitForComplete \/ WaitRecv \/ WaitTimeout

Transport == TransportRead \/ TransportRespond \/ TransportSend

Next == Caller \/ Transport

(* The goroutine and the net/http transport are scheduled by the Go      *)
(* runtime and the server eventually answers or the connection fails; a  *)
(* pipe write returns once its data is read; the select's timer fires.   *)
(* The caller's own calls (Add, WaitForComplete again) are its choice.   *)
Fairness ==
    /\ WF_vars(Transport)
    /\ WF_vars(AddDone)
    /\ WF_vars(WaitRecv \/ WaitTimeout)

Spec == Init /\ [][Next]_vars /\ Fairness

-----------------------------------------------------------------------------
(* Every variable has its type.                                          *)
TypeOK ==
    /\ cpc \in CallerPCs
    /\ ret \in Returns
    /\ sent \in 0..MaxFrames
    /\ added \in Seq(Frames)
    /\ pipe \in Frames \cup {NoFrame}
    /\ wclosed \in BOOLEAN
    /\ waits \in 0..MaxWaits
    /\ tpc \in TransportPCs
    /\ body \in Seq(Frames)
    /\ outcome \in Outcomes
    /\ ch \in Seq(Outcomes)
    /\ respClosed \in BOOLEAN

(* Backpressure (Add over the io.Pipe): every frame Add accepted has been *)
(* read by the transport, in order, and at most the one frame of a        *)
(* blocked Add is read but not yet acknowledged.                          *)
AddedIsConsumed ==
    \/ body = added
    \/ cpc = "blocked" /\ body = Append(added, sent)

(* When WaitForComplete reports success, the server has acknowledged      *)
(* having read exactly the frames for which Add returned nil: an early    *)
(* error answer, a timeout and a retried wait never turn into a success.  *)
SuccessImpliesDelivered ==
    cpc = "done" /\ ret = "ok" => outcome = "ok" /\ body = added

(* The goroutine's send never blocks for good: once Do has returned, the *)
(* result is delivered even when the caller has given up after a        *)
(* timeout (the channel of capacity one).                                *)
ChannelSendCompletes ==
    (tpc = "returned") ~> (tpc = "done")

(* WaitForComplete never dereferences the nil response that Do returns   *)
(* with a network error.                                                 *)
NoNilResponseDeref ==
    cpc # "crashed"

(* An Add blocked in the pipe write eventually returns.                  *)
AddReturns ==
    (cpc = "blocked") ~> (cpc # "blocked")

-----------------------------------------------------------------------------
(* The refinement mapping onto WriteCompletion.  An Add blocked in the   *)
(* pipe write is an open caller with an encode pending; the transport's  *)
(* control point is the call's, Do's result its status, the channel its *)
(* slot.  The panic on a nil response ends the wait with the transport  *)
(* error the design names for it.                                        *)
CallerView ==
    CASE cpc \in {"idle", "blocked"} -> "open"
      [] cpc = "selecting"           -> "waiting"
      [] cpc = "crashed"             -> "done"
      [] OTHER                       -> cpc

ResultView ==
    IF cpc = "crashed" THEN "errTransport" ELSE ret

CallView ==
    CASE tpc = "sending"  -> "running"
      [] tpc = "returned" -> "finished"
      [] tpc = "done"     -> "signalled"
      [] OTHER            -> tpc

WC == INSTANCE WriteCompletion
        WITH caller <- CallerView, result <- ResultView, acked <- added,
             consumed <- body, closed <- wclosed, call <- CallView,
             status <- outcome, slot <- ch

(* The write path implements the design's single-slot completion: every *)
(* Add, WaitForComplete, transport and channel step is a step of        *)
(* WriteCompletion or leaves its view unchanged, the goroutine's result *)
(* is signalled once, and each wait ends by it or by its timer.         *)
WriteCompletionSpec == WC!Spec

=============================================================================
