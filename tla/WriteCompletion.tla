--------------------------- MODULE WriteCompletion ---------------------------
(***************************************************************************)
(* What the design (spec section 4.5) promises of the streaming write     *)
(* path, with no pipe, goroutine or channel in it.  A producer hands      *)
(* frames one at a time through a conduit to a concurrently running      *)
(* network call; an encode returns only once the call has taken its      *)
(* frame.  The producer closes its side, then waits, bounded by a        *)
(* timeout, on a single-slot completion signal that the call fills       *)
(* exactly once with its terminal status.  A status of success comes    *)
(* only after end of body, with every accepted frame consumed.           *)
(*                                                                         *)
(* StreamWrite implements this specification under the refinement       *)
(* mapping WC defined there.                                              *)
(***************************************************************************)
EXTENDS Naturals, Sequences

CONSTANT Frames     \* the frames a caller may emit

VARIABLES
    caller,     \* the caller: "init", "open", "waiting", "timedout" or "done"
    result,     \* what the caller's last call returned
    acked,      \* frames whose encode returned success, in order
    consumed,   \* frames the network call read from the conduit, in order
    closed,     \* the producer side of the conduit has been closed
    call,       \* the network call: "unstarted", "running", "finished", "signalled"
    status,     \* the terminal status of the network call
    slot        \* the completion signal: empty, or the one status it carries

avars == <<caller, result, acked, consumed, closed, call, status, slot>>

Statuses == {"ok", "bad", "neterr"}

(* What a wait returns for the status it received.                        *)
Verdict(s) ==
    CASE s = "ok"     -> "ok"
      [] s = "bad"    -> "errStatus"
      [] s = "neterr" -> "errTransport"

Init ==
    /\ caller = "init"
    /\ result = "none"
    /\ acked = <<>>
    /\ consumed = <<>>
    /\ closed = FALSE
    /\ call = "unstarted"
    /\ status \in Statuses
    /\ slot = <<>>

(* The write starts the network call, or is refused before anything     *)
(* starts.                                                                *)
Start ==
    /\ caller = "init"
    /\ \/ caller' = "open" /\ call' = "running" /\ UNCHANGED result
       \/ caller' = "done" /\ result' = "errParams" /\ UNCHANGED call
    /\ UNCHANGED <<acked, consumed, closed, status, slot>>

(* The conduit hands the next frame of a pending encode to the call.     *)
Hand ==
    /\ caller = "open"
    /\ call = "running"
    /\ Len(consumed) = Len(acked)
    /\ \E f \in Frames : consumed' = Append(consumed, f)
    /\ UNCHANGED <<caller, result, acked, closed, call, status, slot>>

(* An encode returns success once its frame has been consumed.           *)
Ack ==
    /\ caller = "open"
    /\ Len(consumed) = Len(acked) + 1
    /\ acked' = consumed
    /\ result' = "ok"
    /\ UNCHANGED <<caller, consumed, closed, call, status, slot>>

(* An encode on a closed conduit fails at once.                           *)
Refuse ==
    /\ caller \in {"open", "timedout"}
    /\ closed
    /\ result' = "errClosed"
    /\ UNCHANGED <<caller, acked, consumed, closed, call, status, slot>>

(* The caller, with no encode pending, closes its side and waits.        *)
Close ==
    /\ caller \in {"open", "timedout"}
    /\ Len(consumed) = Len(acked)
    /\ closed' = TRUE
    /\ caller' = "waiting"
    /\ UNCHANGED <<result, acked, consumed, call, status, slot>>

(* The network call ends; success only at end of body.                   *)
Respond ==
    /\ call = "running"
    /\ \E s \in Statuses :
          /\ s = "ok" => closed /\ consumed = acked
          /\ status' = s
    /\ call' = "finished"
    /\ UNCHANGED <<caller, result, acked, consumed, closed, slot>>

(* The call fills the single slot, once.                                 *)
Signal ==
    /\ call = "finished"
    /\ slot = <<>>
    /\ slot' = <<status>>
    /\ call' = "signalled"
    /\ UNCHANGED <<caller, result, acked, consumed, closed, status>>

(* The wait takes the status from the slot.                               *)
Receive ==
    /\ caller = "waiting"
    /\ slot # <<>>
    /\ slot' = <<>>
    /\ caller' = "done"
    /\ result' = Verdict(Head(slot))
    /\ UNCHANGED <<acked, consumed, closed, call, status>>

(* The wait times out; the call goes on.                                 *)
Timeout ==
    /\ caller = "waiting"
    /\ caller' = "timedout"
    /\ result' = "timeout"
    /\ UNCHANGED <<acked, consumed, closed, call, status, slot>>

Next ==
    \/ Start \/ Hand \/ Ack \/ Refuse \/ Close
    \/ Respond \/ Signal \/ Receive \/ Timeout

(* The call runs to its end and signals; a wait ends by the signal or by *)
(* the timeout.  Encodes are not promised to return: an encode blocked   *)
(* on a call that has ended may stay blocked.                            *)
Fairness ==
    /\ WF_avars(Respond)
    /\ WF_avars(Signal)
    /\ WF_avars(Receive \/ Timeout)

Spec == Init /\ [][Next]_avars /\ Fairness

(* The safety part of the specification.                                  *)
SafetySpec == Init /\ [][Next]_avars

=============================================================================
