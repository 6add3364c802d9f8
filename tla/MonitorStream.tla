---------------------------- MODULE MonitorStream ----------------------------
(***************************************************************************)
(* What MonitorJobStatus promises its caller (doc comment, client.go       *)
(* 369-376), seen from the receiving end of the channel: a buffered       *)
(* stream of results, at most one of them final (the completed status or  *)
(* ErrorTimeout) and nothing sent after it, nothing sent once the channel *)
(* is closed, and the channel eventually closed.                           *)
(*                                                                         *)
(* The promise also says the final result comes before the close; the    *)
(* code breaks that on a decode error (finding of the                      *)
(* ClosedAfterTerminal run), so this specification lets the channel close *)
(* at any time and keeps only what the code does guarantee.               *)
(***************************************************************************)
EXTENDS Naturals, Sequences

CONSTANTS
    Capacity,   \* the channel's buffer
    Results,    \* what can be sent
    Final       \* the results after which nothing more is sent

VARIABLES
    stream,     \* results sent and not yet received, oldest first
    ended,      \* a final result has been sent
    closed      \* the channel has been closed

svars == <<stream, ended, closed>>

Init ==
    /\ stream = <<>>
    /\ ended = FALSE
    /\ closed = FALSE

(* A send: only into an open channel with room, and only before the      *)
(* final result.                                                         *)
Emit ==
    /\ ~ended /\ ~closed
    /\ Len(stream) < Capacity
    /\ \E res \in Results :
         /\ stream' = Append(stream, res)
         /\ ended' = (res \in Final)
    /\ UNCHANGED closed

(* The caller receives the oldest result. *)
Consume ==
    /\ stream # <<>>
    /\ stream' = Tail(stream)
    /\ UNCHANGED <<ended, closed>>

(* The channel is closed, once. *)
Close ==
    /\ ~closed
    /\ closed' = TRUE
    /\ UNCHANGED <<stream, ended>>

Next == Emit \/ Consume \/ Close

Spec == Init /\ [][Next]_svars

(* The caller keeps receiving, and the channel is eventually closed. *)
FairSpec == Spec /\ WF_svars(Consume) /\ WF_svars(Close)
=============================================================================
