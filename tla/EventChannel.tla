---------------------------- MODULE EventChannel ----------------------------
(***************************************************************************)
(* What a backend's event stream promises its reader: one FIFO channel of  *)
(* bounded length.  The oldest event may be dropped, but only while nobody *)
(* has ever read the channel; once a reader is attached every event sent   *)
(* is either received, in the order in which it was sent, or still in the  *)
(* channel; and the end of the stream is seen only after the last event.   *)
(***************************************************************************)
EXTENDS Naturals, Sequences

CONSTANTS Event,     \* everything that can be sent
          Capacity   \* how many events wait before a sender is held back

VARIABLES chan,      \* sent, neither dropped nor received, oldest first
          received,  \* what the reader has been given, oldest first
          attached,  \* a reader has taken the stream's iterator
          closed,    \* nothing more can be sent
          ended      \* the reader has seen the end of the stream

chanVars == <<chan, received, attached, closed, ended>>

Init == /\ chan = <<>>
        /\ received = <<>>
        /\ attached = FALSE
        /\ closed = FALSE
        /\ ended = FALSE

(* One event travels to the reader outside the buffer, hence "<=".         *)
Send(e) == /\ ~closed
           /\ Len(chan) <= Capacity
           /\ chan' = Append(chan, e)
           /\ UNCHANGED <<received, attached, closed, ended>>

SendDroppingOldest(e) == /\ ~closed
                         /\ ~attached
                         /\ Len(chan) = Capacity
                         /\ chan' = Append(Tail(chan), e)
                         /\ UNCHANGED <<received, attached, closed, ended>>

Attach == /\ ~attached
          /\ attached' = TRUE
          /\ UNCHANGED <<chan, received, closed, ended>>

Receive == /\ attached
           /\ chan # <<>>
           /\ received' = Append(received, Head(chan))
           /\ chan' = Tail(chan)
           /\ UNCHANGED <<attached, closed, ended>>

Close == /\ ~closed
         /\ closed' = TRUE
         /\ UNCHANGED <<chan, received, attached, ended>>

SeeEnd == /\ attached
          /\ closed
          /\ chan = <<>>
          /\ ended' = TRUE
          /\ UNCHANGED <<chan, received, attached, closed>>

Next == \/ \E e \in Event : Send(e) \/ SendDroppingOldest(e)
        \/ Attach
        \/ Receive
        \/ Close
        \/ SeeEnd

Spec == Init /\ [][Next]_chanVars
=============================================================================
