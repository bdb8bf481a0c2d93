--------------------------- MODULE LinkContract ---------------------------
(***************************************************************************)
(* What QuicClient promises the thread that supervises it, one attempt     *)
(* after another (include/cfd/quic_client.hpp): a link is dialled, comes   *)
(* up or fails, is lost, is closed; the disconnect handler is told of a    *)
(* loss at most once per attempt, only of a link that had been up, and     *)
(* never once the link is closed.                                          *)
(***************************************************************************)

VARIABLES
  link,   \* the transport connection of the current attempt
  told    \* the disconnect handler has been called in this attempt

Init == link = "closed" /\ told = FALSE

\* connect() forgets the previous attempt: allowed only between two links.
Renew == link = "closed" /\ told' = FALSE /\ UNCHANGED link

Dial      == link = "closed"  /\ link' = "dialing" /\ told' = FALSE
Establish == link = "dialing" /\ link' = "up"      /\ UNCHANGED told
Fail      == link = "dialing" /\ link' = "failed"  /\ UNCHANGED told
Lose      == link = "up"      /\ link' = "lost"    /\ UNCHANGED told
Tell      == link = "lost" /\ ~told /\ told' = TRUE /\ UNCHANGED link
Close     == link \in {"lost", "failed"} /\ link' = "closed" /\ UNCHANGED told

Next == Renew \/ Dial \/ Establish \/ Fail \/ Lose \/ Tell \/ Close

Spec == Init /\ [][Next]_<<link, told>>
=============================================================================
