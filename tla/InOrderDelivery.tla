--------------------------- MODULE InOrderDelivery ---------------------------
(***************************************************************************)
(* What a redundancy channel promises the safety and retransmission layer  *)
(* whatever the transport channels do: of the PDUs 0, 1, 2, ... that were  *)
(* sent it delivers some, each at most once and in the order they were     *)
(* sent.                                                                   *)
(***************************************************************************)
EXTENDS Naturals, Sequences

VARIABLES sent,   \* how many PDUs were sent
          got     \* the PDUs delivered, oldest first

Init == sent = 0 /\ got = << >>

Send == sent' = sent + 1 /\ UNCHANGED got

Deliver ==
  \E s \in 0 .. sent - 1 :
    /\ \A i \in 1 .. Len(got) : got[i] < s
    /\ got' = Append(got, s)
    /\ UNCHANGED sent

Next == Send \/ Deliver

Spec == Init /\ [][Next]_<<sent, got>>
=============================================================================
