-------------------------- MODULE NotificationLog --------------------------
(***************************************************************************)
(* What subscribers are promised: a notification that was posted is        *)
(* received at most once, and those of one kind in the order in which they *)
(* were posted.  Some may be lost.  Nothing is promised once it is broken. *)
(***************************************************************************)
EXTENDS Integers, Sequences, SequencesExt

CONSTANTS Kinds, Subscribers

VARIABLES
  log,       \* log[n]: the kind of the n-th notification
  received,  \* received[s]: the numbers of what s received
  broken     \* the promise no longer holds

Init == log = <<>> /\ received = [s \in Subscribers |-> <<>>] /\ broken = FALSE

Post == \E k \in Kinds : log' = Append(log, k) /\ UNCHANGED <<received, broken>>

\* Every notification of the same kind that s received was posted before n.
IsNext(s, n) == \A m \in ToSet(received[s]) : log[m] = log[n] => m < n

Receive(s) ==
  \E n \in DOMAIN log :
    /\ IsNext(s, n)
    /\ received' = [received EXCEPT ![s] = Append(@, n)]
    /\ UNCHANGED <<log, broken>>

Break == ~broken /\ broken' = TRUE /\ UNCHANGED <<log, received>>

\* What is received then is open.
ReceiveAny == broken /\ UNCHANGED <<log, broken>>

Next == Post \/ Break \/ ReceiveAny \/ \E s \in Subscribers : Receive(s)

Spec == Init /\ [][Next]_<<log, received, broken>>
=============================================================================
