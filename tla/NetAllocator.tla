--------------------------- MODULE NetAllocator ---------------------------
(***************************************************************************)
(* What the network pool promises to the threads that extract features:    *)
(* a thread that needs a network is given one that no other thread has,    *)
(* keeps it for as long as it computes and then gives it back.             *)
(***************************************************************************)
CONSTANTS Threads, Nets, NoNet

VARIABLE held    \* held[t]: the network that thread t computes on, or NoNet

TypeOK == held \in [Threads -> Nets \cup {NoNet}]

Init == held = [t \in Threads |-> NoNet]

Free(n) == \A t \in Threads : held[t] # n

Acquire(t) == /\ held[t] = NoNet
              /\ \E n \in Nets : Free(n) /\ held' = [held EXCEPT ![t] = n]

Release(t) == /\ held[t] # NoNet
              /\ held' = [held EXCEPT ![t] = NoNet]

Next == \E t \in Threads : Acquire(t) \/ Release(t)

Spec == Init /\ [][Next]_held
=============================================================================
