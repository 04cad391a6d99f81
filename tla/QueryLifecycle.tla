-------------------------- MODULE QueryLifecycle --------------------------
(***************************************************************************)
(* The life of a query as the server announces it: examples are collected, *)
(* a classifier is trained, the dataset is ranked.  No state is entered    *)
(* twice and none is left for an earlier one, as long as nobody hurries:   *)
(* trains while examples may still arrive, or asks for the same twice.  A  *)
(* query that was hurried may go back, but never to collecting examples.   *)
(***************************************************************************)
CONSTANT Queries

VARIABLES
  state,   \* state[q]: the state of query q
  hurried  \* the queries whose client hurried

States == {"DATACOLL", "DATACOLL_COMPLETE", "TRAINING", "TRAINED",
           "RANKING", "RANKED"}

\* Training may begin before all examples were collected.
Follows ==
  {<<"DATACOLL", "DATACOLL_COMPLETE">>, <<"DATACOLL", "TRAINING">>,
   <<"DATACOLL_COMPLETE", "TRAINING">>, <<"TRAINING", "TRAINED">>,
   <<"TRAINED", "RANKING">>, <<"RANKING", "RANKED">>}

Init == state = [q \in Queries |-> "DATACOLL"] /\ hurried = {}

Advance(q) ==
  \E s \in States :
    /\ <<state[q], s>> \in Follows \/ (q \in hurried /\ s # "DATACOLL")
    /\ state' = [state EXCEPT ![q] = s]
    /\ UNCHANGED hurried

Hurry(q) == hurried' = hurried \cup {q} /\ UNCHANGED state

Next == \E q \in Queries : Advance(q) \/ Hurry(q)

Spec == Init /\ [][Next]_<<state, hurried>>
=============================================================================
