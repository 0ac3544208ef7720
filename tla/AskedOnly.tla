------------------------------- MODULE AskedOnly -------------------------------
(***************************************************************************)
(* What an exchange with a knowledge provider promises: whoever listens is *)
(* told about nothing but what one of the questions open at that moment    *)
(* asks about.  An answer is never covered by two questions put together.  *)
(***************************************************************************)
CONSTANTS Keys, Topics

VARIABLES wanted,   \* the open questions: [key, about]
          told      \* what has been taken as an answer: [key, about]

Init == wanted = {} /\ told = {}

Want(k, about) ==
    /\ wanted' = wanted \cup {[key |-> k, about |-> about]}
    /\ UNCHANGED told

GiveUp(q) ==
    /\ wanted' = wanted \ {q}
    /\ UNCHANGED told

Tell(q, about) ==
    /\ about \subseteq q.about
    /\ told' = told \cup {[key |-> q.key, about |-> about]}
    /\ UNCHANGED wanted

Next ==
    \/ \E k \in Keys, about \in SUBSET Topics : Want(k, about)
    \/ \E q \in wanted : GiveUp(q) \/ \E about \in SUBSET Topics : Tell(q, about)

Spec == Init /\ [][Next]_<<wanted, told>>
=============================================================================
