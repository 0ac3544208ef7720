--------------------------- MODULE BoundedExposure ---------------------------
(***************************************************************************)
(* What the exposure guards promise, with no records in sight: a proposal  *)
(* is opened once, with a window no longer than the bound, and the         *)
(* instants at which its change is reported in place only ever fall inside *)
(* that window.  Nothing reopens, moves or lengthens it.                   *)
(***************************************************************************)
EXTENDS Integers

CONSTANTS ProposalIds, MaxProposalWindow

VARIABLES window,   \* window[i]: the window proposal i was opened with
          covered   \* covered[i]: the instants at which i was reported in place

vars == <<window, covered>>

Unopened == [from |-> 0, to |-> -1]

IsWindow(w) ==
    /\ w \in [from : Nat, to : Nat]
    /\ w.from < w.to
    /\ w.to - w.from <= MaxProposalWindow

Init ==
    /\ window = [i \in ProposalIds |-> Unopened]
    /\ covered = [i \in ProposalIds |-> {}]

Open(i) ==
    /\ window[i] = Unopened
    /\ IsWindow(window'[i])
    /\ window' = [window EXCEPT ![i] = window'[i]]
    /\ UNCHANGED covered

Cover(i) ==
    /\ window[i] # Unopened
    /\ covered' = [covered EXCEPT ![i] = covered'[i]]
    /\ covered[i] \subseteq covered'[i]
    /\ covered'[i] \subseteq window[i].from .. window[i].to
    /\ UNCHANGED window

Next == \E i \in ProposalIds : Open(i) \/ Cover(i)

Spec == Init /\ [][Next]_vars
=============================================================================
