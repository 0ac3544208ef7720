----------------------------- MODULE SafePublishing -----------------------------
(***************************************************************************)
(* What the two workflows promise about a tag's Release, without tags,     *)
(* runs, authors or commits: it becomes public only when its tag has been  *)
(* cleared or while it is watched; a watch over one that is public ends by *)
(* hiding it or by an alarm; an alarm is taken back only by hiding it.     *)
(***************************************************************************)
CONSTANT Tags

VARIABLES shown,     \* the tags whose Release is public
          cleared,   \* the tags that passed every check
          watched,   \* the tags a guard is about to look at
          alarmed    \* the tags a guard failed to look after

vars == <<shown, cleared, watched, alarmed>>

Init ==
    /\ shown = {}
    /\ cleared = {}
    /\ watched = {}
    /\ alarmed = {}

Clear(c) ==
    /\ cleared' = cleared \cup {c}
    /\ UNCHANGED <<shown, watched, alarmed>>

Show(c) ==
    /\ shown' = shown \cup {c}
    /\ \/ c \in cleared /\ UNCHANGED watched
       \/ watched' = watched \cup {c}
    /\ UNCHANGED <<cleared, alarmed>>

Watch(c) ==
    /\ watched' = watched \cup {c}
    /\ UNCHANGED <<shown, cleared, alarmed>>

(* By a guard, which may end the watch and answers an earlier alarm, or by a
   person, who does neither. *)
Hide(c) ==
    /\ shown' = shown \ {c}
    /\ \/ UNCHANGED <<watched, alarmed>>
       \/ /\ c \in watched
          /\ watched' \in {watched, watched \ {c}}
          /\ alarmed' = alarmed \ {c}
    /\ UNCHANGED cleared

Fail(c) ==
    /\ c \in watched
    /\ watched' \in {watched, watched \ {c}}
    /\ alarmed' = alarmed \cup {c}
    /\ shown' \in {shown, shown \ {c}}
    /\ UNCHANGED cleared

Next == \E c \in Tags : Clear(c) \/ Show(c) \/ Watch(c) \/ Hide(c) \/ Fail(c)

Spec == Init /\ [][Next]_vars
=============================================================================
