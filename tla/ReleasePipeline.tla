---------------------------- MODULE ReleasePipeline ----------------------------
(***************************************************************************)
(* The two halves of a release together.  A release owner prepares a tree  *)
(* (ReleaseSigning) and commits some of its states; tags are pushed, moved *)
(* and created by hand at any commit there is, also at an old one, while   *)
(* the tree changes on (ReleasePublishing).  The halves share nothing but  *)
(* the commits: no workflow reads the working tree, and nothing a workflow *)
(* does changes it.                                                        *)
(***************************************************************************)
EXTENDS ReleaseSigning, ReleasePublishing

CONSTANTS MaxCommits,   \* bound: commits there may be
          MaxLateSteps  \* bound: steps of preparation after the first commit

ASSUME PipelineAssumption == MaxCommits \in Nat /\ MaxLateSteps \in Nat

VARIABLES committed,   \* the states of the tree that were committed
          late         \* steps of preparation since the first commit, for the bound

vars == <<signingVars, publishingVars, committed, late>>

Init ==
    /\ SigningInit
    /\ PublishingInit
    /\ committed = {}
    /\ late = 0

(* The tree is committed as it stands, finished or not. *)
Commit ==
    /\ tree \in TaggedCommits
    /\ Cardinality(committed \cup {tree}) <= MaxCommits
    /\ committed' = committed \cup {tree}
    /\ UNCHANGED <<signingVars, publishingVars, late>>

Prepare ==
    /\ SigningNext
    /\ \/ committed = {} /\ UNCHANGED late
       \/ committed # {} /\ late < MaxLateSteps /\ late' = late + 1
    /\ UNCHANGED <<publishingVars, committed>>

Publish ==
    /\ Cut(committed) \/ Proceed
    /\ UNCHANGED <<signingVars, committed, late>>

Next == Commit \/ Prepare \/ Publish

Spec == Init /\ [][Next]_vars

-----------------------------------------------------------------------------
(* From the owner's key to the reader of a Release: a stable Release that is
   public, with no guard on its way, passed release.yml at a commit whose
   surface an owner signed under this very tag's name; and that is the commit
   the tag names, or the tag was moved and the run of its new commit waits or
   failed.  It holds although the signature is
   of a payload taken earlier, the tag was cut by anybody, anywhere in the
   history, and the Release may be a person's. *)
ShippedWasOwnerSigned ==
    \A c \in StableCandidates :
        Public(c) /\ Quiet(c) =>
            \E x \in passed :
                /\ x.tag = c
                /\ x.commit = tags[c] \/ (moves[c] > 0 /\ Unproven(c))
                /\ [candidate |-> c, version |-> c, files |-> x.commit.surface]
                      \in ownerSigned
=============================================================================
