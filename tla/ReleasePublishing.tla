--------------------------- MODULE ReleasePublishing ---------------------------
(***************************************************************************)
(* From a tag to a GitHub Release.  .github/workflows/release.yml runs for *)
(* every pushed tag, checks the commit it was pushed with, and publishes;  *)
(* release-guard.yml returns to draft any Release a person published.      *)
(* Workflow runs are queued and progress independently of each other and   *)
(* of the people who push tags, publish, withdraw and re-run.  GitHub      *)
(* itself is external: a Release keeps its first author, an event caused   *)
(* by the workflow's own token starts no workflow, and publishing a tag    *)
(* that already has a Release updates that Release.                        *)
(***************************************************************************)
EXTENDS ReleaseManifest, Integers

CONSTANTS TaggedCommits,   \* commits a tag may be pushed with
          MaxTags,         \* bound: tags there may be
          MaxMoves,        \* bound: times a tag is pushed again elsewhere
          MaxGuards        \* bound: guard jobs waiting for one tag

ASSUME PublishingAssumption ==
    /\ TaggedCommits \subseteq Commits
    /\ MaxTags \in Nat
    /\ MaxMoves \in Nat
    /\ MaxGuards \in Nat

VARIABLES tags,       \* the commit each tag names, or None
          moves,      \* moves[c]: how often tag c was pushed again elsewhere
          runs,       \* release.yml runs: the tag, its checkout and how far it got
          releases,   \* the GitHub Release of each tag
          guards,     \* guards[c]: release-guard.yml jobs waiting for c
          failed,     \* the tags whose last guard job failed
          passed,     \* history: the [tag, commit] pairs that passed every check
          withdrawn,  \* history: the tags whose Release a person withdrew
          remarked    \* history: the tags whose Release carries a mark that a
                      \* person set and no guard was started by

publishingVars ==
    <<tags, moves, runs, releases, guards, failed, passed, withdrawn, remarked>>

Stages == {"queued", "checked", "published", "failed"}

Runs == [tag : Candidates, commit : TaggedCommits, stage : Stages]

Checkouts == [tag : Candidates, commit : TaggedCommits]

Releases == [state : {"draft", "public"}, author : {"workflow", "person"},
             prerelease : BOOLEAN]

ASSUME NoneIsNoRelease == None \notin Releases

PublishingInit ==
    /\ tags = [c \in Candidates |-> None]
    /\ moves = [c \in Candidates |-> 0]
    /\ runs = {}
    /\ releases = [c \in Candidates |-> None]
    /\ guards = [c \in Candidates |-> 0]
    /\ failed = {}
    /\ passed = {}
    /\ withdrawn = {}
    /\ remarked = {}

Queued(c, commit) == [tag |-> c, commit |-> commit, stage |-> "queued"]

At(run, stage) == (runs \ {run}) \cup {[run EXCEPT !.stage = stage]}

-----------------------------------------------------------------------------
(* People. *)
MayCut(c) ==
    /\ tags[c] = None
    /\ Cardinality({d \in Candidates : tags[d] # None}) < MaxTags

PushTag(c, commit) ==
    /\ MayCut(c)
    /\ tags' = [tags EXCEPT ![c] = commit]
    /\ runs' = runs \cup {Queued(c, commit)}
    /\ UNCHANGED <<moves, releases, guards, failed, passed, withdrawn, remarked>>

MoveQuietly(c, commit) ==   \* faulty: a run starts when a tag is created only
    /\ tags[c] # None /\ tags[c] # commit
    /\ moves[c] < MaxMoves
    /\ tags' = [tags EXCEPT ![c] = commit]
    /\ moves' = [moves EXCEPT ![c] = @ + 1]
    /\ UNCHANGED <<runs, releases, guards, failed, passed, withdrawn, remarked>>

(* A tag cut at the wrong commit is cut again: the push starts a run of its
   own, and the run of the first push goes on with its own checkout. *)
MoveTag(c, commit) ==
    /\ tags[c] # None /\ tags[c] # commit
    /\ moves[c] < MaxMoves
    /\ tags' = [tags EXCEPT ![c] = commit]
    /\ moves' = [moves EXCEPT ![c] = @ + 1]
    /\ runs' = runs \cup {Queued(c, commit)}
    /\ UNCHANGED <<releases, guards, failed, passed, withdrawn, remarked>>

(* The web UI, gh release create or the API: public at once, created with the
   tag when there is none, marked as the person pleases. *)
HandRelease(c, commit, prerelease) ==
    /\ releases[c] = None
    /\ guards[c] < MaxGuards
    /\ \/ /\ MayCut(c)
          /\ tags' = [tags EXCEPT ![c] = commit]
          /\ runs' = runs \cup {Queued(c, commit)}
       \/ /\ tags[c] = commit
          /\ UNCHANGED <<tags, runs>>
    /\ releases' = [releases EXCEPT ![c] =
                       [state |-> "public", author |-> "person", prerelease |-> prerelease]]
    /\ guards' = [guards EXCEPT ![c] = @ + 1]
    /\ UNCHANGED <<moves, failed, passed, withdrawn, remarked>>

Withdraw(c) ==
    /\ releases[c] # None /\ releases[c].state = "public"
    /\ releases' = [releases EXCEPT ![c].state = "draft"]
    /\ withdrawn' = withdrawn \cup {c}
    /\ UNCHANGED <<tags, moves, runs, guards, failed, passed, remarked>>

(* The guard's condition is on the Release's author, not on who published or
   what was changed on the way: a draft release.yml had authored is public
   again with any mark, and no guard starts. *)
PublishDraft(c, prerelease) ==
    /\ releases[c] # None /\ releases[c].state = "draft"
    /\ releases' = [releases EXCEPT ![c] =
                       [state |-> "public", author |-> @.author, prerelease |-> prerelease]]
    /\ \/ /\ releases[c].author = "person" /\ guards[c] < MaxGuards
          /\ guards' = [guards EXCEPT ![c] = @ + 1]
          /\ UNCHANGED remarked
       \/ /\ releases[c].author = "workflow"
          /\ remarked' = remarked \cup {c}
          /\ UNCHANGED guards
    /\ UNCHANGED <<tags, moves, runs, failed, passed, withdrawn>>

(* The mark of a Release, public or not, is edited in place: the guard listens
   to "published" only. *)
EditMark(c, prerelease) ==
    /\ releases[c] # None /\ releases[c].prerelease # prerelease
    /\ releases' = [releases EXCEPT ![c].prerelease = prerelease]
    /\ remarked' = remarked \cup {c}
    /\ UNCHANGED <<tags, moves, runs, guards, failed, passed, withdrawn>>

(* Re-running a workflow checks out the commit of the push again. *)
Rerun(run) ==
    /\ run.stage \in {"failed", "published"}
    /\ runs' = At(run, "queued")
    /\ UNCHANGED <<tags, moves, releases, guards, failed, passed, withdrawn, remarked>>

-----------------------------------------------------------------------------
(* release.yml: each step fails the job; whether the tests pass is open. *)
RunChecks(run) ==
    /\ run.stage = "queued"
    /\ \E testsPass \in BOOLEAN :
          IF ReleaseChecksPass(run.commit, run.tag) /\ testsPass
          THEN /\ runs' = At(run, "checked")
               /\ passed' = passed \cup {[tag |-> run.tag, commit |-> run.commit]}
          ELSE /\ runs' = At(run, "failed")
               /\ UNCHANGED passed
    /\ UNCHANGED <<tags, moves, releases, guards, failed, withdrawn, remarked>>

CreateUnclassified(run) ==   \* faulty: the Release keeps the mark it had
    /\ run.stage = "checked"
    /\ runs' = At(run, "published")
    /\ releases' = [releases EXCEPT ![run.tag] =
                       IF @ = None
                       THEN [state |-> "public", author |-> "workflow",
                             prerelease |-> run.tag \notin StableCandidates]
                       ELSE [@ EXCEPT !.state = "public"]]
    /\ remarked' = remarked \ {run.tag}
    /\ UNCHANGED <<tags, moves, guards, failed, passed, withdrawn>>

CreateRelease(run) ==
    /\ run.stage = "checked"
    /\ runs' = At(run, "published")
    /\ releases' = [releases EXCEPT ![run.tag] =
                       [state |-> "public", prerelease |-> run.tag \notin StableCandidates,
                        author |-> IF @ = None THEN "workflow" ELSE @.author]]
    /\ remarked' = remarked \ {run.tag}
    /\ UNCHANGED <<tags, moves, guards, failed, passed, withdrawn>>

(* The last step fails: the checks are on record, the Release is as it was. *)
CreateFails(run) ==
    /\ run.stage = "checked"
    /\ runs' = At(run, "failed")
    /\ UNCHANGED <<tags, moves, releases, guards, failed, passed, withdrawn, remarked>>

GuardReports(c) ==   \* faulty: the issue is opened, the Release is left public
    /\ guards[c] > 0
    /\ guards' = [guards EXCEPT ![c] = @ - 1]
    /\ UNCHANGED <<tags, moves, runs, releases, failed, passed, withdrawn, remarked>>

GuardWithoutEvent(c) ==   \* faulty: runs on a timer too
    /\ releases[c] # None
    /\ guards' = [guards EXCEPT ![c] = @ - 1]
    /\ releases' = [releases EXCEPT ![c].state = "draft"]
    /\ failed' = failed \ {c}
    /\ UNCHANGED <<tags, moves, runs, passed, withdrawn, remarked>>

(* release-guard.yml: back to draft, whatever the Release is by then. *)
Guard(c) ==
    /\ guards[c] > 0
    /\ guards' = [guards EXCEPT ![c] = @ - 1]
    /\ releases' = [releases EXCEPT ![c].state = "draft"]
    /\ failed' = failed \ {c}
    /\ UNCHANGED <<tags, moves, runs, passed, withdrawn, remarked>>

GuardGivesUp(c) ==   \* faulty: a failed call ends the job as if it had worked
    /\ guards[c] > 0
    /\ guards' = [guards EXCEPT ![c] = @ - 1]
    /\ UNCHANGED <<tags, moves, runs, releases, failed, passed, withdrawn, remarked>>

(* A call fails and the job stops there: before the PATCH, or after it, while
   reading the Release back or opening the issue.  Nothing tries again. *)
GuardFails(c) ==
    /\ guards[c] > 0
    /\ guards' = [guards EXCEPT ![c] = @ - 1]
    /\ \/ UNCHANGED releases
       \/ releases' = [releases EXCEPT ![c].state = "draft"]
    /\ failed' = failed \cup {c}
    /\ UNCHANGED <<tags, moves, runs, passed, withdrawn, remarked>>

(* A person runs an ended guard job again, with the event it was started by. *)
RerunGuard(c) ==
    /\ releases[c] # None /\ releases[c].author = "person"
    /\ guards[c] = 0 /\ MaxGuards > 0
    /\ guards' = [guards EXCEPT ![c] = 1]
    /\ UNCHANGED <<tags, moves, runs, releases, failed, passed, withdrawn, remarked>>

(* What cuts a tag or names one, given the commits there are. *)
Cut(commits) ==
    \E c \in Candidates, commit \in commits :
       \/ PushTag(c, commit)
       \/ MoveTag(c, commit)
       \/ \E prerelease \in BOOLEAN : HandRelease(c, commit, prerelease)

(* What happens to tags, runs and Releases that are there. *)
Proceed ==
    \/ \E c \in Candidates :
          \/ \E prerelease \in BOOLEAN : PublishDraft(c, prerelease) \/ EditMark(c, prerelease)
          \/ Withdraw(c) \/ RerunGuard(c)
          \/ Guard(c) \/ GuardFails(c)
    \/ \E run \in runs :
          \/ Rerun(run) \/ RunChecks(run)
          \/ CreateRelease(run) \/ CreateFails(run)

PublishingNext == Cut(TaggedCommits) \/ Proceed

(* GitHub starts every queued job sooner or later, which is not to say that the
   job succeeds; people owe nothing. *)
PublishingSpec ==
    /\ PublishingInit
    /\ [][PublishingNext]_publishingVars
    /\ \A c \in Candidates : WF_publishingVars(Guard(c) \/ GuardFails(c))

-----------------------------------------------------------------------------
(* Tags, runs and records name commits, a Release has one of its states, and no
   guard runs without the event that started it. *)
PublishingTypeOK ==
    /\ tags \in [Candidates -> TaggedCommits \cup {None}]
    /\ moves \in [Candidates -> 0 .. MaxMoves]
    /\ runs \subseteq Runs
    /\ releases \in [Candidates -> Releases \cup {None}]
    /\ guards \in [Candidates -> 0 .. MaxGuards]
    /\ failed \subseteq Candidates
    /\ passed \subseteq Checkouts
    /\ withdrawn \subseteq Candidates
    /\ remarked \subseteq Candidates

Public(c) == releases[c] # None /\ releases[c].state = "public"

Checked(c) == \E x \in passed : x.tag = c

(* No guard is on its way, and the last one that ran did its work. *)
Quiet(c) == guards[c] = 0 /\ c \notin failed

(* The commit the tag names has not passed: its own run waits, or failed. *)
Unproven(c) ==
    \E run \in runs :
        /\ run.tag = c /\ run.commit = tags[c]
        /\ run.stage \in {"queued", "failed"}

(* A Release that is public with no guard on its way passed every check of
   release.yml for its tag, whoever published it, withdrew it or published it
   again, unless a guard job failed and shows it.  It passed at the commit the
   tag names; or the tag was moved since, and the run of the commit it was moved
   to has yet to check it, or failed, in everybody's sight. *)
QuietReleaseWasChecked ==
    \A c \in Candidates :
        Public(c) /\ Quiet(c) =>
            \E x \in passed :
                /\ x.tag = c
                /\ x.commit = tags[c] \/ (moves[c] > 0 /\ Unproven(c))

(* No candidate is offered as stable, nor a stable version as a candidate, for
   longer than a guard takes, unless a person marked it so where no guard looks:
   on the Release itself, or on a draft release.yml had authored.  A mark made
   by creating or publishing a person's Release does not survive the guard and
   the workflow, nor does any mark survive release.yml's next publication. *)
WrongMarkIsAnEdit ==
    \A c \in Candidates :
        Public(c) /\ Quiet(c) /\ c \notin remarked =>
            releases[c].prerelease = (c \notin StableCandidates)

(* A stable Release that is public, with no guard on its way and its tag never
   moved, has a trusted signature over the very surface its tag ships. *)
QuietStableIsSigned ==
    \A c \in StableCandidates :
        Public(c) /\ Quiet(c) /\ moves[c] = 0 =>
            \E line \in tags[c].signatures[c] :
                /\ line.key_id \in DOMAIN tags[c].trusted
                /\ line.by = tags[c].trusted[line.key_id]
                /\ line.payload = [candidate |-> c, version |-> c, files |-> tags[c].surface]

(* A hand-made Release that never passes the checks does not stay public
   behind a guard that has not failed. *)
UncheckedIsWithdrawn ==
    \A c \in Candidates : Public(c) ~> ~Public(c) \/ Checked(c) \/ c \in failed

(* Read as shown, cleared, watched and alarmed tags, the workflows implement
   SafePublishing: no order of jobs, people and failures shows a Release that
   is neither checked nor under a guard, or drops a guard without a trace. *)
Safe == INSTANCE SafePublishing WITH
            Tags <- Candidates,
            shown <- {c \in Candidates : Public(c)},
            cleared <- {c \in Candidates : Checked(c)},
            watched <- {c \in Candidates : guards[c] > 0},
            alarmed <- failed

ImplementsSafePublishing == Safe!Spec

(* docs/release-signing.md: when all its checks pass, release.yml publishes
   the draft again.  Once its jobs have ended, a tag that passed is public
   unless a person withdrew it. *)
CheckedEndsPublic ==
    \A c \in Candidates \ withdrawn :
        /\ \E run \in runs : run.tag = c
        /\ \A run \in runs : run.tag = c => run.stage = "published"
        /\ Quiet(c)
        => Public(c)
=============================================================================
