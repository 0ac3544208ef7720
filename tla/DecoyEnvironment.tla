---------------------------- MODULE DecoyEnvironment ----------------------------
(***************************************************************************)
(* Deception hosts that hold a package and a catalog of transitions and    *)
(* act on the signed decisions of an Edge.  Decisions are lost, replayed   *)
(* and mixed up on the way; packages and catalogs are pydantic models that *)
(* are not frozen, so anybody who holds one can assign to it, and nothing  *)
(* validates the assignment.  Which functions a host calls is its own      *)
(* affair: here it verifies a decision, checks the package's digest when   *)
(* it activates, and selects a transition in a catalog whose digest it     *)
(* checked some time before, or never.                                     *)
(***************************************************************************)
EXTENDS DeceptionRecords, FiniteSets

CONSTANTS Hosts,       \* hosts, each with one environment of the same name
          Packages,    \* DeceptionPackage objects, constructed or assigned to
          Catalogs,    \* TransitionCatalog objects, constructed or assigned to
          Decisions,   \* the decision mappings an Edge or a relay may send, unsigned
          Keys,        \* what an operator may configure as the shared key
          Baseline,    \* the state an activated environment starts in
          None,        \* nothing held, no environment
          MaxSteps     \* bound: distinct transitions taken

ASSUME NoneIsAbsent == None \notin Packages \cup Catalogs

ASSUME ObjectsAssumption ==
    /\ \A p \in Packages : {"components", "deployment_tiers", "maximum_budget"} \subseteq DOMAIN p
    /\ \A c \in Catalogs : "transitions" \in DOMAIN c

ASSUME DecisionsAssumption ==   \* unsigned, and with the fields of their kind
    \A d \in Decisions :
        /\ CanonicalBytes(d) = d /\ "kind" \in DOMAIN d
        /\ d.kind = "activation" =>
              {"target_node_id", "package_digest", "selected_tier", "budget"} \subseteq DOMAIN d
        /\ d.kind = "transition" =>
              {"environment_id", "current_state", "target_state"} \subseteq DOMAIN d
        /\ d.kind = "termination" => "environment_id" \in DOMAIN d

ASSUME KeysAssumption == Missing \notin Secrets /\ {Zeros, NoKey} \cap Secrets = {}

VARIABLES packages,      \* per host, the package it holds
          catalogs,      \* per host, the catalog it holds
          vouched,       \* per host, that catalog as it was when its digest was checked
          keys,          \* per host, the key it verifies with
          signatures,    \* signatures of Edge decisions, once sent always in circulation
          environment,   \* per host, the running environment
          steps          \* transitions taken

vars == <<packages, catalogs, vouched, keys, signatures, environment, steps>>

Init ==
    /\ packages = [h \in Hosts |-> None] /\ catalogs = [h \in Hosts |-> None]
    /\ vouched = [h \in Hosts |-> None]
    /\ keys \in [Hosts -> Keys]
    /\ signatures = {}
    /\ environment = [h \in Hosts |-> None]
    /\ steps = {}

HoldPackage(h, p) ==
    /\ PackageOK(p)
    /\ packages' = [packages EXCEPT ![h] = p]
    /\ UNCHANGED <<catalogs, vouched, keys, signatures, environment, steps>>

(* Another object, which nobody has checked yet. *)
HoldCatalog(h, c) ==
    /\ CatalogOK(c)
    /\ catalogs' = [catalogs EXCEPT ![h] = c]
    /\ vouched' = [vouched EXCEPT ![h] = None]
    /\ UNCHANGED <<packages, keys, signatures, environment, steps>>

(* An assignment to one field of the object held. *)
Assigns(held, object) == \E f \in DOMAIN held : object = [held EXCEPT ![f] = object[f]]

AssignPackage(h, p) ==
    /\ packages[h] # None /\ Assigns(packages[h], p)
    /\ packages' = [packages EXCEPT ![h] = p]
    /\ UNCHANGED <<catalogs, vouched, keys, signatures, environment, steps>>

AssignCatalog(h, c) ==
    /\ catalogs[h] # None /\ Assigns(catalogs[h], c)
    /\ catalogs' = [catalogs EXCEPT ![h] = c]
    /\ UNCHANGED <<packages, vouched, keys, signatures, environment, steps>>

(* assert_catalog_content_digest, a call of its own: what it found is not kept
   with the catalog, which may be assigned to before it is selected from. *)
CheckCatalog(h) ==
    /\ catalogs[h] # None /\ CatalogDigestMatches(catalogs[h])
    /\ vouched' = [vouched EXCEPT ![h] = catalogs[h]]
    /\ UNCHANGED <<packages, catalogs, keys, signatures, environment, steps>>

Configure(h, k) ==
    /\ keys' = [keys EXCEPT ![h] = k]
    /\ UNCHANGED <<packages, catalogs, vouched, signatures, environment, steps>>

(* The Edge activates only packages it could construct itself. *)
NamesAPackage(d) ==
    d.kind = "activation" =>
        \E p \in Packages : PackageOK(p) /\ PackageDigestMatches(p)
                            /\ d.package_digest = p.package_digest

Decide(d, k) ==
    /\ DecisionOK(d) /\ NamesAPackage(d)
    /\ AsKey(k) # NoKey
    /\ signatures' = signatures \cup {SignDecision(d, k).decision_signature}
    /\ UNCHANGED <<packages, catalogs, vouched, keys, environment, steps>>

(* What may be delivered, any number of times: any decision under any signature
   that was ever sent, under none, or under that of a sender who is not built
   on this module and whose numeric key became zeros. *)
Degenerate(d) == [key |-> Zeros, bytes |-> CanonicalBytes(d)]

SignaturesFor(d) == signatures \cup {Missing, Degenerate(d)}

(* A decision of the kind a host was waiting for, from somebody with its key. *)
Admits(h, m, kind) ==
    /\ VerifyDecisionSignature(m, keys[h])
    /\ DecisionOK(m)
    /\ m.kind = kind

Activate(h, m) ==
    LET p == packages[h] IN
    /\ environment[h] = None /\ p # None
    /\ Admits(h, m, "activation")
    /\ m.target_node_id = h
    /\ PackageDigestMatches(p) /\ m.package_digest = p.package_digest
    /\ IsWithin(m.budget, p.maximum_budget, TRUE)
    /\ \E t \in Range(p.deployment_tiers) :
          /\ t.tier_id = m.selected_tier
          /\ IsWithin(t.minimum, m.budget, FALSE)
          /\ environment' = [environment EXCEPT ![h] =
                [state |-> Baseline, decision |-> CanonicalBytes(m),
                 running |-> t.include_components]]
    /\ UNCHANGED <<packages, catalogs, vouched, keys, signatures, steps>>

(* Selects in the catalog as it is now, checked or not, and as it was checked or
   not; the step remembers which. *)
Transit(h, m) ==
    LET c == catalogs[h] IN
    /\ environment[h] # None /\ c # None
    /\ Admits(h, m, "transition")
    /\ m.environment_id = h /\ m.current_state = environment[h].state
    /\ Matching(c, m.current_state, m.target_state) # {}
    /\ environment' = [environment EXCEPT ![h].state = m.target_state]
    /\ steps' = steps \cup
          {[from |-> m.current_state, to |-> m.target_state, intact |-> vouched[h] = c,
            taken |-> SelectTransition(c, m.current_state, m.target_state),
            digest |-> c.catalog_digest]}
    /\ Cardinality(steps') <= MaxSteps
    /\ UNCHANGED <<packages, catalogs, vouched, keys, signatures>>

Terminate(h, m) ==
    /\ environment[h] # None
    /\ Admits(h, m, "termination")
    /\ m.environment_id = h
    /\ environment' = [environment EXCEPT ![h] = None]
    /\ UNCHANGED <<packages, catalogs, vouched, keys, signatures, steps>>

Next ==
    \/ \E h \in Hosts :
          \/ \E p \in Packages : HoldPackage(h, p) \/ AssignPackage(h, p)
          \/ \E c \in Catalogs : HoldCatalog(h, c) \/ AssignCatalog(h, c)
          \/ CheckCatalog(h)
          \/ \E k \in Keys : Configure(h, k)
          \/ \E d \in Decisions : \E s \in SignaturesFor(d) :
                \/ Activate(h, SignedAs(d, s))
                \/ Transit(h, SignedAs(d, s))
                \/ Terminate(h, SignedAs(d, s))
    \/ \E d \in Decisions, k \in Keys : Decide(d, k)

Spec == Init /\ [][Next]_vars

-----------------------------------------------------------------------------
(* What is held, sent, run and remembered has its shape. *)
TypeOK ==
    /\ packages \in [Hosts -> Packages \cup {None}]
    /\ catalogs \in [Hosts -> Catalogs \cup {None}]
    /\ vouched \in [Hosts -> Catalogs \cup {None}]
    /\ keys \in [Hosts -> Keys]
    /\ signatures \subseteq [key : Secrets, bytes : Decisions]
    /\ DOMAIN environment = Hosts
    /\ \A h \in Hosts : environment[h] # None =>
          DOMAIN environment[h] = {"state", "decision", "running"}

(* An environment starts, moves and stops only as a decision the Edge signed
   says of this environment in the state it is in: not on one that was altered,
   signed over something else, or signed with a key that was never a secret. *)
EveryMoveWasDecided ==
    [][\A h \in Hosts : environment'[h] # environment[h] =>
        \E d \in {s.bytes : s \in signatures} :
            \/ /\ d.kind = "activation" /\ d.target_node_id = h
               /\ environment[h] = None
               /\ environment'[h].decision = d
            \/ /\ d.kind = "transition" /\ d.environment_id = h
               /\ environment[h] # None
               /\ d.current_state = environment[h].state
               /\ environment'[h] = [environment[h] EXCEPT !.state = d.target_state]
            \/ /\ d.kind = "termination" /\ d.environment_id = h
               /\ environment'[h] = None]_vars

(* A decision names two states, not a transition: which of several entries with
   other bounds it takes is settled by the digest for every host that selects in
   the catalog it checked, whatever was assigned, reordered or replaced before
   the check, between two steps, or elsewhere.  Between the check and the
   selection nothing protects it: a catalog assigned to there is not intact, and
   nothing is said of its step. *)
DigestFixesTheStep ==
    \A s, u \in steps :
        /\ s.intact /\ u.intact /\ s.digest = u.digest
        /\ s.from = u.from /\ s.to = u.to
        => s.taken = u.taken

(* What runs is bounded in every dimension, bandwidth included, by the maximum
   of the very package the Edge named, and runs every component it requires. *)
RunsWithinItsPackage ==
    \A h \in Hosts : environment[h] # None =>
        LET p == environment[h].decision.package_digest
            b == environment[h].decision.budget
        IN  /\ \A d \in Dims : b.limits[d] <= p.maximum_budget.limits[d]
            /\ b.bandwidth # Unbounded /\ b.bandwidth <= p.maximum_budget.bandwidth
            /\ Required(p) \subseteq environment[h].running
=============================================================================
