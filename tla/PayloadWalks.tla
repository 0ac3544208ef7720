------------------------------ MODULE PayloadWalks ------------------------------
(***************************************************************************)
(* The guards that walk a payload for names, secrets and excess: seven     *)
(* families, each with a walk of its own, over one payload that is put     *)
(* into envelopes, batches and records by whoever forwards it.             *)
(*                                                                         *)
(* A payload is a function from cells to nodes, whose root is the last     *)
(* cell.  A node is a kind, a width (entries of a container, characters of *)
(* a text) and those of its entries that are not plain numbers under       *)
(* harmless keys; an entry's value is a cell below.  A name stands for the *)
(* names of a table that the guards tell apart in the same way.  A         *)
(* spelling is how it is written: "kebab" stands for every separator but   *)
(* "_", "squashed" for the words run together.                             *)
(***************************************************************************)
EXTENDS Naturals

CONSTANTS Keys,       \* keys a payload may have: [name, spelling]
          Leaves,     \* values that are not containers
          Levels,     \* containers put around a payload at once
          Widths,     \* entries a container is filled up to
          MaxSteps    \* bound: changes made to a payload

Containers == {"dict", "list"}

Unspelled(name) == [name |-> name, spelling |-> "none"]

NoKey == Unspelled("item")   \* of the items of a list

Node(kind, width, entries) == [kind |-> kind, width |-> width, entries |-> entries]

Nothing == Node("none", 0, {})

Number == Node("number", 0, {})

Entry(key, cell) == [key |-> key, value |-> cell]

Note == Unspelled("note")   \* a key that no table bans

ASSUME PayloadAssumption ==
    /\ Keys \subseteq [name : STRING, spelling : STRING]
    /\ Leaves \subseteq [kind : STRING \ Containers, width : Nat, entries : {{}}]
    /\ Levels \subseteq Nat \ {0}
    /\ Widths \subseteq Nat
    /\ MaxSteps \in Nat

Holding(leaf) == [root |-> 1, cells |-> [c \in 0 .. 1 |-> IF c = 0 THEN Number ELSE leaf]]

Root(p) == p.cells[p.root]

-----------------------------------------------------------------------------
(* Keys.  Exact comparison, folding of separators, splitting of camel case,
   and words run together. *)

Snake(names) == [name : names, spelling : {"snake"}]

Folded(k) == IF k.spelling = "kebab" THEN [k EXCEPT !.spelling = "snake"] ELSE k

Split(k) == IF k.spelling \in {"kebab", "camel"} THEN [k EXCEPT !.spelling = "snake"] ELSE k

AllSpellings(names) == {k \in Keys : k.name \in names}

RuntimeDirectives == Snake({"docker_command", "nft_rule"})

EffectivenessVerdicts == Snake({"belief_score"})

EngagementAuthority == RuntimeDirectives \cup Snake({"select_action"})

OutcomeForbidden ==
    {k \in Keys : Folded(k) \in Snake({"docker_command", "select_action", "attacker_belief"})}

TacticalClaims == {k \in Keys : Folded(k) \in Snake({"tactical_effect"})}

FewerMioDirectives == Snake({"docker_command", "select_action"})   \* faulty: drifted apart

MioDirectives == Snake({"docker_command", "nft_rule", "select_action"})

EffectAuthority == {k \in Keys : Folded(k) \in Snake({"docker_command", "council_vote"})}

ProvisioningBanned == {k \in Keys : Split(k) \in Snake({"docker_command", "nft_rule"})}

TierClaims == {k \in Keys : Split(k) \in Snake({"resource_tier"})}

RoleInference == {k \in Keys : Split(k) \in Snake({"inferred_role"})}

ExternalDirectives == AllSpellings({"docker_command", "nft_rule", "aws_secret_access_key"})

TargetLocators == AllSpellings({"host_name"})

-----------------------------------------------------------------------------
(* Guards.  A closed walk refuses what is no JSON value and what is oversized;
   an open one looks for names and nothing else. *)

Open(bound, bans) ==
    [closed |-> FALSE, bounded |-> TRUE, bound |-> bound, start |-> 0, bans |-> bans,
     marks |-> FALSE, strict |-> FALSE, finite |-> FALSE, shortkeys |-> FALSE,
     dict |-> 0, list |-> 0, text |-> 0]

Closed(bound, dict, list, text, bans) ==
    [Open(bound, bans) EXCEPT !.closed = TRUE, !.shortkeys = TRUE,
                              !.dict = dict, !.list = list, !.text = text]

Deception == Open(32, RuntimeDirectives)

Verdict == Open(32, EffectivenessVerdicts)

Engagement == Open(32, EngagementAuthority)

Effect == Open(32, EffectAuthority)

EffectSecrets == [Open(32, {}) EXCEPT !.marks = TRUE]

Outcome == Closed(6, 64, 128, 2048, OutcomeForbidden)

Tactical == [Outcome EXCEPT !.bans = OutcomeForbidden \cup TacticalClaims]

Mio == [Closed(6, 64, 128, 8192, MioDirectives) EXCEPT !.shortkeys = FALSE]

Provisioning == Closed(8, 128, 512, 4096, ProvisioningBanned)

Tier == [Provisioning EXCEPT !.bans = TierClaims]

Inference == [Provisioning EXCEPT !.bans = RoleInference]

External ==
    [Closed(12, 128, 256, 4096, ExternalDirectives) EXCEPT !.strict = TRUE, !.finite = TRUE]

Locators == [External EXCEPT !.bans = TargetLocators]

ExternalSecrets == [Open(12, {}) EXCEPT !.marks = TRUE]

VendorExtension ==
    [Closed(4, 32, 32, 1024, {}) EXCEPT !.start = 1, !.finite = TRUE, !.shortkeys = FALSE]

Guards ==
    [deception |-> Deception, verdict |-> Verdict, engagement |-> Engagement,
     effect |-> Effect, effect_secrets |-> EffectSecrets, outcome |-> Outcome,
     tactical |-> Tactical, mio |-> Mio, provisioning |-> Provisioning, tier |-> Tier,
     inference |-> Inference, external |-> External, locators |-> Locators,
     external_secrets |-> ExternalSecrets, vendor_extension |-> VendorExtension]

-----------------------------------------------------------------------------
(* The walks. *)

TooDeepAtBound(g, depth) == g.bounded /\ depth >= g.bound   \* faulty: one level early

TooDeep(g, depth) == g.bounded /\ depth > g.bound

DictEntriesOnly(v) == IF v.kind = "dict" THEN v.entries ELSE {}   \* faulty: lists are leaves

Contents(v) == IF v.kind \in Containers THEN v.entries ELSE {}

Marked(k) == k = [name |-> "aws_secret_access_key", spelling |-> "snake"]

RefusedKey(g, k) ==
    \/ k \in g.bans
    \/ g.marks /\ Marked(k)
    \/ g.closed /\ k = Unspelled("not a string")
    \/ g.shortkeys /\ k = Unspelled("oversized")
    \/ g.strict /\ k = Unspelled("not ASCII")

RefusedEntry(g, k, v) ==
    \/ RefusedKey(g, k)
    \/ g.strict /\ k = Unspelled("executable") /\ v.kind # "false"

RefusedNode(g, v) ==
    \/ g.closed /\ v.kind = "bytes"
    \/ g.closed /\ v.kind = "dict" /\ v.width > g.dict
    \/ g.closed /\ v.kind = "list" /\ v.width > g.list
    \/ g.closed /\ v.kind \in {"text", "secret"} /\ v.width > g.text
    \/ g.finite /\ v.kind = "nan"
    \/ g.marks /\ v.kind = "secret"

Walk(g, cells) ==   \* of a cell, at a depth; TRUE: ValueError
    LET walk[c \in DOMAIN cells] ==
            [depth \in Nat |->
                \/ TooDeep(g, depth)
                \/ RefusedNode(g, cells[c])
                \/ \E e \in Contents(cells[c]) :
                       RefusedEntry(g, e.key, cells[e.value]) \/ walk[e.value][depth + 1]]
    IN  walk

Refuses(g, p) == Walk(g, p.cells)[p.root][g.start]

(* knowledge_context: keys only, then the M.I.O. walk.  Only mappings are put
   through it, since nothing else is a record; it is judged here of any value. *)
KeysOnly(p) ==
    [root |-> p.root,
     cells |-> [c \in DOMAIN p.cells |->
                   IF p.cells[c].kind \in Containers THEN p.cells[c] ELSE Nothing]]

KnowledgeRefuses(p) == Refuses(Open(8, {}), p) \/ Refuses(Mio, KeysOnly(p))

(* The public predicates: the same names, no bound. *)
RootKeysFound(p, bans) == \E e \in Contents(Root(p)) : e.key \in bans   \* faulty: top level

Finds(p, bans) == Refuses([Open(0, bans) EXCEPT !.bounded = FALSE], p)

-----------------------------------------------------------------------------
(* A boundary: whatever a payload is made into is judged again. *)

VARIABLES payload,
          refused,    \* guards that refuse it
          found,      \* predicates that find a name in it
          made        \* what was put into it

relayVars == <<payload, refused, found, made>>

Refusing(p) ==
    {g \in DOMAIN Guards : Refuses(Guards[g], p)}
        \cup (IF KnowledgeRefuses(p) THEN {"knowledge"} ELSE {})

Predicates == {"deception", "verdict", "mio", "provisioning"}

Finding(p) == {n \in Predicates : Finds(p, Guards[n].bans)}

Judged(p) ==
    /\ payload' = p
    /\ refused' = Refusing(p)
    /\ found' = Finding(p)

RelayInit ==
    \E leaf \in Leaves :
        /\ payload = Holding(leaf)
        /\ refused = Refusing(payload)
        /\ found = Finding(payload)
        /\ made = [steps |-> 0, leaf |-> leaf, keys |-> {}, executes |-> FALSE,
                   depth |-> 0, dict |-> 0, list |-> 0]

Wider(a, b) == IF a > b THEN a ELSE b

(* The cells above the old root hold dicts and lists in turn. *)
Wrapped(p, k, n) ==
    [root |-> p.root + n,
     cells |-> [c \in 0 .. p.root + n |->
                   IF c <= p.root THEN p.cells[c]
                   ELSE IF (c - p.root) % 2 = 1 THEN Node("dict", 1, {Entry(k, c - 1)})
                   ELSE Node("list", 1, {Entry(NoKey, c - 1)})]]

Rerooted(p, v) == [root |-> p.root, cells |-> [p.cells EXCEPT ![p.root] = v]]

Annotated(p, k) ==
    Rerooted(p, Node("dict", Root(p).width + 1, Root(p).entries \cup {Entry(k, 0)}))

Filled(p, n) == Rerooted(p, Node(Root(p).kind, n, Root(p).entries))

Grown(keys, executes, depth, dict, list) ==
    made' = [steps |-> made.steps + 1, leaf |-> made.leaf, keys |-> keys, executes |-> executes,
             depth |-> depth, dict |-> dict, list |-> list]

Executes(k, v) == made.executes \/ (k = Unspelled("executable") /\ v.kind # "false")

Envelop(k) ==
    /\ Judged(Wrapped(payload, k, 1))
    /\ Grown(made.keys \cup {k}, Executes(k, Root(payload)),
             made.depth + 1, Wider(made.dict, 1), made.list)

Annotate(k) ==   \* with a number
    /\ Root(payload).kind = "dict"
    /\ \A e \in Root(payload).entries : e.key # k
    /\ Judged(Annotated(payload, k))
    /\ Grown(made.keys \cup {k}, Executes(k, Number),
             made.depth, Wider(made.dict, Root(payload).width + 1), made.list)

Nest(n) ==
    /\ Judged(Wrapped(payload, Note, n))
    /\ Grown(made.keys, made.executes,
             made.depth + n, Wider(made.dict, 1), IF n > 1 THEN Wider(made.list, 1) ELSE made.list)

Fill(n) ==   \* with numbers, up to n entries
    /\ Root(payload).kind \in Containers /\ Root(payload).width < n
    /\ Judged(Filled(payload, n))
    /\ Grown(made.keys, made.executes, made.depth,
             IF Root(payload).kind = "dict" THEN Wider(made.dict, n) ELSE made.dict,
             IF Root(payload).kind = "list" THEN Wider(made.list, n) ELSE made.list)

RelayNext ==
    /\ made.steps < MaxSteps
    /\ \/ \E k \in Keys : Envelop(k) \/ Annotate(k)
       \/ \E n \in Levels : Nest(n)
       \/ \E n \in Widths : Fill(n)

RelaySpec == RelayInit /\ [][RelayNext]_relayVars

-----------------------------------------------------------------------------
(* By what was put in, wherever it lies, for a walk that starts at this depth. *)
DueFrom(start, g, m) ==
    \/ m.keys \cap g.bans # {}
    \/ g.bounded /\ m.depth + start > g.bound
    \/ g.closed /\ \/ m.leaf.kind = "bytes" \/ Unspelled("not a string") \in m.keys
                   \/ m.dict > g.dict \/ m.list > g.list
                   \/ m.leaf.kind \in {"text", "secret"} /\ m.leaf.width > g.text
    \/ g.shortkeys /\ Unspelled("oversized") \in m.keys
    \/ g.finite /\ m.leaf.kind = "nan"
    \/ g.strict /\ (m.executes \/ Unspelled("not ASCII") \in m.keys)
    \/ g.marks /\ \/ m.leaf.kind = "secret"
                  \/ Snake({"aws_secret_access_key"}) \cap m.keys # {}

Due(g, m) == DueFrom(g.start, g, m)

(* Every guard refuses a payload exactly when something it names, or more than
   it allows, was put into it: nothing is hidden by where or among what it lies,
   and what is clean is accepted up to the bound itself. *)
RefusedExactlyWhenDue ==
    /\ \A g \in DOMAIN Guards : g \in refused <=> Due(Guards[g], made)
    /\ "knowledge" \in refused <=> Due(Mio, [made EXCEPT !.leaf = Nothing])

(* A payload that a guard refuses cannot be put into anything that the same
   guard accepts. *)
NestingNeverLaunders == [][refused \subseteq refused']_relayVars

(* The predicates find at any depth what the assertions refuse, and nothing the
   assertions let pass. *)
PredicatesAgree ==
    /\ found \subseteq refused
    /\ \A p \in Predicates : p \in found <=> made.keys \cap Guards[p].bans # {}

(* What the deception family refuses to carry, every family that restates its
   names refuses as well: no payload crosses from one into another. *)
CanonicalIsRefusedEverywhere ==
    "deception" \in refused =>
        {"engagement", "mio", "knowledge", "provisioning", "external"} \subseteq refused
=============================================================================
