------------------------------ MODULE EgressProofs ------------------------------
(***************************************************************************)
(* What may leave a node and what an operator is shown of the answers, for *)
(* every instance of the two models.                                       *)
(*                                                                         *)
(* Payloads (PayloadWalks): for every table of keys, every leaf and every  *)
(* depth and width, each walk refuses a payload exactly when something it  *)
(* names, or more than it allows, was put into it.  The invariant says it  *)
(* of the walk from every depth, since what a walk meets one level down is *)
(* the old payload, one deeper.  That a walk satisfies the equation it is  *)
(* written as, and what n containers around a payload do, are proved by    *)
(* taking the least cell for which they fail.                              *)
(*                                                                         *)
(* Merges (Cognition): the invariant keeps the guards' verdicts on what    *)
(* was held and shown, and where the parts of a merge come from: a claim   *)
(* of the merge is a claim that was heard, retold, and the two sides of a  *)
(* contradiction are claims that were heard.                               *)
(***************************************************************************)
EXTENDS Cognition, PayloadWalks, WellFoundedInduction, TLAPS

-----------------------------------------------------------------------------
(* Walks. *)

(* A non-empty set of naturals has a least element. *)
LEMMA LeastNatural ==
    ASSUME NEW S, S \subseteq Nat, S # {}
    PROVE  \E n \in S : \A m \in S : n <= m
<1> DEFINE R == {ss \in Nat \X Nat : ss[1] < ss[2]}
<1>1. OpToRel(<, Nat) = R
  BY DEF OpToRel
<1>2. IsWellFoundedOn(R, Nat)
  BY <1>1, NatLessThanWellFounded
<1>3. PICK n \in S : \A m \in S : ~ (<<m, n>> \in R)
  <2> HIDE DEF R
  <2> QED
    BY <1>2, WFMin
<1>4. ASSUME NEW m \in S PROVE n <= m
  <2>1. m \in Nat /\ n \in Nat
    OBVIOUS
  <2>2. m < n => <<m, n>> \in R
    BY <2>1
  <2> HIDE DEF R
  <2> QED
    BY <1>3, <2>1, <2>2
<1> QED
  BY <1>4

(* What a walk says of a cell, given what w says of the cells below. *)
Judgement(g, cells, w, c, depth) ==
    \/ TooDeep(g, depth)
    \/ RefusedNode(g, cells[c])
    \/ \E e \in Contents(cells[c]) :
          RefusedEntry(g, e.key, cells[e.value]) \/ w[e.value][depth + 1]

(* The values of a container lie below it. *)
LaidOut(cells, n) ==
    /\ n \in Nat
    /\ DOMAIN cells = 0 .. n
    /\ \A c \in 0 .. n : \A e \in Contents(cells[c]) : e.value \in 0 .. c - 1

(* The verdict on a cell depends on the cells below it alone. *)
LEMMA VerdictIsLocal ==
    ASSUME NEW g, NEW cells, NEW n, LaidOut(cells, n), NEW other, NEW k \in 0 .. n,
           \A c \in 0 .. k : cells[c] = other[c],
           NEW v, NEW w, \A c \in 0 .. k - 1 : \A d \in Nat : v[c][d] = w[c][d],
           NEW d \in Nat
    PROVE  Judgement(g, cells, v, k, d) = Judgement(g, other, w, k, d)
<1>1. \A e \in Contents(cells[k]) :
         /\ e.value \in 0 .. k - 1
         /\ cells[e.value] = other[e.value]
         /\ v[e.value][d + 1] = w[e.value][d + 1]
  BY DEF LaidOut
<1>2. cells[k] = other[k]
  BY DEF LaidOut
<1> QED
  BY <1>1, <1>2 DEF Judgement

(* The equation a walk is written as. *)
IsWalk(g, cells, w) ==
    w = [c \in DOMAIN cells |-> [d \in Nat |-> Judgement(g, cells, w, c, d)]]

(* Some function satisfies it: the least cell up to which none does could be
   given the verdict that the cells below it determine. *)
LEMMA WalkExists ==
    ASSUME NEW g, NEW cells, NEW n, LaidOut(cells, n)
    PROVE  \E w : IsWalk(g, cells, w)
<1> DEFINE Walks(m, w) == /\ w \in [0 .. m -> [Nat -> BOOLEAN]]
                          /\ \A c \in 0 .. m : \A d \in Nat :
                                w[c][d] = Judgement(g, cells, w, c, d)
<1> DEFINE Missing == {m \in 0 .. n : ~ \E w : Walks(m, w)}
<1>1. Missing = {}
  <2> SUFFICES ASSUME Missing # {} PROVE FALSE
    OBVIOUS
  <2>1. PICK m \in Missing : \A k \in Missing : m <= k
    <3>1. Missing \subseteq Nat
      BY DEF LaidOut
    <3> HIDE DEF Missing
    <3> QED
      BY <3>1, LeastNatural
  <2>2. m \in 0 .. n /\ n \in Nat
    BY DEF LaidOut
  <2>3. PICK v : m > 0 => Walks(m - 1, v)
    <3>1. m > 0 => m - 1 \in 0 .. n /\ m - 1 \notin Missing
      <4>1. m > 0 => m - 1 \in 0 .. n /\ ~ (m <= m - 1)
        BY <2>2
      <4> HIDE DEF Missing
      <4> QED
        BY <2>1, <4>1
    <3> QED
      BY <3>1
  <2> DEFINE w == [c \in 0 .. m |->
                      IF c < m THEN v[c] ELSE [d \in Nat |-> Judgement(g, cells, v, m, d)]]
  <2>4. \A c \in 0 .. m - 1 : w[c] = v[c]
    BY <2>2
  <2>5. \A d \in Nat : w[m][d] = Judgement(g, cells, v, m, d)
    BY <2>2
  <2>6. \A c \in 0 .. m : \A d \in Nat :
           Judgement(g, cells, w, c, d) = Judgement(g, cells, v, c, d)
    <3> TAKE c \in 0 .. m
    <3> TAKE d \in Nat
    <3>1. \A b \in 0 .. c - 1 : \A dd \in Nat : w[b][dd] = v[b][dd]
      BY <2>2, <2>4
    <3>2. c \in 0 .. n
      BY <2>2
    <3> HIDE DEF w
    <3> QED
      BY <3>1, <3>2, VerdictIsLocal
  <2>7. \A c \in 0 .. m : \A d \in Nat : w[c][d] = Judgement(g, cells, w, c, d)
    <3> TAKE c \in 0 .. m
    <3> TAKE d \in Nat
    <3>1. CASE c = m
      <4> HIDE DEF w
      <4> QED BY <3>1, <2>5, <2>6
    <3>2. CASE c < m
      <4>1. c \in 0 .. m - 1 /\ m > 0
        BY <3>2, <2>2
      <4>2. v[c][d] = Judgement(g, cells, v, c, d)
        BY <4>1, <2>3
      <4> HIDE DEF w
      <4> QED BY <4>1, <4>2, <2>4, <2>6
    <3> QED
      BY <3>1, <3>2, <2>2
  <2>8. w \in [0 .. m -> [Nat -> BOOLEAN]]
    <3>1. \A c \in 0 .. m - 1 : v[c] \in [Nat -> BOOLEAN]
      BY <2>2, <2>3
    <3>2. [d \in Nat |-> Judgement(g, cells, v, m, d)] \in [Nat -> BOOLEAN]
      BY DEF Judgement
    <3> QED
      BY <2>2, <3>1, <3>2
  <2>9. Walks(m, w)
    <3> HIDE DEF w
    <3> QED BY <2>7, <2>8
  <2> QED
    BY <2>9, <2>1
<1>2. PICK w : Walks(n, w)
  <2>1. n \in 0 .. n
    BY DEF LaidOut
  <2> QED
    BY <1>1, <2>1
<1>3. w = [c \in 0 .. n |-> [d \in Nat |-> Judgement(g, cells, w, c, d)]]
  <2>1. w = [c \in 0 .. n |-> w[c]]
    BY <1>2
  <2>2. \A c \in 0 .. n : w[c] = [d \in Nat |-> w[c][d]]
    BY <1>2
  <2>3. \A c \in 0 .. n : w[c] = [d \in Nat |-> Judgement(g, cells, w, c, d)]
    BY <1>2, <2>2
  <2> QED
    BY <2>1, <2>3
<1> QED
  BY <1>3 DEF LaidOut, IsWalk

(* So the walk does: what it says of a cell is what the code does there. *)
LEMMA WalkUnfolds ==
    ASSUME NEW g, NEW cells, NEW n, LaidOut(cells, n), NEW c \in 0 .. n, NEW d \in Nat
    PROVE  Walk(g, cells)[c][d] = Judgement(g, cells, Walk(g, cells), c, d)
<1>1. Walk(g, cells) = CHOOSE w : IsWalk(g, cells, w)
  BY DEF Walk, IsWalk, Judgement
<1>2. \E w : IsWalk(g, cells, w)
  BY WalkExists
<1>3. IsWalk(g, cells, Walk(g, cells))
  BY <1>1, <1>2
<1>4. c \in DOMAIN cells
  BY DEF LaidOut
<1> QED
  BY <1>3, <1>4 DEF IsWalk

(* Walks of payloads that agree up to a cell agree up to that cell. *)
LEMMA WalksAgree ==
    ASSUME NEW g, NEW cells, NEW n, LaidOut(cells, n), NEW other, NEW m, LaidOut(other, m),
           NEW k \in 0 .. n, k <= m, \A c \in 0 .. k : cells[c] = other[c]
    PROVE  \A c \in 0 .. k : \A d \in Nat : Walk(g, cells)[c][d] = Walk(g, other)[c][d]
<1> DEFINE Apart == {c \in 0 .. k : \E d \in Nat : Walk(g, cells)[c][d] # Walk(g, other)[c][d]}
<1>1. n \in Nat /\ m \in Nat
  BY DEF LaidOut
<1>2. SUFFICES ASSUME Apart # {} PROVE FALSE
  OBVIOUS
<1>3. PICK c \in Apart : \A b \in Apart : c <= b
  <2>1. Apart \subseteq Nat
    BY <1>1
  <2> HIDE DEF Apart
  <2> QED
    BY <1>2, <2>1, LeastNatural
<1>4. c \in 0 .. n /\ c \in 0 .. m /\ c \in 0 .. k
  BY <1>1
<1>5. \A b \in 0 .. c - 1 : \A d \in Nat : Walk(g, cells)[b][d] = Walk(g, other)[b][d]
  BY <1>1, <1>3, <1>4
<1>6. \A d \in Nat : Walk(g, cells)[c][d] = Walk(g, other)[c][d]
  <2> TAKE d \in Nat
  <2>1. Judgement(g, cells, Walk(g, cells), c, d) = Judgement(g, other, Walk(g, other), c, d)
    <3>1. \A b \in 0 .. c : cells[b] = other[b]
      BY <1>1, <1>4
    <3> QED
      BY <1>4, <1>5, <3>1, VerdictIsLocal
  <2> QED
    BY <1>4, <2>1, WalkUnfolds
<1> QED
  BY <1>6, <1>3

(* A guard with limits that bans neither of the two harmless keys. *)
GuardOK(g) ==
    /\ {g.closed, g.bounded, g.marks, g.strict, g.finite, g.shortkeys} \subseteq BOOLEAN
    /\ {g.bound, g.start, g.dict, g.list, g.text} \subseteq Nat
    /\ g.bans \cap {NoKey, Note} = {}

(* A history that could have made a payload. *)
MadeOK(m) ==
    /\ {m.depth, m.dict, m.list, m.steps} \subseteq Nat
    /\ m.executes \in BOOLEAN
    /\ m.leaf.kind \notin Containers

(* A payload, with a plain number (or nothing, where only keys are seen) at 0. *)
PayloadOK(p) ==
    /\ p.root \in Nat \ {0}
    /\ LaidOut(p.cells, p.root)
    /\ Contents(p.cells[0]) = {}
    /\ p.cells[0].kind \in {"number", "none"}

(* What the walk says of a payload that lies d containers deep. *)
Says(g, p, d) == Walk(g, p.cells)[p.root][d]

(* The walk of a payload says, from every depth, what is due by its history. *)
Tracked(g, p, m) ==
    /\ PayloadOK(p)
    /\ MadeOK(m)
    /\ Root(p).kind \in Containers => m.depth > 0
    /\ Root(p).kind \notin Containers => m.depth = 0
    /\ \A d \in Nat : Says(g, p, d) <=> DueFrom(d, g, m)

(* Items of lists and notes are refused by no guard. *)
LEMMA HarmlessKeys ==
    ASSUME NEW g, GuardOK(g), NEW k \in {NoKey, Note}, NEW v
    PROVE  ~ RefusedKey(g, k) /\ ~ RefusedEntry(g, k, v)
<1>1. k \notin g.bans
  BY DEF GuardOK
<1>2. k.name \in {"item", "note"}
  BY DEF NoKey, Note, Unspelled
<1>3. /\ ~ Marked(k)
      /\ k # Unspelled("not a string") /\ k # Unspelled("oversized")
      /\ k # Unspelled("not ASCII") /\ k # Unspelled("executable")
  <2>1. \A n : [name |-> n, spelling |-> "none"].name = n
    OBVIOUS
  <2>2. [name |-> "aws_secret_access_key", spelling |-> "snake"].name = "aws_secret_access_key"
    OBVIOUS
  <2> QED
    BY <1>2, <2>1, <2>2 DEF Marked, Unspelled
<1> QED
  BY <1>1, <1>3 DEF RefusedKey, RefusedEntry

(* A plain number is refused by no guard. *)
LEMMA PlainNodes ==
    ASSUME NEW g, NEW v, v.kind \in {"number", "none"}
    PROVE  ~ RefusedNode(g, v)
BY DEF RefusedNode

(* What is due, told by keys and nodes as the walks tell it. *)
LEMMA DueByParts ==
    ASSUME NEW g, NEW m, MadeOK(m), NEW d \in Nat
    PROVE  DueFrom(d, g, m) <=>
              \/ \E k \in m.keys : RefusedKey(g, k)
              \/ TooDeep(g, m.depth + d)
              \/ RefusedNode(g, m.leaf)
              \/ g.closed /\ (m.dict > g.dict \/ m.list > g.list)
              \/ g.strict /\ m.executes
<1>1. m.leaf.kind # "dict" /\ m.leaf.kind # "list"
  BY DEF MadeOK, Containers
<1>2. RefusedNode(g, m.leaf) <=>
         \/ g.closed /\ m.leaf.kind = "bytes"
         \/ g.closed /\ m.leaf.kind \in {"text", "secret"} /\ m.leaf.width > g.text
         \/ g.finite /\ m.leaf.kind = "nan"
         \/ g.marks /\ m.leaf.kind = "secret"
  BY <1>1 DEF RefusedNode
<1>3. (\E k \in m.keys : RefusedKey(g, k)) <=>
         \/ m.keys \cap g.bans # {}
         \/ g.marks /\ Snake({"aws_secret_access_key"}) \cap m.keys # {}
         \/ g.closed /\ Unspelled("not a string") \in m.keys
         \/ g.shortkeys /\ Unspelled("oversized") \in m.keys
         \/ g.strict /\ Unspelled("not ASCII") \in m.keys
  <2>1. \A k : k \in Snake({"aws_secret_access_key"}) <=> Marked(k)
    BY DEF Snake, Marked
  <2> QED
    BY <2>1 DEF RefusedKey
<1>4. TooDeep(g, m.depth + d) <=> g.bounded /\ m.depth + d > g.bound
  BY DEF TooDeep
<1> QED
  BY <1>2, <1>3, <1>4 DEF DueFrom

(* The first step of a walk. *)
LEMMA SaysUnfolds ==
    ASSUME NEW g, NEW p, PayloadOK(p), NEW d \in Nat
    PROVE  Says(g, p, d) <=>
              \/ TooDeep(g, d)
              \/ RefusedNode(g, Root(p))
              \/ \E e \in Contents(Root(p)) :
                    RefusedEntry(g, e.key, p.cells[e.value]) \/ Walk(g, p.cells)[e.value][d + 1]
<1>1. p.root \in 0 .. p.root
  BY DEF PayloadOK
<1>2. Says(g, p, d) = Judgement(g, p.cells, Walk(g, p.cells), p.root, d)
  BY <1>1, WalkUnfolds DEF PayloadOK, Says
<1> QED
  BY <1>2 DEF Judgement, Root

(* The plain cell is refused for its depth alone. *)
LEMMA PlainCell ==
    ASSUME NEW g, NEW p, PayloadOK(p), NEW d \in Nat
    PROVE  Walk(g, p.cells)[0][d] <=> TooDeep(g, d)
<1>1. 0 \in 0 .. p.root
  BY DEF PayloadOK
<1>2. Walk(g, p.cells)[0][d] = Judgement(g, p.cells, Walk(g, p.cells), 0, d)
  BY <1>1, WalkUnfolds DEF PayloadOK
<1>3. ~ RefusedNode(g, p.cells[0]) /\ Contents(p.cells[0]) = {}
  BY PlainNodes DEF PayloadOK
<1> QED
  BY <1>2, <1>3 DEF Judgement

(* A single value. *)
LEMMA LeafTracked ==
    ASSUME NEW g, GuardOK(g), NEW p, NEW m, PayloadOK(p), MadeOK(m), Root(p).kind \notin Containers,
           m.keys = {}, m.depth = 0, m.dict = 0, m.list = 0, m.executes = FALSE,
           m.leaf = Root(p)
    PROVE  Tracked(g, p, m)
<1>1. Contents(Root(p)) = {}
  BY DEF Contents
<1>2. \A d \in Nat : Says(g, p, d) <=> TooDeep(g, d) \/ RefusedNode(g, Root(p))
  BY <1>1, SaysUnfolds
<1>3. \A d \in Nat : DueFrom(d, g, m) <=> TooDeep(g, d) \/ RefusedNode(g, Root(p))
  <2> TAKE d \in Nat
  <2>1. m.depth + d = d /\ ~ (m.dict > g.dict) /\ ~ (m.list > g.list)
    BY DEF GuardOK
  <2> QED
    BY <2>1, DueByParts
<1> QED
  BY <1>2, <1>3 DEF Tracked

(* The parts of a container with a single entry. *)
LEMMA Boxed ==
    ASSUME NEW k, NEW c, NEW kind \in Containers, NEW w, NEW v, v = Node(kind, w, {Entry(k, c)})
    PROVE  /\ v.kind = kind /\ v.width = w
           /\ Contents(v) = {Entry(k, c)}
           /\ Entry(k, c).key = k /\ Entry(k, c).value = c
BY DEF Node, Entry, Contents

(* q is p under n more containers, the innermost keyed k. *)
IsWrapped(q, p, k, n) ==
    /\ q.root = p.root + n
    /\ PayloadOK(q)
    /\ \A c \in 0 .. p.root : q.cells[c] = p.cells[c]
    /\ \A j \in 1 .. n :
          q.cells[p.root + j] =
             IF j % 2 = 1 THEN Node("dict", 1, {Entry(k, p.root + j - 1)})
             ELSE Node("list", 1, {Entry(NoKey, p.root + j - 1)})

(* What wrapping builds above the old root. *)
LEMMA WrappedLayout ==
    ASSUME NEW p, PayloadOK(p), NEW k, NEW n \in Nat \ {0}, NEW q, q = Wrapped(p, k, n)
    PROVE  IsWrapped(q, p, k, n)
<1>1. /\ p.root \in Nat \ {0}
      /\ DOMAIN p.cells = 0 .. p.root
      /\ \A c \in 0 .. p.root : \A e \in Contents(p.cells[c]) : e.value \in 0 .. c - 1
  BY DEF PayloadOK, LaidOut
<1>2. q.root = p.root + n /\ DOMAIN q.cells = 0 .. p.root + n
  BY DEF Wrapped
<1>3. \A c \in 0 .. p.root + n :
         q.cells[c] = IF c <= p.root THEN p.cells[c]
                      ELSE IF (c - p.root) % 2 = 1 THEN Node("dict", 1, {Entry(k, c - 1)})
                      ELSE Node("list", 1, {Entry(NoKey, c - 1)})
  BY DEF Wrapped
<1>4. ASSUME NEW c \in 0 .. p.root PROVE q.cells[c] = p.cells[c]
  <2>1. c \in 0 .. p.root + n /\ c <= p.root
    BY <1>1
  <2> QED
    BY <1>3, <2>1
<1>5. \A j \in 1 .. n :
         q.cells[p.root + j] =
            IF j % 2 = 1 THEN Node("dict", 1, {Entry(k, p.root + j - 1)})
            ELSE Node("list", 1, {Entry(NoKey, p.root + j - 1)})
  <2> TAKE j \in 1 .. n
  <2>1. PICK c \in 0 .. p.root + n : c = p.root + j
    BY <1>1
  <2>2. c - p.root = j /\ ~ (c <= p.root) /\ c - 1 = p.root + j - 1
    BY <1>1, <2>1
  <2> QED
    BY <1>3, <2>1, <2>2
<1>6. \A c \in 0 .. p.root + n : \A e \in Contents(q.cells[c]) : e.value \in 0 .. c - 1
  <2> TAKE c \in 0 .. p.root + n
  <2>1. CASE c \in 0 .. p.root
    BY <2>1, <1>1, <1>4
  <2>2. CASE c \notin 0 .. p.root
    <3>1. PICK kind \in Containers, kk \in {k, NoKey} :
             q.cells[c] = Node(kind, 1, {Entry(kk, c - 1)})
      <4>1. ~ (c <= p.root)
        BY <2>2, <1>1
      <4>2. "dict" \in Containers /\ "list" \in Containers
        BY DEF Containers
      <4>3. CASE (c - p.root) % 2 = 1
        BY <1>3, <4>1, <4>2, <4>3
      <4>4. CASE (c - p.root) % 2 # 1
        BY <1>3, <4>1, <4>2, <4>4
      <4> QED
        BY <4>3, <4>4
    <3>2. \A e \in Contents(q.cells[c]) : e.value = c - 1
      BY <3>1, Boxed
    <3>3. c - 1 \in 0 .. c - 1
      BY <1>1, <2>2
    <3> QED
      BY <3>2, <3>3
  <2> QED
    BY <2>1, <2>2
<1>7. PayloadOK(q)
  <2>1. q.root \in Nat \ {0}
    BY <1>1, <1>2
  <2>2. q.cells[0] = p.cells[0]
    BY <1>1, <1>4
  <2> QED
    BY <1>2, <1>6, <2>1, <2>2 DEF PayloadOK, LaidOut
<1> QED
  BY <1>2, <1>4, <1>5, <1>7 DEF IsWrapped

(* A payload in an envelope. *)
LEMMA EnvelopTracked ==
    ASSUME NEW g, GuardOK(g), NEW p, NEW m, Tracked(g, p, m), NEW k, NEW n,
           MadeOK(n), n.keys = m.keys \cup {k}, n.depth = m.depth + 1, n.leaf = m.leaf,
           n.dict = Wider(m.dict, 1), n.list = m.list,
           g.strict => (n.executes <=> \/ m.executes
                                       \/ k = Unspelled("executable") /\ Root(p).kind # "false"),
           NEW q, q = Wrapped(p, k, 1)
    PROVE  Tracked(g, q, n)
<1>1. /\ PayloadOK(p)
      /\ MadeOK(m)
      /\ \A d \in Nat : Says(g, p, d) <=> DueFrom(d, g, m)
  BY DEF Tracked
<1>2. /\ q.root = p.root + 1
      /\ PayloadOK(q)
      /\ \A c \in 0 .. p.root : q.cells[c] = p.cells[c]
      /\ q.cells[p.root + 1] = Node("dict", 1, {Entry(k, p.root)})
  <2>1. p.root \in Nat /\ p.root + 1 - 1 = p.root /\ 1 \in 1 .. 1 /\ 1 % 2 = 1
    BY <1>1 DEF PayloadOK
  <2>2. /\ q.root = p.root + 1
        /\ PayloadOK(q)
        /\ \A c \in 0 .. p.root : q.cells[c] = p.cells[c]
        /\ \A j \in 1 .. 1 :
              q.cells[p.root + j] =
                 IF j % 2 = 1 THEN Node("dict", 1, {Entry(k, p.root + j - 1)})
                 ELSE Node("list", 1, {Entry(NoKey, p.root + j - 1)})
    <3>1. 1 \in Nat \ {0}
      OBVIOUS
    <3>2. IsWrapped(q, p, k, 1)
      BY <1>1, <3>1, WrappedLayout
    <3> QED
      BY <3>2 DEF IsWrapped
  <2>3. q.cells[p.root + 1] = Node("dict", 1, {Entry(k, p.root)})
    BY <2>1, <2>2
  <2> QED
    BY <2>2, <2>3
<1>3. /\ Root(q).kind = "dict" /\ Root(q).width = 1
      /\ Contents(Root(q)) = {Entry(k, p.root)}
      /\ Entry(k, p.root).key = k /\ Entry(k, p.root).value = p.root
  <2>1. "dict" \in Containers
    BY DEF Containers
  <2> QED
    BY <1>2, <2>1, Boxed DEF Root
<1>4. q.cells[p.root] = Root(p)
  BY <1>1, <1>2 DEF Root, PayloadOK
<1>5. \A d \in Nat : Walk(g, q.cells)[p.root][d] = Says(g, p, d)
  <2>1. /\ p.root \in 0 .. p.root
        /\ p.root <= q.root
        /\ \A c \in 0 .. p.root : p.cells[c] = q.cells[c]
    BY <1>1, <1>2 DEF PayloadOK
  <2> QED
    BY <1>1, <1>2, <2>1, WalksAgree DEF PayloadOK, Says
<1>6. RefusedNode(g, Root(q)) <=> g.closed /\ 1 > g.dict
  BY <1>3 DEF RefusedNode
<1>7. ASSUME NEW d \in Nat
      PROVE  Says(g, q, d) <=> DueFrom(d, g, n)
  <2>1. Says(g, q, d) <=>
           \/ TooDeep(g, d)
           \/ g.closed /\ 1 > g.dict
           \/ RefusedKey(g, k)
           \/ g.strict /\ k = Unspelled("executable") /\ Root(p).kind # "false"
           \/ DueFrom(d + 1, g, m)
    <3>1. Says(g, q, d) <=>
             \/ TooDeep(g, d)
             \/ RefusedNode(g, Root(q))
             \/ RefusedEntry(g, k, Root(p))
             \/ Says(g, p, d + 1)
      <4>1. Says(g, q, d) <=>
               \/ TooDeep(g, d)
               \/ RefusedNode(g, Root(q))
               \/ \E e \in Contents(Root(q)) :
                     RefusedEntry(g, e.key, q.cells[e.value]) \/ Walk(g, q.cells)[e.value][d + 1]
        BY <1>2, SaysUnfolds
      <4>2. Walk(g, q.cells)[p.root][d + 1] = Says(g, p, d + 1)
        BY <1>5
      <4> QED
        BY <4>1, <4>2, <1>3, <1>4
    <3> QED
      BY <3>1, <1>1, <1>6 DEF RefusedEntry
  <2>2. /\ DueFrom(d + 1, g, m) <=>
              \/ \E kk \in m.keys : RefusedKey(g, kk)
              \/ TooDeep(g, m.depth + (d + 1))
              \/ RefusedNode(g, m.leaf)
              \/ g.closed /\ (m.dict > g.dict \/ m.list > g.list)
              \/ g.strict /\ m.executes
        /\ DueFrom(d, g, n) <=>
              \/ \E kk \in n.keys : RefusedKey(g, kk)
              \/ TooDeep(g, n.depth + d)
              \/ RefusedNode(g, n.leaf)
              \/ g.closed /\ (n.dict > g.dict \/ n.list > g.list)
              \/ g.strict /\ n.executes
    BY <1>1, DueByParts
  <2>3. n.dict > g.dict <=> m.dict > g.dict \/ 1 > g.dict
    BY <1>1 DEF Wider, MadeOK, GuardOK
  <2>4. /\ n.depth + d = m.depth + (d + 1)
        /\ TooDeep(g, d) => TooDeep(g, n.depth + d)
    BY <1>1 DEF MadeOK, GuardOK, TooDeep
  <2>5. (\E kk \in n.keys : RefusedKey(g, kk)) <=>
           (\E kk \in m.keys : RefusedKey(g, kk)) \/ RefusedKey(g, k)
    OBVIOUS
  <2> QED
    BY <2>1, <2>2, <2>3, <2>4, <2>5
<1>8. n.depth > 0
  BY <1>1 DEF MadeOK
<1> QED
  BY <1>2, <1>3, <1>7, <1>8 DEF Tracked, Containers

(* What j harmless containers around a payload add to what its walk says. *)
Wraps(g, p, j, d) ==
    \/ Says(g, p, d + j)
    \/ g.closed /\ j >= 1 /\ 1 > g.dict
    \/ g.closed /\ j >= 2 /\ 1 > g.list

(* Counted from the least container for which it would be otherwise. *)
LEMMA WrappedWalk ==
    ASSUME NEW g, GuardOK(g), NEW p, PayloadOK(p), NEW n \in Nat \ {0},
           NEW q, q = Wrapped(p, Note, n), NEW j \in 0 .. n, NEW d \in Nat
    PROVE  Walk(g, q.cells)[p.root + j][d] <=> Wraps(g, p, j, d)
<1> DEFINE Right(i) == \A dd \in Nat : Walk(g, q.cells)[p.root + i][dd] <=> Wraps(g, p, i, dd)
<1> DEFINE Wrong == {i \in 0 .. n : ~ Right(i)}
<1>1. IsWrapped(q, p, Note, n)
  BY WrappedLayout
<1>2. p.root \in Nat /\ p.root \in 0 .. p.root /\ p.root <= q.root
  BY <1>1 DEF PayloadOK, IsWrapped
<1>3. Right(0)
  <2> TAKE dd \in Nat
  <2>1. Walk(g, q.cells)[p.root][dd] = Says(g, p, dd)
    <3>1. \A c \in 0 .. p.root : p.cells[c] = q.cells[c]
      BY <1>1 DEF IsWrapped
    <3>2. \A c \in 0 .. p.root : \A e \in Nat : Walk(g, p.cells)[c][e] = Walk(g, q.cells)[c][e]
      BY <1>1, <1>2, <3>1, WalksAgree DEF PayloadOK, IsWrapped
    <3> QED
      BY <1>2, <3>2 DEF Says
  <2>2. p.root + 0 = p.root /\ dd + 0 = dd
    BY <1>2
  <2>3. Wraps(g, p, 0, dd) <=> Says(g, p, dd)
    BY <2>2 DEF Wraps
  <2> QED
    BY <2>1, <2>2, <2>3
<1>4. ASSUME NEW i \in 1 .. n, Right(i - 1)
      PROVE  Right(i)
  <2> TAKE dd \in Nat
  <2> DEFINE v == q.cells[p.root + i]
  <2>1. PICK kind \in Containers, kk \in {NoKey, Note} :
           /\ v = Node(kind, 1, {Entry(kk, p.root + i - 1)})
           /\ i = 1 => kind = "dict"
           /\ i = 2 => kind = "list"
    <3>1. v = IF i % 2 = 1 THEN Node("dict", 1, {Entry(Note, p.root + i - 1)})
              ELSE Node("list", 1, {Entry(NoKey, p.root + i - 1)})
      BY <1>1 DEF IsWrapped
    <3>2. 1 % 2 = 1 /\ 2 % 2 # 1 /\ "dict" \in Containers /\ "list" \in Containers
      BY DEF Containers
    <3> HIDE DEF v
    <3>3. CASE i % 2 = 1
      BY <3>1, <3>2, <3>3
    <3>4. CASE i % 2 # 1
      BY <3>1, <3>2, <3>4
    <3> QED
      BY <3>3, <3>4
  <2>2. /\ v.kind = kind /\ v.width = 1
        /\ kind \in {"dict", "list"}
        /\ Contents(v) = {Entry(kk, p.root + i - 1)}
        /\ Entry(kk, p.root + i - 1).key = kk
        /\ Entry(kk, p.root + i - 1).value = p.root + i - 1
    <3>1. kind \in {"dict", "list"}
      BY DEF Containers
    <3> HIDE DEF v
    <3> QED
      BY <2>1, <3>1, Boxed
  <2>3. RefusedNode(g, v) <=> \/ g.closed /\ v.kind = "dict" /\ 1 > g.dict
                              \/ g.closed /\ v.kind = "list" /\ 1 > g.list
    <3> HIDE DEF v
    <3> QED
      BY <2>2 DEF RefusedNode
  <2>4. ~ RefusedEntry(g, kk, q.cells[p.root + i - 1])
    BY HarmlessKeys
  <2>5. Walk(g, q.cells)[p.root + i][dd] <=>
           TooDeep(g, dd) \/ RefusedNode(g, v) \/ Walk(g, q.cells)[p.root + i - 1][dd + 1]
    <3>1. p.root + i \in 0 .. q.root
      BY <1>1, <1>2 DEF IsWrapped
    <3>2. LaidOut(q.cells, q.root)
      BY <1>1 DEF IsWrapped, PayloadOK
    <3>3. Walk(g, q.cells)[p.root + i][dd] = Judgement(g, q.cells, Walk(g, q.cells), p.root + i, dd)
      BY <3>1, <3>2, WalkUnfolds
    <3>4. Judgement(g, q.cells, Walk(g, q.cells), p.root + i, dd) <=>
             \/ TooDeep(g, dd)
             \/ RefusedNode(g, v)
             \/ \E e \in Contents(v) :
                   RefusedEntry(g, e.key, q.cells[e.value]) \/ Walk(g, q.cells)[e.value][dd + 1]
      BY DEF Judgement
    <3> HIDE DEF v
    <3> QED
      BY <3>3, <3>4, <2>2, <2>4
  <2>6. Walk(g, q.cells)[p.root + i - 1][dd + 1] <=> Wraps(g, p, i - 1, dd + 1)
    <3>1. p.root + i - 1 = p.root + (i - 1)
      BY <1>2
    <3> QED
      BY <1>4, <3>1
  <2>7. TooDeep(g, dd) => Says(g, p, dd + i)
    <3>1. TooDeep(g, dd) => TooDeep(g, dd + i)
      BY DEF TooDeep, GuardOK
    <3>2. dd + i \in Nat
      OBVIOUS
    <3>3. TooDeep(g, dd + i) => Says(g, p, dd + i)
      BY <3>2, SaysUnfolds
    <3> QED
      BY <3>1, <3>3
  <2>8. (dd + 1) + (i - 1) = dd + i
    OBVIOUS
  <2>9. Wraps(g, p, i - 1, dd + 1) <=>
           \/ Says(g, p, dd + i)
           \/ g.closed /\ i - 1 >= 1 /\ 1 > g.dict
           \/ g.closed /\ i - 1 >= 2 /\ 1 > g.list
    BY <2>8 DEF Wraps
  <2>10. i = 1 \/ i = 2 \/ i > 2
    OBVIOUS
  <2> HIDE DEF v
  <2>11. CASE i = 1
    BY <2>1, <2>2, <2>3, <2>5, <2>6, <2>7, <2>9, <2>11 DEF Wraps
  <2>12. CASE i = 2
    BY <2>1, <2>2, <2>3, <2>5, <2>6, <2>7, <2>9, <2>12 DEF Wraps
  <2>13. CASE i > 2
    BY <2>2, <2>3, <2>5, <2>6, <2>7, <2>9, <2>13 DEF Wraps
  <2> QED
    BY <2>10, <2>11, <2>12, <2>13
<1>5. Wrong = {}
  <2> SUFFICES ASSUME Wrong # {} PROVE FALSE
    OBVIOUS
  <2>1. PICK i \in Wrong : \A b \in Wrong : i <= b
    <3>1. Wrong \subseteq Nat
      OBVIOUS
    <3> HIDE DEF Wrong
    <3> QED
      BY <3>1, LeastNatural
  <2>2. i \in 0 .. n /\ ~ Right(i)
    OBVIOUS
  <2>3. i # 0
    <3> HIDE DEF Right
    <3> QED
      BY <2>2, <1>3
  <2>4. i \in 1 .. n /\ i - 1 \in 0 .. n /\ ~ (i <= i - 1)
    BY <2>2, <2>3
  <2>5. Right(i - 1)
    <3>1. i - 1 \notin Wrong
      <4> HIDE DEF Wrong
      <4> QED
        BY <2>1, <2>4
    <3> HIDE DEF Right
    <3> QED
      BY <2>4, <3>1
  <2> HIDE DEF Right
  <2> QED
    BY <2>2, <2>4, <2>5, <1>4
<1> QED
  <2>1. Right(j)
    <3> HIDE DEF Right
    <3> QED
      BY <1>5
  <2> QED
    BY <2>1

(* A payload in harmless containers. *)
LEMMA NestTracked ==
    ASSUME NEW g, GuardOK(g), NEW p, NEW m, Tracked(g, p, m), NEW i \in Nat \ {0}, NEW n,
           MadeOK(n), n.keys = m.keys, n.depth = m.depth + i, n.leaf = m.leaf,
           n.dict = Wider(m.dict, 1), n.list = IF i > 1 THEN Wider(m.list, 1) ELSE m.list,
           n.executes = m.executes,
           NEW q, q = Wrapped(p, Note, i)
    PROVE  Tracked(g, q, n)
<1>1. /\ PayloadOK(p)
      /\ MadeOK(m)
      /\ \A d \in Nat : Says(g, p, d) <=> DueFrom(d, g, m)
  BY DEF Tracked
<1>2. IsWrapped(q, p, Note, i)
  BY <1>1, WrappedLayout
<1>3. q.root = p.root + i /\ PayloadOK(q)
  BY <1>2 DEF IsWrapped
<1>4. Root(q).kind \in Containers
  <2>1. i \in 1 .. i
    OBVIOUS
  <2>2. Root(q) = IF i % 2 = 1 THEN Node("dict", 1, {Entry(Note, p.root + i - 1)})
                  ELSE Node("list", 1, {Entry(NoKey, p.root + i - 1)})
    BY <1>2, <2>1 DEF IsWrapped, Root
  <2>3. Root(q).kind = "dict" \/ Root(q).kind = "list"
    <3>1. CASE i % 2 = 1
      BY <2>2, <3>1 DEF Node
    <3>2. CASE i % 2 # 1
      BY <2>2, <3>2 DEF Node
    <3> QED
      BY <3>1, <3>2
  <2> QED
    BY <2>3 DEF Containers
<1>5. ASSUME NEW d \in Nat
      PROVE  Says(g, q, d) <=> DueFrom(d, g, n)
  <2>1. Says(g, q, d) <=> Wraps(g, p, i, d)
    <3>1. i \in 0 .. i
      OBVIOUS
    <3>2. Walk(g, q.cells)[p.root + i][d] <=> Wraps(g, p, i, d)
      BY <1>1, <3>1, WrappedWalk
    <3> QED
      BY <1>3, <3>2 DEF Says
  <2>2. d + i \in Nat
    OBVIOUS
  <2>3. /\ DueFrom(d + i, g, m) <=>
              \/ \E kk \in m.keys : RefusedKey(g, kk)
              \/ TooDeep(g, m.depth + (d + i))
              \/ RefusedNode(g, m.leaf)
              \/ g.closed /\ (m.dict > g.dict \/ m.list > g.list)
              \/ g.strict /\ m.executes
        /\ DueFrom(d, g, n) <=>
              \/ \E kk \in n.keys : RefusedKey(g, kk)
              \/ TooDeep(g, n.depth + d)
              \/ RefusedNode(g, n.leaf)
              \/ g.closed /\ (n.dict > g.dict \/ n.list > g.list)
              \/ g.strict /\ n.executes
    BY <1>1, <2>2, DueByParts
  <2>4. /\ n.dict > g.dict <=> m.dict > g.dict \/ 1 > g.dict
        /\ n.list > g.list <=> m.list > g.list \/ (i >= 2 /\ 1 > g.list)
    BY <1>1 DEF Wider, MadeOK, GuardOK
  <2>5. n.depth + d = m.depth + (d + i)
    BY <1>1 DEF MadeOK
  <2>6. Says(g, p, d + i) <=> DueFrom(d + i, g, m)
    BY <1>1, <2>2
  <2> QED
    BY <2>1, <2>3, <2>4, <2>5, <2>6 DEF Wraps
<1>6. n.depth > 0
  BY <1>1 DEF MadeOK
<1> QED
  BY <1>3, <1>4, <1>5, <1>6 DEF Tracked

(* q is p with its root replaced. *)
IsRerooted(q, p, v) ==
    /\ q.root = p.root
    /\ PayloadOK(q)
    /\ Root(q) = v
    /\ \A c \in 0 .. p.root - 1 : q.cells[c] = p.cells[c]

(* A changed root over the same cells. *)
LEMMA RerootedLayout ==
    ASSUME NEW p, PayloadOK(p), NEW v, \A e \in Contents(v) : e.value \in 0 .. p.root - 1,
           NEW q, q = Rerooted(p, v)
    PROVE  IsRerooted(q, p, v)
<1>1. /\ p.root \in Nat \ {0}
      /\ DOMAIN p.cells = 0 .. p.root
      /\ \A c \in 0 .. p.root : \A e \in Contents(p.cells[c]) : e.value \in 0 .. c - 1
  BY DEF PayloadOK, LaidOut
<1>2. q.root = p.root /\ DOMAIN q.cells = 0 .. p.root
  BY <1>1 DEF Rerooted
<1>3. \A c \in 0 .. p.root : q.cells[c] = IF c = p.root THEN v ELSE p.cells[c]
  BY <1>1 DEF Rerooted
<1>4. q.cells[p.root] = v
  BY <1>1, <1>3
<1>5. \A c \in 0 .. p.root - 1 : q.cells[c] = p.cells[c]
  BY <1>1, <1>3
<1>6. \A c \in 0 .. p.root : \A e \in Contents(q.cells[c]) : e.value \in 0 .. c - 1
  BY <1>1, <1>3
<1>7. q.cells[0] = p.cells[0]
  BY <1>1, <1>5
<1>8. PayloadOK(q)
  BY <1>1, <1>2, <1>6, <1>7 DEF PayloadOK, LaidOut
<1> QED
  BY <1>2, <1>4, <1>5, <1>8 DEF IsRerooted, Root

(* Below the root nothing changes. *)
LEMMA RerootedWalk ==
    ASSUME NEW g, NEW p, PayloadOK(p), NEW v, NEW q, IsRerooted(q, p, v)
    PROVE  \A c \in 0 .. p.root - 1 : \A d \in Nat : Walk(g, q.cells)[c][d] = Walk(g, p.cells)[c][d]
<1>1. /\ p.root - 1 \in 0 .. p.root /\ p.root - 1 <= q.root /\ q.root = p.root
      /\ \A c \in 0 .. p.root - 1 : p.cells[c] = q.cells[c]
  BY DEF PayloadOK, IsRerooted
<1>2. LaidOut(p.cells, p.root) /\ LaidOut(q.cells, q.root)
  BY DEF PayloadOK, IsRerooted
<1>3. \A c \in 0 .. p.root - 1 : \A d \in Nat : Walk(g, p.cells)[c][d] = Walk(g, q.cells)[c][d]
  BY <1>1, <1>2, WalksAgree
<1> QED
  BY <1>3

(* The entries of the root lie below it. *)
LEMMA RootEntriesBelow ==
    ASSUME NEW p, PayloadOK(p)
    PROVE  \A e \in Contents(Root(p)) : e.value \in 0 .. p.root - 1
<1>1. p.root \in 0 .. p.root
  BY DEF PayloadOK
<1> QED
  BY <1>1 DEF PayloadOK, LaidOut, Root

(* A number under one more key. *)
LEMMA AnnotateTracked ==
    ASSUME NEW g, GuardOK(g), NEW p, NEW m, Tracked(g, p, m), NEW k, NEW n,
           Root(p).kind = "dict", Root(p).width \in Nat,
           MadeOK(n), n.keys = m.keys \cup {k}, n.depth = m.depth, n.leaf = m.leaf,
           n.dict = Wider(m.dict, Root(p).width + 1), n.list = m.list,
           g.strict => (n.executes <=> m.executes \/ k = Unspelled("executable")),
           NEW q, q = Annotated(p, k)
    PROVE  Tracked(g, q, n)
<1> DEFINE v == Node("dict", Root(p).width + 1, Root(p).entries \cup {Entry(k, 0)})
<1>1. /\ PayloadOK(p)
      /\ MadeOK(m) /\ m.depth > 0
      /\ \A d \in Nat : Says(g, p, d) <=> DueFrom(d, g, m)
  BY DEF Tracked, Containers
<1>2. /\ v.kind = "dict" /\ v.width = Root(p).width + 1
      /\ Contents(v) = Contents(Root(p)) \cup {Entry(k, 0)}
      /\ Entry(k, 0).key = k /\ Entry(k, 0).value = 0
  BY DEF Node, Entry, Contents, Containers
<1>3. IsRerooted(q, p, v)
  <2>1. \A e \in Contents(v) : e.value \in 0 .. p.root - 1
    <3>1. 0 \in 0 .. p.root - 1
      BY <1>1 DEF PayloadOK
    <3> HIDE DEF v
    <3> QED
      BY <1>1, <1>2, <3>1, RootEntriesBelow
  <2>2. q = Rerooted(p, v)
    BY DEF Annotated
  <2> HIDE DEF v
  <2> QED
    BY <1>1, <2>1, <2>2, RerootedLayout
<1> HIDE DEF v
<1>4. PayloadOK(q) /\ Root(q) = v /\ 0 \in 0 .. p.root - 1
  BY <1>1, <1>3 DEF IsRerooted, PayloadOK
<1>5. ASSUME NEW d \in Nat
      PROVE  Says(g, q, d) <=> DueFrom(d, g, n)
  <2>1. Says(g, q, d) <=>
           \/ TooDeep(g, d)
           \/ RefusedNode(g, v)
           \/ \E e \in Contents(v) :
                 RefusedEntry(g, e.key, q.cells[e.value]) \/ Walk(g, q.cells)[e.value][d + 1]
    BY <1>4, SaysUnfolds
  <2>2. Says(g, p, d) <=>
           \/ TooDeep(g, d)
           \/ RefusedNode(g, Root(p))
           \/ \E e \in Contents(Root(p)) :
                 RefusedEntry(g, e.key, p.cells[e.value]) \/ Walk(g, p.cells)[e.value][d + 1]
    BY <1>1, SaysUnfolds
  <2>3. \A e \in Contents(Root(p)) :
           /\ q.cells[e.value] = p.cells[e.value]
           /\ Walk(g, q.cells)[e.value][d + 1] = Walk(g, p.cells)[e.value][d + 1]
    <3>1. \A e \in Contents(Root(p)) : e.value \in 0 .. p.root - 1
      BY <1>1, RootEntriesBelow
    <3>2. \A c \in 0 .. p.root - 1 : q.cells[c] = p.cells[c]
      BY <1>3 DEF IsRerooted
    <3>3. \A c \in 0 .. p.root - 1 : \A b \in Nat : Walk(g, q.cells)[c][b] = Walk(g, p.cells)[c][b]
      BY <1>1, <1>3, RerootedWalk
    <3> QED
      BY <3>1, <3>2, <3>3
  <2>4. Walk(g, q.cells)[0][d + 1] <=> TooDeep(g, d + 1)
    BY <1>4, PlainCell
  <2>5. RefusedEntry(g, k, q.cells[0]) <=> \/ RefusedKey(g, k)
                                           \/ g.strict /\ k = Unspelled("executable")
    <3>1. q.cells[0].kind # "false"
      BY <1>4 DEF PayloadOK
    <3> QED
      BY <3>1 DEF RefusedEntry
  <2>6. /\ RefusedNode(g, v) <=> g.closed /\ Root(p).width + 1 > g.dict
        /\ RefusedNode(g, Root(p)) <=> g.closed /\ Root(p).width > g.dict
    BY <1>2 DEF RefusedNode
  <2>7. Says(g, q, d) <=>
           \/ DueFrom(d, g, m)
           \/ g.closed /\ Root(p).width + 1 > g.dict
           \/ RefusedKey(g, k)
           \/ g.strict /\ k = Unspelled("executable")
           \/ TooDeep(g, d + 1)
    <3>1. Root(p).width > g.dict => Root(p).width + 1 > g.dict
      BY DEF GuardOK
    <3>2. (\E e \in Contents(v) :
              RefusedEntry(g, e.key, q.cells[e.value]) \/ Walk(g, q.cells)[e.value][d + 1])
          <=> \/ \E e \in Contents(Root(p)) :
                    RefusedEntry(g, e.key, p.cells[e.value]) \/ Walk(g, p.cells)[e.value][d + 1]
              \/ RefusedEntry(g, k, q.cells[0])
              \/ Walk(g, q.cells)[0][d + 1]
      BY <1>2, <2>3
    <3>3. Says(g, p, d) <=> DueFrom(d, g, m)
      BY <1>1
    <3> QED
      BY <2>1, <2>2, <2>4, <2>5, <2>6, <3>1, <3>2, <3>3
  <2>8. /\ DueFrom(d, g, m) <=>
              \/ \E kk \in m.keys : RefusedKey(g, kk)
              \/ TooDeep(g, m.depth + d)
              \/ RefusedNode(g, m.leaf)
              \/ g.closed /\ (m.dict > g.dict \/ m.list > g.list)
              \/ g.strict /\ m.executes
        /\ DueFrom(d, g, n) <=>
              \/ \E kk \in n.keys : RefusedKey(g, kk)
              \/ TooDeep(g, n.depth + d)
              \/ RefusedNode(g, n.leaf)
              \/ g.closed /\ (n.dict > g.dict \/ n.list > g.list)
              \/ g.strict /\ n.executes
    BY <1>1, DueByParts
  <2>9. n.dict > g.dict <=> m.dict > g.dict \/ Root(p).width + 1 > g.dict
    BY <1>1 DEF Wider, MadeOK, GuardOK
  <2>10. TooDeep(g, d + 1) => TooDeep(g, m.depth + d)
    BY <1>1 DEF MadeOK, GuardOK, TooDeep
  <2>11. (\E kk \in n.keys : RefusedKey(g, kk)) <=>
            (\E kk \in m.keys : RefusedKey(g, kk)) \/ RefusedKey(g, k)
    OBVIOUS
  <2> QED
    BY <2>7, <2>8, <2>9, <2>10, <2>11
<1> QED
  BY <1>1, <1>2, <1>4, <1>5 DEF Tracked, Containers

(* A container filled with numbers. *)
LEMMA FillTracked ==
    ASSUME NEW g, GuardOK(g), NEW p, NEW m, Tracked(g, p, m), NEW i \in Nat, NEW n,
           Root(p).kind \in Containers, Root(p).width \in Nat, Root(p).width < i,
           MadeOK(n), n.keys = m.keys, n.depth = m.depth, n.leaf = m.leaf,
           n.dict = IF Root(p).kind = "dict" THEN Wider(m.dict, i) ELSE m.dict,
           n.list = IF Root(p).kind = "list" THEN Wider(m.list, i) ELSE m.list,
           n.executes = m.executes,
           NEW q, q = Filled(p, i)
    PROVE  Tracked(g, q, n)
<1> DEFINE v == Node(Root(p).kind, i, Root(p).entries)
<1>1. /\ PayloadOK(p)
      /\ MadeOK(m) /\ m.depth > 0
      /\ \A d \in Nat : Says(g, p, d) <=> DueFrom(d, g, m)
  BY DEF Tracked
<1>2. v.kind = Root(p).kind /\ v.width = i /\ Contents(v) = Contents(Root(p))
  BY DEF Node, Contents
<1>3. IsRerooted(q, p, v)
  <2>1. \A e \in Contents(v) : e.value \in 0 .. p.root - 1
    <3> HIDE DEF v
    <3> QED
      BY <1>1, <1>2, RootEntriesBelow
  <2>2. q = Rerooted(p, v)
    BY DEF Filled
  <2> HIDE DEF v
  <2> QED
    BY <1>1, <2>1, <2>2, RerootedLayout
<1> HIDE DEF v
<1>4. PayloadOK(q) /\ Root(q) = v
  BY <1>3 DEF IsRerooted
<1>5. ASSUME NEW d \in Nat
      PROVE  Says(g, q, d) <=> DueFrom(d, g, n)
  <2>1. Says(g, q, d) <=>
           \/ TooDeep(g, d)
           \/ RefusedNode(g, v)
           \/ \E e \in Contents(v) :
                 RefusedEntry(g, e.key, q.cells[e.value]) \/ Walk(g, q.cells)[e.value][d + 1]
    BY <1>4, SaysUnfolds
  <2>2. Says(g, p, d) <=>
           \/ TooDeep(g, d)
           \/ RefusedNode(g, Root(p))
           \/ \E e \in Contents(Root(p)) :
                 RefusedEntry(g, e.key, p.cells[e.value]) \/ Walk(g, p.cells)[e.value][d + 1]
    BY <1>1, SaysUnfolds
  <2>3. \A e \in Contents(Root(p)) :
           /\ q.cells[e.value] = p.cells[e.value]
           /\ Walk(g, q.cells)[e.value][d + 1] = Walk(g, p.cells)[e.value][d + 1]
    <3>1. \A e \in Contents(Root(p)) : e.value \in 0 .. p.root - 1
      BY <1>1, RootEntriesBelow
    <3>2. \A c \in 0 .. p.root - 1 : q.cells[c] = p.cells[c]
      BY <1>3 DEF IsRerooted
    <3>3. \A c \in 0 .. p.root - 1 : \A b \in Nat : Walk(g, q.cells)[c][b] = Walk(g, p.cells)[c][b]
      BY <1>1, <1>3, RerootedWalk
    <3> QED
      BY <3>1, <3>2, <3>3
  <2>4. /\ RefusedNode(g, v) <=> g.closed /\ \/ Root(p).kind = "dict" /\ i > g.dict
                                             \/ Root(p).kind = "list" /\ i > g.list
        /\ RefusedNode(g, Root(p)) => RefusedNode(g, v)
    <3>1. Root(p).kind = "dict" \/ Root(p).kind = "list"
      BY DEF Containers
    <3> QED
      BY <3>1, <1>2 DEF RefusedNode, GuardOK
  <2>5. Says(g, q, d) <=> DueFrom(d, g, m) \/ RefusedNode(g, v)
    <3>1. (\E e \in Contents(v) :
              RefusedEntry(g, e.key, q.cells[e.value]) \/ Walk(g, q.cells)[e.value][d + 1])
          <=> (\E e \in Contents(Root(p)) :
                    RefusedEntry(g, e.key, p.cells[e.value]) \/ Walk(g, p.cells)[e.value][d + 1])
      BY <1>2, <2>3
    <3>2. Says(g, p, d) <=> DueFrom(d, g, m)
      BY <1>1
    <3> QED
      BY <2>1, <2>2, <2>4, <3>1, <3>2
  <2>6. /\ DueFrom(d, g, m) <=>
              \/ \E kk \in m.keys : RefusedKey(g, kk)
              \/ TooDeep(g, m.depth + d)
              \/ RefusedNode(g, m.leaf)
              \/ g.closed /\ (m.dict > g.dict \/ m.list > g.list)
              \/ g.strict /\ m.executes
        /\ DueFrom(d, g, n) <=>
              \/ \E kk \in n.keys : RefusedKey(g, kk)
              \/ TooDeep(g, n.depth + d)
              \/ RefusedNode(g, n.leaf)
              \/ g.closed /\ (n.dict > g.dict \/ n.list > g.list)
              \/ g.strict /\ n.executes
    BY <1>1, DueByParts
  <2>7. /\ n.dict > g.dict <=> m.dict > g.dict \/ (Root(p).kind = "dict" /\ i > g.dict)
        /\ n.list > g.list <=> m.list > g.list \/ (Root(p).kind = "list" /\ i > g.list)
    BY <1>1 DEF Wider, MadeOK, GuardOK
  <2> QED
    BY <2>4, <2>5, <2>6, <2>7
<1> QED
  BY <1>1, <1>2, <1>4, <1>5 DEF Tracked

-----------------------------------------------------------------------------
(* The view of the knowledge context. *)

(* The same cells, of which the containers are left. *)
LEMMA KeysOnlyLayout ==
    ASSUME NEW p, PayloadOK(p), NEW q, q = KeysOnly(p)
    PROVE  /\ q.root = p.root
           /\ DOMAIN q.cells = 0 .. p.root
           /\ \A c \in 0 .. p.root :
                 q.cells[c] = IF p.cells[c].kind \in Containers THEN p.cells[c] ELSE Nothing
           /\ PayloadOK(q)
           /\ Root(q) = IF Root(p).kind \in Containers THEN Root(p) ELSE Nothing
<1>1. /\ p.root \in Nat \ {0} /\ p.root \in 0 .. p.root /\ 0 \in 0 .. p.root
      /\ DOMAIN p.cells = 0 .. p.root
      /\ \A c \in 0 .. p.root : \A e \in Contents(p.cells[c]) : e.value \in 0 .. c - 1
  BY DEF PayloadOK, LaidOut
<1>2. /\ q.root = p.root
      /\ DOMAIN q.cells = 0 .. p.root
      /\ \A c \in 0 .. p.root :
            q.cells[c] = IF p.cells[c].kind \in Containers THEN p.cells[c] ELSE Nothing
  BY <1>1 DEF KeysOnly
<1>3. Nothing.kind = "none" /\ Contents(Nothing) = {}
  BY DEF Nothing, Node, Contents, Containers
<1>4. \A c \in 0 .. p.root : \A e \in Contents(q.cells[c]) : e.value \in 0 .. c - 1
  BY <1>1, <1>2, <1>3
<1>5. Contents(q.cells[0]) = {} /\ q.cells[0].kind \in {"number", "none"}
  BY <1>1, <1>2, <1>3 DEF PayloadOK
<1> QED
  BY <1>1, <1>2, <1>4, <1>5 DEF PayloadOK, LaidOut, Root

(* Wrapping and what is above a container are keys: they stay in view. *)
LEMMA KeysOnlyWraps ==
    ASSUME NEW p, PayloadOK(p), NEW k, NEW n \in Nat \ {0}
    PROVE  KeysOnly(Wrapped(p, k, n)) = Wrapped(KeysOnly(p), k, n)
<1> DEFINE q == Wrapped(p, k, n)
           r == KeysOnly(q)
           s == Wrapped(KeysOnly(p), k, n)
<1>1. p.root \in Nat \ {0} /\ DOMAIN p.cells = 0 .. p.root
  BY DEF PayloadOK, LaidOut
<1>2. KeysOnly(p).root = p.root
  BY KeysOnlyLayout
<1>3. DOMAIN q.cells = 0 .. p.root + n /\ q.root = p.root + n
  BY DEF Wrapped
<1>4. r = [root |-> p.root + n,
           cells |-> [c \in 0 .. p.root + n |->
                         IF q.cells[c].kind \in Containers THEN q.cells[c] ELSE Nothing]]
  <2> HIDE DEF q
  <2> QED
    BY <1>3 DEF KeysOnly
<1>5. s = [root |-> p.root + n, cells |-> [c \in 0 .. p.root + n |-> s.cells[c]]]
  BY <1>2 DEF Wrapped
<1>6. ASSUME NEW c \in 0 .. p.root + n
      PROVE  s.cells[c] = IF q.cells[c].kind \in Containers THEN q.cells[c] ELSE Nothing
  <2>1. CASE c <= p.root
    <3>1. c \in 0 .. p.root
      BY <1>1, <2>1
    <3>2. q.cells[c] = p.cells[c] /\ s.cells[c] = KeysOnly(p).cells[c]
      BY <1>2, <2>1 DEF Wrapped
    <3>3. KeysOnly(p).cells[c] = IF p.cells[c].kind \in Containers THEN p.cells[c] ELSE Nothing
      BY <3>1, KeysOnlyLayout
    <3> QED
      BY <3>2, <3>3
  <2>2. CASE ~ (c <= p.root)
    <3>1. s.cells[c] = q.cells[c]
      BY <1>2, <2>2 DEF Wrapped
    <3>2. q.cells[c].kind \in Containers
      <4>1. q.cells[c] = IF (c - p.root) % 2 = 1 THEN Node("dict", 1, {Entry(k, c - 1)})
                         ELSE Node("list", 1, {Entry(NoKey, c - 1)})
        BY <2>2 DEF Wrapped
      <4> HIDE DEF q
      <4>2. CASE (c - p.root) % 2 = 1
        BY <4>1, <4>2 DEF Node, Containers
      <4>3. CASE (c - p.root) % 2 # 1
        BY <4>1, <4>3 DEF Node, Containers
      <4> QED
        BY <4>2, <4>3
    <3> QED
      BY <3>1, <3>2
  <2> QED
    BY <2>1, <2>2
<1> HIDE DEF q, r, s
<1>7. r = s
  BY <1>4, <1>5, <1>6
<1> QED
  BY <1>7 DEF q, r, s

(* A container put in the place of the root is seen as it is. *)
LEMMA KeysOnlyReroots ==
    ASSUME NEW p, PayloadOK(p), NEW v, v.kind \in Containers
    PROVE  KeysOnly(Rerooted(p, v)) = Rerooted(KeysOnly(p), v)
<1> DEFINE q == Rerooted(p, v)
           r == KeysOnly(q)
           s == Rerooted(KeysOnly(p), v)
           View(u) == IF u.kind \in Containers THEN u ELSE Nothing
<1>1. p.root \in 0 .. p.root /\ DOMAIN p.cells = 0 .. p.root
  BY DEF PayloadOK, LaidOut
<1>2. /\ q.root = p.root /\ DOMAIN q.cells = 0 .. p.root
      /\ \A c \in 0 .. p.root : q.cells[c] = IF c = p.root THEN v ELSE p.cells[c]
  BY <1>1 DEF Rerooted
<1>3. r = [root |-> p.root, cells |-> [c \in 0 .. p.root |-> View(q.cells[c])]]
  <2> HIDE DEF q
  <2> QED
    BY <1>2 DEF KeysOnly
<1>4. /\ s = [root |-> p.root, cells |-> s.cells]
      /\ s.cells = [c \in 0 .. p.root |-> s.cells[c]]
      /\ \A c \in 0 .. p.root : s.cells[c] = IF c = p.root THEN v ELSE View(p.cells[c])
  BY <1>1 DEF Rerooted, KeysOnly
<1>5. \A c \in 0 .. p.root : s.cells[c] = View(q.cells[c])
  <2> HIDE DEF q, s
  <2> QED
    BY <1>2, <1>4
<1> HIDE DEF q, r, s, View
<1>6. r = s
  BY <1>3, <1>4, <1>5
<1> QED
  BY <1>6 DEF q, r, s

-----------------------------------------------------------------------------
(* The guards. *)

(* The walk of a public predicate. *)
Finder(bans) == [Open(0, bans) EXCEPT !.bounded = FALSE]

GuardNames == {"deception", "verdict", "engagement", "effect", "effect_secrets", "outcome",
               "tactical", "mio", "provisioning", "tier", "inference", "external", "locators",
               "external_secrets", "vendor_extension"}

(* Every walk a payload is taken through as it is. *)
Watched ==
    {Guards[n] : n \in GuardNames} \cup {Finder(Guards[n].bans) : n \in Predicates}
        \cup {Open(8, {})}

(* The guards by name. *)
LEMMA NamesOfGuards == DOMAIN Guards = GuardNames /\ Predicates \subseteq GuardNames
BY DEF Guards, GuardNames, Predicates

(* No table bans the two keys of harmless containers. *)
LEMMA TablesSpareHarmlessKeys ==
    ASSUME NEW k \in {NoKey, Note}
    PROVE  /\ k \notin RuntimeDirectives
           /\ k \notin EffectivenessVerdicts
           /\ k \notin EngagementAuthority
           /\ k \notin OutcomeForbidden
           /\ k \notin TacticalClaims
           /\ k \notin MioDirectives
           /\ k \notin EffectAuthority
           /\ k \notin ProvisioningBanned
           /\ k \notin TierClaims
           /\ k \notin RoleInference
           /\ k \notin ExternalDirectives
           /\ k \notin TargetLocators
<1>1. k.name \in {"item", "note"} /\ k.spelling = "none"
  BY DEF NoKey, Note, Unspelled
<1>2. Folded(k) = k /\ Split(k) = k
  BY <1>1 DEF Folded, Split
<1>3. \A names : k \notin Snake(names)
  BY <1>1 DEF Snake
<1>4. \A names : k \in AllSpellings(names) => k.name \in names
  BY DEF AllSpellings
<1> QED
  BY <1>1, <1>2, <1>3, <1>4
     DEF RuntimeDirectives, EffectivenessVerdicts, EngagementAuthority, OutcomeForbidden,
         TacticalClaims, MioDirectives, EffectAuthority, ProvisioningBanned, TierClaims,
         RoleInference, ExternalDirectives, TargetLocators

(* Guards that are built to look for names, and to bound. *)
LEMMA OpenOK ==
    ASSUME NEW bound \in Nat, NEW bans, NoKey \notin bans, Note \notin bans
    PROVE  GuardOK(Open(bound, bans)) /\ GuardOK([Open(bound, bans) EXCEPT !.marks = TRUE])
           /\ GuardOK(Finder(bans))
BY DEF Open, GuardOK, Finder

(* Guards that are built closed. *)
LEMMA ClosedOK ==
    ASSUME NEW bound \in Nat, NEW dict \in Nat, NEW list \in Nat, NEW text \in Nat,
           NEW bans, NoKey \notin bans, Note \notin bans
    PROVE  GuardOK(Closed(bound, dict, list, text, bans))
BY DEF Closed, Open, GuardOK

(* Every guard of every family is one the lemmas above speak of. *)
LEMMA GuardsOK == \A g \in Watched : GuardOK(g)
<1>1. \A k \in {NoKey, Note} : k \notin {}
  OBVIOUS
<1>2. GuardOK(Deception) /\ GuardOK(Verdict) /\ GuardOK(Engagement) /\ GuardOK(Effect)
  BY TablesSpareHarmlessKeys, OpenOK DEF Deception, Verdict, Engagement, Effect
<1>3. GuardOK(EffectSecrets) /\ GuardOK(ExternalSecrets) /\ GuardOK(Open(8, {}))
  BY <1>1, OpenOK DEF EffectSecrets, ExternalSecrets
<1>4. GuardOK(Outcome) /\ GuardOK(Provisioning)
  BY TablesSpareHarmlessKeys, ClosedOK DEF Outcome, Provisioning
<1>5. GuardOK(Tactical) /\ GuardOK(Tier) /\ GuardOK(Inference)
  BY TablesSpareHarmlessKeys
     DEF Tactical, Tier, Inference, Outcome, Provisioning, Closed, Open, GuardOK
<1>6. GuardOK(Mio) /\ GuardOK(External) /\ GuardOK(Locators)
  BY TablesSpareHarmlessKeys DEF Mio, External, Locators, Closed, Open, GuardOK
<1>7. GuardOK(VendorExtension)
  BY DEF VendorExtension, Closed, Open, GuardOK
<1>8. \A n \in GuardNames : GuardOK(Guards[n])
  BY <1>2, <1>3, <1>4, <1>5, <1>6, <1>7 DEF Guards, GuardNames
<1>9. \A n \in Predicates : GuardOK(Finder(Guards[n].bans))
  <2> TAKE n \in Predicates
  <2>1. NoKey \notin Guards[n].bans /\ Note \notin Guards[n].bans
    BY <1>8, NamesOfGuards DEF GuardOK
  <2>2. 0 \in Nat
    OBVIOUS
  <2> QED
    BY <2>1, <2>2, OpenOK
<1> QED
  BY <1>3, <1>8, <1>9 DEF Watched

-----------------------------------------------------------------------------
(* The relay. *)

(* What can have been made of a payload, and the same as far as keys show it. *)
History == [steps : Nat, leaf : Leaves, keys : SUBSET Keys, executes : BOOLEAN,
            depth : Nat, dict : Nat, list : Nat]

KeysOnlyMade == [made EXCEPT !.leaf = Nothing]

(* The inductive invariant: what was judged is the payload as it is, and every
   walk of it says what is due by its history. *)
RelayInv ==
    /\ made \in History
    /\ Root(payload).width \in Nat
    /\ \A g \in Watched : Tracked(g, payload, made)
    /\ Tracked(Mio, KeysOnly(payload), KeysOnlyMade)
    /\ refused = Refusing(payload)
    /\ found = Finding(payload)

(* Histories are such as the walks are told by. *)
LEMMA HistoriesMake ==
    ASSUME NEW m \in History
    PROVE  MadeOK(m) /\ MadeOK([m EXCEPT !.leaf = Nothing])
<1>1. m.leaf.kind \notin Containers
  BY PayloadAssumption DEF History
<1>2. Nothing.kind \notin Containers
  BY DEF Nothing, Node, Containers
<1> QED
  BY <1>1, <1>2 DEF MadeOK, History

(* Widths stay numbers. *)
LEMMA WiderIsNatural == ASSUME NEW a \in Nat, NEW b \in Nat PROVE Wider(a, b) \in Nat
BY DEF Wider

(* The walk that is also taken through the keys alone. *)
LEMMA MioOK == GuardOK(Mio) /\ ~ Mio.strict /\ Mio \in Watched
<1>1. Guards["mio"] = Mio /\ "mio" \in GuardNames
  BY DEF Guards, GuardNames
<1> QED
  BY <1>1, GuardsOK DEF Watched, Mio, Closed, Open

(* A single value is a payload. *)
LEMMA HoldingOK ==
    ASSUME NEW leaf \in Leaves, NEW p, p = Holding(leaf)
    PROVE  PayloadOK(p) /\ Root(p) = leaf /\ leaf.kind \notin Containers /\ leaf.width \in Nat
<1>1. leaf.kind \notin Containers /\ leaf.width \in Nat
  BY PayloadAssumption
<1>2. Contents(leaf) = {} /\ Contents(Number) = {} /\ Number.kind = "number"
  BY <1>1 DEF Contents, Number, Node, Containers
<1>3. /\ p.root = 1 /\ DOMAIN p.cells = 0 .. 1
      /\ p.cells[0] = Number /\ p.cells[1] = leaf
  BY DEF Holding
<1> QED
  BY <1>1, <1>2, <1>3 DEF PayloadOK, LaidOut, Root

(* A value that is relayed as it is meets the guards as its history says. *)
THEOREM RelayInitInv == RelayInit => RelayInv
<1> SUFFICES ASSUME RelayInit PROVE RelayInv
  OBVIOUS
<1>1. PICK leaf \in Leaves :
         /\ payload = Holding(leaf)
         /\ made = [steps |-> 0, leaf |-> leaf, keys |-> {}, executes |-> FALSE,
                    depth |-> 0, dict |-> 0, list |-> 0]
  BY DEF RelayInit
<1>2. made \in History
  BY <1>1 DEF History
<1>3. /\ PayloadOK(payload) /\ Root(payload) = leaf
      /\ leaf.kind \notin Containers /\ leaf.width \in Nat
  BY <1>1, HoldingOK
<1>4. \A g \in Watched : Tracked(g, payload, made)
  <2> TAKE g \in Watched
  <2>1. MadeOK(made) /\ GuardOK(g)
    BY <1>2, HistoriesMake, GuardsOK
  <2> QED
    BY <1>1, <1>3, <2>1, LeafTracked
<1>5. Tracked(Mio, KeysOnly(payload), KeysOnlyMade)
  <2>1. MadeOK(KeysOnlyMade)
    BY <1>2, HistoriesMake DEF KeysOnlyMade
  <2>2. PayloadOK(KeysOnly(payload)) /\ Root(KeysOnly(payload)) = Nothing
    BY <1>3, KeysOnlyLayout
  <2>3. Nothing.kind \notin Containers
    BY DEF Nothing, Node, Containers
  <2>4. /\ KeysOnlyMade.keys = {} /\ KeysOnlyMade.depth = 0 /\ KeysOnlyMade.dict = 0
        /\ KeysOnlyMade.list = 0 /\ KeysOnlyMade.executes = FALSE /\ KeysOnlyMade.leaf = Nothing
    BY <1>1 DEF KeysOnlyMade
  <2> QED
    BY <2>1, <2>2, <2>3, <2>4, MioOK, LeafTracked
<1> QED
  BY <1>2, <1>3, <1>4, <1>5 DEF RelayInv, RelayInit

(* What every step has to show. *)
LEMMA JudgedInv ==
    ASSUME NEW q, Judged(q), made' \in History, Root(q).width \in Nat,
           \A g \in Watched : Tracked(g, q, made'),
           Tracked(Mio, KeysOnly(q), KeysOnlyMade')
    PROVE  RelayInv'
BY DEF RelayInv, Judged, Refusing, Finding

(* Wrapped under a key, each walk meets the key and then the old payload. *)
LEMMA EnvelopPreserves == ASSUME RelayInv, NEW k \in Keys, Envelop(k) PROVE RelayInv'
<1> DEFINE q == Wrapped(payload, k, 1)
<1>1. made \in History /\ PayloadOK(payload)
  BY MioOK DEF RelayInv, Tracked
<1>2. /\ made' \in History
      /\ made'.keys = made.keys \cup {k} /\ made'.depth = made.depth + 1
      /\ made'.leaf = made.leaf /\ made'.dict = Wider(made.dict, 1) /\ made'.list = made.list
      /\ made'.executes <=> \/ made.executes
                            \/ k = Unspelled("executable") /\ Root(payload).kind # "false"
  <2>1. Wider(made.dict, 1) \in Nat
    BY <1>1, WiderIsNatural DEF History
  <2>2. Executes(k, Root(payload)) \in BOOLEAN
    BY <1>1 DEF Executes, History
  <2>3. /\ made' \in History
        /\ made'.executes = Executes(k, Root(payload))
    BY <1>1, <2>1, <2>2 DEF Envelop, Grown, History
  <2>4. /\ made'.keys = made.keys \cup {k} /\ made'.depth = made.depth + 1
        /\ made'.leaf = made.leaf /\ made'.dict = Wider(made.dict, 1) /\ made'.list = made.list
    BY DEF Envelop, Grown
  <2> QED
    BY <2>3, <2>4 DEF Executes
<1>3. MadeOK(made') /\ MadeOK(KeysOnlyMade')
  BY <1>2, HistoriesMake DEF KeysOnlyMade
<1>4. \A g \in Watched : Tracked(g, q, made')
  BY <1>2, <1>3, GuardsOK, EnvelopTracked DEF RelayInv
<1>5. Tracked(Mio, KeysOnly(q), KeysOnlyMade')
  <2>1. KeysOnly(q) = Wrapped(KeysOnly(payload), k, 1)
    BY <1>1, KeysOnlyWraps
  <2>2. /\ KeysOnlyMade'.keys = KeysOnlyMade.keys \cup {k}
        /\ KeysOnlyMade'.depth = KeysOnlyMade.depth + 1
        /\ KeysOnlyMade'.leaf = KeysOnlyMade.leaf
        /\ KeysOnlyMade'.dict = Wider(KeysOnlyMade.dict, 1)
        /\ KeysOnlyMade'.list = KeysOnlyMade.list
    BY <1>1, <1>2 DEF KeysOnlyMade, History
  <2> HIDE DEF q
  <2> QED
    BY <1>3, <2>1, <2>2, MioOK, EnvelopTracked DEF RelayInv
<1>6. Root(q).width = 1
  <2>1. IsWrapped(q, payload, k, 1)
    BY <1>1, WrappedLayout
  <2>2. Root(q) = Node("dict", 1, {Entry(k, payload.root + 1 - 1)})
    <3>1. 1 % 2 = 1 /\ 1 \in 1 .. 1
      OBVIOUS
    <3> HIDE DEF q
    <3> QED
      BY <2>1, <3>1 DEF IsWrapped, Root
  <2> HIDE DEF q
  <2> QED
    BY <2>2 DEF Node
<1>7. Judged(q)
  BY DEF Envelop
<1> HIDE DEF q
<1> QED
  BY <1>2, <1>4, <1>5, <1>6, <1>7, JudgedInv

(* Given one more entry, each walk meets a wider root and the key. *)
LEMMA AnnotatePreserves == ASSUME RelayInv, NEW k \in Keys, Annotate(k) PROVE RelayInv'
<1> DEFINE q == Annotated(payload, k)
           v == Node("dict", Root(payload).width + 1, Root(payload).entries \cup {Entry(k, 0)})
<1>1. /\ made \in History /\ PayloadOK(payload)
      /\ Root(payload).kind = "dict" /\ Root(payload).width \in Nat
  BY MioOK DEF RelayInv, Tracked, Annotate
<1>2. /\ made' \in History
      /\ made'.keys = made.keys \cup {k} /\ made'.depth = made.depth
      /\ made'.leaf = made.leaf /\ made'.dict = Wider(made.dict, Root(payload).width + 1)
      /\ made'.list = made.list
      /\ made'.executes <=> made.executes \/ k = Unspelled("executable")
  <2>1. Wider(made.dict, Root(payload).width + 1) \in Nat
    <3>1. made.dict \in Nat /\ Root(payload).width + 1 \in Nat
      BY <1>1 DEF History
    <3> QED
      BY <3>1, WiderIsNatural
  <2>2. Number.kind # "false"
    BY DEF Number, Node
  <2>3. Executes(k, Number) \in BOOLEAN
    BY <1>1 DEF Executes, History
  <2>4. /\ made' \in History
        /\ made'.executes = Executes(k, Number)
    BY <1>1, <2>1, <2>3 DEF Annotate, Grown, History
  <2>5. /\ made'.keys = made.keys \cup {k} /\ made'.depth = made.depth
        /\ made'.leaf = made.leaf /\ made'.dict = Wider(made.dict, Root(payload).width + 1)
        /\ made'.list = made.list
    BY DEF Annotate, Grown
  <2> QED
    BY <2>2, <2>4, <2>5 DEF Executes
<1>3. MadeOK(made') /\ MadeOK(KeysOnlyMade')
  BY <1>2, HistoriesMake DEF KeysOnlyMade
<1>4. \A g \in Watched : Tracked(g, q, made')
  BY <1>1, <1>2, <1>3, GuardsOK, AnnotateTracked DEF RelayInv
<1>5. /\ PayloadOK(KeysOnly(payload)) /\ KeysOnly(payload).root = payload.root
      /\ Root(KeysOnly(payload)) = Root(payload)
  BY <1>1, KeysOnlyLayout DEF Containers
<1>6. v.kind = "dict" /\ v.width = Root(payload).width + 1 /\ q = Rerooted(payload, v)
  BY DEF Node, Annotated
<1>7. Tracked(Mio, KeysOnly(q), KeysOnlyMade')
  <2>1. KeysOnly(q) = Rerooted(KeysOnly(payload), v)
    <3>1. v.kind \in Containers
      BY <1>6 DEF Containers
    <3> HIDE DEF q, v
    <3> QED
      BY <1>1, <1>6, <3>1, KeysOnlyReroots
  <2>2. KeysOnly(q) = Annotated(KeysOnly(payload), k)
    BY <1>5, <2>1 DEF Annotated
  <2>3. /\ KeysOnlyMade'.keys = KeysOnlyMade.keys \cup {k}
        /\ KeysOnlyMade'.depth = KeysOnlyMade.depth
        /\ KeysOnlyMade'.leaf = KeysOnlyMade.leaf
        /\ KeysOnlyMade'.dict = Wider(KeysOnlyMade.dict, Root(payload).width + 1)
        /\ KeysOnlyMade'.list = KeysOnlyMade.list
    BY <1>1, <1>2 DEF KeysOnlyMade, History
  <2> HIDE DEF q, v
  <2> QED
    BY <1>1, <1>3, <1>5, <2>2, <2>3, MioOK, AnnotateTracked DEF RelayInv
<1>8. Root(q).width \in Nat
  <2>1. Root(q) = v
    <3>1. payload.root \in DOMAIN payload.cells
      BY <1>1 DEF PayloadOK, LaidOut
    <3> HIDE DEF v
    <3> QED
      BY <1>6, <3>1 DEF Rerooted, Root
  <2> QED
    BY <1>1, <1>6, <2>1
<1>9. Judged(q)
  BY DEF Annotate
<1> HIDE DEF q, v
<1> QED
  BY <1>2, <1>4, <1>7, <1>8, <1>9, JudgedInv

(* Wrapped in harmless containers, each walk meets the old payload deeper. *)
LEMMA NestPreserves == ASSUME RelayInv, NEW n \in Levels, Nest(n) PROVE RelayInv'
<1> DEFINE q == Wrapped(payload, Note, n)
<1>1. made \in History /\ PayloadOK(payload) /\ n \in Nat \ {0}
  BY MioOK, PayloadAssumption DEF RelayInv, Tracked
<1>2. /\ made' \in History
      /\ made'.keys = made.keys /\ made'.depth = made.depth + n
      /\ made'.leaf = made.leaf /\ made'.dict = Wider(made.dict, 1)
      /\ made'.list = (IF n > 1 THEN Wider(made.list, 1) ELSE made.list)
      /\ made'.executes = made.executes
  <2>1. Wider(made.dict, 1) \in Nat /\ Wider(made.list, 1) \in Nat
    BY <1>1, WiderIsNatural DEF History
  <2> QED
    BY <1>1, <2>1 DEF Nest, Grown, History
<1>3. MadeOK(made') /\ MadeOK(KeysOnlyMade')
  BY <1>2, HistoriesMake DEF KeysOnlyMade
<1>4. \A g \in Watched : Tracked(g, q, made')
  BY <1>1, <1>2, <1>3, GuardsOK, NestTracked DEF RelayInv
<1>5. Tracked(Mio, KeysOnly(q), KeysOnlyMade')
  <2>1. KeysOnly(q) = Wrapped(KeysOnly(payload), Note, n)
    BY <1>1, KeysOnlyWraps
  <2>2. /\ KeysOnlyMade'.keys = KeysOnlyMade.keys
        /\ KeysOnlyMade'.depth = KeysOnlyMade.depth + n
        /\ KeysOnlyMade'.leaf = KeysOnlyMade.leaf
        /\ KeysOnlyMade'.dict = Wider(KeysOnlyMade.dict, 1)
        /\ KeysOnlyMade'.list = (IF n > 1 THEN Wider(KeysOnlyMade.list, 1) ELSE KeysOnlyMade.list)
        /\ KeysOnlyMade'.executes = KeysOnlyMade.executes
    BY <1>1, <1>2 DEF KeysOnlyMade, History
  <2> HIDE DEF q
  <2> QED
    BY <1>1, <1>3, <2>1, <2>2, MioOK, NestTracked DEF RelayInv
<1>6. Root(q).width = 1
  <2>1. IsWrapped(q, payload, Note, n)
    BY <1>1, WrappedLayout
  <2>2. n \in 1 .. n
    BY <1>1
  <2>3. Root(q) = IF n % 2 = 1 THEN Node("dict", 1, {Entry(Note, payload.root + n - 1)})
                  ELSE Node("list", 1, {Entry(NoKey, payload.root + n - 1)})
    <3> HIDE DEF q
    <3> QED
      BY <2>1, <2>2 DEF IsWrapped, Root
  <2> HIDE DEF q
  <2>4. CASE n % 2 = 1
    BY <2>3, <2>4 DEF Node
  <2>5. CASE n % 2 # 1
    BY <2>3, <2>5 DEF Node
  <2> QED
    BY <2>4, <2>5
<1>7. Judged(q)
  BY DEF Nest
<1> HIDE DEF q
<1> QED
  BY <1>2, <1>4, <1>5, <1>6, <1>7, JudgedInv

(* Filled with numbers, each walk meets a wider root. *)
LEMMA FillPreserves == ASSUME RelayInv, NEW n \in Widths, Fill(n) PROVE RelayInv'
<1> DEFINE q == Filled(payload, n)
           v == Node(Root(payload).kind, n, Root(payload).entries)
<1>1. /\ made \in History /\ PayloadOK(payload) /\ n \in Nat
      /\ Root(payload).kind \in Containers /\ Root(payload).width \in Nat
      /\ Root(payload).width < n
      /\ Root(payload).kind = "dict" \/ Root(payload).kind = "list"
  BY MioOK, PayloadAssumption DEF RelayInv, Tracked, Fill, Containers
<1>2. /\ made' \in History
      /\ made'.keys = made.keys /\ made'.depth = made.depth /\ made'.leaf = made.leaf
      /\ made'.dict = IF Root(payload).kind = "dict" THEN Wider(made.dict, n) ELSE made.dict
      /\ made'.list = IF Root(payload).kind = "list" THEN Wider(made.list, n) ELSE made.list
      /\ made'.executes = made.executes
  <2>1. Wider(made.dict, n) \in Nat /\ Wider(made.list, n) \in Nat
    BY <1>1, WiderIsNatural DEF History
  <2> QED
    BY <1>1, <2>1 DEF Fill, Grown, History
<1>3. MadeOK(made') /\ MadeOK(KeysOnlyMade')
  BY <1>2, HistoriesMake DEF KeysOnlyMade
<1>4. \A g \in Watched : Tracked(g, q, made')
  BY <1>1, <1>2, <1>3, GuardsOK, FillTracked DEF RelayInv
<1>5. /\ PayloadOK(KeysOnly(payload)) /\ KeysOnly(payload).root = payload.root
      /\ Root(KeysOnly(payload)) = Root(payload)
  BY <1>1, KeysOnlyLayout
<1>6. v.kind = Root(payload).kind /\ v.width = n /\ q = Rerooted(payload, v)
  BY DEF Node, Filled
<1>7. Tracked(Mio, KeysOnly(q), KeysOnlyMade')
  <2>1. KeysOnly(q) = Rerooted(KeysOnly(payload), v)
    <3> HIDE DEF q, v
    <3> QED
      BY <1>1, <1>6, KeysOnlyReroots
  <2>2. KeysOnly(q) = Filled(KeysOnly(payload), n)
    BY <1>5, <2>1 DEF Filled
  <2>3. /\ KeysOnlyMade'.keys = KeysOnlyMade.keys
        /\ KeysOnlyMade'.depth = KeysOnlyMade.depth
        /\ KeysOnlyMade'.leaf = KeysOnlyMade.leaf
        /\ KeysOnlyMade'.dict = IF Root(payload).kind = "dict" THEN Wider(KeysOnlyMade.dict, n)
                                ELSE KeysOnlyMade.dict
        /\ KeysOnlyMade'.list = IF Root(payload).kind = "list" THEN Wider(KeysOnlyMade.list, n)
                                ELSE KeysOnlyMade.list
        /\ KeysOnlyMade'.executes = KeysOnlyMade.executes
    BY <1>1, <1>2 DEF KeysOnlyMade, History
  <2> HIDE DEF q, v
  <2> QED
    BY <1>1, <1>3, <1>5, <2>2, <2>3, MioOK, FillTracked DEF RelayInv
<1>8. Root(q).width \in Nat
  <2>1. Root(q) = v
    <3>1. payload.root \in DOMAIN payload.cells
      BY <1>1 DEF PayloadOK, LaidOut
    <3> HIDE DEF v
    <3> QED
      BY <1>6, <3>1 DEF Rerooted, Root
  <2> QED
    BY <1>1, <1>6, <2>1
<1>9. Judged(q)
  BY DEF Fill
<1> HIDE DEF q, v
<1> QED
  BY <1>2, <1>4, <1>7, <1>8, <1>9, JudgedInv

(* No step of a relay makes a walk say anything but what is due. *)
THEOREM RelayStepInv == RelayInv /\ [RelayNext]_relayVars => RelayInv'
<1> SUFFICES ASSUME RelayInv, [RelayNext]_relayVars PROVE RelayInv'
  OBVIOUS
<1>1. CASE RelayNext
  BY <1>1, EnvelopPreserves, AnnotatePreserves, NestPreserves, FillPreserves DEF RelayNext
<1>2. CASE UNCHANGED relayVars
  BY <1>2 DEF relayVars, RelayInv, KeysOnlyMade, Refusing, Finding
<1> QED
  BY <1>1, <1>2

(* In every reachable state each walk of the payload, taken from any depth, says
   what is due by what was put into it. *)
THEOREM RelayInductive == RelaySpec => []RelayInv
<1> QED
  BY RelayInitInv, RelayStepInv, PTL DEF RelaySpec

(* What the judged sets hold. *)
LEMMA RefusedIsDue ==
    ASSUME RelayInv, NEW n \in GuardNames
    PROVE  n \in refused <=> Due(Guards[n], made)
<1>1. Guards[n] \in Watched /\ n # "knowledge"
  BY DEF Watched, GuardNames
<1>2. n \in refused <=> Refuses(Guards[n], payload)
  BY <1>1, NamesOfGuards DEF RelayInv, Refusing
<1>3. Guards[n].start \in Nat
  BY <1>1, GuardsOK DEF GuardOK
<1>4. Refuses(Guards[n], payload) <=> DueFrom(Guards[n].start, Guards[n], made)
  BY <1>1, <1>3 DEF RelayInv, Tracked, Refuses, Says
<1> QED
  BY <1>2, <1>4 DEF Due

(* The knowledge context refuses by its keys. *)
LEMMA KnowledgeIsDue ==
    ASSUME RelayInv
    PROVE  "knowledge" \in refused <=> Due(Mio, [made EXCEPT !.leaf = Nothing])
<1>1. "knowledge" \notin GuardNames
  BY DEF GuardNames
<1>2. "knowledge" \in refused <=> KnowledgeRefuses(payload)
  BY <1>1, NamesOfGuards DEF RelayInv, Refusing
<1>3. Mio.start = 0 /\ Mio.bounded = TRUE /\ Mio.bound = 6
  BY DEF Mio, Closed, Open
<1>4. Refuses(Mio, KeysOnly(payload)) <=> DueFrom(0, Mio, KeysOnlyMade)
  BY <1>3 DEF RelayInv, Tracked, Refuses, Says
<1>5. Refuses(Open(8, {}), payload) <=> DueFrom(0, Open(8, {}), made)
  <2>1. Open(8, {}) \in Watched /\ Open(8, {}).start = 0
    BY DEF Watched, Open
  <2> QED
    BY <2>1 DEF RelayInv, Tracked, Refuses, Says
<1>6. DueFrom(0, Open(8, {}), made) => DueFrom(0, Mio, KeysOnlyMade)
  <2>1. DueFrom(0, Open(8, {}), made) => made.depth + 0 > 8
    BY DEF DueFrom, Open
  <2>2. made.depth \in Nat /\ KeysOnlyMade.depth = made.depth
    BY DEF RelayInv, History, KeysOnlyMade
  <2>3. made.depth + 0 > 8 => KeysOnlyMade.depth + 0 > 6
    BY <2>2
  <2> QED
    BY <1>3, <2>1, <2>3 DEF DueFrom
<1> QED
  BY <1>2, <1>3, <1>4, <1>5, <1>6 DEF KnowledgeRefuses, Due, KeysOnlyMade

(* The public predicates find what is banned. *)
LEMMA FoundIsBanned ==
    ASSUME RelayInv, NEW n \in Predicates
    PROVE  n \in found <=> made.keys \cap Guards[n].bans # {}
<1> DEFINE g == Finder(Guards[n].bans)
<1>1. g \in Watched
  BY DEF Watched
<1>2. /\ g.bans = Guards[n].bans /\ g.start = 0 /\ g.bounded = FALSE
      /\ ~ g.closed /\ ~ g.marks /\ ~ g.strict /\ ~ g.finite /\ ~ g.shortkeys
  BY DEF Finder, Open
<1>3. n \in found <=> Refuses(g, payload)
  BY DEF RelayInv, Finding, Finds, Finder
<1>4. Refuses(g, payload) <=> DueFrom(0, g, made)
  <2> HIDE DEF g
  <2> QED
    BY <1>1, <1>2 DEF RelayInv, Tracked, Refuses, Says
<1> HIDE DEF g
<1>5. DueFrom(0, g, made) <=> made.keys \cap g.bans # {}
  BY <1>2 DEF DueFrom
<1> QED
  BY <1>2, <1>3, <1>4, <1>5

LEMMA InvRefuses == RelayInv => RefusedExactlyWhenDue
BY RefusedIsDue, KnowledgeIsDue, NamesOfGuards DEF RefusedExactlyWhenDue

(* Predicates and assertions have the same tables. *)
LEMMA InvAgrees == RelayInv => PredicatesAgree
<1> SUFFICES ASSUME RelayInv PROVE PredicatesAgree
  OBVIOUS
<1>1. \A n \in Predicates : n \in found <=> made.keys \cap Guards[n].bans # {}
  BY FoundIsBanned
<1>2. found \subseteq Predicates
  BY DEF RelayInv, Finding
<1>3. \A n \in GuardNames : made.keys \cap Guards[n].bans # {} => n \in refused
  BY RefusedIsDue DEF Due, DueFrom
<1> QED
  BY <1>1, <1>2, <1>3, NamesOfGuards DEF PredicatesAgree

(* The tables that restate the canonical names, spelling by spelling. *)
LEMMA InvCanonical == RelayInv => CanonicalIsRefusedEverywhere
<1> SUFFICES ASSUME RelayInv, "deception" \in refused
             PROVE  {"engagement", "mio", "knowledge", "provisioning", "external"} \subseteq refused
  BY DEF CanonicalIsRefusedEverywhere
<1>1. made.keys \subseteq Keys /\ made.depth \in Nat
  BY DEF RelayInv, History
<1>2. made.keys \cap RuntimeDirectives # {} \/ made.depth > 32
  <2>1. Due(Guards["deception"], made)
    BY RefusedIsDue DEF GuardNames
  <2>2. Guards["deception"] = Open(32, RuntimeDirectives)
    BY DEF Guards, Deception
  <2>3. made.keys \cap RuntimeDirectives # {} \/ made.depth + 0 > 32
    BY <2>1, <2>2 DEF Due, DueFrom, Open
  <2> QED
    BY <1>1, <2>3
<1>3. ASSUME NEW g, NEW start \in Nat, NEW m, m.keys = made.keys, m.depth = made.depth,
             RuntimeDirectives \cap Keys \subseteq g.bans, g.bounded, g.bound \in 0 .. 32
      PROVE  DueFrom(start, g, m)
  <2>1. made.keys \cap RuntimeDirectives # {} => m.keys \cap g.bans # {}
    BY <1>1, <1>3
  <2>2. made.depth > 32 => m.depth + start > g.bound
    BY <1>1, <1>3
  <2> QED
    BY <1>2, <1>3, <2>1, <2>2 DEF DueFrom
<1>4. \A k \in RuntimeDirectives :
         k.name \in {"docker_command", "nft_rule"} /\ k.spelling = "snake"
  BY DEF RuntimeDirectives, Snake
<1>5. RuntimeDirectives \subseteq EngagementAuthority
  BY DEF EngagementAuthority
<1>6. RuntimeDirectives \subseteq MioDirectives
  BY DEF RuntimeDirectives, MioDirectives, Snake
<1>7. RuntimeDirectives \cap Keys \subseteq ProvisioningBanned
  <2>1. \A k \in RuntimeDirectives : Split(k) = k
    BY <1>4 DEF Split
  <2> QED
    BY <2>1 DEF ProvisioningBanned, RuntimeDirectives
<1>8. RuntimeDirectives \cap Keys \subseteq ExternalDirectives
  BY <1>4 DEF ExternalDirectives, AllSpellings
<1>9. /\ Guards["engagement"] = Engagement /\ Guards["mio"] = Mio
      /\ Guards["provisioning"] = Provisioning /\ Guards["external"] = External
  BY DEF Guards
<1>10. /\ Engagement.bans = EngagementAuthority /\ Engagement.bounded /\ Engagement.bound = 32
       /\ Mio.bans = MioDirectives /\ Mio.bounded /\ Mio.bound = 6
       /\ Provisioning.bans = ProvisioningBanned /\ Provisioning.bounded /\ Provisioning.bound = 8
       /\ External.bans = ExternalDirectives /\ External.bounded /\ External.bound = 12
       /\ Engagement.start = 0 /\ Mio.start = 0 /\ Provisioning.start = 0 /\ External.start = 0
  BY DEF Engagement, Mio, Provisioning, External, Closed, Open
<1>11. /\ Due(Engagement, made) /\ Due(Mio, made) /\ Due(Provisioning, made) /\ Due(External, made)
  BY <1>3, <1>5, <1>6, <1>7, <1>8, <1>10 DEF Due
<1>12. Due(Mio, [made EXCEPT !.leaf = Nothing])
  <2> DEFINE m == [made EXCEPT !.leaf = Nothing]
  <2>1. m.keys = made.keys /\ m.depth = made.depth
    BY DEF RelayInv, History
  <2> HIDE DEF m
  <2>2. DueFrom(Mio.start, Mio, m)
    BY <2>1, <1>3, <1>6, <1>10
  <2> QED
    BY <2>2 DEF Due, m
<1>13. {"engagement", "mio", "provisioning", "external"} \subseteq GuardNames
  BY DEF GuardNames
<1> QED
  BY <1>9, <1>11, <1>12, <1>13, RefusedIsDue, KnowledgeIsDue

(* What was put into a payload stays in it. *)
GrownFrom(m, n) ==
    /\ n.leaf = m.leaf
    /\ m.keys \subseteq n.keys
    /\ m.executes => n.executes
    /\ m.depth <= n.depth
    /\ m.dict <= n.dict
    /\ m.list <= n.list

(* Widths never shrink. *)
LEMMA WiderIsNoLess == ASSUME NEW a \in Nat, NEW b \in Nat PROVE a <= Wider(a, b)
BY DEF Wider

(* Every step of a relay adds to what was made. *)
LEMMA HistoryGrows == ASSUME RelayInv, [RelayNext]_relayVars PROVE GrownFrom(made, made')
<1>1. /\ made.depth \in Nat /\ made.dict \in Nat /\ made.list \in Nat
      /\ Root(payload).width \in Nat
  BY DEF RelayInv, History
<1>2. ASSUME NEW k \in Keys, Envelop(k) PROVE GrownFrom(made, made')
  <2>1. made.dict <= Wider(made.dict, 1) /\ made.depth <= made.depth + 1 /\ made.list <= made.list
    BY <1>1, WiderIsNoLess
  <2> QED
    BY <1>2, <2>1 DEF Envelop, Grown, Executes, GrownFrom
<1>3. ASSUME NEW k \in Keys, Annotate(k) PROVE GrownFrom(made, made')
  <2>1. Root(payload).width + 1 \in Nat
    BY <1>1
  <2>2. /\ made.dict <= Wider(made.dict, Root(payload).width + 1)
        /\ made.depth <= made.depth /\ made.list <= made.list
    BY <1>1, <2>1, WiderIsNoLess
  <2> QED
    BY <1>3, <2>2 DEF Annotate, Grown, Executes, GrownFrom
<1>4. ASSUME NEW n \in Levels, Nest(n) PROVE GrownFrom(made, made')
  <2>1. n \in Nat
    BY PayloadAssumption
  <2>2. /\ made.dict <= Wider(made.dict, 1) /\ made.depth <= made.depth + n
        /\ made.list <= Wider(made.list, 1) /\ made.list <= made.list
    BY <1>1, <2>1, WiderIsNoLess
  <2> QED
    BY <1>4, <2>2 DEF Nest, Grown, GrownFrom
<1>5. ASSUME NEW n \in Widths, Fill(n) PROVE GrownFrom(made, made')
  <2>1. n \in Nat
    BY PayloadAssumption
  <2>2. /\ made.dict <= Wider(made.dict, n) /\ made.list <= Wider(made.list, n)
        /\ made.depth <= made.depth /\ made.dict <= made.dict /\ made.list <= made.list
    BY <1>1, <2>1, WiderIsNoLess
  <2> QED
    BY <1>5, <2>2 DEF Fill, Grown, GrownFrom
<1>6. CASE UNCHANGED relayVars
  BY <1>1, <1>6 DEF relayVars, GrownFrom
<1> QED
  BY <1>2, <1>3, <1>4, <1>5, <1>6 DEF RelayNext

(* What is due stays due. *)
LEMMA DueStays ==
    ASSUME NEW g, NEW start \in Nat, GuardOK(g), NEW m, NEW n, MadeOK(m), MadeOK(n),
           GrownFrom(m, n),
           DueFrom(start, g, m)
    PROVE  DueFrom(start, g, n)
<1>1. m.keys \cap g.bans # {} => n.keys \cap g.bans # {}
  BY DEF GrownFrom
<1>2. g.bounded /\ m.depth + start > g.bound => n.depth + start > g.bound
  BY DEF GrownFrom, MadeOK, GuardOK
<1>3. (m.dict > g.dict => n.dict > g.dict) /\ (m.list > g.list => n.list > g.list)
  BY DEF GrownFrom, MadeOK, GuardOK
<1>4. Snake({"aws_secret_access_key"}) \cap m.keys # {}
         => Snake({"aws_secret_access_key"}) \cap n.keys # {}
  BY DEF GrownFrom
<1>5. \A k : k \in m.keys => k \in n.keys
  BY DEF GrownFrom
<1>6. n.leaf = m.leaf /\ (m.executes => n.executes)
  BY DEF GrownFrom
<1> QED
  BY <1>1, <1>2, <1>3, <1>4, <1>5, <1>6 DEF DueFrom

(* A step of a relay cannot put a payload where its refusal is lost. *)
LEMMA StepNeverLaunders ==
    ASSUME RelayInv, RelayInv', [RelayNext]_relayVars
    PROVE  refused \subseteq refused'
<1>1. /\ GrownFrom(made, made')
      /\ MadeOK(made) /\ MadeOK(made') /\ MadeOK(KeysOnlyMade) /\ MadeOK(KeysOnlyMade')
  BY HistoryGrows, HistoriesMake DEF RelayInv, KeysOnlyMade
<1>2. GrownFrom(KeysOnlyMade, KeysOnlyMade')
  <2>1. made \in History /\ made' \in History
    BY DEF RelayInv
  <2> QED
    BY <1>1, <2>1 DEF GrownFrom, KeysOnlyMade, History
<1>3. RefusedExactlyWhenDue /\ RefusedExactlyWhenDue'
  <2>1. RelayInv' => RefusedExactlyWhenDue'
    BY InvRefuses, PTL
  <2> QED
    BY <2>1, InvRefuses
<1>4. ASSUME NEW n \in GuardNames, n \in refused PROVE n \in refused'
  <2>1. GuardOK(Guards[n])
    BY GuardsOK DEF Watched
  <2>2. Guards[n].start \in Nat
    BY <2>1 DEF GuardOK
  <2>3. DueFrom(Guards[n].start, Guards[n], made)
    BY <1>3, <1>4, NamesOfGuards DEF RefusedExactlyWhenDue, Due
  <2>4. DueFrom(Guards[n].start, Guards[n], made')
    BY <1>1, <2>1, <2>2, <2>3, DueStays
  <2> QED
    BY <1>3, <2>4, NamesOfGuards DEF RefusedExactlyWhenDue, Due
<1>5. "knowledge" \in refused => "knowledge" \in refused'
  <2>1. Mio.start \in Nat
    BY MioOK DEF GuardOK
  <2>2. DueFrom(Mio.start, Mio, KeysOnlyMade) => DueFrom(Mio.start, Mio, KeysOnlyMade')
    BY <1>1, <1>2, <2>1, MioOK, DueStays
  <2>3. "knowledge" \in refused <=> DueFrom(Mio.start, Mio, KeysOnlyMade)
    BY <1>3 DEF RefusedExactlyWhenDue, Due, KeysOnlyMade
  <2>4. "knowledge" \in refused' <=> DueFrom(Mio.start, Mio, KeysOnlyMade')
    BY <1>3 DEF RefusedExactlyWhenDue, Due, KeysOnlyMade
  <2> QED
    BY <2>2, <2>3, <2>4
<1>6. refused \subseteq GuardNames \cup {"knowledge"}
  BY NamesOfGuards DEF RelayInv, Refusing
<1> QED
  BY <1>4, <1>5, <1>6

(* Every walk of every family refuses a payload exactly when a banned name, a
   secret or an excess was put into it, at whatever depth and in whatever
   company it lies. *)
THEOREM NothingHidden == RelaySpec => []RefusedExactlyWhenDue
<1> QED
  BY RelayInductive, InvRefuses, PTL

(* The public predicates find, at any depth, exactly the names the assertions of
   the same family refuse. *)
THEOREM PredicatesAgreeAlways == RelaySpec => []PredicatesAgree
<1> QED
  BY RelayInductive, InvAgrees, PTL

(* A payload the deception family refuses is refused by every family that
   restates its names. *)
THEOREM CanonicalEverywhere == RelaySpec => []CanonicalIsRefusedEverywhere
<1> QED
  BY RelayInductive, InvCanonical, PTL

(* A payload that a guard refuses cannot be made into one that the same guard
   accepts, by putting it into anything or anything beside it. *)
THEOREM NothingLaundered == RelaySpec => NestingNeverLaunders
<1>1. RelayInv /\ RelayInv' /\ [RelayNext]_relayVars => [refused \subseteq refused']_relayVars
  BY StepNeverLaunders
<1> QED
  BY <1>1, RelayInductive, PTL DEF RelaySpec, NestingNeverLaunders

-----------------------------------------------------------------------------
(* Merges. *)

(* A merge that constructed, of answers that constructed. *)
ShownOK(s) ==
    /\ \A r \in s.inputs : AdvisoryResultOK(r)
    /\ s.contradiction \in [1 .. 2 -> ClaimsOf(s.inputs)]
    /\ Range(s.merge.claims) \subseteq Retold(ClaimsOf(s.inputs))
    /\ s.merge.disagreements =
          {[i \in DOMAIN s.contradiction |-> s.contradiction[i].claim_id]}
    /\ MergedAdvisoryOK(s.merge)

(* The inductive invariant of hearing and merging. *)
Inv ==
    /\ \A r \in answers : AdvisoryResultOK(r)
    /\ \A s \in shown : ShownOK(s)

(* What retelling a claim keeps, and what it can at most lose. *)
LEMMA RetoldKeeps ==
    ASSUME NEW claims, NEW d \in Retold(claims)
    PROVE  \E c \in claims :
              /\ d.claim_id = c.claim_id
              /\ d.statement = c.statement
              /\ d.source = c.source
              /\ d.model_ref \in {c.model_ref, None}
<1>1. PICK c \in claims : d \in Restatements(c)
  BY DEF Retold
<1>2. PICK m \in {c.model_ref, None}, g \in {c.model_generation, None} :
         d = [claim_id |-> c.claim_id, statement |-> c.statement, source |-> c.source,
              model_ref |-> m, model_generation |-> g]
  BY <1>1 DEF Restatements
<1>3. QED
  BY <1>2

(* A model's claim that was heard names its model. *)
LEMMA HeardNamesItsModel ==
    ASSUME NEW inputs, \A r \in inputs : AdvisoryResultOK(r), NEW c \in ClaimsOf(inputs)
    PROVE  NamesItsModel(c)
<1>1. PICK r \in inputs : c \in Range(r.claims)
  BY DEF ClaimsOf
<1>2. PICK i \in DOMAIN r.claims : c = r.claims[i]
  BY <1>1 DEF Range
<1>3. QED
  BY <1>2 DEF AdvisoryResultOK, ClaimSetOK

(* Nothing is sent, heard or shown at first. *)
THEOREM InitInv == Init => Inv
BY DEF Init, Inv

(* Sending changes nothing that is held or shown. *)
LEMMA SendPreserves == ASSUME Inv, NEW f \in Frames, Send(f) PROVE Inv'
BY DEF Inv, Send

(* An answer is held once it constructed. *)
LEMMA ReceivePreserves == ASSUME Inv, NEW r \in Answers, Receive(r) PROVE Inv'
BY DEF Inv, Receive

(* A merge is shown once it constructed, and retells what was heard. *)
LEMMA MergePreserves ==
    ASSUME Inv, NEW inputs \in SUBSET answers, NEW n \in 1 .. MaxClaims,
           NEW claims \in [1 .. n -> Retold(ClaimsOf(inputs))],
           NEW contradiction \in [1 .. 2 -> ClaimsOf(inputs)],
           Merge(inputs, claims, contradiction)
    PROVE  Inv'
<1> DEFINE m == [input_result_refs |-> {r.result_id : r \in inputs},
                 claims |-> claims,
                 disagreements |-> {[i \in DOMAIN contradiction |-> contradiction[i].claim_id]},
                 departs |-> {}, carries |-> {}]
           s == [inputs |-> inputs, merge |-> m, contradiction |-> contradiction]
<1>1. MergedAdvisoryOK(m) /\ shown' = {s} /\ sent' = sent /\ answers' = answers
  BY DEF Merge
<1>2. Range(claims) \subseteq Retold(ClaimsOf(inputs))
  BY DEF Range
<1>3. ShownOK(s)
  <2>1. s.inputs = inputs /\ s.merge = m /\ s.contradiction = contradiction
    OBVIOUS
  <2>2. m.claims = claims
        /\ m.disagreements = {[i \in DOMAIN contradiction |-> contradiction[i].claim_id]}
    OBVIOUS
  <2>3. \A r \in inputs : AdvisoryResultOK(r)
    BY DEF Inv
  <2> HIDE DEF m, s
  <2>4. QED
    BY <1>1, <1>2, <2>1, <2>2, <2>3 DEF ShownOK
<1> HIDE DEF m, s
<1>4. QED
  BY <1>1, <1>3 DEF Inv

(* No step holds or shows what a guard would not pass. *)
THEOREM NextInv == Inv /\ [Next]_vars => Inv'
<1> SUFFICES ASSUME Inv, [Next]_vars PROVE Inv'
  OBVIOUS
<1>1. ASSUME NEW f \in Frames, Send(f) PROVE Inv'
  BY <1>1, SendPreserves
<1>2. ASSUME NEW r \in Answers, Receive(r) PROVE Inv'
  BY <1>2, ReceivePreserves
<1>3. ASSUME NEW inputs \in SUBSET answers, NEW n \in 1 .. MaxClaims,
             NEW claims \in [1 .. n -> Retold(ClaimsOf(inputs))],
             NEW contradiction \in [1 .. 2 -> ClaimsOf(inputs)],
             Merge(inputs, claims, contradiction)
      PROVE  Inv'
  BY <1>3, MergePreserves
<1>4. CASE UNCHANGED vars
  BY <1>4 DEF Inv, vars
<1>5. QED
  BY <1>1, <1>2, <1>3, <1>4 DEF Next

(* Every reachable state satisfies the guards' verdicts and their joints. *)
THEOREM Inductive == Spec => []Inv
BY InitInv, NextInv, PTL DEF Spec

(* The two sides of a reported contradiction are both in the merge, each once,
   each with its words, its source and its model: a side is found by the id the
   disagreement refers to, ids are not repeated in the merge, the claim there
   retells one that was heard under that id, and one that lost its model would
   not have passed as a model's. *)
THEOREM BothSidesSurvive == Spec => []NoContradictionIsDropped
<1>1. ASSUME NEW s, ShownOK(s),
             \A c, d \in ClaimsOf(s.inputs) : c.claim_id = d.claim_id => c = d,
             NEW c \in Range(s.contradiction)
      PROVE  \E k \in DOMAIN s.merge.claims :
                /\ SaysTheSame(c, s.merge.claims[k])
                /\ \A j \in DOMAIN s.merge.claims :
                      s.merge.claims[j].claim_id = c.claim_id => j = k
  <2> DEFINE claims == s.merge.claims
             refs == [i \in DOMAIN s.contradiction |-> s.contradiction[i].claim_id]
  <2>1. c \in ClaimsOf(s.inputs)
    BY <1>1 DEF ShownOK, Range
  <2>2. NamesItsModel(c)
    BY <1>1, <2>1, HeardNamesItsModel DEF ShownOK
  <2>3. refs \in s.merge.disagreements /\ c.claim_id \in Range(refs)
    BY <1>1 DEF ShownOK, Range
  <2>4. c.claim_id \in ClaimIds(claims)
    BY <1>1, <2>3 DEF ShownOK, MergedAdvisoryOK
  <2>5. PICK k \in DOMAIN claims : claims[k].claim_id = c.claim_id
    BY <2>4 DEF ClaimIds
  <2>6. claims[k] \in Retold(ClaimsOf(s.inputs))
    BY <1>1 DEF ShownOK, Range
  <2>7. PICK d \in ClaimsOf(s.inputs) :
           /\ claims[k].claim_id = d.claim_id
           /\ claims[k].statement = d.statement
           /\ claims[k].source = d.source
           /\ claims[k].model_ref \in {d.model_ref, None}
    BY <2>6, RetoldKeeps
  <2>8. d = c
    BY <1>1, <2>1, <2>5, <2>7
  <2>9. ClaimSetOK(claims)
    BY <1>1 DEF ShownOK, MergedAdvisoryOK
  <2>10. SaysTheSame(c, claims[k])
    BY <2>2, <2>7, <2>8, <2>9 DEF SaysTheSame, ClaimSetOK, NamesItsModel
  <2>11. ASSUME NEW j \in DOMAIN claims, claims[j].claim_id = c.claim_id PROVE j = k
    BY <2>5, <2>9, <2>11
      DEF ClaimSetOK, ClaimProvenancePreserved, Distinct, IsInjective
  <2>12. QED
    BY <2>10, <2>11
<1>2. Inv => NoContradictionIsDropped
  BY <1>1 DEF Inv, NoContradictionIsDropped
<1>3. QED
  BY <1>2, Inductive, PTL
=============================================================================
