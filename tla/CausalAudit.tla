---------------------------- MODULE CausalAudit ----------------------------
(***************************************************************************)
(* What the audit package works out from a bundle of proofs:               *)
(* reconstruction of the chains (reconstruct.ts) and the one-sided times   *)
(* of anchors and Base floors (temporal.ts).                               *)
(*                                                                         *)
(* `proofs' is the history: the proofs the enclaves signed, in the order   *)
(* in which they were committed, so that i < j says that i was really      *)
(* committed before j.  `bundle' is the part of it an auditor was given.   *)
(* Every operator below reads only the bundle B it is given; the theorems  *)
(* one would like of it compare the answer with the history.               *)
(*                                                                         *)
(* A proof's hashes are its place in the history.  An epoch has one key    *)
(* and one chain, so its number is the partition (key, epochId, chainId).  *)
(* Every proof of the history verifies.  An anchor whose witness file is   *)
(* not in the bundle counts as a proof that is no anchor, so it is not a   *)
(* case of its own.                                                        *)
(*                                                                         *)
(* `world' says what the recorders kept to in this history:                *)
(*   disciplined  counters rise with every commit and nobody goes back to  *)
(*                an earlier proof of the chain;                           *)
(*   fresh        an anchor or a floor names the newest block;             *)
(*   marks        which of the marks "eth" and "base" proofs carry;        *)
(*   links        whether an epoch links to earlier ones (before v13);     *)
(*   repeats      the same file may be recorded more than once;            *)
(*   size, epochs, ticks    the bounds of the history.                     *)
(***************************************************************************)
EXTENDS Naturals, FiniteSets, Sequences

CONSTANTS
    Worlds,      \* the worlds of a run
    MaxCounter,  \* bound: the counters of a recorder without discipline
    BaseLead     \* what a Base block's number is above the Ethereum number of the same time

World == [disciplined : BOOLEAN, fresh : BOOLEAN, marks : SUBSET {"eth", "base"},
          links : BOOLEAN, repeats : BOOLEAN, size : Nat, epochs : Nat, ticks : Nat]

ASSUME BoundsAreNatural == MaxCounter \in Nat /\ BaseLead \in Nat \ {0}
ASSUME WorldsAssumption == Worlds \subseteq World

VARIABLES
    world,       \* the member of Worlds this history is in
    now,         \* the time; a block of either chain is produced at each tick
    proofs,      \* the proofs committed so far, in their order
    bundle       \* the proofs the auditor holds

vars == <<world, now, proofs, bundle>>

----------------------------------------------------------------------------
(* The recorders.                                                          *)

OfEpoch(e) == {i \in DOMAIN proofs : proofs[i].epoch = e}

Opened == {proofs[i].epoch : i \in DOMAIN proofs}

\* commit.counter: 0 stands for a counter that is absent or not strict decimal.
Counters(e) ==
    IF world.disciplined THEN {Cardinality(OfEpoch(e)) + 1} ELSE 0..MaxCounter

\* commit.prevB64: the last proof of the chain; without discipline, any of it.
Prevs(e) ==
    IF OfEpoch(e) = {} THEN {0}
    ELSE {i \in OfEpoch(e) : world.disciplined => \A j \in OfEpoch(e) : j <= i}

\* commit.epochLink: on the first proof of an epoch only, a proof of another epoch.
Links(e) == {0} \cup IF world.links /\ OfEpoch(e) = {} THEN DOMAIN proofs ELSE {}

\* Bug: a proof names a block that is not produced yet.
MarksAhead == {[chain |-> "none", time |-> 0]} \cup [chain : world.marks, time : {now + 1}]

\* commit.anchor (an Ethereum block) and commit.slotFloor (a Base block), by their time.
Marks ==
    {[chain |-> "none", time |-> 0]}
      \cup [chain : world.marks, time : IF world.fresh THEN {now} \ {0} ELSE 1..now]

\* The digest a proof records: a new file, or again one recorded before.
Digests ==
    {Len(proofs) + 1}
      \cup IF world.repeats THEN {proofs[i].digest : i \in DOMAIN proofs} ELSE {}

----------------------------------------------------------------------------
(* reconstruct.ts: partitions and hash links.                              *)

Members(e, B) == {i \in B : proofs[i].epoch = e}

\* A prevB64 resolves only to a proof of the bundle.
PrevIn(i, B) == IF proofs[i].prev \in B THEN proofs[i].prev ELSE 0

\* The proofs on the prevB64 walk up from i.
Ancestors(i, B) ==
    LET up[k \in 0..Len(proofs)] ==
          IF k = 0 \/ PrevIn(k, B) = 0 THEN {}
          ELSE {PrevIn(k, B)} \cup up[PrevIn(k, B)]
    IN  up[i]

\* Both counters parse, and one is strictly below the other.
CounterBelow(i, j) ==
    /\ proofs[i].counter # 0
    /\ proofs[j].counter # 0
    /\ proofs[i].counter < proofs[j].counter

\* The epochLinks whose referenced proof is in the bundle: all consistent and valid here.
HardEdges(B) ==
    {[pred |-> proofs[i].link, via |-> i] : i \in {k \in B : proofs[k].link \in B}}

EpochEdges(B) == {<<proofs[d.pred].epoch, proofs[d.via].epoch>> : d \in HardEdges(B)}

\* The pairs (x, y) of epochs with a path of hard edges from x to y: y is in every set
\* of epochs that is closed under the edges and under the first ones out of x.
EpochPaths(B) ==
    {p \in (1..world.epochs) \X (1..world.epochs) :
        \A S \in SUBSET (1..world.epochs) :
            (\A d \in EpochEdges(B) : d[1] \in S \cup {p[1]} => d[2] \in S) => p[2] \in S}

\* Pairs reachable both ways are asserted neither way.
OrderedPairs(B) ==
    {p \in EpochPaths(B) : p[1] # p[2] /\ <<p[2], p[1]>> \notin EpochPaths(B)}

----------------------------------------------------------------------------
(* temporal.ts: bounds.  A bound names the proof that carries the block;   *)
(* its rank is the evidence: 2 the proof's own signed floor, 1 a hash-link *)
(* path, 0 counter order.                                                  *)

Bound(i, r) ==
    [src |-> i, chain |-> proofs[i].mark.chain, time |-> proofs[i].mark.time,
     number |-> IF proofs[i].mark.chain = "base" THEN proofs[i].mark.time + BaseLead
                ELSE proofs[i].mark.time,
     rank |-> r]

Marked(m, chain, B) == {i \in Members(proofs[m].epoch, B) : proofs[i].mark.chain = chain}

\* Not-before from anchors: the anchor itself, what hangs from it, what counts above it.
LowerAnchors(m, B) ==
    LET above == Ancestors(m, B) \cup {m}
    IN  {Bound(a, IF a \in above THEN 1 ELSE 0) :
           a \in {x \in Marked(m, "eth", B) : x \in above \/ CounterBelow(x, m)}}

\* Not-after from anchors: what the anchor hangs from, or counts above; never itself.
UpperAnchors(m, B) ==
    LET below == {x \in Marked(m, "eth", B) : m \in Ancestors(x, B)}
    IN  {Bound(a, IF a \in below THEN 1 ELSE 0) :
           a \in {x \in Marked(m, "eth", B) : x \in below \/ CounterBelow(m, x)}}

\* laterFloor over a set: the latest block; at a tie the lower hash.
LatestFloor(S) ==
    {f \in S : \A g \in S :
        \/ proofs[f].mark.time > proofs[g].mark.time
        \/ proofs[f].mark.time = proofs[g].mark.time /\ f <= g}

\* Floors signed at a strictly lower counter: a group of equal counters gives itself nothing.
CounterFloors(m, B) == {f \in Marked(m, "base", B) : CounterBelow(f, m)}

\* Bug: a floor is passed up the hash links to what came before it.
LowerFloorsUpward(m, B) ==
    {Bound(f, 1) : f \in LatestFloor({x \in Marked(m, "base", B) : m \in Ancestors(x, B)})}

\* Not-before from Base floors: its own, the latest above it, the latest counted below it.
LowerFloors(m, B) ==
    LET own   == {f \in Marked(m, "base", B) : f = m}
        chain == LatestFloor(Marked(m, "base", B) \cap Ancestors(m, B)) \ own
        count == LatestFloor(CounterFloors(m, B)) \ (own \cup chain)
    IN  {Bound(f, 2) : f \in own} \cup {Bound(f, 1) : f \in chain} \cup {Bound(f, 0) : f \in count}

\* The tightest first: by time, then by evidence, then by hash.
Better(kind, a, b) ==
    \/ IF kind = "not-before" THEN a.time > b.time ELSE a.time < b.time
    \/ a.time = b.time /\ (a.rank > b.rank \/ (a.rank = b.rank /\ a.src <= b.src))

\* selectBounds: the tightest, and the tightest that does not rest on counters.
SelectBounds(kind, S) ==
    {b \in S : \A c \in S : Better(kind, b, c)}
      \cup {b \in S : b.rank > 0 /\ \A c \in S : c.rank > 0 => Better(kind, b, c)}

LowerBounds(m, B) == SelectBounds("not-before", LowerAnchors(m, B) \cup LowerFloors(m, B))
UpperBounds(m, B) == SelectBounds("not-after", UpperAnchors(m, B))

\* The anchor-only not-before of a member, kept apart where floors may displace it.
AnchorLower(m, B) == SelectBounds("not-before", LowerAnchors(m, B))

----------------------------------------------------------------------------
(* aggregateEpochs: the conservative time of an epoch and the pairs.       *)

UpperCovered(e, B) == {m \in Members(e, B) : UpperBounds(m, B) # {}}
LowerCovered(e, B) == {m \in Members(e, B) : AnchorLower(m, B) # {}}

UpperTimes(e, B) == UNION {{b.time : b \in UpperBounds(m, B)} : m \in Members(e, B)}
LowerTimes(e, B) == UNION {{b.time : b \in AnchorLower(m, B)} : m \in Members(e, B)}

\* Bug: equal times are taken for separated ones.
EndsByOrAt(x, t, B) == UpperTimes(x, B) # {} /\ \A u \in UpperTimes(x, B) : u <= t

\* The maximum of an epoch's not-after times is strictly before t.
EndsBy(x, t, B) == UpperTimes(x, B) # {} /\ \A u \in UpperTimes(x, B) : u < t

\* x's covered part precedes y's: max of the not-afters strictly below min of the not-befores.
AnchorOrderedPairs(B) ==
    {p \in (1..world.epochs) \X (1..world.epochs) :
        /\ p[1] # p[2]
        /\ LowerTimes(p[2], B) # {}
        /\ \A t \in LowerTimes(p[2], B) : EndsBy(p[1], t, B)}

----------------------------------------------------------------------------
(* The history and the bundle.                                             *)

Init ==
    /\ world \in Worlds
    /\ now = 0
    /\ proofs = << >>
    /\ bundle = {}

Tick ==
    /\ now < world.ticks
    /\ Len(proofs) < world.size
    /\ now' = now + 1
    /\ UNCHANGED <<world, proofs, bundle>>

\* A commit of an enclave; epochs are numbered in the order of their first proof.
Commit(e) ==
    /\ Len(proofs) < world.size
    /\ e \in 1..world.epochs
    /\ e \in Opened \/ e = Cardinality(Opened) + 1
    /\ \E c \in Counters(e), p \in Prevs(e), l \in Links(e), m \in Marks, d \in Digests :
         proofs' = Append(proofs, [epoch |-> e, counter |-> c, prev |-> p,
                                   link |-> l, mark |-> m, digest |-> d,
                                   at |-> now])
    /\ UNCHANGED <<world, now, bundle>>

\* The auditor is handed one more proof, in any order, once the history is complete.
Observe(i) ==
    /\ Len(proofs) = world.size
    /\ i \notin bundle
    /\ bundle' = bundle \cup {i}
    /\ UNCHANGED <<world, now, proofs>>

Next ==
    \/ Tick
    \/ \E e \in 1..world.epochs : Commit(e)
    \/ \E i \in DOMAIN proofs : Observe(i)

Spec == Init /\ [][Next]_vars
=============================================================================
