---------------------------- MODULE CausalPlayer ----------------------------
(***************************************************************************)
(* The player: rules about the order of recordings, answered from a bundle.*)
(*                                                                         *)
(* order.ts compares two recordings and says on which tier of evidence the *)
(* answer rests; cast.ts finds the recording of a role; evaluate.ts walks  *)
(* the rule's claim under strong Kleene logic, with the rule's floor on    *)
(* the tier.  All of it is a pure function of the bundle, so the questions *)
(* are: is an answer right about the history, for the reasons its tier     *)
(* names, and can a bundle with more in it take an answer back?            *)
(*                                                                         *)
(* A claim is a record [op, ...]: exists (of a role), before (of x and y), *)
(* between, all, any, not.  after(x, y) is before(y, x), as in the code.   *)
(* signedBy is not modelled: it reads signature files and no order.        *)
(***************************************************************************)
EXTENDS CausalAudit

CONSTANTS
    Cast,        \* role -> [digest, optional, pin]: pin is a proof, or 0
    Claims,      \* the claims of the rules the bundle is played against
    MaxDepth     \* how deep a claim may nest below a rule's own (32 in rule.ts)

Undetermined == "UNDETERMINED"
Tiers == {"hash-linked", "assumption-dependent"}

----------------------------------------------------------------------------
(* order.ts.  Each operator below is the tier on which a precedes b, or    *)
(* "none"; asked the other way round it gives `after'.                     *)

\* A path contradicted by the counters is an anomaly and answers nothing;
\* without a path in either direction the counters answer.
SamePartitionTier(a, b, B) ==
    IF a \in Ancestors(b, B)
    THEN IF proofs[a].counter # 0 /\ proofs[b].counter # 0
              /\ proofs[a].counter >= proofs[b].counter
         THEN "none" ELSE "hash-linked"
    ELSE IF b \notin Ancestors(a, B) /\ CounterBelow(a, b)
         THEN "assumption-dependent" ELSE "none"

\* Bug: coverage of the referenced proof by counter is taken for a hash link.
CoverTierLinked(a, p, B) ==
    IF p = a \/ a \in Ancestors(p, B) \/ CounterBelow(a, p) THEN "hash-linked" ELSE "none"

\* How a is covered by the proof p an epochLink of another epoch refers to.
CoverTier(a, p, B) ==
    IF p = a \/ a \in Ancestors(p, B) THEN "hash-linked"
    ELSE IF CounterBelow(a, p) THEN "assumption-dependent" ELSE "none"

\* The best tier of a first edge out of a's partition from which edges lead to b's.
LineageTier(a, b, B) ==
    LET paths    == EpochPaths(B)
        first    == {d \in HardEdges(B) : proofs[d.pred].epoch = proofs[a].epoch}
        leads(d) == \/ proofs[d.via].epoch = proofs[b].epoch
                    \/ <<proofs[d.via].epoch, proofs[b].epoch>> \in paths
        tiers    == {CoverTier(a, d.pred, B) : d \in {x \in first : leads(x)}}
    IN  IF "hash-linked" \in tiers THEN "hash-linked"
        ELSE IF "assumption-dependent" \in tiers THEN "assumption-dependent" ELSE "none"

\* Bug: equal blocks are taken for separated ones.
BoundsOrderedOrEqual(upper, lower) == upper.number <= lower.number

\* Strict: what precedes the commit of block N's anchor and what follows the mining of N may swap.
BoundsStrictlyOrdered(upper, lower) == upper.number < lower.number

IsFloorBound(bound) == bound.chain = "base"

\* Bug: bounds by counter order are left out.
AnchorPrecedesLinked(a, b, B) ==
    \E u \in UpperBounds(a, B), l \in LowerBounds(b, B) :
        u.rank > 0 /\ l.rank > 0 /\ ~IsFloorBound(l) /\ BoundsStrictlyOrdered(u, l)

AnchorPrecedes(a, b, B) ==
    \E u \in UpperBounds(a, B), l \in LowerBounds(b, B) :
        ~IsFloorBound(u) /\ ~IsFloorBound(l) /\ BoundsStrictlyOrdered(u, l)

\* Lineage answers before anchors; evidence in both directions answers nothing.
AcrossTier(a, b, B) ==
    LET forward  == LineageTier(a, b, B)
        backward == LineageTier(b, a, B)
    IN  IF backward # "none" THEN "none"
        ELSE IF forward # "none" THEN forward
        ELSE IF AnchorPrecedes(a, b, B) /\ ~AnchorPrecedes(b, a, B)
             THEN "assumption-dependent" ELSE "none"

BeforeTier(a, b, B) ==
    IF a = b THEN "none"
    ELSE IF proofs[a].epoch = proofs[b].epoch THEN SamePartitionTier(a, b, B)
         ELSE AcrossTier(a, b, B)

Compare(a, b, B) ==
    LET forward  == BeforeTier(a, b, B)
        backward == BeforeTier(b, a, B)
    IN  IF a = b THEN [relation |-> "same", tier |-> "none"]
        ELSE IF forward # "none" THEN [relation |-> "before", tier |-> forward]
        ELSE IF backward # "none" THEN [relation |-> "after", tier |-> backward]
        ELSE [relation |-> "unordered", tier |-> "none"]

----------------------------------------------------------------------------
(* cast.ts and evaluate.ts.                                                *)

\* The verified recordings of the role's digest, narrowed by its pin; none for a role that
\* a claim names and the cast does not declare.
Candidates(r, B) ==
    {i \in B : /\ r \in DOMAIN Cast
               /\ proofs[i].digest = Cast[r].digest /\ Cast[r].pin \in {0, i}}

\* Bug: of several recordings the earliest given is taken.
ResolveAny(r, B) ==
    IF Candidates(r, B) # {} THEN CHOOSE i \in Candidates(r, B) : \A j \in Candidates(r, B) : i <= j
    ELSE 0

\* The one recording a role resolves to; 0 when there is none or more than one.
Resolve(r, B) ==
    IF Cardinality(Candidates(r, B)) = 1 THEN CHOOSE i \in Candidates(r, B) : TRUE ELSE 0

\* An optional role whose digest no recording of the bundle has: absent in the closed world.
DefinitelyAbsent(r, B) ==
    /\ r \in DOMAIN Cast /\ Cast[r].optional
    /\ {i \in B : proofs[i].digest = Cast[r].digest} = {}

MeetsFloor(tier, floor) == floor = "assumption-dependent" \/ tier = "hash-linked"

EvalExists(r, B) ==
    CASE Resolve(r, B) # 0         -> "TRUE"
      [] DefinitelyAbsent(r, B)    -> "FALSE"
      [] OTHER                     -> Undetermined

\* Bug: evidence below the floor still refutes.
EvalPrecedesOneSided(x, y, floor, B) ==
    LET known(r) == Resolve(r, B) # 0 \/ DefinitelyAbsent(r, B)
        o        == Compare(Resolve(x, B), Resolve(y, B), B)
    IN  IF ~known(x) \/ ~known(y) THEN Undetermined
        ELSE IF \/ Resolve(x, B) = 0 \/ Resolve(y, B) = 0
                \/ o.relation \in {"same", "after"} THEN "FALSE"
        ELSE IF o.relation = "unordered" \/ ~MeetsFloor(o.tier, floor) THEN Undetermined
        ELSE "TRUE"

\* Whether x precedes y: an undecided role first, then an absent one, then the order,
\* and evidence below the floor decides neither way.
EvalPrecedes(x, y, floor, B) ==
    LET known(r) == Resolve(r, B) # 0 \/ DefinitelyAbsent(r, B)
        o        == Compare(Resolve(x, B), Resolve(y, B), B)
    IN  IF ~known(x) \/ ~known(y) THEN Undetermined
        ELSE IF Resolve(x, B) = 0 \/ Resolve(y, B) = 0 \/ o.relation = "same" THEN "FALSE"
        ELSE IF o.relation = "unordered" \/ ~MeetsFloor(o.tier, floor) THEN Undetermined
        ELSE IF o.relation = "before" THEN "TRUE" ELSE "FALSE"

KleeneNot(v) == CASE v = "TRUE" -> "FALSE" [] v = "FALSE" -> "TRUE" [] OTHER -> Undetermined

KleeneAll(vs) ==
    IF "FALSE" \in vs THEN "FALSE" ELSE IF Undetermined \in vs THEN Undetermined ELSE "TRUE"

KleeneAny(vs) ==
    IF "TRUE" \in vs THEN "TRUE" ELSE IF Undetermined \in vs THEN Undetermined ELSE "FALSE"

\* The claims a claim is put together from, one level down.
PartsOf(c) ==
    CASE c.op \in {"all", "any"} -> c.of
      [] c.op = "not"            -> {c.of}
      [] OTHER                   -> {}

\* parseClaim: the claims d levels below the rules' own.
ClaimsAt[d \in 0..MaxDepth] ==
    IF d = 0 THEN Claims ELSE UNION {PartsOf(c) : c \in ClaimsAt[d - 1]}

SubClaims == UNION {ClaimsAt[d] : d \in 0..MaxDepth}

\* A rule with another operator in it, or with a claim below MaxDepth, does not parse.
ASSUME ClaimsAssumption ==
    /\ MaxDepth \in Nat
    /\ \A c \in SubClaims : c.op \in {"exists", "before", "between", "all", "any", "not"}
    /\ \A c \in ClaimsAt[MaxDepth] : PartsOf(c) = {}

\* One level of evalClaim: a claim's answer from the answers f to its parts.
EvalOf(f, k, floor, B) ==
    CASE k.op = "exists"  -> EvalExists(k.x, B)
      [] k.op = "before"  -> EvalPrecedes(k.x, k.y, floor, B)
      [] k.op = "between" -> KleeneAll({EvalPrecedes(k.lower, k.x, floor, B),
                                        EvalPrecedes(k.x, k.upper, floor, B)})
      [] k.op = "all"     -> KleeneAll({f[p] : p \in k.of})
      [] k.op = "any"     -> KleeneAny({f[p] : p \in k.of})
      [] k.op = "not"     -> KleeneNot(f[k.of])

\* evalClaim walks the whole claim.
EvalClaim(c, floor, B) ==
    LET eval[k \in SubClaims] == EvalOf(eval, k, floor, B) IN eval[c]

----------------------------------------------------------------------------
(* Properties.                                                             *)

\* The histories and bundles are well-formed: a link points backwards, a mark
\* names a block that exists, and the bundle holds proofs that were committed.
TypeOK ==
    /\ world \in Worlds
    /\ now \in 0..world.ticks
    /\ Len(proofs) <= world.size
    /\ \A i \in DOMAIN proofs :
         /\ proofs[i].epoch \in 1..world.epochs
         /\ proofs[i].prev \in 0..(i - 1)
         /\ proofs[i].link \in 0..(i - 1)
         /\ proofs[i].mark.chain \in {"none", "eth", "base"}
         /\ proofs[i].mark.time \in 0..now
    /\ bundle \subseteq DOMAIN proofs

Honest == world.fresh /\ world.disciplined

\* HashLinkedHolds: an answer on the hash-linked tier is right about the
\* history whatever the recorders did with counters, forks and anchors: the
\* tier really rests on nothing but hash links and keys.
HashLinkedHolds ==
    \A a, b \in bundle :
        a >= b => Compare(a, b, bundle) # [relation |-> "before", tier |-> "hash-linked"]

\* AssumptionsSuffice: where the assumptions the weaker tier names do hold
\* (counter discipline, anchors on the newest block), every answer is right.
AssumptionsSuffice ==
    Honest => \A a, b \in bundle : a >= b => Compare(a, b, bundle).relation # "before"

\* BoundsHold: a not-before is no later than the commit of the proof it is put
\* on, and a not-after's anchor was committed after the proof; by counter order
\* only where counters are disciplined, and as a wall-clock ceiling only where
\* anchors are fresh.
BoundsHold ==
    \A m \in bundle :
        /\ \A b \in LowerBounds(m, bundle) :
             b.rank > 0 \/ world.disciplined => b.time <= proofs[m].at
        /\ \A b \in UpperBounds(m, bundle) :
             b.rank > 0 \/ world.disciplined =>
                /\ m < b.src
                /\ world.fresh => proofs[m].at <= b.time

\* PairsHold: an epoch pair the audit orders is so ordered in the history: by
\* lineage, each proof of the later epoch follows some proof of the earlier
\* one; by anchors, the covered part precedes the covered part.
PairsHold ==
    /\ \A p \in OrderedPairs(bundle) :
         \A j \in OfEpoch(p[2]) : \E i \in OfEpoch(p[1]) : i < j
    /\ Honest =>
         \A p \in AnchorOrderedPairs(bundle) :
             \A i \in UpperCovered(p[1], bundle), j \in LowerCovered(p[2], bundle) : i < j

\* PairsCarried: where the later epoch signs no Base floor, the player's compare
\* says of every covered pair what the audit's epoch pair says.
PairsCarried ==
    Honest =>
      \A p \in AnchorOrderedPairs(bundle) :
         (\A k \in Members(p[2], bundle) : proofs[k].mark.chain # "base") =>
            \A i \in UpperCovered(p[1], bundle), j \in LowerCovered(p[2], bundle) :
               Compare(i, j, bundle).relation = "before"

\* What a claim says of the positions rho gives its roles (0: not recorded), from what its
\* parts say.
TruthOf(f, k, rho) ==
    CASE k.op = "exists"  -> rho[k.x] # 0
      [] k.op = "before"  -> 0 < rho[k.x] /\ rho[k.x] < rho[k.y]
      [] k.op = "between" -> /\ 0 < rho[k.lower] /\ rho[k.lower] < rho[k.x]
                             /\ rho[k.x] < rho[k.upper]
      [] k.op = "all"     -> \A p \in k.of : f[p]
      [] k.op = "any"     -> \E p \in k.of : f[p]
      [] k.op = "not"     -> ~f[k.of]

Truth(c, rho) == LET truth[k \in SubClaims] == TruthOf(truth, k, rho) IN truth[c]

\* The roles of R that the bundle B leaves open: any position, or none, may be theirs.
Open(R, B) == {r \in R : Resolve(r, B) = 0 /\ ~DefinitelyAbsent(r, B)}

\* The roles a claim names, from those its parts name.
RolesIn(f, k) ==
    CASE k.op = "exists"  -> {k.x}
      [] k.op = "before"  -> {k.x, k.y}
      [] k.op = "between" -> {k.lower, k.x, k.upper}
      [] OTHER            -> UNION {f[p] : p \in PartsOf(k)}

RolesOf[k \in SubClaims] == RolesIn(RolesOf, k)

\* VerdictHolds: a verdict other than UNDETERMINED is what the claim says of the
\* history under every position of the roles the bundle leaves open.  With the
\* hash-linked floor this needs no assumption on the recorders.
VerdictHolds ==
    \A c \in Claims, floor \in Tiers :
        floor = "hash-linked" \/ Honest =>
          \A v \in {EvalClaim(c, floor, bundle)} \ {Undetermined} :
             \A guess \in [Open(RolesOf[c], bundle) -> 0..Len(proofs)] :
                Truth(c, [r \in RolesOf[c] |->
                            IF r \in DOMAIN guess THEN guess[r] ELSE Resolve(r, bundle)])
                  = (v = "TRUE")

\* VerdictNeverReversed: a bundle with more proofs in it may leave a claim on
\* required roles undetermined again, but never turns its verdict round.
VerdictNeverReversed ==
    [][\A c \in Claims, floor \in Tiers :
         /\ floor = "hash-linked" \/ Honest
         /\ \A r \in RolesOf[c] \cap DOMAIN Cast : ~Cast[r].optional
         => \A v \in {EvalClaim(c, floor, bundle)} \ {Undetermined} :
               EvalClaim(c, floor, bundle') # KleeneNot(v)]_vars
=============================================================================
