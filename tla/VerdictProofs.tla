---------------------------- MODULE VerdictProofs ----------------------------
(***************************************************************************)
(* Proofs about the verdicts of CausalPlayer.tla: for claims of any depth  *)
(* that a rule may have, any cast, any history and any bundle.             *)
(***************************************************************************)
EXTENDS CausalProofs

-----------------------------------------------------------------------------
(* Claims nest to a bounded depth, which stands in for induction over them.*)

\* What holds below MaxDepth and, with one level, for the level above it, holds at the top.
LEMMA DepthInduction ==
    ASSUME NEW S, MaxDepth + 1 \in S, \A d \in 0..MaxDepth : d + 1 \in S => d \in S
    PROVE  0 \in S
<1> DEFINE Steps == {n \in 0..(MaxDepth + 1) : MaxDepth + 1 - n \notin S}
<1>1. MaxDepth \in Nat
  BY ClaimsAssumption
<1>2. Steps = {}
  <2> SUFFICES ASSUME Steps # {} PROVE FALSE
    OBVIOUS
  <2>1. Steps \in SUBSET Nat
    OBVIOUS
  <2>2. PICK n \in Steps : \A m \in Steps : n <= m
    BY <2>1, LeastMember
  <2>3. n \in 1..(MaxDepth + 1) /\ MaxDepth + 1 - n \notin S
    BY <1>1, <2>2
  <2>4. MaxDepth + 1 - (n - 1) \in S
    BY <1>1, <2>2, <2>3
  <2>5. MaxDepth + 1 - n \in 0..MaxDepth /\ MaxDepth + 1 - n + 1 = MaxDepth + 1 - (n - 1)
    BY <1>1, <2>3
  <2> QED
    BY <2>3, <2>4, <2>5
<1> QED
  BY <1>1, <1>2

\* The levels are what their definition says: the rules' claims, and the parts of the level above.
LEMMA ClaimLevels ==
    /\ ClaimsAt[0] = Claims
    /\ \A d \in 1..MaxDepth : ClaimsAt[d] = UNION {PartsOf(c) : c \in ClaimsAt[d - 1]}
<1> DEFINE Level(f) == [d \in 0..MaxDepth |->
                          IF d = 0 THEN Claims ELSE UNION {PartsOf(c) : c \in f[d - 1]}]
           Upto(f, n) == \A d \in 0..n : f[d] = Level(f)[d]
           Missing == {n \in 0..MaxDepth : ~\E f : Upto(f, n)}
<1>1. MaxDepth \in Nat
  BY ClaimsAssumption
<1>2. Missing = {}
  <2> SUFFICES ASSUME Missing # {} PROVE FALSE
    OBVIOUS
  <2> HIDE DEF Upto
  <2>1. Missing \in SUBSET Nat
    OBVIOUS
  <2>2. PICK n \in Missing : \A m \in Missing : n <= m
    BY <2>1, LeastMember
  <2>3. n \in 0..MaxDepth /\ n \in Nat /\ ~\E f : Upto(f, n)
    BY <2>2
  <2> USE DEF Upto
  <2>4. CASE n = 0
    <3> DEFINE f == [d \in 0..MaxDepth |-> Claims]
    <3>1. Upto(f, 0)
      BY <1>1
    <3> HIDE DEF Upto, f
    <3> QED
      BY <2>4, <2>3, <3>1
  <2>5. CASE n # 0
    <3> HIDE DEF Upto, Missing
    <3>1. n - 1 \in 0..MaxDepth /\ ~(n <= n - 1)
      BY <1>1, <2>5, <2>3
    <3>2. n - 1 \notin Missing
      BY <2>2, <3>1
    <3>3. PICK f : Upto(f, n - 1)
      BY <3>1, <3>2 DEF Missing
    <3> USE DEF Upto
    <3> DEFINE g == Level(f)
    <3>4. \A d \in 0..(n - 1) : g[d] = f[d]
      BY <3>3
    <3>5. ASSUME NEW d \in 0..n PROVE g[d] = Level(g)[d]
      <4>1. d \in 0..MaxDepth /\ (d # 0 => d - 1 \in 0..(n - 1))
        BY <1>1, <2>3
      <4>2. d # 0 => g[d - 1] = f[d - 1]
        BY <3>4, <4>1
      <4> QED
        BY <4>1, <4>2
    <3>6. Upto(g, n)
      BY <3>5
    <3> HIDE DEF Upto, g
    <3> QED
      BY <2>3, <3>6
  <2> QED
    BY <2>4, <2>5
<1> HIDE DEF Upto
<1>3. PICK f : Upto(f, MaxDepth)
  <2>1. MaxDepth \in 0..MaxDepth
    BY <1>1
  <2> QED
    BY <1>2, <2>1
<1> USE DEF Upto
<1> DEFINE g == Level(f)
<1>4. g = Level(g)
  <2>1. \A d \in 0..MaxDepth : g[d] = f[d]
    BY <1>3
  <2>2. \A d \in 0..MaxDepth : d # 0 => d - 1 \in 0..MaxDepth
    BY <1>1
  <2> QED
    BY <2>1, <2>2
<1> HIDE DEF g
<1>5. ClaimsAt = Level(ClaimsAt)
  BY <1>4 DEF ClaimsAt
<1> QED
  BY <1>1, <1>5

\* A claim's parts are claims too.
LEMMA PartsInside == \A c \in SubClaims : PartsOf(c) \subseteq SubClaims
<1> SUFFICES ASSUME NEW d \in 0..MaxDepth, NEW c \in ClaimsAt[d], NEW p \in PartsOf(c)
             PROVE  p \in SubClaims
  BY DEF SubClaims
<1>1. MaxDepth \in Nat /\ d # MaxDepth
  BY ClaimsAssumption
<1>2. d + 1 \in 1..MaxDepth /\ d + 1 - 1 = d /\ d + 1 \in 0..MaxDepth
  BY <1>1
<1>3. p \in ClaimsAt[d + 1]
  BY <1>2, ClaimLevels
<1> QED
  BY <1>2, <1>3 DEF SubClaims

\* ClaimInduction: what holds of a claim whenever it holds of its parts holds of all claims.
LEMMA ClaimInduction ==
    ASSUME NEW Good, \A c \in SubClaims : PartsOf(c) \subseteq Good => c \in Good
    PROVE  SubClaims \subseteq Good
<1> DEFINE S == {d \in 0..(MaxDepth + 1) : \A e \in d..MaxDepth : ClaimsAt[e] \subseteq Good}
<1>1. MaxDepth \in Nat
  BY ClaimsAssumption
<1>2. MaxDepth + 1 \in S
  BY <1>1
<1>3. ASSUME NEW d \in 0..MaxDepth, d + 1 \in S PROVE d \in S
  <2>1. ASSUME NEW c \in ClaimsAt[d] PROVE c \in Good
    <3>1. CASE d = MaxDepth
      BY <3>1, ClaimsAssumption DEF SubClaims
    <3>2. CASE d # MaxDepth
      <4>1. d + 1 \in 1..MaxDepth /\ d + 1 - 1 = d /\ d + 1 \in (d + 1)..MaxDepth
        BY <1>1, <3>2
      <4>2. PartsOf(c) \subseteq ClaimsAt[d + 1] /\ ClaimsAt[d + 1] \subseteq Good
        BY <1>3, <4>1, ClaimLevels
      <4> QED
        BY <4>2 DEF SubClaims
    <3> QED
      BY <3>1, <3>2
  <2>2. \A e \in d..MaxDepth : e = d \/ e \in (d + 1)..MaxDepth
    BY <1>1
  <2>3. d \in 0..(MaxDepth + 1)
    BY <1>1
  <2> QED
    BY <1>3, <2>1, <2>2, <2>3
<1>4. 0 \in S
  BY <1>2, <1>3, DepthInduction
<1> QED
  BY <1>4 DEF SubClaims

\* The claims d levels below the rules' own, or deeper.
Below(d) == UNION {ClaimsAt[e] : e \in d..MaxDepth}

\* The parts of such a claim are a level deeper.
LEMMA BelowFacts ==
    /\ Below(0) = SubClaims /\ Below(MaxDepth + 1) = {}
    /\ \A d \in 0..MaxDepth : \A c \in Below(d) : c \in SubClaims /\ PartsOf(c) \subseteq Below(d + 1)
<1>1. MaxDepth \in Nat
  BY ClaimsAssumption
<1>2. Below(0) = SubClaims /\ Below(MaxDepth + 1) = {}
  BY <1>1 DEF Below, SubClaims
<1>3. ASSUME NEW d \in 0..MaxDepth, NEW c \in Below(d)
      PROVE  c \in SubClaims /\ PartsOf(c) \subseteq Below(d + 1)
  <2>1. PICK e \in d..MaxDepth : c \in ClaimsAt[e]
    BY DEF Below
  <2>2. e \in 0..MaxDepth
    BY <1>1, <2>1
  <2>3. CASE e = MaxDepth
    BY <2>1, <2>2, <2>3, ClaimsAssumption DEF SubClaims
  <2>4. CASE e # MaxDepth
    <3>1. e + 1 \in 1..MaxDepth /\ e + 1 - 1 = e /\ e + 1 \in (d + 1)..MaxDepth
      BY <1>1, <2>1, <2>4
    <3>2. PartsOf(c) \subseteq ClaimsAt[e + 1]
      BY <2>1, <3>1, ClaimLevels
    <3> QED
      BY <2>1, <2>2, <3>1, <3>2 DEF Below, SubClaims
  <2> QED
    BY <2>3, <2>4
<1> QED
  BY <1>2, <1>3

-----------------------------------------------------------------------------
(* The walk over a claim, and what a claim says, level by level.           *)

\* It reads f at the parts of the claim only.
LEMMA EvalSame ==
    ASSUME NEW f, NEW g, NEW k \in SubClaims, NEW floor, NEW B, \A p \in PartsOf(k) : f[p] = g[p]
    PROVE  EvalOf(f, k, floor, B) = EvalOf(g, k, floor, B)
<1>1. k.op \in {"exists", "before", "between", "all", "any", "not"}
  BY ClaimsAssumption
<1>2. CASE k.op \in {"exists", "before", "between"}
  BY <1>2 DEF EvalOf
<1>3. CASE k.op \in {"all", "any"}
  <2>1. \A p \in k.of : f[p] = g[p]
    BY <1>3 DEF PartsOf
  <2>2. {f[p] : p \in k.of} = {g[p] : p \in k.of}
    BY <2>1
  <2> QED
    BY <1>3, <2>2 DEF EvalOf
<1>4. CASE k.op = "not"
  <2>1. f[k.of] = g[k.of]
    BY <1>4 DEF PartsOf
  <2> QED
    BY <1>4, <2>1 DEF EvalOf
<1> QED
  BY <1>1, <1>2, <1>3, <1>4

\* EvalWalk: evalClaim gives each claim what it makes of the answers for the claim's parts.
LEMMA EvalWalk ==
    ASSUME NEW floor, NEW B
    PROVE  \E f : /\ \A c \in SubClaims : EvalClaim(c, floor, B) = f[c]
                  /\ \A c \in SubClaims : f[c] = EvalOf(f, c, floor, B)
<1> DEFINE Walk(f) == [k \in SubClaims |-> EvalOf(f, k, floor, B)]
           Right(f, d) == \A k \in Below(d) : f[k] = EvalOf(f, k, floor, B)
           S == {d \in 0..(MaxDepth + 1) : \E f : Right(f, d)}
<1>1. MaxDepth \in Nat
  BY ClaimsAssumption
<1>2. MaxDepth + 1 \in S
  BY <1>1, BelowFacts
<1>3. ASSUME NEW d \in 0..MaxDepth, d + 1 \in S PROVE d \in S
  <2>1. PICK f : Right(f, d + 1)
    BY <1>3
  <2> DEFINE g == Walk(f)
  <2>2. \A k \in Below(d) : k \in SubClaims /\ PartsOf(k) \subseteq Below(d + 1)
    BY BelowFacts
  <2>3. ASSUME NEW k \in Below(d) PROVE g[k] = EvalOf(g, k, floor, B)
    <3>1. \A p \in PartsOf(k) : p \in SubClaims /\ p \in Below(d + 1)
      BY <2>2, PartsInside
    <3>2. \A p \in PartsOf(k) : g[p] = f[p]
      BY <2>1, <3>1
    <3>3. g[k] = EvalOf(f, k, floor, B)
      BY <2>2
    <3> HIDE DEF g
    <3> QED
      BY <2>2, <3>2, <3>3, EvalSame
  <2>4. Right(g, d) /\ d \in 0..(MaxDepth + 1)
    BY <1>1, <2>3
  <2> HIDE DEF Right, g
  <2> QED
    BY <2>4
<1> HIDE DEF Right
<1>4. PICK f : Right(f, 0)
  <2>1. 0 \in S
    BY <1>2, <1>3, DepthInduction
  <2> QED
    BY <2>1
<1> DEFINE g == Walk(f)
<1>5. g = Walk(g)
  <2>1. \A k \in SubClaims : f[k] = EvalOf(f, k, floor, B)
    BY <1>4, BelowFacts DEF Right
  <2>2. \A k \in SubClaims : g[k] = f[k]
    BY <2>1
  <2>3. ASSUME NEW k \in SubClaims PROVE EvalOf(g, k, floor, B) = EvalOf(f, k, floor, B)
    <3> HIDE DEF g
    <3> QED
      BY <2>2, PartsInside, EvalSame
  <2> QED
    BY <2>3
<1> HIDE DEF g
<1> DEFINE eval == CHOOSE e : e = Walk(e)
<1>6. eval = Walk(eval)
  BY <1>5
<1>7. \A c : EvalClaim(c, floor, B) = eval[c]
  BY DEF EvalClaim
<1> HIDE DEF eval
<1>8. \A c \in SubClaims : eval[c] = EvalOf(eval, c, floor, B)
  BY <1>6
<1> QED
  BY <1>7, <1>8

\* What a claim says depends on what its parts say.
LEMMA TruthSame ==
    ASSUME NEW f, NEW g, NEW k \in SubClaims, NEW rho, \A p \in PartsOf(k) : f[p] = g[p]
    PROVE  TruthOf(f, k, rho) = TruthOf(g, k, rho)
<1>1. k.op \in {"exists", "before", "between", "all", "any", "not"}
  BY ClaimsAssumption
<1>2. CASE k.op \in {"exists", "before", "between"}
  BY <1>2 DEF TruthOf
<1>3. CASE k.op \in {"all", "any"}
  <2>1. \A p \in k.of : f[p] = g[p]
    BY <1>3 DEF PartsOf
  <2> QED
    BY <1>3, <2>1 DEF TruthOf
<1>4. CASE k.op = "not"
  <2>1. f[k.of] = g[k.of]
    BY <1>4 DEF PartsOf
  <2> QED
    BY <1>4, <2>1 DEF TruthOf
<1> QED
  BY <1>1, <1>2, <1>3, <1>4

\* TruthWalk: what a claim says is made of what its parts say.
LEMMA TruthWalk ==
    ASSUME NEW rho
    PROVE  \E f : /\ \A c \in SubClaims : Truth(c, rho) = f[c]
                  /\ \A c \in SubClaims : f[c] = TruthOf(f, c, rho)
<1> DEFINE Walk(f) == [k \in SubClaims |-> TruthOf(f, k, rho)]
           Right(f, d) == \A k \in Below(d) : f[k] = TruthOf(f, k, rho)
           S == {d \in 0..(MaxDepth + 1) : \E f : Right(f, d)}
<1>1. MaxDepth \in Nat
  BY ClaimsAssumption
<1>2. MaxDepth + 1 \in S
  BY <1>1, BelowFacts
<1>3. ASSUME NEW d \in 0..MaxDepth, d + 1 \in S PROVE d \in S
  <2>1. PICK f : Right(f, d + 1)
    BY <1>3
  <2> DEFINE g == Walk(f)
  <2>2. \A k \in Below(d) : k \in SubClaims /\ PartsOf(k) \subseteq Below(d + 1)
    BY BelowFacts
  <2>3. ASSUME NEW k \in Below(d) PROVE g[k] = TruthOf(g, k, rho)
    <3>1. \A p \in PartsOf(k) : p \in SubClaims /\ p \in Below(d + 1)
      BY <2>2, PartsInside
    <3>2. \A p \in PartsOf(k) : g[p] = f[p]
      BY <2>1, <3>1
    <3>3. g[k] = TruthOf(f, k, rho)
      BY <2>2
    <3> HIDE DEF g
    <3> QED
      BY <2>2, <3>2, <3>3, TruthSame
  <2>4. Right(g, d) /\ d \in 0..(MaxDepth + 1)
    BY <1>1, <2>3
  <2> HIDE DEF Right, g
  <2> QED
    BY <2>4
<1> HIDE DEF Right
<1>4. PICK f : Right(f, 0)
  <2>1. 0 \in S
    BY <1>2, <1>3, DepthInduction
  <2> QED
    BY <2>1
<1> DEFINE g == Walk(f)
<1>5. g = Walk(g)
  <2>1. \A k \in SubClaims : f[k] = TruthOf(f, k, rho)
    BY <1>4, BelowFacts DEF Right
  <2>2. \A k \in SubClaims : g[k] = f[k]
    BY <2>1
  <2>3. ASSUME NEW k \in SubClaims PROVE TruthOf(g, k, rho) = TruthOf(f, k, rho)
    <3> HIDE DEF g
    <3> QED
      BY <2>2, PartsInside, TruthSame
  <2> QED
    BY <2>3
<1> HIDE DEF g
<1> DEFINE w == CHOOSE e : e = Walk(e)
<1>6. w = Walk(w)
  BY <1>5
<1>7. \A c : Truth(c, rho) = w[c]
  BY DEF Truth
<1> HIDE DEF w
<1>8. \A c \in SubClaims : w[c] = TruthOf(w, c, rho)
  BY <1>6
<1> QED
  BY <1>7, <1>8

\* The roles of a claim are those of its parts.
LEMMA RolesSame ==
    ASSUME NEW f, NEW g, NEW k \in SubClaims, \A p \in PartsOf(k) : f[p] = g[p]
    PROVE  RolesIn(f, k) = RolesIn(g, k)
<1>1. {f[p] : p \in PartsOf(k)} = {g[p] : p \in PartsOf(k)}
  OBVIOUS
<1> QED
  BY <1>1 DEF RolesIn

\* RolesWalk: what RolesOf gives a claim is made of what it gives the parts.
LEMMA RolesWalk ==
    \A c \in SubClaims : RolesOf[c] = RolesIn(RolesOf, c)
<1> DEFINE Walk(f) == [k \in SubClaims |-> RolesIn(f, k)]
           Right(f, d) == \A k \in Below(d) : f[k] = RolesIn(f, k)
           S == {d \in 0..(MaxDepth + 1) : \E f : Right(f, d)}
<1>1. MaxDepth \in Nat
  BY ClaimsAssumption
<1>2. MaxDepth + 1 \in S
  BY <1>1, BelowFacts
<1>3. ASSUME NEW d \in 0..MaxDepth, d + 1 \in S PROVE d \in S
  <2>1. PICK f : Right(f, d + 1)
    BY <1>3
  <2> DEFINE g == Walk(f)
  <2>2. \A k \in Below(d) : k \in SubClaims /\ PartsOf(k) \subseteq Below(d + 1)
    BY BelowFacts
  <2>3. ASSUME NEW k \in Below(d) PROVE g[k] = RolesIn(g, k)
    <3>1. \A p \in PartsOf(k) : p \in SubClaims /\ p \in Below(d + 1)
      BY <2>2, PartsInside
    <3>2. \A p \in PartsOf(k) : g[p] = f[p]
      BY <2>1, <3>1
    <3>3. g[k] = RolesIn(f, k)
      BY <2>2
    <3> HIDE DEF g
    <3> QED
      BY <2>2, <3>2, <3>3, RolesSame
  <2>4. Right(g, d) /\ d \in 0..(MaxDepth + 1)
    BY <1>1, <2>3
  <2> HIDE DEF Right, g
  <2> QED
    BY <2>4
<1> HIDE DEF Right
<1>4. PICK f : Right(f, 0)
  <2>1. 0 \in S
    BY <1>2, <1>3, DepthInduction
  <2> QED
    BY <2>1
<1> DEFINE g == Walk(f)
<1>5. g = Walk(g)
  <2>1. \A k \in SubClaims : f[k] = RolesIn(f, k)
    BY <1>4, BelowFacts DEF Right
  <2>2. \A k \in SubClaims : g[k] = f[k]
    BY <2>1
  <2>3. ASSUME NEW k \in SubClaims PROVE RolesIn(g, k) = RolesIn(f, k)
    <3> HIDE DEF g
    <3> QED
      BY <2>2, PartsInside, RolesSame
  <2> QED
    BY <2>3
<1> HIDE DEF g
<1>6. RolesOf = Walk(RolesOf)
  BY <1>5 DEF RolesOf
<1> QED
  BY <1>6

-----------------------------------------------------------------------------
(* Roles and the order of two of them.                                     *)

\* rho gives the roles the bundle B settles what it settles, and any place to the others.
Agrees(rho, r, B) ==
    /\ rho[r] \in Nat
    /\ Resolve(r, B) # 0 \/ DefinitelyAbsent(r, B) => rho[r] = Resolve(r, B)

Verdicts == {"TRUE", "FALSE", Undetermined}

\* A verdict that decides is right about what is asked.
Decides(v, truth) ==
    /\ v \in Verdicts
    /\ v = "TRUE" => truth
    /\ v = "FALSE" => ~truth

\* A bundle is finite.
LEMMA BundleFinite ==
    ASSUME HistoryInv, NEW B \in SUBSET DOMAIN proofs, NEW S \in SUBSET B
    PROVE  IsFiniteSet(S) /\ 0 \notin S
<1>1. Len(proofs) \in Nat /\ DOMAIN proofs = 1..Len(proofs)
  BY HistoryFacts
<1>2. IsFiniteSet(1..Len(proofs))
  BY <1>1, FS_Interval
<1>3. S \subseteq 1..Len(proofs)
  BY <1>1
<1> QED
  BY <1>2, <1>3, FS_Subset

\* A role resolves to its only candidate, and not at all when its digest is absent.
LEMMA RoleFacts ==
    ASSUME HistoryInv, NEW B \in SUBSET DOMAIN proofs, NEW r
    PROVE  /\ Resolve(r, B) # 0 <=> Cardinality(Candidates(r, B)) = 1
           /\ Resolve(r, B) # 0 => Resolve(r, B) \in B /\ Candidates(r, B) = {Resolve(r, B)}
           /\ \A i : Candidates(r, B) = {i} => Resolve(r, B) = i /\ i # 0
           /\ Resolve(r, B) \in Nat
           /\ DefinitelyAbsent(r, B) => Resolve(r, B) = 0
<1> DEFINE C == Candidates(r, B)
<1>1. C \subseteq B
  BY DEF Candidates
<1>2. IsFiniteSet(C) /\ 0 \notin C
  BY <1>1, BundleFinite
<1>3. DefinitelyAbsent(r, B) => C = {}
  BY DEF Candidates, DefinitelyAbsent
<1>4. Resolve(r, B) = IF Cardinality(C) = 1 THEN CHOOSE i \in C : TRUE ELSE 0
  BY DEF Resolve
<1>5. B \subseteq Nat
  BY HistoryFacts
<1> HIDE DEF C
<1>6. Cardinality({}) = 0 /\ \A i : Cardinality({i}) = 1
  BY FS_EmptySet, FS_Singleton
<1>7. Cardinality(C) = 1 => \E i : C = {i}
  BY <1>2, FS_Singleton
<1>8. CASE Cardinality(C) = 1
  <2>1. PICK i : C = {i}
    BY <1>7, <1>8
  <2>2. Resolve(r, B) = i
    BY <1>4, <1>8, <2>1
  <2>3. i \in C /\ i # 0 /\ i \in B /\ C # {}
    BY <1>1, <1>2, <2>1
  <2> QED
    BY <1>3, <1>5, <1>8, <2>1, <2>2, <2>3 DEF C
<1>9. CASE Cardinality(C) # 1
  <2>1. Resolve(r, B) = 0 /\ \A i : C # {i}
    BY <1>4, <1>6, <1>9
  <2> QED
    BY <1>9, <2>1 DEF C
<1> QED
  BY <1>8, <1>9

\* What compare says in one direction it says in the other.
LEMMA CompareBack ==
    ASSUME NEW a, NEW b, NEW B, Compare(a, b, B).relation = "after"
    PROVE  Compare(b, a, B) = [relation |-> "before", tier |-> Compare(a, b, B).tier]
<1> DEFINE f == BeforeTier(a, b, B)
           g == BeforeTier(b, a, B)
<1>1. Compare(a, b, B) = IF a = b THEN [relation |-> "same", tier |-> "none"]
                         ELSE IF f # "none" THEN [relation |-> "before", tier |-> f]
                         ELSE IF g # "none" THEN [relation |-> "after", tier |-> g]
                         ELSE [relation |-> "unordered", tier |-> "none"]
  BY DEF Compare
<1>2. Compare(b, a, B) = IF b = a THEN [relation |-> "same", tier |-> "none"]
                         ELSE IF g # "none" THEN [relation |-> "before", tier |-> g]
                         ELSE IF f # "none" THEN [relation |-> "after", tier |-> f]
                         ELSE [relation |-> "unordered", tier |-> "none"]
  BY DEF Compare
<1> HIDE DEF f, g
<1> QED
  BY <1>1, <1>2

\* The answers compare may give.
LEMMA CompareRelations ==
    ASSUME NEW a, NEW b, NEW B
    PROVE  /\ Compare(a, b, B).relation \in {"same", "before", "after", "unordered"}
           /\ Compare(a, b, B).relation = "same" => a = b
           /\ Compare(a, b, B).relation = "before" =>
                Compare(a, b, B) = [relation |-> "before", tier |-> Compare(a, b, B).tier]
<1> DEFINE f == BeforeTier(a, b, B)
           g == BeforeTier(b, a, B)
<1>1. Compare(a, b, B) = IF a = b THEN [relation |-> "same", tier |-> "none"]
                         ELSE IF f # "none" THEN [relation |-> "before", tier |-> f]
                         ELSE IF g # "none" THEN [relation |-> "after", tier |-> g]
                         ELSE [relation |-> "unordered", tier |-> "none"]
  BY DEF Compare
<1> HIDE DEF f, g
<1> QED
  BY <1>1

\* FloorRight: an answer that meets a floor the history deserves is right.
LEMMA FloorRight ==
    ASSUME HistoryInv, NEW B \in SUBSET DOMAIN proofs, NEW a \in B, NEW b \in B,
           NEW floor \in Tiers, floor = "hash-linked" \/ Honest,
           MeetsFloor(Compare(a, b, B).tier, floor)
    PROVE  /\ Compare(a, b, B).relation = "before" => a < b
           /\ Compare(a, b, B).relation = "after" => b < a
<1> DEFINE tier == Compare(a, b, B).tier
<1>1. tier = "hash-linked" \/ Honest
  BY DEF MeetsFloor, Tiers
<1>2. ASSUME Compare(a, b, B).relation = "before" PROVE a < b
  <2>1. Compare(a, b, B) = [relation |-> "before", tier |-> tier]
    BY <1>2, CompareRelations
  <2> QED
    BY <1>1, <1>2, <2>1, HashLinkedBefore, HonestBefore
<1>3. ASSUME Compare(a, b, B).relation = "after" PROVE b < a
  <2>1. Compare(b, a, B) = [relation |-> "before", tier |-> tier]
    BY <1>3, CompareBack
  <2>2. Compare(b, a, B).relation = "before"
    BY <2>1
  <2> QED
    BY <1>1, <2>1, <2>2, HashLinkedBefore, HonestBefore
<1> QED
  BY <1>2, <1>3

\* PrecedesRight: what evalPrecedes decides is so, wherever the open roles were recorded.
LEMMA PrecedesRight ==
    ASSUME HistoryInv, NEW B \in SUBSET DOMAIN proofs, NEW x, NEW y, NEW rho,
           Agrees(rho, x, B), Agrees(rho, y, B),
           NEW floor \in Tiers, floor = "hash-linked" \/ Honest
    PROVE  Decides(EvalPrecedes(x, y, floor, B), 0 < rho[x] /\ rho[x] < rho[y])
<1> DEFINE a == Resolve(x, B)
           b == Resolve(y, B)
           o == Compare(a, b, B)
           knownX == a # 0 \/ DefinitelyAbsent(x, B)
           knownY == b # 0 \/ DefinitelyAbsent(y, B)
           v == EvalPrecedes(x, y, floor, B)
<1>1. v = IF ~knownX \/ ~knownY THEN Undetermined
          ELSE IF a = 0 \/ b = 0 \/ o.relation = "same" THEN "FALSE"
          ELSE IF o.relation = "unordered" \/ ~MeetsFloor(o.tier, floor) THEN Undetermined
          ELSE IF o.relation = "before" THEN "TRUE" ELSE "FALSE"
  BY DEF EvalPrecedes
<1>2. /\ a \in Nat /\ b \in Nat /\ (a # 0 => a \in B) /\ (b # 0 => b \in B)
      /\ rho[x] \in Nat /\ rho[y] \in Nat
      /\ knownX => rho[x] = a
      /\ knownY => rho[y] = b
  BY RoleFacts DEF Agrees
<1>3. o.relation \in {"same", "before", "after", "unordered"} /\ (o.relation = "same" => a = b)
  BY CompareRelations
<1>4. a # 0 /\ b # 0 /\ MeetsFloor(o.tier, floor) =>
        (o.relation = "before" => a < b) /\ (o.relation = "after" => b < a)
  BY <1>2, FloorRight
<1>5. Undetermined # "TRUE" /\ Undetermined # "FALSE"
  BY DEF Undetermined
<1> HIDE DEF a, b, o, knownX, knownY, v
<1>6. v \in {"TRUE", "FALSE", Undetermined}
  BY <1>1
<1>7. ASSUME v = "TRUE" PROVE 0 < rho[x] /\ rho[x] < rho[y]
  <2>1. /\ knownX /\ knownY /\ a # 0 /\ b # 0 /\ o.relation = "before"
        /\ MeetsFloor(o.tier, floor)
    BY <1>1, <1>5, <1>7
  <2> QED
    BY <1>2, <1>4, <2>1
<1>8. ASSUME v = "FALSE" PROVE ~(0 < rho[x] /\ rho[x] < rho[y])
  <2>1. knownX /\ knownY
    BY <1>1, <1>5, <1>8
  <2>2. \/ a = 0 \/ b = 0 \/ a = b
        \/ a # 0 /\ b # 0 /\ o.relation = "after" /\ MeetsFloor(o.tier, floor)
    BY <1>1, <1>3, <1>5, <1>8
  <2>3. a = 0 \/ b = 0 \/ a = b \/ b < a
    BY <1>4, <2>2
  <2> QED
    BY <1>2, <2>1, <2>3
<1> QED
  BY <1>6, <1>7, <1>8 DEF Decides, Verdicts, v

-----------------------------------------------------------------------------
(* Verdicts.                                                               *)

\* What strong Kleene conjunction, disjunction and negation may answer, and from what.
LEMMA KleeneRight ==
    /\ \A vs \in SUBSET Verdicts :
         /\ KleeneAll(vs) \in Verdicts
         /\ KleeneAll(vs) = "TRUE" => vs \subseteq {"TRUE"}
         /\ KleeneAll(vs) = "FALSE" => "FALSE" \in vs
         /\ KleeneAny(vs) \in Verdicts
         /\ KleeneAny(vs) = "TRUE" => "TRUE" \in vs
         /\ KleeneAny(vs) = "FALSE" => vs \subseteq {"FALSE"}
    /\ \A v \in Verdicts :
         /\ KleeneNot(v) \in Verdicts
         /\ KleeneNot(v) = "TRUE" <=> v = "FALSE"
         /\ KleeneNot(v) = "FALSE" <=> v = "TRUE"
<1>1. Undetermined # "TRUE" /\ Undetermined # "FALSE"
  BY DEF Undetermined
<1> QED
  BY <1>1 DEF KleeneAll, KleeneAny, KleeneNot, Verdicts

\* ClaimRight: what evalClaim decides is what the claim says, wherever the roles that the
\* bundle leaves open were recorded.
LEMMA ClaimRight ==
    ASSUME HistoryInv, NEW B \in SUBSET DOMAIN proofs, NEW rho, NEW R,
           \A r \in R : Agrees(rho, r, B),
           NEW floor \in Tiers, floor = "hash-linked" \/ Honest
    PROVE  \A c \in SubClaims : RolesOf[c] \subseteq R =>
              Decides(EvalClaim(c, floor, B), Truth(c, rho))
<1>1. PICK v : /\ \A c \in SubClaims : EvalClaim(c, floor, B) = v[c]
               /\ \A c \in SubClaims : v[c] = EvalOf(v, c, floor, B)
  BY EvalWalk
<1>2. PICK truth : /\ \A c \in SubClaims : Truth(c, rho) = truth[c]
                   /\ \A c \in SubClaims : truth[c] = TruthOf(truth, c, rho)
  BY TruthWalk
<1> DEFINE Good == {c \in SubClaims : RolesOf[c] \subseteq R => Decides(v[c], truth[c])}
<1>3. ASSUME NEW k \in SubClaims, PartsOf(k) \subseteq Good, RolesOf[k] \subseteq R
      PROVE  Decides(v[k], truth[k])
  <2>1. k.op \in {"exists", "before", "between", "all", "any", "not"}
    BY ClaimsAssumption
  <2>2. RolesIn(RolesOf, k) \subseteq R /\ v[k] = EvalOf(v, k, floor, B) /\ truth[k] = TruthOf(truth, k, rho)
    BY <1>1, <1>2, <1>3, RolesWalk
  <2>3. CASE k.op = "exists"
    <3>1. v[k] = EvalExists(k.x, B) /\ truth[k] = (rho[k.x] # 0) /\ Agrees(rho, k.x, B)
      BY <2>2, <2>3 DEF EvalOf, TruthOf, RolesIn
    <3>2. DefinitelyAbsent(k.x, B) => Resolve(k.x, B) = 0
      BY RoleFacts
    <3> QED
      BY <3>1, <3>2 DEF EvalExists, Agrees, Decides, Verdicts, Undetermined
  <2>4. CASE k.op = "before"
    <3>1. v[k] = EvalPrecedes(k.x, k.y, floor, B) /\ truth[k] = (0 < rho[k.x] /\ rho[k.x] < rho[k.y])
      BY <2>2, <2>4 DEF EvalOf, TruthOf
    <3>2. Agrees(rho, k.x, B) /\ Agrees(rho, k.y, B)
      BY <2>2, <2>4 DEF RolesIn
    <3>3. Decides(v[k], 0 < rho[k.x] /\ rho[k.x] < rho[k.y])
      BY <3>1, <3>2, PrecedesRight
    <3> QED
      BY <3>1, <3>3
  <2>5. CASE k.op = "between"
    <3> DEFINE l == EvalPrecedes(k.lower, k.x, floor, B)
               u == EvalPrecedes(k.x, k.upper, floor, B)
    <3>1. /\ v[k] = KleeneAll({l, u})
          /\ truth[k] = (0 < rho[k.lower] /\ rho[k.lower] < rho[k.x] /\ rho[k.x] < rho[k.upper])
      BY <2>2, <2>5 DEF EvalOf, TruthOf
    <3>2. Agrees(rho, k.lower, B) /\ Agrees(rho, k.x, B) /\ Agrees(rho, k.upper, B)
      BY <2>2, <2>5 DEF RolesIn
    <3>3. /\ Decides(l, 0 < rho[k.lower] /\ rho[k.lower] < rho[k.x])
          /\ Decides(u, 0 < rho[k.x] /\ rho[k.x] < rho[k.upper])
      BY <3>2, PrecedesRight
    <3>4. rho[k.lower] \in Nat /\ rho[k.x] \in Nat
      BY <3>2 DEF Agrees
    <3> HIDE DEF l, u
    <3>5. 0 < rho[k.lower] /\ rho[k.lower] < rho[k.x] => 0 < rho[k.x]
      BY <3>4
    <3>6. v[k] = IF l = "FALSE" \/ u = "FALSE" THEN "FALSE"
                 ELSE IF l = Undetermined \/ u = Undetermined THEN Undetermined ELSE "TRUE"
      BY <3>1 DEF KleeneAll
    <3> QED
      BY <3>1, <3>3, <3>5, <3>6 DEF Decides, Verdicts, Undetermined
  <2>6. CASE k.op \in {"all", "any"}
    <3> DEFINE K == k.of
               vs == {v[p] : p \in K}
    <3>1. RolesIn(RolesOf, k) = UNION {RolesOf[p] : p \in PartsOf(k)} /\ PartsOf(k) = K
      BY <2>6 DEF RolesIn, PartsOf
    <3>2. \A p \in K : v[p] \in Verdicts /\ (v[p] = "TRUE" => truth[p]) /\ (v[p] = "FALSE" => ~truth[p])
      BY <1>3, <2>2, <3>1 DEF Decides
    <3>3. /\ k.op = "all" => v[k] = KleeneAll(vs) /\ truth[k] = \A p \in K : truth[p]
          /\ k.op = "any" => v[k] = KleeneAny(vs) /\ truth[k] = \E p \in K : truth[p]
      BY <2>2 DEF EvalOf, TruthOf
    <3> HIDE DEF K, Good
    <3>4. vs \in SUBSET Verdicts
      BY <3>2
    <3>5. ASSUME KleeneAll(vs) = "TRUE", NEW p \in K PROVE truth[p]
      BY <3>2, <3>4, <3>5, KleeneRight
    <3>6. ASSUME KleeneAll(vs) = "FALSE" PROVE \E p \in K : ~truth[p]
      BY <3>2, <3>4, <3>6, KleeneRight
    <3>7. ASSUME KleeneAny(vs) = "TRUE" PROVE \E p \in K : truth[p]
      BY <3>2, <3>4, <3>7, KleeneRight
    <3>8. ASSUME KleeneAny(vs) = "FALSE", NEW p \in K PROVE ~truth[p]
      BY <3>2, <3>4, <3>8, KleeneRight
    <3>9. KleeneAll(vs) \in Verdicts /\ KleeneAny(vs) \in Verdicts
      BY <3>4, KleeneRight
    <3> HIDE DEF vs
    <3> QED
      BY <2>6, <3>3, <3>5, <3>6, <3>7, <3>8, <3>9 DEF Decides
  <2>7. CASE k.op = "not"
    <3>1. RolesIn(RolesOf, k) = RolesOf[k.of] /\ PartsOf(k) = {k.of}
      BY <2>7 DEF RolesIn, PartsOf
    <3>2. /\ v[k.of] \in Verdicts
          /\ v[k.of] = "TRUE" => truth[k.of]
          /\ v[k.of] = "FALSE" => ~truth[k.of]
      BY <1>3, <2>2, <3>1 DEF Decides
    <3>3. v[k] = KleeneNot(v[k.of]) /\ truth[k] = ~truth[k.of]
      BY <2>2, <2>7 DEF EvalOf, TruthOf
    <3>4. /\ v[k] \in Verdicts
          /\ v[k] = "TRUE" <=> v[k.of] = "FALSE"
          /\ v[k] = "FALSE" <=> v[k.of] = "TRUE"
      BY <3>2, <3>3, KleeneRight
    <3>5. v[k] = "TRUE" => truth[k]
      BY <3>2, <3>3, <3>4
    <3>6. v[k] = "FALSE" => ~truth[k]
      BY <3>2, <3>3, <3>4
    <3> QED
      BY <3>4, <3>5, <3>6 DEF Decides
  <2> QED
    BY <2>1, <2>3, <2>4, <2>5, <2>6, <2>7
<1>4. SubClaims \subseteq Good
  <2>1. \A k \in SubClaims : PartsOf(k) \subseteq Good => k \in Good
    BY <1>3
  <2> HIDE DEF Good
  <2> QED
    BY <2>1, ClaimInduction
<1> QED
  BY <1>1, <1>2, <1>4

\* What a claim says is so or not.
LEMMA TruthBoolean == \A c \in SubClaims : \A rho : Truth(c, rho) \in BOOLEAN
<1> SUFFICES ASSUME NEW c \in SubClaims, NEW rho PROVE Truth(c, rho) \in BOOLEAN
  OBVIOUS
<1>1. PICK truth : Truth(c, rho) = truth[c] /\ truth[c] = TruthOf(truth, c, rho)
  BY TruthWalk
<1>2. TruthOf(truth, c, rho) \in BOOLEAN
  BY ClaimsAssumption DEF TruthOf
<1> QED
  BY <1>1, <1>2

\* VerdictsAreRight: a verdict other than UNDETERMINED is what the claim says of the
\* history under every position of the roles the bundle leaves open: for every claim,
\* cast, history and bundle, and with no assumption on the recorders where the rule's
\* floor is hash-linked.
THEOREM VerdictsAreRight == Spec => []VerdictHolds
<1>1. ASSUME HistoryInv PROVE VerdictHolds
  <2> SUFFICES ASSUME NEW c \in Claims, NEW floor \in Tiers, floor = "hash-linked" \/ Honest,
                      EvalClaim(c, floor, bundle) # Undetermined,
                      NEW guess \in [Open(RolesOf[c], bundle) -> 0..Len(proofs)]
               PROVE  Truth(c, [r \in RolesOf[c] |->
                                  IF r \in DOMAIN guess THEN guess[r] ELSE Resolve(r, bundle)])
                        = (EvalClaim(c, floor, bundle) = "TRUE")
    BY DEF VerdictHolds
  <2> DEFINE rho == [r \in RolesOf[c] |->
                       IF r \in DOMAIN guess THEN guess[r] ELSE Resolve(r, bundle)]
             v == EvalClaim(c, floor, bundle)
  <2>1. bundle \in SUBSET DOMAIN proofs /\ Len(proofs) \in Nat
    BY <1>1, HistoryFacts
  <2>2. ASSUME NEW r \in RolesOf[c] PROVE Agrees(rho, r, bundle)
    <3>1. Resolve(r, bundle) \in Nat
      BY <1>1, <2>1, RoleFacts
    <3>2. r \in DOMAIN guess <=> Resolve(r, bundle) = 0 /\ ~DefinitelyAbsent(r, bundle)
      BY DEF Open
    <3>3. r \in DOMAIN guess => guess[r] \in Nat
      BY <2>1
    <3> QED
      BY <3>1, <3>2, <3>3 DEF Agrees
  <2>3. c \in SubClaims
    BY ClaimLevels, ClaimsAssumption DEF SubClaims
  <2> HIDE DEF rho
  <2>4. Decides(v, Truth(c, rho))
    BY <1>1, <2>1, <2>2, <2>3, ClaimRight
  <2>5. Truth(c, rho) \in BOOLEAN
    BY <2>3, TruthBoolean
  <2>6. v \in {"TRUE", "FALSE"}
    BY <2>4 DEF Decides, Verdicts
  <2> HIDE DEF v
  <2>7. Truth(c, rho) = (v = "TRUE")
    BY <2>4, <2>5, <2>6 DEF Decides
  <2> QED
    BY <2>7 DEF rho, v
<1> QED
  BY <1>1, HistoryInvariant, PTL

\* NeverReversed: of two bundles, one inside the other, the larger never turns round the
\* verdict of the smaller on a claim about required roles.
LEMMA NeverReversed ==
    ASSUME HistoryInv, NEW B \in SUBSET DOMAIN proofs, NEW A \in SUBSET B,
           NEW c \in SubClaims, \A r \in RolesOf[c] \cap DOMAIN Cast : ~Cast[r].optional,
           NEW floor \in Tiers, floor = "hash-linked" \/ Honest,
           EvalClaim(c, floor, A) # Undetermined
    PROVE  EvalClaim(c, floor, B) # KleeneNot(EvalClaim(c, floor, A))
<1> DEFINE rho == [r \in RolesOf[c] |->
                     IF Resolve(r, A) # 0 THEN Resolve(r, A) ELSE Resolve(r, B)]
<1>1. A \in SUBSET DOMAIN proofs
  OBVIOUS
<1>2. ASSUME NEW r \in RolesOf[c] PROVE Agrees(rho, r, A) /\ Agrees(rho, r, B)
  <2>1. ~DefinitelyAbsent(r, A) /\ ~DefinitelyAbsent(r, B)
    BY DEF DefinitelyAbsent
  <2>2. Resolve(r, A) \in Nat /\ Resolve(r, B) \in Nat
    BY <1>1, RoleFacts
  <2>3. Candidates(r, A) \subseteq Candidates(r, B)
    BY DEF Candidates
  <2>4. Resolve(r, A) # 0 /\ Resolve(r, B) # 0 => Resolve(r, A) = Resolve(r, B)
    BY <1>1, <2>3, RoleFacts
  <2> QED
    BY <2>1, <2>2, <2>4 DEF Agrees
<1> HIDE DEF rho
<1> DEFINE v == EvalClaim(c, floor, A)
           w == EvalClaim(c, floor, B)
<1>3. Decides(v, Truth(c, rho)) /\ Decides(w, Truth(c, rho))
  BY <1>1, <1>2, ClaimRight
<1>4. v \in {"TRUE", "FALSE"} /\ "TRUE" # "FALSE"
  BY <1>3 DEF Decides, Verdicts
<1>5. w = KleeneNot(v) => (v = "TRUE" /\ w = "FALSE") \/ (v = "FALSE" /\ w = "TRUE")
  BY <1>4 DEF KleeneNot
<1> HIDE DEF v, w
<1>6. w # KleeneNot(v)
  BY <1>3, <1>5 DEF Decides
<1> QED
  BY <1>6 DEF v, w

\* VerdictsStand: a bundle with more proofs in it may leave a claim on required roles
\* undetermined again, but never turns its verdict round.
THEOREM VerdictsStand == Spec => VerdictNeverReversed
<1> DEFINE Stands == \A c \in Claims, floor \in Tiers :
                       /\ floor = "hash-linked" \/ Honest
                       /\ \A r \in RolesOf[c] \cap DOMAIN Cast : ~Cast[r].optional
                       => \A v \in {EvalClaim(c, floor, bundle)} \ {Undetermined} :
                             EvalClaim(c, floor, bundle') # KleeneNot(v)
<1>1. ASSUME HistoryInv, Next PROVE Stands
  <2>1. bundle \in SUBSET DOMAIN proofs
    BY <1>1, HistoryFacts
  <2>2. bundle \subseteq bundle' /\ bundle' \in SUBSET DOMAIN proofs
    BY <1>1, <2>1 DEF Next, Tick, Commit, Observe
  <2>3. Claims \subseteq SubClaims
    BY ClaimLevels, ClaimsAssumption DEF SubClaims
  <2> QED
    BY <1>1, <2>1, <2>2, <2>3, NeverReversed
<1>2. HistoryInv /\ [Next]_vars => [Stands]_vars
  BY <1>1
<1> QED
  BY <1>2, HistoryInvariant, PTL DEF Spec, VerdictNeverReversed
=============================================================================
