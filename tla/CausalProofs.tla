---------------------------- MODULE CausalProofs ----------------------------
(***************************************************************************)
(* Proofs about CausalAudit.tla and CausalPlayer.tla, for histories of any *)
(* length, any number of epochs, any worlds and any bundle: what the audit *)
(* and the player's compare say of the order and the times of recordings   *)
(* is right about the history.                                             *)
(***************************************************************************)
EXTENDS CausalPlayer, FiniteSetTheorems, WellFoundedInduction, NaturalsInduction, TLAPS

-----------------------------------------------------------------------------
(* The inductive invariant is about the history alone: every operator of   *)
(* the audit reads a bundle, and nothing is assumed of the bundle but that *)
(* its proofs are of the history.                                          *)

ProofRec == [epoch : Nat, counter : Nat, prev : Nat, link : Nat,
             mark : [chain : {"none", "eth", "base"}, time : Nat], digest : Nat, at : Nat]

\* The places of epoch e in the history s.
Places(s, e) == {i \in DOMAIN s : s[i].epoch = e}

\* A hash points back, to the same epoch; an epochLink is on the first proof of its epoch.
BackInv(s) ==
    \A i \in DOMAIN s :
        /\ s[i].prev \in 0..(i - 1)
        /\ s[i].prev # 0 => s[s[i].prev].epoch = s[i].epoch
        /\ s[i].link \in 0..(i - 1)
        /\ s[i].link # 0 => \A j \in 1..(i - 1) : s[j].epoch # s[i].epoch

\* Proofs are committed in the order of time, and name blocks that exist by then:
\* where anchors are fresh, the newest.
TimeInv(s, t, fresh) ==
    /\ \A i \in DOMAIN s :
         /\ s[i].at <= t
         /\ s[i].mark.time <= s[i].at
         /\ fresh /\ s[i].mark.chain # "none" => s[i].mark.time = s[i].at
    /\ \A i, j \in DOMAIN s : i < j => s[i].at <= s[j].at

\* Under discipline the counters of an epoch rise with its proofs, and count them.
CountInv(s) ==
    /\ \A i \in DOMAIN s : s[i].counter \in 1..Cardinality(Places(s, s[i].epoch))
    /\ \A i, j \in DOMAIN s : i < j /\ s[i].epoch = s[j].epoch => s[i].counter < s[j].counter

HistoryInv ==
    /\ world \in Worlds
    /\ now \in 0..world.ticks
    /\ proofs \in Seq(ProofRec)
    /\ Len(proofs) <= world.size
    /\ \A i \in DOMAIN proofs : proofs[i].epoch \in 1..world.epochs
    /\ bundle \subseteq DOMAIN proofs
    /\ BackInv(proofs)
    /\ TimeInv(proofs, now, world.fresh)
    /\ world.disciplined => CountInv(proofs)

-----------------------------------------------------------------------------
(* The history.                                                            *)

\* The history starts empty.
LEMMA InitHistory == Init => HistoryInv
BY WorldsAssumption DEF Init, HistoryInv, BackInv, TimeInv, CountInv, World

\* A nonempty set of naturals has a least member.
LEMMA LeastMember ==
    ASSUME NEW S \in SUBSET Nat, S # {}
    PROVE  \E m \in S : \A j \in S : m <= j
<1> DEFINE R == {ss \in Nat \X Nat : ss[1] < ss[2]}
<1>1. IsWellFoundedOn(R, Nat)
  BY NatLessThanWellFounded DEF OpToRel
<1> HIDE DEF R
<1>2. PICK m \in S : \A y \in S : ~ (<<y, m>> \in R)
  BY <1>1, WFMin
<1>3. \A y \in S : y < m => <<y, m>> \in R
  BY DEF R
<1>4. \A y \in S : y \in Nat /\ m \in Nat
  OBVIOUS
<1>5. \A y \in S : ~(y < m)
  BY <1>2, <1>3
<1>6. \A y \in S : m <= y
  BY <1>4, <1>5
<1> QED
  BY <1>6

\* What a history and one more proof look like.
LEMMA OneMore ==
    ASSUME NEW s \in Seq(ProofRec), NEW r \in ProofRec
    PROVE  /\ Len(s) \in Nat /\ DOMAIN s = 1..Len(s)
           /\ Append(s, r) \in Seq(ProofRec)
           /\ Len(Append(s, r)) = Len(s) + 1
           /\ DOMAIN Append(s, r) = 1..(Len(s) + 1)
           /\ \A i \in 1..Len(s) : Append(s, r)[i] = s[i] /\ s[i] \in ProofRec
           /\ Append(s, r)[Len(s) + 1] = r
OBVIOUS

\* The proofs of an epoch are finitely many places in the history.
LEMMA EpochPlaces ==
    ASSUME NEW s \in Seq(ProofRec), NEW e
    PROVE  /\ Places(s, e) \subseteq 1..Len(s)
           /\ IsFiniteSet(Places(s, e))
           /\ Cardinality(Places(s, e)) \in Nat
<1>1. Len(s) \in Nat /\ DOMAIN s = 1..Len(s)
  OBVIOUS
<1>2. Places(s, e) \subseteq 1..Len(s)
  BY <1>1 DEF Places
<1>3. IsFiniteSet(1..Len(s))
  BY <1>1, FS_Interval
<1>4. IsFiniteSet(Places(s, e))
  BY <1>2, <1>3, FS_Subset
<1> QED
  BY <1>2, <1>4, FS_CardinalityType

\* A proof that points back, with a link only if it is the first of its epoch.
LEMMA BackMore ==
    ASSUME NEW s \in Seq(ProofRec), NEW r \in ProofRec, BackInv(s),
           r.prev = 0 \/ r.prev \in Places(s, r.epoch),
           r.link = 0 \/ (r.link \in DOMAIN s /\ Places(s, r.epoch) = {})
    PROVE  BackInv(Append(s, r))
<1> DEFINE n == Len(s)
           t == Append(s, r)
<1>1. /\ n \in Nat /\ DOMAIN s = 1..n /\ DOMAIN t = 1..(n + 1) /\ t[n + 1] = r
      /\ \A i \in 1..n : t[i] = s[i] /\ s[i] \in ProofRec
  BY OneMore
<1> HIDE DEF t, n
<1> SUFFICES ASSUME NEW i \in 1..(n + 1)
             PROVE  /\ t[i].prev \in 0..(i - 1)
                    /\ t[i].prev # 0 => t[t[i].prev].epoch = t[i].epoch
                    /\ t[i].link \in 0..(i - 1)
                    /\ t[i].link # 0 => \A j \in 1..(i - 1) : t[j].epoch # t[i].epoch
  BY <1>1 DEF BackInv, t
<1>2. CASE i = n + 1
  BY <1>1, <1>2 DEF Places
<1>3. CASE i \in 1..n
  <2>1. /\ s[i].prev \in 0..(i - 1)
        /\ s[i].prev # 0 => s[s[i].prev].epoch = s[i].epoch
        /\ s[i].link \in 0..(i - 1)
        /\ s[i].link # 0 => \A j \in 1..(i - 1) : s[j].epoch # s[i].epoch
    BY <1>1, <1>3 DEF BackInv
  <2>2. s[i].prev # 0 => s[i].prev \in 1..n
    BY <1>1, <1>3, <2>1
  <2>3. \A j \in 1..(i - 1) : j \in 1..n
    BY <1>1, <1>3
  <2> QED
    BY <1>1, <1>3, <2>1, <2>2, <2>3
<1> QED
  BY <1>1, <1>2, <1>3

\* A proof of the present moment, with a mark of a block that exists.
LEMMA TimeMore ==
    ASSUME NEW s \in Seq(ProofRec), NEW r \in ProofRec, NEW t \in Nat, NEW fresh,
           TimeInv(s, t, fresh), r.at = t, r.mark.time <= t,
           fresh /\ r.mark.chain # "none" => r.mark.time = t
    PROVE  TimeInv(Append(s, r), t, fresh)
<1> DEFINE n == Len(s)
           u == Append(s, r)
<1>1. /\ n \in Nat /\ DOMAIN s = 1..n /\ DOMAIN u = 1..(n + 1) /\ u[n + 1] = r
      /\ \A i \in 1..n : u[i] = s[i] /\ s[i] \in ProofRec
  BY OneMore
<1> HIDE DEF u, n
<1>2. \A i \in 1..(n + 1) : i = n + 1 \/ i \in 1..n
  BY <1>1
<1>3. ASSUME NEW i \in 1..(n + 1)
      PROVE  /\ u[i].at <= t
             /\ u[i].mark.time <= u[i].at
             /\ fresh /\ u[i].mark.chain # "none" => u[i].mark.time = u[i].at
  BY <1>1, <1>2, <1>3 DEF TimeInv
<1>4. ASSUME NEW i \in 1..(n + 1), NEW j \in 1..(n + 1), i < j
      PROVE  u[i].at <= u[j].at
  <2>1. i \in 1..n
    BY <1>1, <1>4
  <2> QED
    BY <1>1, <1>2, <1>4, <2>1 DEF TimeInv
<1> QED
  BY <1>1, <1>3, <1>4 DEF TimeInv, u

\* A proof whose counter is one more than the proofs of its epoch.
LEMMA CountMore ==
    ASSUME NEW s \in Seq(ProofRec), NEW r \in ProofRec, CountInv(s),
           r.counter = Cardinality(Places(s, r.epoch)) + 1
    PROVE  CountInv(Append(s, r))
<1> DEFINE n == Len(s)
           t == Append(s, r)
           C == Cardinality(Places(s, r.epoch))
<1>1. /\ n \in Nat /\ DOMAIN s = 1..n /\ DOMAIN t = 1..(n + 1) /\ t[n + 1] = r
      /\ \A i \in 1..n : t[i] = s[i] /\ s[i] \in ProofRec
  BY OneMore
<1> HIDE DEF t, n
<1>2. Places(t, r.epoch) = Places(s, r.epoch) \cup {n + 1} /\ n + 1 \notin Places(s, r.epoch)
  BY <1>1 DEF Places
<1>3. C \in Nat /\ IsFiniteSet(Places(s, r.epoch))
  BY EpochPlaces
<1>4. Cardinality(Places(t, r.epoch)) = C + 1
  BY <1>2, <1>3, FS_AddElement
<1>5. \A x : x # r.epoch => Places(t, x) = Places(s, x)
  BY <1>1 DEF Places
<1>6. \A i \in 1..(n + 1) : i = n + 1 \/ i \in 1..n
  BY <1>1
<1>7. ASSUME NEW i \in 1..(n + 1)
      PROVE  t[i].counter \in 1..Cardinality(Places(t, t[i].epoch))
  <2>1. CASE i = n + 1
    BY <2>1, <1>1, <1>3, <1>4
  <2>2. CASE i \in 1..n /\ s[i].epoch = r.epoch
    <3>1. s[i].counter \in 1..C
      BY <1>1, <2>2 DEF CountInv
    <3> QED
      BY <2>2, <3>1, <1>1, <1>3, <1>4
  <2>3. CASE i \in 1..n /\ s[i].epoch # r.epoch
    BY <2>3, <1>1, <1>5 DEF CountInv
  <2> QED
    BY <1>6, <2>1, <2>2, <2>3
<1>8. ASSUME NEW i \in 1..(n + 1), NEW j \in 1..(n + 1), i < j, t[i].epoch = t[j].epoch
      PROVE  t[i].counter < t[j].counter
  <2>1. i \in 1..n
    BY <1>1, <1>8
  <2>2. CASE j = n + 1
    <3>1. s[i].counter \in 1..C
      BY <1>1, <1>8, <2>1, <2>2 DEF CountInv
    <3> QED
      BY <1>1, <1>3, <2>1, <2>2, <3>1
  <2>3. CASE j \in 1..n
    BY <1>1, <1>8, <2>1, <2>3 DEF CountInv
  <2> QED
    BY <1>6, <2>2, <2>3
<1> QED
  BY <1>1, <1>7, <1>8 DEF CountInv, t

\* A commit keeps the history well-formed.
LEMMA CommitHistory ==
    ASSUME HistoryInv, NEW e \in 1..world.epochs, Commit(e)
    PROVE  HistoryInv'
<1>1. PICK c \in Counters(e), p \in Prevs(e), l \in Links(e), m \in Marks, d \in Digests :
        proofs' = Append(proofs, [epoch |-> e, counter |-> c, prev |-> p,
                                  link |-> l, mark |-> m, digest |-> d, at |-> now])
  BY DEF Commit
<1> DEFINE r == [epoch |-> e, counter |-> c, prev |-> p,
                 link |-> l, mark |-> m, digest |-> d, at |-> now]
<1>2. /\ world' = world /\ now' = now /\ bundle' = bundle
      /\ world \in World /\ now \in Nat /\ Len(proofs) < world.size
      /\ proofs \in Seq(ProofRec) /\ DOMAIN proofs = 1..Len(proofs) /\ Len(proofs) \in Nat
      /\ e \in Nat
  BY WorldsAssumption DEF HistoryInv, World, Commit
<1>3. OfEpoch(e) = Places(proofs, e)
  BY DEF OfEpoch, Places
<1>4. /\ Places(proofs, e) \subseteq 1..Len(proofs)
      /\ Cardinality(Places(proofs, e)) \in Nat
  BY <1>2, EpochPlaces
<1>5. p = 0 \/ p \in Places(proofs, e)
  BY <1>3 DEF Prevs
<1>6. l = 0 \/ (l \in DOMAIN proofs /\ Places(proofs, e) = {})
  BY <1>3 DEF Links
<1>7. /\ m \in [chain : {"none", "eth", "base"}, time : Nat]
      /\ m.time <= now
      /\ world.fresh /\ m.chain # "none" => m.time = now
  BY <1>2 DEF Marks, World
<1>8. d \in Nat
  <2>1. \A i \in DOMAIN proofs : proofs[i] \in ProofRec
    BY <1>2
  <2>2. \A i \in DOMAIN proofs : proofs[i].digest \in Nat
    BY <2>1 DEF ProofRec
  <2> QED
    BY <1>2, <2>2 DEF Digests
<1>9. c \in Nat /\ (world.disciplined => c = Cardinality(Places(proofs, e)) + 1)
  BY <1>3, <1>4, BoundsAreNatural DEF Counters
<1>10. r \in ProofRec
  <2>1. p \in Nat /\ l \in Nat
    BY <1>2, <1>4, <1>5, <1>6
  <2> QED
    BY <1>2, <1>7, <1>8, <1>9, <2>1 DEF ProofRec
<1>11. r.epoch = e /\ r.prev = p /\ r.link = l /\ r.mark = m /\ r.at = now /\ r.counter = c
  OBVIOUS
<1> HIDE DEF r
<1>12. proofs' = Append(proofs, r)
  BY <1>1 DEF r
<1>13. BackInv(proofs')
  <2>1. BackInv(proofs)
    BY DEF HistoryInv
  <2> QED
    BY <1>2, <1>5, <1>6, <1>10, <1>11, <1>12, <2>1, BackMore
<1>14. TimeInv(proofs', now, world.fresh)
  <2>1. TimeInv(proofs, now, world.fresh)
    BY DEF HistoryInv
  <2> QED
    BY <1>2, <1>7, <1>10, <1>11, <1>12, <2>1, TimeMore
<1>15. world.disciplined => CountInv(proofs')
  <2>1. world.disciplined => CountInv(proofs)
    BY DEF HistoryInv
  <2> QED
    BY <1>2, <1>9, <1>10, <1>11, <1>12, <2>1, CountMore
<1>16. /\ proofs' \in Seq(ProofRec) /\ Len(proofs') = Len(proofs) + 1
       /\ DOMAIN proofs' = 1..(Len(proofs) + 1)
       /\ \A i \in 1..Len(proofs) : proofs'[i] = proofs[i]
       /\ proofs'[Len(proofs) + 1] = r
  BY <1>2, <1>10, <1>12, OneMore
<1>17. \A i \in DOMAIN proofs' : proofs'[i].epoch \in 1..world.epochs
  BY <1>2, <1>11, <1>16 DEF HistoryInv
<1>18. world \in Worlds /\ now \in 0..world.ticks /\ bundle \subseteq DOMAIN proofs
  BY DEF HistoryInv
<1>19. Len(proofs') <= world.size /\ bundle \subseteq DOMAIN proofs'
  BY <1>2, <1>16, <1>18 DEF World
<1> QED
  BY <1>2, <1>13, <1>14, <1>15, <1>16, <1>17, <1>18, <1>19 DEF HistoryInv

\* The passing of time keeps what is known of the proofs already there.
LEMMA TickHistory ==
    ASSUME HistoryInv, Tick
    PROVE  HistoryInv'
<1>1. /\ world' = world /\ now' = now + 1 /\ proofs' = proofs /\ bundle' = bundle
      /\ world \in World /\ now \in Nat /\ now < world.ticks /\ proofs \in Seq(ProofRec)
  BY WorldsAssumption DEF HistoryInv, World, Tick
<1>2. TimeInv(proofs, now + 1, world.fresh)
  <2>1. \A i \in DOMAIN proofs : proofs[i] \in ProofRec
    BY <1>1
  <2>2. \A i \in DOMAIN proofs : proofs[i].at \in Nat
    BY <2>1 DEF ProofRec
  <2>3. TimeInv(proofs, now, world.fresh)
    BY DEF HistoryInv
  <2> QED
    BY <1>1, <2>2, <2>3 DEF TimeInv
<1> QED
  BY <1>1, <1>2 DEF HistoryInv, World

\* HistoryInvariant: the history invariant holds in every reachable state.
THEOREM HistoryInvariant == Spec => []HistoryInv
<1>1. ASSUME HistoryInv, [Next]_vars PROVE HistoryInv'
  <2>1. CASE Tick
    BY <1>1, <2>1, TickHistory
  <2>2. CASE \E e \in 1..world.epochs : Commit(e)
    BY <1>1, <2>2, CommitHistory
  <2>3. CASE \E i \in DOMAIN proofs : Observe(i)
    BY <1>1, <2>3 DEF HistoryInv, Observe
  <2>4. CASE UNCHANGED vars
    BY <1>1, <2>4 DEF HistoryInv, vars
  <2> QED
    BY <1>1, <2>1, <2>2, <2>3, <2>4 DEF Next
<1> QED
  BY <1>1, InitHistory, PTL DEF Spec

\* CausalTypes: histories and bundles of any size are well-formed, as the audit assumes
\* of the proofs it has verified.
THEOREM CausalTypes == Spec => []TypeOK
<1>1. HistoryInv => TypeOK
  <2> SUFFICES ASSUME HistoryInv, NEW i \in DOMAIN proofs
               PROVE  /\ proofs[i].mark.chain \in {"none", "eth", "base"}
                      /\ proofs[i].mark.time \in 0..now
    BY DEF HistoryInv, TypeOK, BackInv
  <2>1. proofs[i] \in ProofRec
    BY DEF HistoryInv
  <2>2. world \in World /\ now \in Nat
    BY WorldsAssumption DEF HistoryInv, World
  <2>3. proofs[i].mark.time <= proofs[i].at /\ proofs[i].at <= now
    BY DEF HistoryInv, TimeInv
  <2> QED
    BY <2>1, <2>2, <2>3 DEF ProofRec
<1> QED
  BY <1>1, HistoryInvariant, PTL

-----------------------------------------------------------------------------
(* The walk up the hash links.                                             *)

\* The facts about a proof of the history that the arguments below use.
LEMMA HistoryFacts ==
    ASSUME HistoryInv
    PROVE  /\ Len(proofs) \in Nat /\ DOMAIN proofs = 1..Len(proofs)
           /\ bundle \subseteq DOMAIN proofs
           /\ \A i \in DOMAIN proofs :
                /\ i \in Nat /\ i # 0
                /\ proofs[i].counter \in Nat /\ proofs[i].at \in Nat /\ proofs[i].mark.time \in Nat
                /\ proofs[i].epoch \in 1..world.epochs
<1>1. proofs \in Seq(ProofRec)
  BY DEF HistoryInv
<1>2. \A i \in DOMAIN proofs : proofs[i] \in ProofRec
  BY <1>1
<1>3. \A i \in DOMAIN proofs :
        proofs[i].counter \in Nat /\ proofs[i].at \in Nat /\ proofs[i].mark.time \in Nat
  BY <1>2 DEF ProofRec
<1>4. Len(proofs) \in Nat /\ DOMAIN proofs = 1..Len(proofs)
  BY <1>1
<1> QED
  BY <1>3, <1>4 DEF HistoryInv

\* What prevB64 resolves to in a bundle is an earlier proof of the same epoch.
LEMMA PrevBefore ==
    ASSUME HistoryInv, NEW B \in SUBSET DOMAIN proofs, NEW k \in DOMAIN proofs,
           PrevIn(k, B) # 0
    PROVE  /\ PrevIn(k, B) \in B /\ PrevIn(k, B) \in 1..(k - 1)
           /\ proofs[PrevIn(k, B)].epoch = proofs[k].epoch
BY HistoryFacts DEF PrevIn, HistoryInv, BackInv

\* The set the walk of reconstruct.ts collects: nothing at a proof whose prevB64 does
\* not resolve, and otherwise what it resolves to with what that proof's walk collects.
LEMMA AncestorsWalk ==
    ASSUME HistoryInv, NEW B \in SUBSET DOMAIN proofs
    PROVE  \A k \in DOMAIN proofs :
             Ancestors(k, B) = IF PrevIn(k, B) = 0 THEN {}
                               ELSE {PrevIn(k, B)} \cup Ancestors(PrevIn(k, B), B)
<1> DEFINE N == Len(proofs)
           Up(f) == [k \in 0..N |-> IF k = 0 \/ PrevIn(k, B) = 0 THEN {}
                                    ELSE {PrevIn(k, B)} \cup f[PrevIn(k, B)]]
           Closed(S) == \A x \in S : PrevIn(x, B) # 0 => PrevIn(x, B) \in S
           Reach(q) == {a \in B : \A S \in SUBSET B : q \in S /\ Closed(S) => a \in S}
           w == [k \in 0..N |-> IF k = 0 \/ PrevIn(k, B) = 0 THEN {} ELSE Reach(PrevIn(k, B))]
<1>1. \A k \in DOMAIN proofs : PrevIn(k, B) # 0 => PrevIn(k, B) \in B
  BY DEF PrevIn
<1>2. N \in Nat /\ DOMAIN proofs = 1..N /\ 0 \notin B
  BY HistoryFacts
<1>3. \A q \in B : Reach(q) = IF PrevIn(q, B) = 0 THEN {q} ELSE {q} \cup Reach(PrevIn(q, B))
  <2> SUFFICES ASSUME NEW q \in B
               PROVE  Reach(q) = IF PrevIn(q, B) = 0 THEN {q} ELSE {q} \cup Reach(PrevIn(q, B))
    OBVIOUS
  <2>1. q \in Reach(q)
    OBVIOUS
  <2>2. CASE PrevIn(q, B) = 0
    <3>1. {q} \in SUBSET B /\ q \in {q} /\ Closed({q})
      BY <2>2
    <3> QED
      BY <2>1, <2>2, <3>1
  <2>3. CASE PrevIn(q, B) # 0
    <3>1. ASSUME NEW a \in Reach(PrevIn(q, B)) PROVE a \in Reach(q)
      BY <2>3, <3>1
    <3>2. ASSUME NEW a \in Reach(q), a # q PROVE a \in Reach(PrevIn(q, B))
      <4> SUFFICES ASSUME NEW S \in SUBSET B, PrevIn(q, B) \in S, Closed(S)
                   PROVE  a \in S
        BY <3>2
      <4>1. S \cup {q} \in SUBSET B /\ q \in S \cup {q} /\ Closed(S \cup {q})
        OBVIOUS
      <4> QED
        BY <3>2, <4>1
    <3> QED
      BY <2>1, <2>3, <3>1, <3>2
  <2> QED
    BY <2>2, <2>3
<1> HIDE DEF Reach
<1>4. w = Up(w)
  <2> SUFFICES ASSUME NEW k \in 0..N, k # 0, PrevIn(k, B) # 0
               PROVE  Reach(PrevIn(k, B)) = {PrevIn(k, B)} \cup w[PrevIn(k, B)]
    OBVIOUS
  <2>1. PrevIn(k, B) \in B /\ PrevIn(k, B) \in 0..N /\ PrevIn(k, B) # 0
    BY <1>1, <1>2
  <2> QED
    BY <1>3, <2>1
<1> HIDE DEF w
<1> DEFINE up == CHOOSE f : f = Up(f)
<1>5. up = Up(up)
  BY <1>4
<1>6. \A k : Ancestors(k, B) = up[k]
  BY DEF Ancestors
<1> HIDE DEF up
<1>7. \A k \in 0..N : up[k] = IF k = 0 \/ PrevIn(k, B) = 0 THEN {}
                              ELSE {PrevIn(k, B)} \cup up[PrevIn(k, B)]
  BY <1>5
<1>8. \A k \in DOMAIN proofs : k \in 0..N /\ k # 0
  BY <1>2
<1> QED
  BY <1>6, <1>7, <1>8

\* AncestorsBefore: what a proof hangs from by hash links is in the bundle, of the same
\* epoch, and was committed before it.
LEMMA AncestorsBefore ==
    ASSUME HistoryInv, NEW B \in SUBSET DOMAIN proofs, NEW k \in DOMAIN proofs,
           NEW a \in Ancestors(k, B)
    PROVE  a \in B /\ a < k /\ proofs[a].epoch = proofs[k].epoch
<1> DEFINE Bad == {m \in DOMAIN proofs :
                     \E x \in Ancestors(m, B) :
                        ~(x \in B /\ x < m /\ proofs[x].epoch = proofs[m].epoch)}
<1>1. Bad = {}
  <2> SUFFICES ASSUME Bad # {} PROVE FALSE
    OBVIOUS
  <2>1. Bad \in SUBSET Nat
    BY HistoryFacts
  <2>2. PICK m \in Bad : \A j \in Bad : m <= j
    BY <2>1, LeastMember
  <2>3. PICK x \in Ancestors(m, B) : ~(x \in B /\ x < m /\ proofs[x].epoch = proofs[m].epoch)
    BY <2>2
  <2> DEFINE q == PrevIn(m, B)
  <2>4. m \in DOMAIN proofs /\ m \in Nat
    BY <2>1, <2>2
  <2>5. q # 0 /\ (x = q \/ x \in Ancestors(q, B))
    BY <2>3, <2>4, AncestorsWalk
  <2>6. q \in B /\ q \in Nat /\ q < m /\ proofs[q].epoch = proofs[m].epoch
    BY <2>4, <2>5, PrevBefore
  <2>7. x \in Ancestors(q, B)
    BY <2>3, <2>5, <2>6
  <2>8. q \in DOMAIN proofs /\ q \notin Bad
    BY <2>1, <2>2, <2>4, <2>6
  <2>9. x \in B /\ x < q /\ proofs[x].epoch = proofs[q].epoch
    BY <2>7, <2>8
  <2>10. x \in Nat
    BY <2>9, HistoryFacts
  <2> QED
    BY <2>3, <2>4, <2>6, <2>9, <2>10
<1> QED
  BY <1>1

\* CounterBefore: with counter discipline the counters of an epoch are the order of its commits.
LEMMA CounterBefore ==
    ASSUME HistoryInv, world.disciplined, NEW i \in DOMAIN proofs, NEW j \in DOMAIN proofs,
           proofs[i].epoch = proofs[j].epoch, CounterBelow(i, j)
    PROVE  i < j
<1>1. CountInv(proofs) /\ i \in Nat /\ j \in Nat
      /\ proofs[i].counter \in Nat /\ proofs[j].counter \in Nat
  BY HistoryFacts DEF HistoryInv
<1>2. proofs[i].counter < proofs[j].counter
  BY DEF CounterBelow
<1>3. i # j /\ ~(j < i)
  BY <1>1, <1>2 DEF CountInv
<1> QED
  BY <1>1, <1>3

-----------------------------------------------------------------------------
(* The epoch links.                                                        *)

\* EdgeBefore: the proof an epochLink names was committed before the one that carries it,
\* which is the first of its epoch.
LEMMA EdgeBefore ==
    ASSUME HistoryInv, NEW B \in SUBSET DOMAIN proofs, NEW d \in HardEdges(B)
    PROVE  /\ d.pred \in B /\ d.via \in B /\ d.pred < d.via
           /\ \A j \in DOMAIN proofs : proofs[j].epoch = proofs[d.via].epoch => d.via <= j
<1>1. PICK i \in B : proofs[i].link \in B /\ d = [pred |-> proofs[i].link, via |-> i]
  BY DEF HardEdges
<1>2. d.pred = proofs[i].link /\ d.via = i
  BY <1>1
<1>3. i \in DOMAIN proofs /\ proofs[i].link \in DOMAIN proofs /\ proofs[i].link # 0
  BY <1>1, HistoryFacts
<1>4. proofs[i].link < i /\ \A j \in 1..(i - 1) : proofs[j].epoch # proofs[i].epoch
  BY <1>3, HistoryFacts DEF HistoryInv, BackInv
<1>5. \A j \in DOMAIN proofs : proofs[j].epoch = proofs[i].epoch => i <= j
  BY <1>3, <1>4, HistoryFacts
<1> QED
  BY <1>1, <1>2, <1>4, <1>5

\* A set of epochs that the edges, and those out of x, do not leave holds what x leads to.
LEMMA PathClosed ==
    ASSUME NEW B, NEW S \in SUBSET (1..world.epochs), NEW x, NEW y, <<x, y>> \in EpochPaths(B),
           \A d \in HardEdges(B) :
              proofs[d.pred].epoch \in S \cup {x} => proofs[d.via].epoch \in S
    PROVE  y \in S
<1>1. \A d \in EpochEdges(B) : d[1] \in S \cup {x} => d[2] \in S
  BY DEF EpochEdges
<1> QED
  BY <1>1 DEF EpochPaths

\* PathBefore: every proof of an epoch that edges lead to follows some proof of the epoch
\* they lead from.
LEMMA PathBefore ==
    ASSUME HistoryInv, NEW B \in SUBSET DOMAIN proofs, NEW x, NEW y, <<x, y>> \in EpochPaths(B)
    PROVE  \A j \in OfEpoch(y) : \E i \in OfEpoch(x) : i < j
<1> DEFINE S == {e \in 1..world.epochs : \A j \in OfEpoch(e) : \E i \in OfEpoch(x) : i < j}
<1>1. ASSUME NEW d \in HardEdges(B), proofs[d.pred].epoch \in S \cup {x}
      PROVE  proofs[d.via].epoch \in S
  <2>1. /\ d.pred \in DOMAIN proofs /\ d.via \in DOMAIN proofs /\ d.pred < d.via
        /\ \A j \in DOMAIN proofs : proofs[j].epoch = proofs[d.via].epoch => d.via <= j
    BY <1>1, EdgeBefore
  <2>2. \E i \in OfEpoch(x) : i <= d.pred
    <3>1. CASE proofs[d.pred].epoch = x
      BY <2>1, <3>1, HistoryFacts DEF OfEpoch
    <3>2. CASE proofs[d.pred].epoch \in S
      <4>1. d.pred \in OfEpoch(proofs[d.pred].epoch)
        BY <2>1 DEF OfEpoch
      <4>2. PICK i \in OfEpoch(x) : i < d.pred
        BY <3>2, <4>1
      <4> QED
        BY <2>1, <4>2, HistoryFacts DEF OfEpoch
    <3> QED
      BY <1>1, <3>1, <3>2
  <2>3. PICK i \in OfEpoch(x) : i <= d.pred
    BY <2>2
  <2>4. \A j \in OfEpoch(proofs[d.via].epoch) : i < j
    BY <2>1, <2>3, HistoryFacts DEF OfEpoch
  <2> QED
    BY <2>1, <2>4, HistoryFacts
<1>2. S \in SUBSET (1..world.epochs)
  OBVIOUS
<1>3. y \in S
  <2> HIDE DEF S
  <2> QED
    BY <1>1, <1>2, PathClosed
<1> QED
  BY <1>3

\* LeadsBefore: what is at or before the proof a first edge names precedes every proof of
\* an epoch that this edge, or edges after it, lead to.
LEMMA LeadsBefore ==
    ASSUME HistoryInv, NEW B \in SUBSET DOMAIN proofs, NEW a \in B, NEW b \in B,
           NEW d \in HardEdges(B), a <= d.pred,
           \/ proofs[d.via].epoch = proofs[b].epoch
           \/ <<proofs[d.via].epoch, proofs[b].epoch>> \in EpochPaths(B)
    PROVE  a < b
<1>1. /\ d.pred \in DOMAIN proofs /\ d.via \in DOMAIN proofs /\ d.pred < d.via
      /\ \A j \in DOMAIN proofs : proofs[j].epoch = proofs[d.via].epoch => d.via <= j
  BY EdgeBefore
<1>2. a \in Nat /\ b \in Nat /\ d.pred \in Nat /\ d.via \in Nat /\ b \in DOMAIN proofs
  BY <1>1, HistoryFacts
<1>3. CASE proofs[d.via].epoch = proofs[b].epoch
  BY <1>1, <1>2, <1>3
<1>4. CASE <<proofs[d.via].epoch, proofs[b].epoch>> \in EpochPaths(B)
  <2>1. b \in OfEpoch(proofs[b].epoch)
    BY <1>2 DEF OfEpoch
  <2>2. PICK i \in OfEpoch(proofs[d.via].epoch) : i < b
    BY <1>4, <2>1, PathBefore
  <2>3. i \in DOMAIN proofs /\ i \in Nat /\ d.via <= i
    BY <1>1, <2>2, HistoryFacts DEF OfEpoch
  <2> QED
    BY <1>1, <1>2, <2>2, <2>3
<1> QED
  BY <1>3, <1>4

-----------------------------------------------------------------------------
(* order.ts: what compare answers by hash links and by counters.           *)

\* CoverBefore: a covered proof is at or before the referenced one, by hash links
\* always, by counters under discipline.
LEMMA CoverBefore ==
    ASSUME HistoryInv, NEW B \in SUBSET DOMAIN proofs, NEW a \in B, NEW p \in B,
           proofs[p].epoch = proofs[a].epoch,
           \/ CoverTier(a, p, B) = "hash-linked"
           \/ CoverTier(a, p, B) # "none" /\ world.disciplined
    PROVE  a <= p
<1>1. a \in DOMAIN proofs /\ p \in DOMAIN proofs /\ a \in Nat /\ p \in Nat
  BY HistoryFacts
<1>2. CASE p = a
  BY <1>1, <1>2
<1>3. CASE a \in Ancestors(p, B)
  BY <1>1, <1>3, AncestorsBefore
<1>4. CASE CounterBelow(a, p) /\ world.disciplined
  BY <1>1, <1>4, CounterBefore
<1>5. CoverTier(a, p, B) = "hash-linked" => p = a \/ a \in Ancestors(p, B)
  BY DEF CoverTier
<1>6. CoverTier(a, p, B) # "none" => p = a \/ a \in Ancestors(p, B) \/ CounterBelow(a, p)
  BY DEF CoverTier
<1> QED
  BY <1>2, <1>3, <1>4, <1>5, <1>6

\* LineageBefore: a lineage answer is right, on the hash-linked tier always, on the
\* other one under counter discipline.
LEMMA LineageBefore ==
    ASSUME HistoryInv, NEW B \in SUBSET DOMAIN proofs, NEW a \in B, NEW b \in B,
           \/ LineageTier(a, b, B) = "hash-linked"
           \/ LineageTier(a, b, B) # "none" /\ world.disciplined
    PROVE  a < b
<1> DEFINE first == {d \in HardEdges(B) : proofs[d.pred].epoch = proofs[a].epoch}
           leads(d) == \/ proofs[d.via].epoch = proofs[b].epoch
                       \/ <<proofs[d.via].epoch, proofs[b].epoch>> \in EpochPaths(B)
           tiers == {CoverTier(a, d.pred, B) : d \in {x \in first : leads(x)}}
<1>1. LineageTier(a, b, B) = IF "hash-linked" \in tiers THEN "hash-linked"
                             ELSE IF "assumption-dependent" \in tiers
                                  THEN "assumption-dependent" ELSE "none"
  BY DEF LineageTier
<1>2. \E t \in tiers : t = "hash-linked" \/ (t # "none" /\ world.disciplined)
  <2> HIDE DEF tiers
  <2>1. LineageTier(a, b, B) = "hash-linked" => "hash-linked" \in tiers
    BY <1>1
  <2>2. LineageTier(a, b, B) # "none"
           => "hash-linked" \in tiers \/ "assumption-dependent" \in tiers
    BY <1>1
  <2> QED
    BY <2>1, <2>2
<1>3. PICK d \in first : /\ leads(d)
                         /\ \/ CoverTier(a, d.pred, B) = "hash-linked"
                            \/ CoverTier(a, d.pred, B) # "none" /\ world.disciplined
  BY <1>2
<1>4. d \in HardEdges(B) /\ d.pred \in B /\ proofs[d.pred].epoch = proofs[a].epoch
  BY <1>3, EdgeBefore
<1>5. a <= d.pred
  BY <1>3, <1>4, CoverBefore
<1> QED
  BY <1>3, <1>4, <1>5, LeadsBefore

\* SamePartitionBefore: the same within one partition.
LEMMA SamePartitionBefore ==
    ASSUME HistoryInv, NEW B \in SUBSET DOMAIN proofs, NEW a \in B, NEW b \in B,
           proofs[a].epoch = proofs[b].epoch,
           \/ SamePartitionTier(a, b, B) = "hash-linked"
           \/ SamePartitionTier(a, b, B) # "none" /\ world.disciplined
    PROVE  a < b
<1>1. a \in DOMAIN proofs /\ b \in DOMAIN proofs
  OBVIOUS
<1>2. SamePartitionTier(a, b, B) = "hash-linked" => a \in Ancestors(b, B)
  BY DEF SamePartitionTier
<1>3. SamePartitionTier(a, b, B) # "none" => a \in Ancestors(b, B) \/ CounterBelow(a, b)
  BY DEF SamePartitionTier
<1> QED
  BY <1>1, <1>2, <1>3, AncestorsBefore, CounterBefore

\* CompareForward: compare says `before' only on the tier of BeforeTier.
LEMMA CompareForward ==
    ASSUME NEW a, NEW b, NEW B, Compare(a, b, B).relation = "before"
    PROVE  a # b /\ BeforeTier(a, b, B) # "none" /\ Compare(a, b, B).tier = BeforeTier(a, b, B)
<1> DEFINE f == BeforeTier(a, b, B)
           g == BeforeTier(b, a, B)
<1>1. Compare(a, b, B) = IF a = b THEN [relation |-> "same", tier |-> "none"]
                         ELSE IF f # "none" THEN [relation |-> "before", tier |-> f]
                         ELSE IF g # "none" THEN [relation |-> "after", tier |-> g]
                         ELSE [relation |-> "unordered", tier |-> "none"]
  BY DEF Compare
<1> HIDE DEF f, g
<1>2. a # b /\ f # "none" /\ Compare(a, b, B).tier = f
  BY <1>1
<1> QED
  BY <1>2 DEF f

\* AcrossSource: what the tier of a `before' between two epochs rests on.
LEMMA AcrossSource ==
    ASSUME NEW a, NEW b, NEW B, AcrossTier(a, b, B) # "none"
    PROVE  \/ LineageTier(a, b, B) # "none" /\ AcrossTier(a, b, B) = LineageTier(a, b, B)
           \/ AnchorPrecedes(a, b, B) /\ AcrossTier(a, b, B) = "assumption-dependent"
BY DEF AcrossTier

-----------------------------------------------------------------------------
(* HashLinkedHolds.                                                        *)

\* HashLinkedBefore: for every bundle of the history's proofs.
LEMMA HashLinkedBefore ==
    ASSUME HistoryInv, NEW B \in SUBSET DOMAIN proofs, NEW a \in B, NEW b \in B,
           Compare(a, b, B) = [relation |-> "before", tier |-> "hash-linked"]
    PROVE  a < b
<1>1. BeforeTier(a, b, B) = "hash-linked" /\ a # b
  BY CompareForward
<1>2. CASE proofs[a].epoch = proofs[b].epoch
  BY <1>1, <1>2, SamePartitionBefore DEF BeforeTier
<1>3. CASE proofs[a].epoch # proofs[b].epoch
  <2>1. AcrossTier(a, b, B) = "hash-linked"
    BY <1>1, <1>3 DEF BeforeTier
  <2>2. LineageTier(a, b, B) = "hash-linked"
    BY <2>1, AcrossSource
  <2> QED
    BY <2>2, LineageBefore
<1> QED
  BY <1>2, <1>3

\* HashLinkedIsOrder: an answer on the hash-linked tier is right about the history, for
\* every history and every bundle, whatever the recorders did with counters and anchors.
THEOREM HashLinkedIsOrder == Spec => []HashLinkedHolds
<1>1. ASSUME HistoryInv PROVE HashLinkedHolds
  <2>1. bundle \in SUBSET DOMAIN proofs
    BY <1>1, HistoryFacts
  <2> QED
    BY <1>1, <2>1, HashLinkedBefore, HistoryFacts DEF HashLinkedHolds
<1> QED
  BY <1>1, HistoryInvariant, PTL

-----------------------------------------------------------------------------
(* temporal.ts: the bounds.                                                *)

\* A bound shows the block of the proof it was taken from.
LEMMA BoundFields ==
    ASSUME NEW f, NEW r
    PROVE  /\ Bound(f, r).src = f /\ Bound(f, r).rank = r
           /\ Bound(f, r).chain = proofs[f].mark.chain
           /\ Bound(f, r).time = proofs[f].mark.time
           /\ proofs[f].mark.chain # "base" => Bound(f, r).number = proofs[f].mark.time
BY DEF Bound

\* AnchorLowerSource: a not-before of an anchor comes from an anchor of the same epoch that
\* is no later, by hash links always, by counters under discipline.
LEMMA AnchorLowerSource ==
    ASSUME HistoryInv, NEW B \in SUBSET DOMAIN proofs, NEW m \in B, NEW b \in LowerAnchors(m, B)
    PROVE  \E f \in B : /\ b = Bound(f, b.rank)
                        /\ proofs[f].mark.chain = "eth"
                        /\ b.rank > 0 \/ world.disciplined => f <= m
<1> DEFINE above == Ancestors(m, B) \cup {m}
<1>1. PICK a \in Marked(m, "eth", B) :
        (a \in above \/ CounterBelow(a, m)) /\ b = Bound(a, IF a \in above THEN 1 ELSE 0)
  BY DEF LowerAnchors
<1>2. a \in B /\ proofs[a].epoch = proofs[m].epoch /\ proofs[a].mark.chain = "eth"
  BY <1>1 DEF Marked, Members
<1>3. a \in DOMAIN proofs /\ m \in DOMAIN proofs /\ a \in Nat /\ m \in Nat
  BY <1>2, HistoryFacts
<1>4. b.rank = IF a \in above THEN 1 ELSE 0
  BY <1>1, BoundFields
<1>5. ASSUME b.rank > 0 \/ world.disciplined PROVE a <= m
  <2>1. CASE a \in above
    BY <1>3, <2>1, AncestorsBefore
  <2>2. CASE a \notin above
    BY <1>1, <1>2, <1>3, <1>4, <1>5, <2>2, CounterBefore
  <2> QED
    BY <2>1, <2>2
<1> QED
  BY <1>1, <1>2, <1>4, <1>5

\* FloorLowerSource: the same of the Base floors.
LEMMA FloorLowerSource ==
    ASSUME HistoryInv, NEW B \in SUBSET DOMAIN proofs, NEW m \in B, NEW b \in LowerFloors(m, B)
    PROVE  \E f \in Marked(m, "base", B) :
                        /\ b = Bound(f, b.rank)
                        /\ b.rank > 0 \/ world.disciplined => f <= m
<1> DEFINE own   == {f \in Marked(m, "base", B) : f = m}
           chain == LatestFloor(Marked(m, "base", B) \cap Ancestors(m, B)) \ own
           count == LatestFloor(CounterFloors(m, B)) \ (own \cup chain)
<1>1. \/ \E f \in own : b = Bound(f, 2)
      \/ \E f \in chain : b = Bound(f, 1)
      \/ \E f \in count : b = Bound(f, 0)
  BY DEF LowerFloors
<1>2. m \in DOMAIN proofs /\ \A f \in Marked(m, "base", B) :
        f \in B /\ f \in DOMAIN proofs /\ f \in Nat /\ proofs[f].epoch = proofs[m].epoch
  BY HistoryFacts DEF Marked, Members
<1>3. m \in Nat
  BY <1>2, HistoryFacts
<1>4. CASE \E f \in own : b = Bound(f, 2)
  BY <1>3, <1>4, BoundFields
<1>5. CASE \E f \in chain : b = Bound(f, 1)
  <2>1. PICK f \in chain : b = Bound(f, 1)
    BY <1>5
  <2>2. f \in Marked(m, "base", B) /\ f \in Ancestors(m, B)
    BY <2>1 DEF LatestFloor
  <2>3. f <= m /\ b.rank = 1
    BY <1>2, <1>3, <2>1, <2>2, AncestorsBefore, BoundFields
  <2> QED
    BY <2>1, <2>2, <2>3
<1>6. CASE \E f \in count : b = Bound(f, 0)
  <2>1. PICK f \in count : b = Bound(f, 0)
    BY <1>6
  <2>2. f \in Marked(m, "base", B) /\ CounterBelow(f, m)
    BY <2>1 DEF LatestFloor, CounterFloors
  <2>3. b.rank = 0
    BY <2>1, BoundFields
  <2>4. world.disciplined => f <= m
    BY <1>2, <1>3, <2>2, CounterBefore
  <2> QED
    BY <2>1, <2>2, <2>3, <2>4
<1> QED
  BY <1>1, <1>4, <1>5, <1>6

\* UpperSource: a not-after comes from an anchor of the same epoch that is later.
LEMMA UpperSource ==
    ASSUME HistoryInv, NEW B \in SUBSET DOMAIN proofs, NEW m \in B, NEW b \in UpperAnchors(m, B)
    PROVE  \E f \in B : /\ b = Bound(f, b.rank)
                        /\ proofs[f].mark.chain = "eth"
                        /\ b.rank > 0 \/ world.disciplined => m < f
<1> DEFINE below == {x \in Marked(m, "eth", B) : m \in Ancestors(x, B)}
<1>1. PICK a \in Marked(m, "eth", B) :
        (a \in below \/ CounterBelow(m, a)) /\ b = Bound(a, IF a \in below THEN 1 ELSE 0)
  BY DEF UpperAnchors
<1>2. a \in B /\ proofs[a].epoch = proofs[m].epoch /\ proofs[a].mark.chain = "eth"
  BY <1>1 DEF Marked, Members
<1>3. a \in DOMAIN proofs /\ m \in DOMAIN proofs
  BY <1>2
<1>4. b.rank = IF a \in below THEN 1 ELSE 0
  BY <1>1, BoundFields
<1>5. ASSUME b.rank > 0 \/ world.disciplined PROVE m < a
  <2>1. CASE a \in below
    BY <1>3, <2>1, AncestorsBefore
  <2>2. CASE a \notin below
    BY <1>1, <1>2, <1>3, <1>4, <1>5, <2>2, CounterBefore
  <2> QED
    BY <2>1, <2>2
<1> QED
  BY <1>1, <1>2, <1>4, <1>5

\* An earlier or equal place in the history is an earlier or equal time, and a block named
\* by then is no later.
LEMMA TimesOrdered ==
    ASSUME HistoryInv, NEW i \in DOMAIN proofs, NEW j \in DOMAIN proofs, i <= j
    PROVE  /\ proofs[i].at <= proofs[j].at
           /\ proofs[i].mark.time <= proofs[j].at
           /\ world.fresh /\ proofs[j].mark.chain # "none" => proofs[i].at <= proofs[j].mark.time
<1>1. /\ i \in Nat /\ j \in Nat /\ proofs[i].at \in Nat /\ proofs[j].at \in Nat
      /\ proofs[i].mark.time \in Nat /\ proofs[j].mark.time \in Nat
  BY HistoryFacts
<1>2. /\ i < j => proofs[i].at <= proofs[j].at
      /\ proofs[i].mark.time <= proofs[i].at
      /\ world.fresh /\ proofs[j].mark.chain # "none" => proofs[j].mark.time = proofs[j].at
  BY DEF HistoryInv, TimeInv
<1> QED
  BY <1>1, <1>2

\* LowerBoundRight: a not-before is no later than the commit.
LEMMA LowerBoundRight ==
    ASSUME HistoryInv, NEW B \in SUBSET DOMAIN proofs, NEW m \in B,
           NEW b \in LowerAnchors(m, B) \cup LowerFloors(m, B)
    PROVE  b.time \in Nat /\ (b.rank > 0 \/ world.disciplined => b.time <= proofs[m].at)
<1>1. PICK f \in B : b = Bound(f, b.rank) /\ (b.rank > 0 \/ world.disciplined => f <= m)
  <2>1. CASE b \in LowerAnchors(m, B)
    BY <2>1, AnchorLowerSource
  <2>2. CASE b \in LowerFloors(m, B)
    <3>1. PICK f \in Marked(m, "base", B) :
            b = Bound(f, b.rank) /\ (b.rank > 0 \/ world.disciplined => f <= m)
      BY <2>2, FloorLowerSource
    <3> QED
      BY <3>1 DEF Marked, Members
  <2> QED
    BY <2>1, <2>2
<1>2. b.time = proofs[f].mark.time
  BY <1>1, BoundFields
<1>3. f \in DOMAIN proofs /\ m \in DOMAIN proofs /\ proofs[f].mark.time \in Nat
  BY HistoryFacts
<1> QED
  BY <1>1, <1>2, <1>3, TimesOrdered

\* UpperBoundRight: a not-after's anchor was committed after the proof, and where anchors
\* are fresh its block is no earlier than the commit.
LEMMA UpperBoundRight ==
    ASSUME HistoryInv, NEW B \in SUBSET DOMAIN proofs, NEW m \in B, NEW b \in UpperAnchors(m, B)
    PROVE  /\ b.time \in Nat /\ b.chain = "eth" /\ b.number = b.time
           /\ b.rank > 0 \/ world.disciplined =>
                m < b.src /\ (world.fresh => proofs[m].at <= b.time)
<1>1. PICK f \in B : /\ b = Bound(f, b.rank)
                     /\ proofs[f].mark.chain = "eth"
                     /\ b.rank > 0 \/ world.disciplined => m < f
  BY UpperSource
<1>2. b.time = proofs[f].mark.time /\ b.src = f /\ b.chain = "eth" /\ b.number = b.time
  BY <1>1, BoundFields
<1>3. /\ f \in DOMAIN proofs /\ m \in DOMAIN proofs /\ proofs[f].mark.time \in Nat
      /\ f \in Nat /\ m \in Nat
  BY HistoryFacts
<1>4. m < f => m <= f
  BY <1>3
<1> QED
  BY <1>1, <1>2, <1>3, <1>4, TimesOrdered

\* selectBounds invents nothing.
LEMMA Selected == \A kind, S : SelectBounds(kind, S) \subseteq S
BY DEF SelectBounds

\* BoundsAreRight: every not-before and not-after the audit puts on a proof is right about
\* the history, under the assumptions its evidence names and for histories of any length.
THEOREM BoundsAreRight == Spec => []BoundsHold
<1>1. ASSUME HistoryInv PROVE BoundsHold
  <2> SUFFICES ASSUME NEW m \in bundle
               PROVE  /\ \A b \in LowerBounds(m, bundle) :
                           b.rank > 0 \/ world.disciplined => b.time <= proofs[m].at
                      /\ \A b \in UpperBounds(m, bundle) :
                           b.rank > 0 \/ world.disciplined =>
                              m < b.src /\ (world.fresh => proofs[m].at <= b.time)
    BY DEF BoundsHold
  <2>1. bundle \in SUBSET DOMAIN proofs
    BY <1>1, HistoryFacts
  <2>2. LowerBounds(m, bundle) \subseteq LowerAnchors(m, bundle) \cup LowerFloors(m, bundle)
    BY Selected DEF LowerBounds
  <2>3. UpperBounds(m, bundle) \subseteq UpperAnchors(m, bundle)
    BY Selected DEF UpperBounds
  <2>4. \A b \in LowerBounds(m, bundle) :
           b.rank > 0 \/ world.disciplined => b.time <= proofs[m].at
    BY <1>1, <2>1, <2>2, LowerBoundRight
  <2>5. \A b \in UpperBounds(m, bundle) :
           b.rank > 0 \/ world.disciplined =>
              m < b.src /\ (world.fresh => proofs[m].at <= b.time)
    BY <1>1, <2>1, <2>3, UpperBoundRight
  <2> QED
    BY <2>4, <2>5
<1> QED
  BY <1>1, HistoryInvariant, PTL

-----------------------------------------------------------------------------
(* Order by anchors, and the epoch pairs.                                  *)

\* BoundsSeparate: with honest recorders, a not-after below a not-before is an order.
LEMMA BoundsSeparate ==
    ASSUME HistoryInv, Honest, NEW B \in SUBSET DOMAIN proofs, NEW a \in B, NEW b \in B,
           NEW u \in UpperAnchors(a, B), NEW l \in LowerAnchors(b, B) \cup LowerFloors(b, B),
           u.time < l.time
    PROVE  a < b
<1>1. u.time \in Nat /\ proofs[a].at <= u.time
  BY UpperBoundRight DEF Honest
<1>2. l.time \in Nat /\ l.time <= proofs[b].at
  BY LowerBoundRight DEF Honest
<1>3. /\ a \in DOMAIN proofs /\ b \in DOMAIN proofs /\ a \in Nat /\ b \in Nat
      /\ proofs[a].at \in Nat /\ proofs[b].at \in Nat
  BY HistoryFacts
<1>4. b <= a => proofs[b].at <= proofs[a].at
  BY <1>3, TimesOrdered
<1> QED
  BY <1>1, <1>2, <1>3, <1>4

\* AnchorsBefore: with honest recorders, what the anchors say of two proofs is right.
LEMMA AnchorsBefore ==
    ASSUME HistoryInv, Honest, NEW B \in SUBSET DOMAIN proofs, NEW a \in B, NEW b \in B,
           AnchorPrecedes(a, b, B)
    PROVE  a < b
<1>1. PICK u \in UpperBounds(a, B), l \in LowerBounds(b, B) :
         ~IsFloorBound(u) /\ ~IsFloorBound(l) /\ BoundsStrictlyOrdered(u, l)
  BY DEF AnchorPrecedes
<1>2. u \in UpperAnchors(a, B) /\ l \in LowerAnchors(b, B) \cup LowerFloors(b, B)
  BY Selected DEF UpperBounds, LowerBounds
<1>3. l \notin LowerFloors(b, B)
  <2> SUFFICES ASSUME l \in LowerFloors(b, B) PROVE FALSE
    OBVIOUS
  <2>1. PICK f \in Marked(b, "base", B) : l = Bound(f, l.rank)
    BY FloorLowerSource
  <2>2. l.chain = "base"
    BY <2>1, BoundFields DEF Marked
  <2> QED
    BY <1>1, <2>2 DEF IsFloorBound
<1>4. l.number = l.time
  <2>1. PICK f \in B : l = Bound(f, l.rank) /\ proofs[f].mark.chain = "eth"
    BY <1>2, <1>3, AnchorLowerSource
  <2> QED
    BY <2>1, BoundFields
<1>5. u.number = u.time
  BY <1>2, UpperBoundRight
<1> QED
  BY <1>1, <1>2, <1>4, <1>5, BoundsSeparate DEF BoundsStrictlyOrdered

\* HonestBefore: for every bundle of the history's proofs.
LEMMA HonestBefore ==
    ASSUME HistoryInv, Honest, NEW B \in SUBSET DOMAIN proofs, NEW a \in B, NEW b \in B,
           Compare(a, b, B).relation = "before"
    PROVE  a < b
<1>1. BeforeTier(a, b, B) # "none" /\ a # b /\ world.disciplined
  BY CompareForward DEF Honest
<1>2. CASE proofs[a].epoch = proofs[b].epoch
  BY <1>1, <1>2, SamePartitionBefore DEF BeforeTier
<1>3. CASE proofs[a].epoch # proofs[b].epoch
  <2>1. AcrossTier(a, b, B) # "none"
    BY <1>1, <1>3 DEF BeforeTier
  <2>2. LineageTier(a, b, B) # "none" \/ AnchorPrecedes(a, b, B)
    BY <2>1, AcrossSource
  <2> QED
    BY <1>1, <2>2, LineageBefore, AnchorsBefore
<1> QED
  BY <1>2, <1>3

\* AnswersAreOrder: where the recorders keep to what the weaker tier names, every `before'
\* of compare is right about the history.
THEOREM AnswersAreOrder == Spec => []AssumptionsSuffice
<1>1. ASSUME HistoryInv PROVE AssumptionsSuffice
  <2>1. bundle \in SUBSET DOMAIN proofs
    BY <1>1, HistoryFacts
  <2> QED
    BY <1>1, <2>1, HonestBefore, HistoryFacts DEF AssumptionsSuffice
<1> QED
  BY <1>1, HistoryInvariant, PTL

\* CoveredBefore: the covered parts of an epoch pair that anchors order are separated in
\* time, and so in the history.
LEMMA CoveredBefore ==
    ASSUME HistoryInv, Honest, NEW B \in SUBSET DOMAIN proofs, NEW p \in AnchorOrderedPairs(B),
           NEW i \in UpperCovered(p[1], B), NEW j \in LowerCovered(p[2], B)
    PROVE  /\ i \in B /\ j \in B /\ proofs[i].epoch = p[1] /\ proofs[j].epoch = p[2]
           /\ \E u \in UpperBounds(i, B), l \in AnchorLower(j, B) : u.time < l.time
           /\ i < j
<1>1. /\ i \in Members(p[1], B) /\ j \in Members(p[2], B)
      /\ UpperBounds(i, B) # {} /\ AnchorLower(j, B) # {}
  BY DEF UpperCovered, LowerCovered
<1>2. i \in B /\ j \in B /\ proofs[i].epoch = p[1] /\ proofs[j].epoch = p[2]
  BY <1>1 DEF Members
<1>3. PICK u \in UpperBounds(i, B), l \in AnchorLower(j, B) : TRUE
  BY <1>1
<1>4. u.time \in UpperTimes(p[1], B) /\ l.time \in LowerTimes(p[2], B)
  BY <1>1, <1>3 DEF UpperTimes, LowerTimes
<1>5. EndsBy(p[1], l.time, B)
  BY <1>4 DEF AnchorOrderedPairs
<1>6. u.time < l.time
  BY <1>4, <1>5 DEF EndsBy
<1>7. u \in UpperAnchors(i, B) /\ l \in LowerAnchors(j, B)
  BY Selected DEF UpperBounds, AnchorLower
<1>8. i < j
  BY <1>2, <1>6, <1>7, BoundsSeparate
<1> QED
  BY <1>2, <1>3, <1>6, <1>8

\* PairsAreOrder: an epoch pair the audit orders, by lineage or by anchors, is so ordered
\* in the history.
THEOREM PairsAreOrder == Spec => []PairsHold
<1>1. ASSUME HistoryInv PROVE PairsHold
  <2>1. bundle \in SUBSET DOMAIN proofs
    BY <1>1, HistoryFacts
  <2>2. ASSUME NEW p \in OrderedPairs(bundle)
        PROVE  \A j \in OfEpoch(p[2]) : \E i \in OfEpoch(p[1]) : i < j
    <3>1. p \in EpochPaths(bundle) /\ p = <<p[1], p[2]>>
      BY DEF OrderedPairs, EpochPaths
    <3> QED
      BY <1>1, <2>1, <3>1, PathBefore
  <2>3. ASSUME Honest, NEW p \in AnchorOrderedPairs(bundle),
               NEW i \in UpperCovered(p[1], bundle), NEW j \in LowerCovered(p[2], bundle)
        PROVE  i < j
    BY <1>1, <2>1, <2>3, CoveredBefore
  <2> QED
    BY <2>2, <2>3 DEF PairsHold
<1> QED
  BY <1>1, HistoryInvariant, PTL

\* PairsAreCarried: where the later epoch signs no Base floor, compare answers `before' for
\* every covered pair of an epoch pair that the audit orders by anchors.
THEOREM PairsAreCarried == Spec => []PairsCarried
<1>1. ASSUME HistoryInv PROVE PairsCarried
  <2> SUFFICES ASSUME Honest, NEW p \in AnchorOrderedPairs(bundle),
                      \A k \in Members(p[2], bundle) : proofs[k].mark.chain # "base",
                      NEW i \in UpperCovered(p[1], bundle), NEW j \in LowerCovered(p[2], bundle)
               PROVE  Compare(i, j, bundle).relation = "before"
    BY DEF PairsCarried
  <2>1. bundle \in SUBSET DOMAIN proofs /\ world.disciplined
    BY <1>1, HistoryFacts DEF Honest
  <2>2. /\ i \in bundle /\ j \in bundle /\ proofs[i].epoch = p[1] /\ proofs[j].epoch = p[2]
        /\ i < j
    BY <1>1, <2>1, CoveredBefore
  <2>3. PICK u \in UpperBounds(i, bundle), l \in AnchorLower(j, bundle) : u.time < l.time
    BY <1>1, <2>1, CoveredBefore
  <2>4. i \in Nat /\ j \in Nat /\ i # j /\ ~(j < i) /\ p[1] # p[2]
    BY <1>1, <2>1, <2>2, HistoryFacts DEF AnchorOrderedPairs
  <2>5. l \in LowerBounds(j, bundle)
    <3>1. Marked(j, "base", bundle) = {}
      BY <2>2 DEF Marked, Members
    <3>2. LowerFloors(j, bundle) = {}
      BY <3>1, <1>1, <2>1, <2>2, FloorLowerSource
    <3> QED
      BY <2>3, <3>2 DEF LowerBounds, AnchorLower
  <2>6. ~IsFloorBound(u) /\ u.number = u.time
    <3>1. u \in UpperAnchors(i, bundle)
      BY <2>3, Selected DEF UpperBounds
    <3> QED
      BY <1>1, <2>1, <2>2, <3>1, UpperBoundRight DEF IsFloorBound
  <2>7. ~IsFloorBound(l) /\ l.number = l.time
    <3>1. l \in LowerAnchors(j, bundle)
      BY <2>3, Selected DEF AnchorLower
    <3>2. PICK f \in bundle : l = Bound(f, l.rank) /\ proofs[f].mark.chain = "eth"
      BY <1>1, <2>1, <2>2, <3>1, AnchorLowerSource
    <3> QED
      BY <3>2, BoundFields DEF IsFloorBound
  <2>8. AnchorPrecedes(i, j, bundle)
    BY <2>3, <2>5, <2>6, <2>7 DEF AnchorPrecedes, BoundsStrictlyOrdered
  <2>9. ~AnchorPrecedes(j, i, bundle) /\ LineageTier(j, i, bundle) = "none"
    BY <1>1, <2>1, <2>2, <2>4, AnchorsBefore, LineageBefore
  <2>10. AcrossTier(i, j, bundle) # "none"
    BY <2>8, <2>9 DEF AcrossTier
  <2>11. BeforeTier(i, j, bundle) # "none"
    BY <2>2, <2>4, <2>10 DEF BeforeTier
  <2>12. Compare(i, j, bundle) = [relation |-> "before", tier |-> BeforeTier(i, j, bundle)]
    BY <2>4, <2>11 DEF Compare
  <2> QED
    BY <2>12
<1> QED
  BY <1>1, HistoryInvariant, PTL
=============================================================================
