--------------------------- MODULE CeilingProofs ---------------------------
(***************************************************************************)
(* Proofs about CeilingWriter.tla, for any number of records, epochs,      *)
(* crashes, reorgs, lost calls and publishes: the transactions that leave  *)
(* are the saved ones; batches fly alone; what is called final, after its  *)
(* block's hash was read, is on the chain; and, unless the process ends    *)
(* inside reorged(), no record that was read is lost, no sidecar shows a   *)
(* batch that was dropped, and a close is answered only when the roots of  *)
(* its epoch were found in blocks and no other transaction took their      *)
(* place.  The last rests on the nonces: a batch that stands shares its    *)
(* nonce with no transaction that was or may still be sent (NonceInv).     *)
(***************************************************************************)
EXTENDS CeilingWriter, FiniteSetTheorems, SequenceTheorems, WellFoundedInduction, NaturalsInduction, TLAPS

-----------------------------------------------------------------------------
(* The inductive invariants.                                               *)

Steps == {"ingest", "saveCursor", "genesis", "publish", "sendGenesis", "sendPublish", "batch",
          "takeItems", "saveChain", "sidecars", "send", "markPending", "closes", "poll", "requeue"}

\* The parent, the requests and their transactions.
ParentType ==
    /\ budget \in [crash: Nat, reorg: Nat, loss: Nat, publish: Nat, settle: Nat]
    /\ current \in Epoch
    /\ committed \subseteq Record /\ queue \in Seq(committed)
    /\ ask \in [Kind \cup {"close"} -> [Epoch -> {None} \cup SUBSET Record]]

PassType ==
    /\ sent \in [Kind -> [Epoch -> {None} \cup Nat]] /\ done \in [Kind -> [Epoch -> BOOLEAN]]
    /\ flying \in [Kind -> BOOLEAN]
    /\ closed \subseteq Epoch

\* The queue as read.  What is in memory of the backlog is on disk.
ReadType ==
    /\ cursor \in 0..Len(queue) /\ cursorFile \in 0..cursor
    /\ backlog \in Seq(committed) /\ backlogFile = backlog

\* The batches; the one in hand is there when it is used.
BatchType ==
    /\ batches \in Seq(Batch)
    /\ \A b \in DOMAIN batches : /\ batches[b].items \subseteq committed
                                 /\ \A r \in batches[b].items : EpochOf[r] = batches[b].epoch
    /\ {lastPayload, lastPayloadFile, at} \subseteq 0..Len(batches)
    /\ pc \in Steps
    /\ pc \in {"takeItems", "saveChain", "sidecars", "markPending", "requeue"} => at \in DOMAIN batches
    /\ pc = "send" => Active # {}
    /\ pc = "markPending" => at \in Active
    /\ sidecar \in [Record -> {None, "pending", "included", "safe", "finalized"}]

BaseType ==
    /\ blocks \in Seq([tx: Tx \cup {NoTx}, fork: {0, 1}])
    /\ mempool \in SUBSET Tx /\ IsFiniteSet(mempool)
    /\ safe \in Nat /\ final \in Nat /\ final <= safe /\ safe <= Len(blocks)

TypeInv == ParentType /\ PassType /\ ReadType /\ BatchType /\ BaseType

\* A transaction that left is the saved one.
Saved(tx) ==
    \/ tx.kind = "batch" /\ tx.of \in DOMAIN batches /\ tx.nonce = batches[tx.of].nonce
    \/ tx.kind \in Kind /\ tx.of \in Epoch /\ tx.nonce = sent[tx.kind][tx.of]

\* Requests come in the order of the epochs, so the one that was sent is the oldest.
AskInv ==
    /\ \A k \in Kind, e \in Epoch : ask[k][e] # None => e <= current
    /\ \A k \in Kind, e \in Epoch : sent[k][e] # None => ask[k][e] # None
    /\ \A k \in Kind, e \in Epoch, f \in Epoch :
         sent[k][e] # None /\ ~done[k][e] /\ ask[k][f] # None /\ ~done[k][f] => e <= f
    /\ pc = "sendGenesis" => \E e \in Epoch : sent["genesis"][e] # None /\ ~done["genesis"][e]
    /\ pc = "sendPublish" => \E e \in Epoch : sent["publish"][e] # None /\ ~done["publish"][e]

SentInv ==
    /\ \A tx \in mempool : Saved(tx)
    /\ \A h \in DOMAIN blocks : blocks[h].tx # NoTx => Saved(blocks[h].tx)

\* What the passes of this tick found is still so when the batch is cut.
AloneInv ==
    /\ \A b, c \in Active : b = c
    /\ Active # {} => \A k \in Kind : Watched(k) = {}
    /\ pc \in {"publish", "sendPublish", "batch"} /\ ~flying["genesis"] => Watched("genesis") = {}
    /\ pc = "batch" /\ ~flying["publish"] => Watched("publish") = {}

\* The block a batch was found in is there as it was, or without its transaction.
Placed(b) ==
    /\ batches[b].height \in DOMAIN blocks /\ batches[b].fork = 0
    /\ blocks[batches[b].height].fork = 0 => blocks[batches[b].height].tx = BatchTx(b)

ChainInv ==
    /\ \A h \in DOMAIN blocks : blocks[h].fork = 1 <=> blocks[h].tx = NoTx
    /\ \A b \in DOMAIN batches : batches[b].state \in {"included", "safe", "finalized"} => Placed(b)
    /\ \A b \in DOMAIN batches : batches[b].state \in {"safe", "finalized"} /\ ~batches[b].unread =>
         batches[b].height <= safe /\ blocks[batches[b].height].fork = 0

\* The transactions that anybody can see, mined and not.
Full == {h \in DOMAIN blocks : blocks[h].tx # NoTx}
Seen == mempool \cup {blocks[h].tx : h \in Full}

\* A batch that stands and was found in a block.
Out(b) == Live(b) /\ \/ batches[b].state \in {"included", "safe", "finalized"}
                     \/ batches[b].height # 0

\* Base mines in the order of the nonces.
MinedInOrder ==
    \A h \in Full : /\ blocks[h].tx.nonce < MinedCount
                    /\ \A j \in Full : j < h => blocks[j].tx.nonce < blocks[h].tx.nonce

\* The transaction of a batch that stands is not pushed out: no other one has its nonce, and
\* none that may still be sent.
NonceInv ==
    /\ MinedInOrder
    /\ \A b \in DOMAIN batches : Out(b) => BatchTx(b) \in Seen
    /\ \A b \in DOMAIN batches : Live(b) =>
         /\ \A tx \in Seen : tx.nonce = batches[b].nonce => tx = BatchTx(b)
         /\ \A c \in DOMAIN batches : Live(c) /\ batches[c].nonce = batches[b].nonce => c = b
         /\ \A k \in Kind, e \in Epoch :
               sent[k][e] # None /\ ~done[k][e] => sent[k][e] # batches[b].nonce

\* A record that was read is queued, in a batch that stands, or about to be queued again.
Held(x) == \/ x \in Range(backlog) \cup Anchored
           \/ pc = "requeue" /\ x \in batches[at].items

KeepInv ==
    /\ \A i \in 1..cursor : Held(queue[i])
    /\ pc = "takeItems" => Live(at)

\* The process does not end between the two writes of reorged(), the dropped batch and the backlog.
EndsInReorged == Restart /\ pc = "requeue"
RequeueHappens == [][~EndsInReorged]_vars

\* A block that a sidecar shows is one of a batch that stands, unless it is about to go.
ShownInv ==
    \A r \in Record : sidecar[r] \in {"included", "safe", "finalized"} =>
        \/ Found(r)
        \/ /\ pc \in {"requeue", "sidecars"} /\ batches[at].state = "dropped"
           /\ r \in batches[at].items

\* The process does not end inside reorged() at all: batch, backlog and sidecars are all written.
CutShort == Restart /\ (pc = "requeue" \/ (pc = "sidecars" /\ batches[at].state = "dropped"))
ReorgedIsWhole == [][~CutShort]_vars

-----------------------------------------------------------------------------
(* The operators of the model.                                             *)

\* A nonempty set of naturals has a least member.
LEMMA LeastMember ==
    ASSUME NEW S \in SUBSET Nat, S # {}
    PROVE  \E m \in S : \A j \in S : m <= j
<1> DEFINE R == {ss \in Nat \X Nat : ss[1] < ss[2]}
<1>1. IsWellFoundedOn(R, Nat)
  BY NatLessThanWellFounded DEF OpToRel
<1> HIDE DEF R
<1>2. PICK m \in S : \A y \in S : ~ (<<y, m>> \in R)
  BY <1>1, WFMin
<1>3. \A y \in S : y < m => <<y, m>> \in R
  BY DEF R
<1>4. \A y \in S : y \in Nat /\ m \in Nat
  OBVIOUS
<1>5. \A y \in S : ~(y < m)
  BY <1>2, <1>3
<1>6. \A y \in S : m <= y
  BY <1>4, <1>5
<1> QED
  BY <1>6

\* What an append adds.
LEMMA AppendRange ==
    ASSUME NEW T, NEW s \in Seq(T), NEW x \in T
    PROVE  Append(s, x) \in Seq(T) /\ Range(Append(s, x)) = Range(s) \cup {x}
<1>1. /\ Len(s) \in Nat /\ DOMAIN s = 1..Len(s) /\ Append(s, x) \in Seq(T)
      /\ DOMAIN Append(s, x) = 1..(Len(s) + 1) /\ Append(s, x)[Len(s) + 1] = x
      /\ \A i \in 1..Len(s) : Append(s, x)[i] = s[i]
  BY AppendProperties, LenProperties
<1> QED
  BY <1>1 DEF Range

\* WithoutIs: filtering a sequence leaves its elements that are not in S.
LEMMA WithoutIs ==
    ASSUME NEW T, NEW s \in Seq(T), NEW S
    PROVE  Without(s, S) \in Seq(T) /\ Range(Without(s, S)) = Range(s) \ S
<1> DEFINE Body(f, i) == IF i = 0 THEN <<>>
                         ELSE IF s[i] \in S THEN f[i - 1] ELSE Append(f[i - 1], s[i])
           Made(f, n) == f = [i \in 0..n |-> Body(f, i)]
           bad == {n \in Nat : ~ \E f : Made(f, n)}
<1>1. bad = {}
  <2> SUFFICES ASSUME bad # {} PROVE FALSE
    OBVIOUS
  <2>1. PICK m \in bad : \A j \in bad : m <= j
    <3>1. bad \in SUBSET Nat
      OBVIOUS
    <3> HIDE DEF bad
    <3> QED
      BY <3>1, LeastMember
  <2>2. m \in Nat /\ ~ \E f : Made(f, m)
    OBVIOUS
  <2>3. CASE m = 0
    <3> DEFINE g == [i \in 0..0 |-> <<>>]
    <3>1. Made(g, 0)
      OBVIOUS
    <3> QED
      BY <2>2, <2>3, <3>1
  <2>4. CASE m > 0
    <3>1. m - 1 \in Nat /\ m - 1 \notin bad
      <4>1. m - 1 \in Nat /\ ~(m <= m - 1)
        BY <2>2, <2>4
      <4> HIDE DEF bad
      <4> QED
        BY <2>1, <4>1
    <3>2. PICK f : Made(f, m - 1)
      BY <3>1
    <3> DEFINE g == [i \in 0..m |-> IF i < m THEN f[i] ELSE Body(f, m)]
    <3>3. ASSUME NEW i \in 0..m PROVE g[i] = Body(g, i)
      <4>1. CASE i < m
        <5>1. i \in 0..(m - 1) /\ i \in Nat
          BY <2>2, <4>1
        <5>2. f[i] = Body(f, i)
          <6>1. f[i] = [k \in 0..(m - 1) |-> Body(f, k)][i]
            BY <3>2
          <6> QED
            BY <5>1, <6>1
        <5>3. i # 0 => i - 1 \in 0..m /\ i - 1 < m
          BY <2>2, <4>1, <5>1
        <5>4. i # 0 => g[i - 1] = f[i - 1]
          BY <5>3
        <5>5. Body(g, i) = Body(f, i)
          BY <5>4
        <5> QED
          BY <4>1, <5>2, <5>5
      <4>2. CASE i = m
        <5>1. i - 1 \in 0..m /\ i - 1 < m
          BY <2>2, <2>4, <4>2
        <5>2. g[i - 1] = f[i - 1] /\ g[i] = Body(f, m)
          BY <2>2, <4>2, <5>1
        <5> QED
          BY <4>2, <5>2
      <4> QED
        BY <2>2, <4>1, <4>2
    <3>4. Made(g, m)
      <4>1. g = [i \in 0..m |-> g[i]]
        OBVIOUS
      <4> HIDE DEF g, Body
      <4> QED
        BY <3>3, <4>1
    <3> QED
      BY <2>2, <3>4
  <2> QED
    BY <2>2, <2>3, <2>4
<1>2. Len(s) \in Nat /\ DOMAIN s = 1..Len(s) /\ \A i \in 1..Len(s) : s[i] \in T
  BY LenProperties, ElementOfSeq
<1> DEFINE kept == CHOOSE f : f = [i \in 0..Len(s) |-> Body(f, i)]
<1>3. Made(kept, Len(s))
  BY <1>1, <1>2
<1>4. Without(s, S) = kept[Len(s)]
  BY DEF Without
<1> HIDE DEF kept
<1>5. \A i \in 0..Len(s) : kept[i] = Body(kept, i)
  <2>1. \A i \in 0..Len(s) : kept[i] = [k \in 0..Len(s) |-> Body(kept, k)][i]
    BY <1>3
  <2> QED
    BY <2>1
<1> HIDE DEF Made, bad
<1> DEFINE Good(i) == kept[i] \in Seq(T) /\ Range(kept[i]) = {s[j] : j \in 1..i} \ S
           wrong == {i \in 0..Len(s) : ~Good(i)}
<1>6. wrong = {}
  <2> SUFFICES ASSUME wrong # {} PROVE FALSE
    OBVIOUS
  <2>1. PICK m \in wrong : \A j \in wrong : m <= j
    <3>1. wrong \in SUBSET Nat
      BY <1>2
    <3> HIDE DEF wrong
    <3> QED
      BY <3>1, LeastMember
  <2>2. m \in 0..Len(s) /\ m \in Nat /\ ~Good(m)
    BY <1>2
  <2>3. CASE m = 0
    <3>1. kept[m] = <<>>
      BY <1>5, <2>2, <2>3
    <3>2. <<>> \in Seq(T) /\ Range(<<>>) = {} /\ {s[j] : j \in 1..0} = {}
      BY EmptySeq DEF Range
    <3> QED
      BY <2>2, <2>3, <3>1, <3>2
  <2>4. CASE m > 0
    <3>1. m - 1 \in 0..Len(s) /\ m - 1 \in Nat /\ m \in 1..Len(s)
      BY <1>2, <2>2, <2>4
    <3>2. Good(m - 1)
      <4>1. ~(m <= m - 1)
        BY <2>2
      <4> QED
        BY <2>1, <3>1, <4>1
    <3>3. kept[m] = IF s[m] \in S THEN kept[m - 1] ELSE Append(kept[m - 1], s[m])
      BY <1>5, <2>2, <2>4
    <3>4. {s[j] : j \in 1..m} = {s[j] : j \in 1..(m - 1)} \cup {s[m]}
      <4>1. 1..m = 1..(m - 1) \cup {m}
        BY <2>2, <2>4
      <4> QED
        BY <4>1
    <3>5. s[m] \in T
      BY <1>2, <3>1
    <3>6. CASE s[m] \in S
      BY <2>2, <3>2, <3>3, <3>4, <3>6
    <3>7. CASE s[m] \notin S
      <4> DEFINE k == kept[m - 1]
      <4>1. k \in Seq(T) /\ Range(k) = {s[j] : j \in 1..(m - 1)} \ S
        BY <3>2
      <4> HIDE DEF k
      <4>2. Append(k, s[m]) \in Seq(T) /\ Range(Append(k, s[m])) = Range(k) \cup {s[m]}
        BY <3>5, <4>1, AppendRange
      <4>3. kept[m] = Append(k, s[m])
        BY <3>3, <3>7 DEF k
      <4> QED
        BY <2>2, <3>4, <3>7, <4>1, <4>2, <4>3
    <3> QED
      BY <3>6, <3>7
  <2> QED
    BY <2>2, <2>3, <2>4
<1>7. Good(Len(s))
  <2>1. Len(s) \in 0..Len(s)
    BY <1>2
  <2> QED
    BY <1>6, <2>1
<1>8. {s[j] : j \in 1..Len(s)} = Range(s)
  BY <1>2 DEF Range
<1> QED
  BY <1>4, <1>7, <1>8

\* The records of a dropped batch, as a sequence.
LEMMA SetToSeqIs ==
    ASSUME NEW S, IsFiniteSet(S)
    PROVE  SetToSeq(S) \in Seq(S) /\ Range(SetToSeq(S)) = S
<1> DEFINE n == Cardinality(S)
           q == SetToSeq(S)
<1>1. n \in Nat /\ ExistsBijection(1..n, S)
  BY FS_CardinalityType
<1>2. PICK f : f \in Bijection(1..n, S)
  BY <1>1 DEF ExistsBijection
<1>3. f \in [1..n -> S] /\ IsInjective(f)
  BY <1>2 DEF Bijection, Injection
<1>4. q \in [1..n -> S] /\ IsInjective(q)
  BY <1>3 DEF SetToSeq
<1> HIDE DEF q, n
<1>5. q \in Injection(1..n, S)
  BY <1>4 DEF Injection
<1>6. IsFiniteSet(1..n) /\ Cardinality(1..n) = n
  BY <1>1, FS_Interval
<1>7. q \in Surjection(1..n, S)
  BY <1>5, <1>6, FS_Injection DEF n
<1>8. q \in Seq(S)
  BY <1>1, <1>4, IsASeq
<1>9. Range(q) = S
  BY <1>4, <1>7 DEF Range, Surjection
<1> QED
  BY <1>8, <1>9 DEF q

\* The account's transaction count is a number.
LEMMA MinedCountType == ASSUME BaseType PROVE MinedCount \in Nat
<1>1. Len(blocks) \in Nat /\ DOMAIN blocks = 1..Len(blocks)
  BY LenProperties DEF BaseType
<1>2. IsFiniteSet(1..Len(blocks))
  BY <1>1, FS_Interval
<1>3. IsFiniteSet({h \in DOMAIN blocks : blocks[h].tx # NoTx})
  BY <1>1, <1>2, FS_Subset
<1> QED
  BY <1>3, FS_CardinalityType DEF MinedCount

\* NextNonceType: there is a next nonce, for any mempool with or without gaps in it, and
\* neither a mined transaction nor one in the mempool has it.
LEMMA NextNonceType ==
    ASSUME BaseType
    PROVE  /\ NextNonce \in Nat /\ MinedCount <= NextNonce
           /\ \A t \in mempool : t.nonce # NextNonce
<1> DEFINE a == MinedCount
           c == Cardinality(mempool)
           used == {t.nonce : t \in mempool}
           free == {n \in a..(a + c) : n \notin used}
<1>1. a \in Nat
  BY MinedCountType
<1>2. c \in Nat /\ IsFiniteSet(mempool) /\ \A t \in mempool : t.nonce \in Nat
  BY FS_CardinalityType DEF BaseType, Tx
<1>3. free # {}
  <2> SUFFICES ASSUME free = {} PROVE FALSE
    OBVIOUS
  <2> DEFINE pick == [n \in a..(a + c) |-> CHOOSE t \in mempool : t.nonce = n]
  <2>1. \A n \in a..(a + c) : \E t \in mempool : t.nonce = n
    OBVIOUS
  <2>2. \A n \in a..(a + c) : pick[n] \in mempool /\ pick[n].nonce = n
    BY <2>1
  <2>3. pick \in [a..(a + c) -> mempool]
    BY <2>2
  <2>4. IsFiniteSet(a..(a + c)) /\ Cardinality(a..(a + c)) = c + 1
    <3> HIDE DEF a, c
    <3> DEFINE z == a + c
    <3>1. a \in Int /\ z \in Int /\ ~(a > z) /\ z - a + 1 = c + 1
      BY <1>1, <1>2
    <3> HIDE DEF z
    <3>2. IsFiniteSet(a..z) /\ Cardinality(a..z) = IF a > z THEN 0 ELSE z - a + 1
      BY <3>1, FS_Interval
    <3>3. IsFiniteSet(a..z) /\ Cardinality(a..z) = c + 1
      BY <3>1, <3>2
    <3> QED
      BY <3>3 DEF z
  <2>5. Cardinality(mempool) < Cardinality(a..(a + c))
    BY <1>2, <2>4
  <2> HIDE DEF pick, a
  <2>6. \E x, y \in a..(a + c) : x # y /\ pick[x] = pick[y]
    <3> DEFINE D == a..(a + c)
    <3>1. IsFiniteSet(D) /\ Cardinality(mempool) < Cardinality(D) /\ pick \in [D -> mempool]
      BY <2>3, <2>4, <2>5
    <3> HIDE DEF D, c
    <3>2. \E x, y \in D : x # y /\ pick[x] = pick[y]
      BY <1>2, <3>1, FS_PigeonHole
    <3> QED
      BY <3>2 DEF D
  <2> QED
    BY <2>2, <2>6
<1>4. PICK n \in free : \A j \in free : n <= j
  <2>1. free \in SUBSET Nat
    BY <1>1, <1>2
  <2> HIDE DEF free
  <2> QED
    BY <1>3, <2>1, LeastMember
<1>5. n \in a..(a + c) /\ \A t \in mempool : t.nonce # n
  BY <1>4
<1>6. ASSUME NEW k \in a..(n - 1) PROVE \E t \in mempool : t.nonce = k
  <2>1. k \in a..(a + c) /\ ~(n <= k)
    BY <1>1, <1>2, <1>5
  <2> QED
    BY <1>4, <2>1
<1>7. NextNonce \in a..(a + c) /\ \A t \in mempool : t.nonce # NextNonce
  BY <1>5, <1>6 DEF NextNonce
<1> QED
  BY <1>1, <1>2, <1>7

\* NextGroupIs: the group to cut is one of the backlog's.
LEMMA NextGroupIs ==
    ASSUME TypeInv, Due # {}
    PROVE  /\ NextGroup \in Epoch /\ Group(NextGroup) \subseteq committed
           /\ Group(NextGroup) \subseteq Record
           /\ \A r \in Group(NextGroup) : EpochOf[r] = NextGroup
<1>1. /\ backlog \in Seq(committed) /\ committed \subseteq Record
      /\ Range(backlog) \subseteq committed
  BY RangeOfSeq DEF TypeInv, ReadType, ParentType
<1>2. DOMAIN backlog = 1..Len(backlog) /\ Len(backlog) \in Nat
  BY <1>1, LenProperties
<1>3. Due \subseteq Groups
  BY DEF Due, ClosedGroup
<1>4. ASSUME NEW e \in Groups PROVE First(e) \in Nat
  <2> DEFINE I == {i \in DOMAIN backlog : EpochOf[backlog[i]] = e}
  <2>1. I # {} /\ I \in SUBSET Nat
    BY <1>2, <1>4 DEF Groups, Range
  <2>2. PICK m \in I : \A j \in I : m <= j
    <3> HIDE DEF I
    <3> QED
      BY <2>1, LeastMember
  <2>3. m \in DOMAIN backlog /\ EpochOf[backlog[m]] = e
    OBVIOUS
  <2>4. \A j \in 1..(m - 1) : j \in DOMAIN backlog /\ ~(m <= j)
    BY <1>2, <2>3
  <2>5. \A j \in 1..(m - 1) : EpochOf[backlog[j]] # e
    BY <2>2, <2>4
  <2>6. First(e) \in DOMAIN backlog
    BY <2>3, <2>5 DEF First
  <2> QED
    BY <1>2, <2>6
<1>5. PICK e \in Due : \A f \in Due : First(e) <= First(f)
  <2> DEFINE F == {First(f) : f \in Due}
  <2>1. F # {} /\ F \in SUBSET Nat
    BY <1>3, <1>4
  <2>2. PICK m \in F : \A j \in F : m <= j
    <3> HIDE DEF F
    <3> QED
      BY <2>1, LeastMember
  <2> QED
    BY <2>2
<1>6. NextGroup \in Due
  BY <1>5 DEF NextGroup
<1>7. \A r \in Record : EpochOf[r] \in Epoch
  BY RecordAssumption
<1> QED
  BY <1>1, <1>3, <1>6, <1>7 DEF Groups, Group

-----------------------------------------------------------------------------
(* Types.                                                                  *)

\* At first nothing is bound, read or sent.
LEMMA InitTypes == Init => TypeInv
<1> SUFFICES ASSUME Init PROVE TypeInv
  OBVIOUS
<1>1. 1 \in Epoch
  BY EpochsAssumption DEF Epoch
<1>2. ParentType
  <2>1. ask \in [Kind \cup {"close"} -> [Epoch -> {None} \cup SUBSET Record]]
    BY DEF Init
  <2> QED
    BY <1>1, <2>1, BudgetsAssumption, EmptySeq DEF Init, ParentType
<1>3. PassType /\ ReadType
  BY EmptySeq DEF Init, PassType, ReadType
<1>4. BatchType
  BY EmptySeq DEF Init, BatchType, Steps
<1>5. BaseType
  BY EmptySeq, FS_EmptySet DEF Init, BaseType
<1> QED
  BY <1>2, <1>3, <1>4, <1>5 DEF TypeInv

\* The parts of the type invariant give the one that the run checks.
LEMMA TypesGiven == TypeInv => TypeOK
<1> SUFFICES ASSUME TypeInv PROVE TypeOK
  OBVIOUS
<1>1. /\ cursor \in 0..Len(queue) /\ cursorFile \in 0..cursor /\ Len(queue) \in Nat
      /\ backlog \in Seq(committed) /\ backlogFile = backlog
  BY LenProperties DEF TypeInv, ParentType, ReadType
<1>2. {cursor, cursorFile} \subseteq 0..Len(queue) /\ {backlog, backlogFile} \subseteq Seq(committed)
  BY <1>1
<1> QED
  BY <1>2 DEF TypeInv, TypeOK, ParentType, PassType, BatchType, BaseType

\* What may go wrong is counted down.
LEMMA SpendType ==
    ASSUME ParentType, NEW w \in {"crash", "reorg", "loss", "publish", "settle"}, Spend(w)
    PROVE  budget' \in [crash: Nat, reorg: Nat, loss: Nat, publish: Nat, settle: Nat]
<1>1. budget[w] \in Nat /\ budget[w] > 0
  BY DEF ParentType, Spend
<1>2. budget' = [budget EXCEPT ![w] = budget[w] - 1] /\ budget[w] - 1 \in Nat
  BY <1>1 DEF Spend
<1> QED
  BY <1>1, <1>2 DEF ParentType

\* The parent binds, enqueues and asks.
LEMMA ParentTypes == ASSUME TypeInv, [Next]_vars PROVE ParentType'
<1>1. /\ current \in Epoch /\ committed \subseteq Record /\ queue \in Seq(committed)
      /\ ask \in [Kind \cup {"close"} -> [Epoch -> {None} \cup SUBSET Record]]
      /\ budget \in [crash: Nat, reorg: Nat, loss: Nat, publish: Nat, settle: Nat] /\ ParentType
  BY DEF TypeInv, ParentType
<1>2. CASE UNCHANGED vars
  BY <1>1, <1>2 DEF vars, parent, ParentType
<1>3. CASE TickStep \/ TickError \/ Restart \/ Mine \/ Reorg \/ Settle
  <2>1. UNCHANGED parent
    BY <1>3 DEF TickStep, Ingest, SaveCursor, PassIdle, PassSign, PassSend, PassMined, PassWait,
        PassReplace, Cut, TakeItems, SaveChain, WriteSidecars, Send, MarkPending, Include, Wait,
        Replace, NoBatch, AnswerCloses, Promote, Drop, Requeue, PollDone, TickError, Restart,
        Mine, Reorg, Settle
  <2>2. budget' = budget \/ \E w \in {"crash", "reorg", "loss", "settle"} : Spend(w)
    BY <1>3 DEF TickStep, Ingest, SaveCursor, PassIdle, PassSign, PassSend, PassMined, PassWait,
        PassReplace, Cut, TakeItems, SaveChain, WriteSidecars, Send, MarkPending, Include, Wait,
        Replace, NoBatch, AnswerCloses, Promote, Drop, Requeue, PollDone, TickError, Restart,
        Mine, Reorg, Settle, Broadcast, Compared
  <2> QED
    BY <1>1, <2>1, <2>2, SpendType DEF ParentType, parent
<1>4. ASSUME NEW r \in Record, Commit(r) PROVE ParentType'
  <2>1. committed \subseteq committed' /\ committed' \subseteq Record
    BY <1>1, <1>4 DEF Commit
  <2>2. queue' \in Seq(committed')
    BY <1>1, <1>4, <2>1, SeqMonotonic DEF Commit
  <2> QED
    BY <1>1, <1>4, <2>1, <2>2 DEF Commit, ParentType
<1>5. ASSUME NEW r \in Record, Enqueue(r) PROVE ParentType'
  BY <1>1, <1>5, AppendProperties DEF Enqueue, ParentType
<1>6. ASSUME NEW k \in Kind \cup {"close"}, NEW e \in Epoch, Left(k, e)
      PROVE  ask' \in [Kind \cup {"close"} -> [Epoch -> {None} \cup SUBSET Record]]
  BY <1>1, <1>6 DEF Left
<1>7. CASE AskClose
  BY <1>1, <1>6, <1>7 DEF AskClose, ParentType
<1>8. CASE AskPublish
  BY <1>1, <1>6, <1>8, SpendType DEF AskPublish, ParentType, Kind
<1>9. CASE NextEpoch
  <2>1. current' \in Epoch
    BY <1>1, <1>9, EpochsAssumption DEF NextEpoch, Epoch
  <2> QED
    BY <1>1, <1>6, <1>9, <2>1 DEF NextEpoch, ParentType, Kind
<1> QED
  BY <1>2, <1>3, <1>4, <1>5, <1>7, <1>8, <1>9 DEF Next, ParentStep

\* The requests' transactions and results.
LEMMA PassTypes == ASSUME TypeInv, [Next]_vars PROVE PassType'
<1>1. /\ sent \in [Kind -> [Epoch -> {None} \cup Nat]] /\ done \in [Kind -> [Epoch -> BOOLEAN]]
      /\ flying \in [Kind -> BOOLEAN] /\ closed \subseteq Epoch
  BY DEF TypeInv, PassType
<1>2. ASSUME NEW k \in Kind, NEW b \in BOOLEAN, Returns(k, b) PROVE flying' \in [Kind -> BOOLEAN]
  BY <1>1, <1>2 DEF Returns
<1>3. CASE UNCHANGED vars \/ ParentStep \/ Mine \/ Reorg \/ Settle
  BY <1>1, <1>3 DEF vars, files, memory, ParentStep, Commit, Enqueue, AskClose, AskPublish,
      NextEpoch, Mine, Reorg, Settle, PassType
<1>4. CASE TickError \/ Restart \/ PollDone
  BY <1>1, <1>4 DEF TickError, Restart, PollDone, TickOver, files, PassType
<1>5. ASSUME NEW k \in Kind, PassIdle(k) \/ PassSend(k) \/ PassWait(k) \/ PassReplace(k)
      PROVE  PassType'
  <2>1. UNCHANGED files /\ \E b \in BOOLEAN : Returns(k, b)
    BY <1>5 DEF PassIdle, PassSend, PassWait, PassReplace
  <2> QED
    BY <1>1, <1>2, <2>1 DEF files, PassType
<1>6. ASSUME NEW k \in Kind, PassSign(k) PROVE PassType'
  <2>1. NextNonce \in Nat
    BY NextNonceType DEF TypeInv
  <2>2. PICK e \in Epoch : sent' = [sent EXCEPT ![k][e] = NextNonce]
    BY <1>6 DEF PassSign, Oldest, Unanswered
  <2>3. UNCHANGED <<done, flying, closed>>
    BY <1>6 DEF PassSign
  <2> QED
    BY <1>1, <2>1, <2>2, <2>3 DEF PassType
<1>7. ASSUME NEW k \in Kind, PassMined(k) PROVE PassType'
  <2>1. PICK e \in Epoch : done' = [done EXCEPT ![k][e] = TRUE]
    BY <1>7 DEF PassMined, Watched, Oldest, Unanswered
  <2>2. UNCHANGED <<sent, closed>> /\ flying' \in [Kind -> BOOLEAN]
    BY <1>2, <1>7 DEF PassMined
  <2> QED
    BY <1>1, <2>1, <2>2 DEF PassType
<1>8. CASE AnswerCloses
  BY <1>1, <1>8 DEF AnswerCloses, PassType
<1>9. CASE \/ Ingest \/ SaveCursor \/ Cut \/ TakeItems \/ SaveChain \/ WriteSidecars \/ Send
           \/ MarkPending \/ Include \/ Wait \/ Replace \/ NoBatch \/ Promote \/ Drop \/ Requeue
  <2>1. UNCHANGED <<sent, done, flying, closed>>
    BY <1>9 DEF Ingest, SaveCursor, Cut, TakeItems, SaveChain, WriteSidecars, Send, MarkPending,
        Include, Wait, Replace, NoBatch, Promote, Drop, Requeue, files
  <2> QED
    BY <1>1, <2>1 DEF PassType
<1> QED
  BY <1>3, <1>4, <1>5, <1>6, <1>7, <1>8, <1>9 DEF Next, TickStep

\* What ingest reads: the lines after the cursor that are neither queued nor anchored.
LEMMA NewLinesAre ==
    ASSUME TypeInv
    PROVE  /\ NewLines \in Seq(committed)
           /\ Range(NewLines) = {queue[i] : i \in (cursor + 1)..Len(queue)} \ (Range(backlog) \cup Anchored)
<1> DEFINE q == SubSeq(queue, cursor + 1, Len(queue))
<1>1. /\ queue \in Seq(committed) /\ Len(queue) \in Nat /\ cursor \in Nat
      /\ cursor <= Len(queue) /\ \A i \in 1..Len(queue) : queue[i] \in committed
  BY LenProperties, ElementOfSeq DEF TypeInv, ParentType, ReadType
<1>2. \A i \in (cursor + 1)..Len(queue) : queue[i] \in committed
  BY <1>1
<1>3. /\ q \in Seq(committed)
      /\ Len(q) = IF cursor + 1 <= Len(queue) THEN Len(queue) - (cursor + 1) + 1 ELSE 0
      /\ \A i \in 1..(Len(queue) - (cursor + 1) + 1) : q[i] = queue[cursor + 1 + i - 1]
  BY <1>1, <1>2, SubSeqProperties
<1>4. Len(q) = Len(queue) - cursor /\ \A i \in 1..Len(q) : q[i] = queue[cursor + i]
  <2> HIDE DEF q
  <2> QED
    BY <1>1, <1>3
<1> HIDE DEF q
<1>5. Range(q) = {queue[i] : i \in (cursor + 1)..Len(queue)}
  <2>1. Range(q) = {q[i] : i \in 1..Len(q)}
    BY <1>3, RangeEquality
  <2>2. \A i \in 1..Len(q) : cursor + i \in (cursor + 1)..Len(queue)
    BY <1>1, <1>4
  <2>3. ASSUME NEW i \in (cursor + 1)..Len(queue) PROVE i - cursor \in 1..Len(q) /\ cursor + (i - cursor) = i
    BY <1>1, <1>4
  <2> QED
    BY <1>4, <2>1, <2>2, <2>3
<1> DEFINE S == Range(backlog) \cup Anchored
<1>6. NewLines = Without(q, S)
  BY DEF NewLines, q
<1> HIDE DEF S
<1>7. NewLines \in Seq(committed) /\ Range(NewLines) = Range(q) \ S
  BY <1>3, <1>6, WithoutIs
<1> QED
  BY <1>5, <1>7 DEF S

\* The records of a batch are finitely many, and were bound.
LEMMA ItemsAre ==
    ASSUME TypeInv, NEW b \in DOMAIN batches
    PROVE  /\ batches[b] \in Batch /\ batches[b].items \subseteq committed
           /\ IsFiniteSet(batches[b].items)
           /\ SetToSeq(batches[b].items) \in Seq(committed)
           /\ Range(SetToSeq(batches[b].items)) = batches[b].items
<1>1. batches[b] \in Batch /\ batches[b].items \subseteq committed /\ committed \subseteq Record
  BY ElementOfSeq, LenProperties DEF TypeInv, BatchType, ParentType
<1>2. IsFiniteSet(batches[b].items)
  BY <1>1, FS_Subset, RecordAssumption
<1> DEFINE S == batches[b].items
<1>3. SetToSeq(S) \in Seq(S) /\ Range(SetToSeq(S)) = S
  <2> HIDE DEF S
  <2> QED
    BY <1>2, SetToSeqIs DEF S
<1>4. SetToSeq(S) \in Seq(committed)
  <2>1. S \subseteq committed
    BY <1>1
  <2> HIDE DEF S
  <2> QED
    BY <1>3, <2>1, SeqMonotonic
<1> QED
  BY <1>1, <1>2, <1>3, <1>4

\* The queue's cursor and the backlog, in memory and on disk.
LEMMA ReadTypes == ASSUME TypeInv, [Next]_vars PROVE ReadType'
<1>1. /\ cursor \in 0..Len(queue) /\ cursorFile \in 0..cursor /\ Len(queue) \in Nat
      /\ backlog \in Seq(committed) /\ backlogFile = backlog /\ queue \in Seq(committed)
      /\ committed \subseteq Record
  BY LenProperties DEF TypeInv, ParentType, ReadType
<1>2. CASE \/ UNCHANGED vars \/ AskClose \/ AskPublish \/ NextEpoch \/ Mine \/ Reorg \/ Settle \/ TickError
           \/ \E k \in Kind : \/ PassIdle(k) \/ PassSign(k) \/ PassSend(k) \/ PassMined(k)
                              \/ PassWait(k) \/ PassReplace(k)
  <2>1. UNCHANGED <<queue, committed, cursor, cursorFile, backlog, backlogFile>>
    BY <1>2 DEF vars, parent, files, memory, AskClose, AskPublish, NextEpoch, Mine, Reorg, Settle,
        TickError, PassIdle, PassSign, PassSend, PassMined, PassWait, PassReplace
  <2> QED
    BY <1>1, <2>1 DEF ReadType
<1>3. CASE \/ Cut \/ SaveChain \/ WriteSidecars \/ Send \/ MarkPending \/ Include \/ Wait \/ Replace
           \/ NoBatch \/ AnswerCloses \/ Promote \/ Drop \/ PollDone
  <2>1. UNCHANGED <<queue, committed, cursor, cursorFile, backlog, backlogFile>>
    BY <1>3 DEF parent, files, memory, Cut, SaveChain, WriteSidecars, Send, MarkPending, Include,
        Wait, Replace, NoBatch, AnswerCloses, Promote, Drop, PollDone
  <2> QED
    BY <1>1, <2>1 DEF ReadType
<1>4. ASSUME NEW r \in Record, Commit(r) PROVE ReadType'
  <2>1. UNCHANGED <<queue, cursor, cursorFile, backlog, backlogFile>> /\ committed \subseteq committed'
    BY <1>4 DEF Commit, files, memory
  <2>2. backlog \in Seq(committed')
    BY <1>1, <2>1, SeqMonotonic
  <2> QED
    BY <1>1, <2>1, <2>2 DEF ReadType
<1>5. ASSUME NEW r \in Record, Enqueue(r) PROVE ReadType'
  <2>1. UNCHANGED <<committed, cursor, cursorFile, backlog, backlogFile>> /\ queue' = Append(queue, r)
        /\ r \in committed
    BY <1>5 DEF Enqueue, files, memory
  <2>2. Len(queue') = Len(queue) + 1
    BY <1>1, <2>1, AppendProperties
  <2> QED
    BY <1>1, <2>1, <2>2 DEF ReadType
<1>6. CASE Ingest
  <2>1. UNCHANGED <<queue, committed, cursorFile>>
    BY <1>6 DEF Ingest, parent
  <2>2. CASE backlog' = backlog \o NewLines /\ backlogFile' = backlog' /\ cursor' = Len(queue)
    <3>1. backlog' \in Seq(committed)
      BY <1>1, <2>2, NewLinesAre, ConcatProperties
    <3> QED
      BY <1>1, <2>1, <2>2, <3>1 DEF ReadType
  <2>3. CASE UNCHANGED <<backlog, backlogFile, cursor>>
    BY <1>1, <2>1, <2>3 DEF ReadType
  <2> QED
    BY <1>6, <2>2, <2>3 DEF Ingest
<1>7. CASE SaveCursor
  BY <1>1, <1>7 DEF SaveCursor, parent, ReadType
<1>8. CASE TakeItems
  <2>1. Without(backlog, batches[at].items) \in Seq(committed)
    BY <1>1, WithoutIs
  <2> QED
    BY <1>1, <1>8, <2>1 DEF TakeItems, parent, ReadType
<1>9. CASE Requeue
  <2>1. Without(backlog, batches[at].items) \in Seq(committed)
    BY <1>1, WithoutIs
  <2>2. at \in DOMAIN batches
    BY <1>9 DEF Requeue, TypeInv, BatchType
  <2>3. SetToSeq(batches[at].items) \in Seq(committed)
    BY <2>2, ItemsAre
  <2>4. backlog' \in Seq(committed)
    BY <1>9, <2>1, <2>3, ConcatProperties DEF Requeue
  <2> QED
    BY <1>1, <1>9, <2>4 DEF Requeue, parent, ReadType
<1>10. CASE Restart
  BY <1>1, <1>10 DEF Restart, parent, files, ReadType
<1> QED
  BY <1>2, <1>3, <1>4, <1>5, <1>6, <1>7, <1>8, <1>9, <1>10 DEF Next, TickStep, ParentStep

\* A batch file is written again, with the same records.
LEMMA Rewritten ==
    ASSUME TypeInv, NEW b \in DOMAIN batches, NEW nb \in Batch,
           nb.items = batches[b].items, nb.epoch = batches[b].epoch, nb.nonce = batches[b].nonce,
           batches' = [batches EXCEPT ![b] = nb]
    PROVE  /\ batches' \in Seq(Batch) /\ Len(batches') = Len(batches)
           /\ DOMAIN batches' = DOMAIN batches
           /\ \A c \in DOMAIN batches : batches'[c] = IF c = b THEN nb ELSE batches[c]
           /\ \A c \in DOMAIN batches : /\ batches'[c].items = batches[c].items
                                        /\ batches'[c].epoch = batches[c].epoch
                                        /\ batches'[c].nonce = batches[c].nonce
<1>1. batches \in Seq(Batch) /\ DOMAIN batches = 1..Len(batches)
  BY LenProperties DEF TypeInv, BatchType
<1>2. /\ batches' \in Seq(Batch) /\ Len(batches') = Len(batches)
      /\ \A c \in 1..Len(batches) : batches'[c] = IF c = b THEN nb ELSE batches[c]
  BY <1>1, ExceptSeq
<1>3. DOMAIN batches' = 1..Len(batches')
  BY <1>2, LenProperties
<1> QED
  BY <1>1, <1>2, <1>3

\* The state of a batch changes.
LEMMA StateSet ==
    ASSUME TypeInv, NEW b \in DOMAIN batches,
           NEW x \in {"sending", "pending", "included", "safe", "finalized", "dropped"}
    PROVE  /\ [batches EXCEPT ![b].state = x] = [batches EXCEPT ![b] = [batches[b] EXCEPT !.state = x]]
           /\ [batches[b] EXCEPT !.state = x] \in Batch
           /\ [batches[b] EXCEPT !.state = x].state = x
           /\ \A f \in {"items", "epoch", "prev", "nonce", "height", "fork"} :
                 [batches[b] EXCEPT !.state = x][f] = batches[b][f]
<1>1. batches[b] \in Batch
  BY ItemsAre
<1>2. [batches EXCEPT ![b].state = x] = [batches EXCEPT ![b] = [batches[b] EXCEPT !.state = x]]
  OBVIOUS
<1> QED
  BY <1>1, <1>2 DEF Batch

\* A state is written, as the tick writes it.
LEMMA StateWritten ==
    ASSUME TypeInv, NEW b \in DOMAIN batches,
           NEW x \in {"sending", "pending", "included", "safe", "finalized", "dropped"},
           batches' = [batches EXCEPT ![b].state = x]
    PROVE  /\ batches' \in Seq(Batch) /\ Len(batches') = Len(batches)
           /\ DOMAIN batches' = DOMAIN batches
           /\ batches'[b].state = x
           /\ \A c \in DOMAIN batches : /\ c # b => batches'[c] = batches[c]
                                        /\ batches'[c].items = batches[c].items
                                        /\ batches'[c].epoch = batches[c].epoch
                                        /\ batches'[c].nonce = batches[c].nonce
                                        /\ batches'[c].height = batches[c].height
                                        /\ batches'[c].fork = batches[c].fork
<1> DEFINE nb == [batches[b] EXCEPT !.state = x]
<1>1. /\ batches' = [batches EXCEPT ![b] = nb] /\ nb \in Batch /\ nb.state = x
      /\ nb.items = batches[b].items /\ nb.epoch = batches[b].epoch /\ nb.nonce = batches[b].nonce
      /\ nb.height = batches[b].height /\ nb.fork = batches[b].fork
  BY StateSet
<1> HIDE DEF nb
<1>2. /\ batches' \in Seq(Batch) /\ Len(batches') = Len(batches)
      /\ DOMAIN batches' = DOMAIN batches
      /\ \A c \in DOMAIN batches : batches'[c] = IF c = b THEN nb ELSE batches[c]
  BY <1>1, Rewritten
<1> QED
  BY <1>1, <1>2

\* Include writes the block as well.
LEMMA Included ==
    ASSUME TypeInv, NEW b \in DOMAIN batches, Mined(BatchTx(b)), NEW h, h = Height(BatchTx(b)),
           batches' = [batches EXCEPT ![b].state = "included", ![b].height = h,
                                      ![b].fork = blocks[h].fork]
    PROVE  /\ h \in DOMAIN blocks /\ blocks[h].tx = BatchTx(b) /\ blocks[h].fork \in {0, 1}
           /\ batches' \in Seq(Batch) /\ Len(batches') = Len(batches)
           /\ DOMAIN batches' = DOMAIN batches
           /\ batches'[b].state = "included" /\ batches'[b].height = h
           /\ batches'[b].fork = blocks[h].fork
           /\ \A c \in DOMAIN batches : /\ c # b => batches'[c] = batches[c]
                                        /\ batches'[c].items = batches[c].items
                                        /\ batches'[c].epoch = batches[c].epoch
                                        /\ batches'[c].nonce = batches[c].nonce
<1>1. h \in DOMAIN blocks /\ blocks[h].tx = BatchTx(b)
  BY DEF Mined, Height
<1>2. blocks[h].fork \in {0, 1} /\ h \in Nat
  <2>1. blocks \in Seq([tx: Tx \cup {NoTx}, fork: {0, 1}]) /\ DOMAIN blocks = 1..Len(blocks) /\ Len(blocks) \in Nat
    BY LenProperties DEF TypeInv, BaseType
  <2>2. blocks[h] \in [tx: Tx \cup {NoTx}, fork: {0, 1}]
    BY <1>1, <2>1, ElementOfSeq
  <2> QED
    BY <1>1, <2>1, <2>2
<1> DEFINE nb == [batches[b] EXCEPT !.state = "included", !.height = h, !.fork = blocks[h].fork]
<1>3. batches[b] \in Batch
  BY ItemsAre
<1>4. batches' = [batches EXCEPT ![b] = nb]
  OBVIOUS
<1>5. /\ nb \in Batch /\ nb.state = "included" /\ nb.height = h /\ nb.fork = blocks[h].fork
      /\ nb.items = batches[b].items /\ nb.epoch = batches[b].epoch /\ nb.nonce = batches[b].nonce
  BY <1>2, <1>3 DEF Batch
<1> HIDE DEF nb
<1>6. /\ batches' \in Seq(Batch) /\ Len(batches') = Len(batches)
      /\ DOMAIN batches' = DOMAIN batches
      /\ \A c \in DOMAIN batches : batches'[c] = IF c = b THEN nb ELSE batches[c]
  BY <1>4, <1>5, Rewritten
<1> QED
  BY <1>1, <1>2, <1>5, <1>6

\* Promote writes whether the block's hash was read as well.
LEMMA Promoted ==
    ASSUME TypeInv, Promote
    PROVE  \E b \in DOMAIN batches, seen \in {"ours", "null"} :
              /\ batches[b].state \in {"included", "safe"} /\ Compared(b, seen)
              /\ Reached(b) \in {"safe", "finalized"} /\ batches[b].height <= safe
              /\ batches' \in Seq(Batch) /\ Len(batches') = Len(batches)
              /\ DOMAIN batches' = DOMAIN batches
              /\ batches'[b].state = Reached(b) /\ batches'[b].unread = (seen = "null")
              /\ \A c \in DOMAIN batches : /\ c # b => batches'[c] = batches[c]
                                           /\ batches'[c].items = batches[c].items
                                           /\ batches'[c].epoch = batches[c].epoch
                                           /\ batches'[c].nonce = batches[c].nonce
                                           /\ batches'[c].height = batches[c].height
                                           /\ batches'[c].fork = batches[c].fork
              /\ at' = b
<1>1. PICK b \in Open, seen \in {"ours", "null"} :
         /\ Compared(b, seen) /\ Reached(b) # batches[b].state
         /\ batches' = [batches EXCEPT ![b].state = Reached(b), ![b].unread = (seen = "null")]
         /\ at' = b
  BY DEF Promote
<1>2. b \in DOMAIN batches /\ batches[b].state \in {"included", "safe"} /\ batches[b] \in Batch
  BY ItemsAre DEF Open
<1>3. Reached(b) \in {"safe", "finalized"} /\ batches[b].height <= safe
  <2>1. batches[b].height <= final => batches[b].height <= safe
    BY <1>2 DEF Batch, TypeInv, BaseType
  <2> QED
    BY <1>1, <2>1 DEF Reached
<1> DEFINE unread == (seen = "null")
           nb == [batches[b] EXCEPT !.state = Reached(b), !.unread = unread]
<1>4. unread \in BOOLEAN
  OBVIOUS
<1>5. batches' = [batches EXCEPT ![b] = nb]
  BY <1>1
<1> HIDE DEF unread
<1>6. /\ nb \in Batch /\ nb.state = Reached(b) /\ nb.unread = unread
      /\ nb.items = batches[b].items /\ nb.epoch = batches[b].epoch /\ nb.nonce = batches[b].nonce
      /\ nb.height = batches[b].height /\ nb.fork = batches[b].fork
  BY <1>2, <1>3, <1>4 DEF Batch
<1> HIDE DEF nb
<1>7. /\ batches' \in Seq(Batch) /\ Len(batches') = Len(batches)
      /\ DOMAIN batches' = DOMAIN batches
      /\ \A c \in DOMAIN batches : batches'[c] = IF c = b THEN nb ELSE batches[c]
  BY <1>2, <1>5, <1>6, Rewritten
<1>8. batches'[b].unread = (seen = "null")
  BY <1>2, <1>6, <1>7 DEF unread
<1>9. \A c \in DOMAIN batches : /\ c # b => batches'[c] = batches[c]
                                /\ batches'[c].items = batches[c].items
                                /\ batches'[c].epoch = batches[c].epoch
                                /\ batches'[c].nonce = batches[c].nonce
                                /\ batches'[c].height = batches[c].height
                                /\ batches'[c].fork = batches[c].fork
  BY <1>6, <1>7
<1> QED
  BY <1>1, <1>2, <1>3, <1>6, <1>7, <1>8, <1>9

\* The batches, the one in hand and the sidecars.
LEMMA BatchTypes == ASSUME TypeInv, [Next]_vars PROVE BatchType'
<1>1. /\ batches \in Seq(Batch) /\ Len(batches) \in Nat /\ DOMAIN batches = 1..Len(batches)
      /\ \A b \in DOMAIN batches : /\ batches[b].items \subseteq committed
                                   /\ \A r \in batches[b].items : EpochOf[r] = batches[b].epoch
      /\ {lastPayload, lastPayloadFile, at} \subseteq 0..Len(batches) /\ pc \in Steps
      /\ pc \in {"takeItems", "saveChain", "sidecars", "markPending", "requeue"} => at \in DOMAIN batches
      /\ pc = "send" => Active # {}
      /\ pc = "markPending" => at \in Active
      /\ sidecar \in [Record -> {None, "pending", "included", "safe", "finalized"}]
      /\ committed \subseteq Record
  BY LenProperties DEF TypeInv, BatchType, ParentType
<1>2. CASE \/ UNCHANGED vars \/ (\E r \in Record : Commit(r) \/ Enqueue(r))
           \/ AskClose \/ AskPublish \/ NextEpoch \/ Mine \/ Reorg \/ Settle
  <2>1. /\ UNCHANGED <<batches, lastPayload, lastPayloadFile, at, pc, sidecar>>
        /\ committed \subseteq committed'
    BY <1>2 DEF vars, parent, files, memory, Commit, Enqueue, AskClose, AskPublish, NextEpoch, Mine,
        Reorg, Settle
  <2> QED
    BY <1>1, <2>1 DEF BatchType, Active
<1>3. CASE PollDone \/ TickError \/ Restart
  <2>1. /\ UNCHANGED <<batches, lastPayloadFile, sidecar, committed>> /\ at' = 0 /\ pc' = "ingest"
        /\ lastPayload' \in {lastPayload, lastPayloadFile}
    BY <1>3 DEF PollDone, TickError, Restart, TickOver, Goto, parent, files
  <2> QED
    BY <1>1, <2>1 DEF BatchType, Steps
<1>4. CASE \/ Ingest \/ SaveCursor \/ Wait \/ Replace \/ NoBatch \/ AnswerCloses
           \/ \E k \in Kind : \/ PassIdle(k) \/ PassSign(k) \/ PassSend(k) \/ PassMined(k)
                              \/ PassWait(k) \/ PassReplace(k)
  <2>1. /\ UNCHANGED <<batches, lastPayload, lastPayloadFile, at, sidecar, committed>>
        /\ pc' \in {"saveCursor", "genesis", "publish", "sendGenesis", "sendPublish", "batch", "closes", "poll"}
    BY <1>4 DEF Ingest, SaveCursor, Wait, Replace, NoBatch, AnswerCloses, PassIdle, PassSign, PassSend,
        PassMined, PassWait, PassReplace, Returns, AfterPass, Goto, parent, files
  <2> QED
    BY <1>1, <2>1 DEF BatchType, Steps
<1>5. CASE Cut
  <2> DEFINE nb == [items |-> Group(NextGroup), epoch |-> NextGroup, prev |-> lastPayload,
                    nonce |-> NextNonce, state |-> "sending", height |-> 0, fork |-> 0,
                  unread |-> FALSE]
  <2>1. Due # {} /\ NextNonce \in Nat
    BY <1>5, NextNonceType DEF Cut, CutNow, TypeInv
  <2>2. /\ NextGroup \in Epoch /\ Group(NextGroup) \subseteq committed
        /\ Group(NextGroup) \subseteq Record
        /\ \A r \in Group(NextGroup) : EpochOf[r] = NextGroup
    BY <2>1, NextGroupIs
  <2>3. nb \in Batch
    BY <1>1, <2>1, <2>2 DEF Batch
  <2>4. nb.items \subseteq committed /\ \A r \in nb.items : EpochOf[r] = nb.epoch
    BY <2>2
  <2>5. /\ batches' = Append(batches, nb) /\ at' = Len(batches') /\ pc' = "takeItems"
        /\ UNCHANGED <<lastPayload, lastPayloadFile, sidecar, committed>>
    BY <1>5 DEF Cut, Goto, parent
  <2> HIDE DEF nb
  <2>6. /\ batches' \in Seq(Batch) /\ Len(batches') = Len(batches) + 1
        /\ batches'[Len(batches) + 1] = nb /\ \A i \in 1..Len(batches) : batches'[i] = batches[i]
    BY <1>1, <2>3, <2>5, AppendProperties
  <2>7. DOMAIN batches' = 1..(Len(batches) + 1)
    BY <2>6, LenProperties
  <2>8. \A b \in DOMAIN batches' : /\ batches'[b].items \subseteq committed
                                   /\ \A r \in batches'[b].items : EpochOf[r] = batches'[b].epoch
    <3>1. \A b \in 1..(Len(batches) + 1) : b \in 1..Len(batches) \/ b = Len(batches) + 1
      BY <1>1
    <3> QED
      BY <1>1, <2>4, <2>6, <2>7, <3>1
  <2>9. {lastPayload, lastPayloadFile, at'} \subseteq 0..Len(batches') /\ at' \in DOMAIN batches'
    BY <1>1, <2>5, <2>6, <2>7
  <2> QED
    BY <1>1, <2>5, <2>6, <2>8, <2>9 DEF BatchType, Steps
<1>6. CASE TakeItems \/ SaveChain
  <2>1. /\ UNCHANGED <<batches, at, sidecar, committed>> /\ pc' \in {"saveChain", "sidecars"}
        /\ {lastPayload', lastPayloadFile'} \subseteq {lastPayload, lastPayloadFile, at}
        /\ at \in DOMAIN batches
    BY <1>1, <1>6 DEF TakeItems, SaveChain, Goto, parent
  <2> QED
    BY <1>1, <2>1 DEF BatchType, Steps
<1>7. CASE WriteSidecars
  <2>1. /\ UNCHANGED <<batches, lastPayload, lastPayloadFile, at, committed>>
        /\ pc' \in {"send", "closes", "poll"} /\ at \in DOMAIN batches
        /\ pc' = "send" => batches[at].state = "sending"
    BY <1>1, <1>7 DEF WriteSidecars, Goto, parent
  <2>2. Status(at) \in {"pending", "included", "safe", "finalized"}
    BY <2>1, ItemsAre DEF Status, Batch
  <2>3. sidecar' \in [Record -> {None, "pending", "included", "safe", "finalized"}]
    BY <1>1, <1>7, <2>2 DEF WriteSidecars
  <2> QED
    BY <1>1, <2>1, <2>3 DEF BatchType, Steps, Active
<1>8. ASSUME NEW b \in DOMAIN batches, at' = b, batches' \in Seq(Batch), DOMAIN batches' = DOMAIN batches,
             Len(batches') = Len(batches),
             \A c \in DOMAIN batches : /\ batches'[c].items = batches[c].items
                                       /\ batches'[c].epoch = batches[c].epoch,
             UNCHANGED <<lastPayload, lastPayloadFile, sidecar, committed>>,
             pc' \in {"closes", "requeue", "sidecars"}
      PROVE  BatchType'
  BY <1>1, <1>8 DEF BatchType, Steps
<1>9. CASE Send
  <2>1. Active # {}
    BY <1>1, <1>9 DEF Send
  <2>2. /\ at' \in Active /\ pc' = "markPending"
        /\ UNCHANGED <<batches, lastPayload, lastPayloadFile, sidecar, committed>>
    BY <1>9, <2>1 DEF Send, Goto, parent, files
  <2>3. at' \in DOMAIN batches
    BY <2>2 DEF Active
  <2> QED
    BY <1>1, <2>2, <2>3 DEF BatchType, Steps, Active
<1>10. CASE MarkPending
  <2>1. at \in DOMAIN batches /\ UNCHANGED <<at, lastPayload, lastPayloadFile, sidecar, committed>>
        /\ batches' = [batches EXCEPT ![at].state = "pending"] /\ pc' = "closes"
    BY <1>1, <1>10 DEF MarkPending, Goto, parent
  <2> QED
    BY <1>8, <2>1, StateWritten
<1>11. CASE Include
  <2>1. PICK b \in Pending :
           /\ Mined(BatchTx(b))
           /\ batches' = [batches EXCEPT ![b].state = "included", ![b].height = Height(BatchTx(b)),
                                         ![b].fork = blocks[Height(BatchTx(b))].fork]
           /\ at' = b
    BY <1>11 DEF Include
  <2>2. b \in DOMAIN batches /\ pc' = "sidecars"
        /\ UNCHANGED <<lastPayload, lastPayloadFile, sidecar, committed>>
    BY <1>11 DEF Include, Pending, Goto, parent
  <2> QED
    BY <1>8, <2>1, <2>2, Included
<1>12. CASE Promote
  <2>1. pc' = "sidecars" /\ UNCHANGED <<lastPayload, lastPayloadFile, sidecar, committed>>
    BY <1>12 DEF Promote, Goto, parent
  <2> QED
    BY <1>8, <1>12, <2>1, Promoted
<1>13. CASE Drop
  <2>1. PICK b \in Open : batches' = [batches EXCEPT ![b].state = "dropped"] /\ at' = b
    BY <1>13 DEF Drop
  <2>2. b \in DOMAIN batches /\ pc' = "requeue"
        /\ UNCHANGED <<lastPayload, lastPayloadFile, sidecar, committed>>
    BY <1>13 DEF Drop, Open, Goto, parent
  <2> QED
    BY <1>8, <2>1, <2>2, StateWritten
<1>14. CASE Requeue
  <2>1. /\ UNCHANGED <<batches, lastPayload, lastPayloadFile, at, sidecar, committed>>
        /\ pc' = "sidecars" /\ at \in DOMAIN batches
    BY <1>1, <1>14 DEF Requeue, Goto, parent
  <2> QED
    BY <1>1, <2>1 DEF BatchType, Steps
<1> QED
  BY <1>2, <1>3, <1>4, <1>5, <1>6, <1>7, <1>9, <1>10, <1>11, <1>12, <1>13, <1>14
      DEF Next, TickStep, ParentStep

\* A broadcast is of a transaction; it reaches the mempool or is lost.
LEMMA BroadcastType ==
    ASSUME TypeInv, NEW tx \in Tx, Broadcast(tx)
    PROVE  /\ mempool' \subseteq Tx /\ IsFiniteSet(mempool')
           /\ mempool \subseteq mempool' /\ mempool' \subseteq mempool \cup {tx}
<1>1. mempool \subseteq Tx /\ IsFiniteSet(mempool)
  BY DEF TypeInv, BaseType
<1>2. mempool' = mempool \/ mempool' = mempool \cup {tx}
  BY DEF Broadcast
<1>3. IsFiniteSet(mempool \cup {tx})
  BY <1>1, FS_AddElement
<1> QED
  BY <1>1, <1>2, <1>3

\* The transaction of a batch, and that of a request that was signed.
LEMMA TxTypes ==
    ASSUME TypeInv
    PROVE  /\ \A b \in DOMAIN batches : BatchTx(b) \in Tx /\ BatchTx(b) # NoTx
           /\ \A k \in Kind, e \in Epoch : sent[k][e] # None => AskTx(k, e) \in Tx
<1>1. \A b \in DOMAIN batches : b \in Nat /\ batches[b].nonce \in Nat
  <2>1. DOMAIN batches = 1..Len(batches) /\ Len(batches) \in Nat
    BY LenProperties DEF TypeInv, BatchType
  <2> QED
    BY <2>1, ItemsAre DEF Batch
<1>2. \A b \in DOMAIN batches : BatchTx(b) \in Tx /\ BatchTx(b) # NoTx
  BY <1>1 DEF BatchTx, Tx, NoTx
<1>3. \A k \in Kind, e \in Epoch : sent[k][e] # None => sent[k][e] \in Nat /\ e \in Nat
  BY EpochsAssumption DEF TypeInv, PassType, Epoch
<1> QED
  BY <1>2, <1>3 DEF AskTx, Tx

-----------------------------------------------------------------------------
(* The requests.                                                           *)

\* WatchedIs: the request whose transaction was signed and not yet reported is the one
\* whose turn it is.
LEMMA WatchedIs ==
    ASSUME TypeInv, AskInv, NEW k \in Kind
    PROVE  /\ Watched(k) = {e \in Epoch : sent[k][e] # None /\ ~done[k][e]}
           /\ Watched(k) # {} => Oldest(k) \subseteq Watched(k)
<1>1. \A e \in Epoch : e \in Nat
  BY EpochsAssumption DEF Epoch
<1>2. ASSUME NEW e \in Epoch, sent[k][e] # None, ~done[k][e] PROVE e \in Oldest(k)
  <2>1. e \in Unanswered(k)
    BY <1>2 DEF AskInv, Unanswered
  <2>2. \A f \in Unanswered(k) : e <= f
    BY <1>2 DEF AskInv, Unanswered
  <2> QED
    BY <2>1, <2>2 DEF Oldest
<1>3. \A e, f \in Oldest(k) : e = f
  BY <1>1 DEF Oldest, Unanswered
<1> QED
  BY <1>2, <1>3 DEF Watched, Oldest, Unanswered

\* A request is left for the newest epoch.
LEMMA Asked ==
    ASSUME TypeInv, AskInv, NEW k \in Kind \cup {"close"}, NEW e \in Epoch, Left(k, e),
           current' \in Epoch, current <= e, e <= current', UNCHANGED <<sent, done, pc>>
    PROVE  AskInv'
<1>1. /\ ask \in [Kind \cup {"close"} -> [Epoch -> {None} \cup SUBSET Record]]
      /\ current \in Nat /\ \A f \in Epoch : f \in Nat
  BY EpochsAssumption DEF TypeInv, ParentType, Epoch
<1>2. \A l \in Kind, f \in Epoch : ask'[l][f] = IF l = k /\ f = e THEN committed ELSE ask[l][f]
  BY <1>1 DEF Left
<1>3. committed # None
  BY NoneAssumption DEF TypeInv, ParentType
<1>4. ASSUME NEW l \in Kind, NEW f \in Epoch, ask'[l][f] # None PROVE f <= current'
  BY <1>1, <1>2, <1>4 DEF AskInv
<1>5. ASSUME NEW l \in Kind, NEW f \in Epoch, sent[l][f] # None PROVE ask'[l][f] # None /\ f <= e
  <2>1. ask[l][f] # None /\ f <= current
    BY <1>5 DEF AskInv
  <2> QED
    BY <1>1, <1>2, <1>3, <2>1
<1>6. ASSUME NEW l \in Kind, NEW f \in Epoch, NEW g \in Epoch,
             sent[l][f] # None, ~done[l][f], ask'[l][g] # None, ~done[l][g]
      PROVE  f <= g
  <2>1. CASE l = k /\ g = e
    BY <1>5, <1>6, <2>1
  <2>2. CASE ~(l = k /\ g = e)
    BY <1>2, <1>6, <2>2 DEF AskInv
  <2> QED
    BY <2>1, <2>2
<1>7. UNCHANGED <<sent, done, pc>>
  OBVIOUS
<1> QED
  BY <1>4, <1>5, <1>6, <1>7 DEF AskInv

\* Every step keeps the order of the requests.
LEMMA NextAsks == ASSUME TypeInv, AskInv, [Next]_vars PROVE AskInv'
<1>1. current \in Nat /\ current \in Epoch /\ \A f \in Epoch : f \in Nat
  BY EpochsAssumption DEF TypeInv, ParentType, Epoch
<1>2. /\ sent \in [Kind -> [Epoch -> {None} \cup Nat]] /\ done \in [Kind -> [Epoch -> BOOLEAN]]
  BY DEF TypeInv, PassType
<1>3. ASSUME UNCHANGED <<current, ask, sent, done>>,
             pc' = pc \/ pc' \notin {"sendGenesis", "sendPublish"}
      PROVE  AskInv'
  BY <1>3 DEF AskInv
<1>4. CASE \/ UNCHANGED vars \/ (\E r \in Record : Commit(r) \/ Enqueue(r))
           \/ Mine \/ Reorg \/ Settle
  <2>1. UNCHANGED <<current, ask, sent, done, pc>>
    BY <1>4 DEF vars, parent, files, memory, Commit, Enqueue, Mine, Reorg, Settle
  <2> QED
    BY <1>3, <2>1
<1>5. CASE \/ Ingest \/ SaveCursor \/ Cut \/ TakeItems \/ SaveChain \/ WriteSidecars \/ Send
           \/ MarkPending \/ Include \/ Wait \/ Replace \/ NoBatch \/ AnswerCloses \/ Promote \/ Drop
           \/ Requeue \/ PollDone \/ TickError \/ Restart
  <2>1. UNCHANGED <<current, ask, sent, done>> /\ pc' \notin {"sendGenesis", "sendPublish"}
    BY <1>5 DEF Ingest, SaveCursor, Cut, TakeItems, SaveChain, WriteSidecars, Send, MarkPending,
        Include, Wait, Replace, NoBatch, AnswerCloses, Promote, Drop, Requeue, PollDone, TickError,
        Restart, TickOver, Goto, parent, files
  <2> QED
    BY <1>3, <2>1
<1>6. ASSUME NEW k \in Kind, PassIdle(k) \/ PassSend(k) \/ PassWait(k) \/ PassReplace(k)
      PROVE  AskInv'
  <2>1. UNCHANGED <<current, ask, sent, done>> /\ pc' \notin {"sendGenesis", "sendPublish"}
    BY <1>6 DEF PassIdle, PassSend, PassWait, PassReplace, Returns, AfterPass, Goto, parent, files
  <2> QED
    BY <1>3, <2>1
<1>7. ASSUME NEW k \in Kind, PassSign(k) PROVE AskInv'
  <2>1. NextNonce \in Nat /\ NextNonce # None
    BY NextNonceType, NoneAssumption DEF TypeInv
  <2>2. PICK e \in Oldest(k) \ Watched(k) : sent' = [sent EXCEPT ![k][e] = NextNonce]
    BY <1>7 DEF PassSign
  <2>3. /\ UNCHANGED <<current, ask, done>>
        /\ pc' = IF k = "genesis" THEN "sendGenesis" ELSE "sendPublish"
    BY <1>7 DEF PassSign, Goto, parent
  <2>4. /\ e \in Epoch /\ sent[k][e] = None /\ ask[k][e] # None /\ ~done[k][e]
        /\ \A f \in Epoch : ask[k][f] # None /\ ~done[k][f] => e <= f
    BY <2>2 DEF Oldest, Watched, Unanswered
  <2>5. \A l \in Kind, f \in Epoch : sent'[l][f] = IF l = k /\ f = e THEN NextNonce ELSE sent[l][f]
    BY <1>2, <2>2
  <2>6. \A l \in Kind, f \in Epoch : sent'[l][f] # None => ask[l][f] # None
    BY <2>4, <2>5 DEF AskInv
  <2>7. \A l \in Kind, f \in Epoch, g \in Epoch :
           sent'[l][f] # None /\ ~done[l][f] /\ ask[l][g] # None /\ ~done[l][g] => f <= g
    BY <2>4, <2>5 DEF AskInv
  <2>8. sent'[k][e] # None /\ ~done[k][e]
    BY <2>1, <2>4, <2>5
  <2>9. k = "genesis" \/ (k # "genesis" /\ k = "publish")
    BY DEF Kind
  <2> QED
    BY <2>3, <2>4, <2>6, <2>7, <2>8, <2>9 DEF AskInv
<1>8. ASSUME NEW k \in Kind, PassMined(k) PROVE AskInv'
  <2>1. PICK e \in Epoch : done' = [done EXCEPT ![k][e] = TRUE]
    BY <1>8 DEF PassMined, Watched, Oldest, Unanswered
  <2>2. UNCHANGED <<current, ask, sent>> /\ pc' \notin {"sendGenesis", "sendPublish"}
    BY <1>8 DEF PassMined, Returns, AfterPass, Goto, parent
  <2>3. \A l \in Kind, f \in Epoch : ~done'[l][f] => ~done[l][f]
    BY <1>2, <2>1
  <2> QED
    BY <2>2, <2>3 DEF AskInv
<1>9. CASE AskClose \/ AskPublish
  <2>1. UNCHANGED <<current, sent, done, pc>> /\ \E k \in Kind \cup {"close"} : Left(k, current)
    BY <1>9 DEF AskClose, AskPublish, files, memory, Kind
  <2> QED
    BY <1>1, <2>1, Asked
<1>10. CASE NextEpoch
  <2>1. UNCHANGED <<sent, done, pc>> /\ Left("genesis", current') /\ current' = current + 1
        /\ "genesis" \in Kind
    BY <1>10 DEF NextEpoch, files, memory, Kind
  <2>2. current' \in Epoch
    BY <1>10, ParentTypes DEF Next, ParentStep, ParentType
  <2>3. current <= current'
    BY <1>1, <2>1
  <2>4. current' <= current'
    BY <1>1, <2>1
  <2> QED
    BY <2>1, <2>2, <2>3, <2>4, Asked
<1> QED
  BY <1>4, <1>5, <1>6, <1>7, <1>8, <1>9, <1>10 DEF Next, TickStep, ParentStep

\* What a step broadcasts: a watched request's transaction, or the one of the batch in flight.
LEMMA BroadcastOf ==
    ASSUME TypeInv, AskInv,
           \/ \E k \in Kind : PassSend(k) \/ PassReplace(k)
           \/ Send \/ Replace
    PROVE  \/ \E k \in Kind : \E e \in Watched(k) : Broadcast(AskTx(k, e))
           \/ \E b \in Active : Broadcast(BatchTx(b))
<1>1. ASSUME NEW k \in Kind, PassSend(k)
      PROVE  \E e \in Watched(k) : Broadcast(AskTx(k, e))
  <2>1. PICK e \in Oldest(k) : Broadcast(AskTx(k, e))
    BY <1>1 DEF PassSend
  <2>2. \E f \in Epoch : sent[k][f] # None /\ ~done[k][f]
    BY <1>1 DEF PassSend, AskInv, Kind
  <2>3. Watched(k) # {}
    BY <2>2, WatchedIs
  <2> QED
    BY <2>1, <2>3, WatchedIs
<1>2. ASSUME NEW k \in Kind, PassReplace(k)
      PROVE  \E e \in Watched(k) : Broadcast(AskTx(k, e))
  BY <1>2 DEF PassReplace
<1>3. ASSUME Send PROVE \E b \in Active : Broadcast(BatchTx(b))
  <2>1. Active # {}
    BY <1>3 DEF Send, TypeInv, BatchType
  <2>2. at' \in Active /\ Broadcast(BatchTx(at'))
    BY <1>3, <2>1 DEF Send
  <2> QED
    BY <2>2
<1>4. ASSUME Replace PROVE \E b \in Active : Broadcast(BatchTx(b))
  BY <1>4 DEF Replace, Pending, Active
<1> QED
  BY <1>1, <1>2, <1>3, <1>4

\* The transactions that a step broadcasts are saved ones.
LEMMA BroadcastsSaved ==
    ASSUME TypeInv, AskInv,
           \/ \E k \in Kind : PassSend(k) \/ PassReplace(k)
           \/ Send \/ Replace
    PROVE  /\ mempool' \subseteq Tx /\ IsFiniteSet(mempool') /\ UNCHANGED <<blocks, safe, final>>
           /\ UNCHANGED <<batches, sent>>
           /\ \A tx \in mempool' \ mempool : Saved(tx)
<1>1. ASSUME NEW k \in Kind, NEW e \in Watched(k) PROVE AskTx(k, e) \in Tx /\ Saved(AskTx(k, e))
  <2>1. e \in Epoch /\ sent[k][e] # None
    BY DEF Watched, Oldest, Unanswered
  <2> QED
    BY <2>1, TxTypes DEF Saved, AskTx
<1>2. ASSUME NEW b \in DOMAIN batches PROVE BatchTx(b) \in Tx /\ Saved(BatchTx(b))
  BY TxTypes DEF Saved, BatchTx
<1>3. ASSUME NEW tx \in Tx, Saved(tx), Broadcast(tx)
      PROVE  /\ mempool' \subseteq Tx /\ IsFiniteSet(mempool')
             /\ \A t \in mempool' \ mempool : Saved(t)
  BY <1>3, BroadcastType
<1>4. UNCHANGED <<blocks, safe, final, batches, sent>>
  BY DEF PassSend, PassReplace, Send, Replace, files
<1> QED
  BY <1>1, <1>2, <1>3, <1>4, BroadcastOf DEF Active

\* A block that is mined, and one that is replaced.
LEMMA BlocksMined ==
    ASSUME TypeInv, Mine
    PROVE  \E tx \in mempool :
             /\ mempool' \subseteq mempool /\ tx.nonce = MinedCount
             /\ mempool' = {t \in mempool : t.nonce # tx.nonce}
             /\ blocks' \in Seq([tx: Tx \cup {NoTx}, fork: {0, 1}])
             /\ Len(blocks) \in Nat /\ Len(blocks') = Len(blocks) + 1
             /\ DOMAIN blocks = 1..Len(blocks) /\ DOMAIN blocks' = 1..(Len(blocks) + 1)
             /\ blocks'[Len(blocks) + 1] = [tx |-> tx, fork |-> 0]
             /\ \A h \in DOMAIN blocks : blocks'[h] = blocks[h]
<1>1. PICK tx \in mempool : /\ blocks' = Append(blocks, [tx |-> tx, fork |-> 0])
                            /\ mempool' = {t \in mempool : t.nonce # tx.nonce}
                            /\ tx.nonce = MinedCount
  BY DEF Mine
<1> DEFINE Block == [tx: Tx \cup {NoTx}, fork: {0, 1}]
           b == [tx |-> tx, fork |-> 0]
<1>2. blocks \in Seq(Block) /\ b \in Block /\ Len(blocks) \in Nat /\ DOMAIN blocks = 1..Len(blocks)
  BY LenProperties DEF TypeInv, BaseType
<1> HIDE DEF Block, b
<1>3. /\ blocks' \in Seq(Block) /\ Len(blocks') = Len(blocks) + 1
      /\ DOMAIN blocks' = 1..(Len(blocks) + 1) /\ blocks'[Len(blocks) + 1] = b
      /\ \A h \in 1..Len(blocks) : blocks'[h] = blocks[h]
  <2>1. blocks' = Append(blocks, b)
    BY <1>1 DEF b
  <2> QED
    BY <1>2, <2>1, AppendProperties, LenProperties
<1>4. mempool' \subseteq mempool
  BY <1>1
<1> QED
  BY <1>1, <1>2, <1>3, <1>4 DEF Block, b

\* A reorg empties the tip and puts its transaction back.
LEMMA BlocksReplaced ==
    ASSUME TypeInv, Reorg
    PROVE  /\ mempool' = mempool \cup {blocks[Len(blocks)].tx}
           /\ blocks[Len(blocks)].tx \in Tx
           /\ blocks' \in Seq([tx: Tx \cup {NoTx}, fork: {0, 1}])
           /\ Len(blocks) \in Nat /\ Len(blocks') = Len(blocks) /\ Len(blocks) \in DOMAIN blocks
           /\ DOMAIN blocks' = DOMAIN blocks /\ safe < Len(blocks)
           /\ \A h \in DOMAIN blocks : blocks'[h] = IF h = Len(blocks) THEN [tx |-> NoTx, fork |-> 1]
                                                                       ELSE blocks[h]
<1> DEFINE Block == [tx: Tx \cup {NoTx}, fork: {0, 1}]
           b == [tx |-> NoTx, fork |-> 1]
           n == Len(blocks)
<1>1. /\ blocks \in Seq(Block) /\ b \in Block /\ n \in Nat /\ DOMAIN blocks = 1..n
      /\ blocks # <<>> /\ safe \in Nat /\ n > safe
  BY LenProperties DEF TypeInv, BaseType, Reorg
<1>2. n \in 1..n
  BY <1>1
<1>3. blocks[n] \in Block
  <2> HIDE DEF Block
  <2> QED
    BY <1>1, <1>2, ElementOfSeq
<1>4. blocks[n].tx # NoTx /\ mempool' = mempool \cup {blocks[n].tx} /\ blocks' = [blocks EXCEPT ![n] = b]
  BY DEF Reorg, Last
<1>5. blocks[n].tx \in Tx
  BY <1>3, <1>4
<1> HIDE DEF Block, b, n
<1>6. /\ blocks' \in Seq(Block) /\ Len(blocks') = Len(blocks)
      /\ \A h \in 1..n : blocks'[h] = IF h = n THEN b ELSE blocks[h]
  <2>1. n = Len(blocks)
    BY DEF n
  <2> QED
    BY <1>1, <1>2, <1>4, <2>1, ExceptSeq
<1>7. DOMAIN blocks' = 1..n
  <2>1. n = Len(blocks)
    BY DEF n
  <2> QED
    BY <1>6, <2>1, LenProperties
<1> QED
  BY <1>1, <1>2, <1>4, <1>5, <1>6, <1>7 DEF Block, b, n

\* The steps that leave the chain and the mempool alone.
LEMMA BaseKept ==
    ASSUME [Next]_vars, ~Mine, ~Reorg, ~Settle, ~Send, ~Replace,
           ~ \E k \in Kind : PassSend(k) \/ PassReplace(k)
    PROVE  UNCHANGED base
BY DEF Next, TickStep, ParentStep, vars, Commit, Enqueue, AskClose, AskPublish, NextEpoch, Ingest,
    SaveCursor, PassIdle, PassSign, PassMined, PassWait, Cut, TakeItems, SaveChain, WriteSidecars,
    MarkPending, Include, Wait, NoBatch, AnswerCloses, Promote, Drop, Requeue, PollDone, TickError,
    Restart

\* The chain.
LEMMA BaseTypes == ASSUME TypeInv, AskInv, [Next]_vars PROVE BaseType'
<1>1. /\ blocks \in Seq([tx: Tx \cup {NoTx}, fork: {0, 1}]) /\ Len(blocks) \in Nat
      /\ mempool \subseteq Tx /\ IsFiniteSet(mempool)
      /\ safe \in Nat /\ final \in Nat /\ final <= safe /\ safe <= Len(blocks)
  BY LenProperties DEF TypeInv, BaseType
<1>2. CASE Mine
  <2>1. /\ mempool' \subseteq mempool /\ blocks' \in Seq([tx: Tx \cup {NoTx}, fork: {0, 1}])
        /\ Len(blocks') = Len(blocks) + 1
    BY <1>2, BlocksMined
  <2>2. IsFiniteSet(mempool')
    BY <1>1, <2>1, FS_Subset
  <2>3. UNCHANGED <<safe, final>>
    BY <1>2 DEF Mine
  <2>4. safe <= Len(blocks')
    BY <1>1, <2>1
  <2> QED
    BY <1>1, <2>1, <2>2, <2>3, <2>4 DEF BaseType
<1>3. CASE Reorg
  <2>1. /\ mempool' = mempool \cup {blocks[Len(blocks)].tx} /\ blocks[Len(blocks)].tx \in Tx
        /\ blocks' \in Seq([tx: Tx \cup {NoTx}, fork: {0, 1}]) /\ Len(blocks') = Len(blocks)
    BY <1>3, BlocksReplaced
  <2>2. IsFiniteSet(mempool')
    BY <1>1, <2>1, FS_AddElement
  <2>3. UNCHANGED <<safe, final>>
    BY <1>3 DEF Reorg
  <2> QED
    BY <1>1, <2>1, <2>2, <2>3 DEF BaseType
<1>4. CASE Settle
  <2>1. UNCHANGED <<blocks, mempool>> /\ \/ safe' = Len(blocks) /\ final' = final
                                         \/ final' = safe /\ safe' = safe
    BY <1>4 DEF Settle
  <2> QED
    BY <1>1, <2>1 DEF BaseType
<1>5. CASE Send \/ Replace \/ \E k \in Kind : PassSend(k) \/ PassReplace(k)
  <2>1. mempool' \subseteq Tx /\ IsFiniteSet(mempool') /\ UNCHANGED <<blocks, safe, final>>
    BY <1>5, BroadcastsSaved
  <2> QED
    BY <1>1, <2>1 DEF BaseType
<1>6. CASE UNCHANGED base
  BY <1>1, <1>6 DEF base, BaseType
<1> QED
  BY <1>2, <1>3, <1>4, <1>5, <1>6, BaseKept

\* Every step keeps the types and the order of the requests.
LEMMA NextTypes == TypeInv /\ AskInv /\ [Next]_vars => TypeInv' /\ AskInv'
BY ParentTypes, PassTypes, ReadTypes, BatchTypes, BaseTypes, NextAsks DEF TypeInv

\* At first the first epoch's genesis is asked for, and nothing is sent.
LEMMA InitAsks == Init => AskInv
<1> SUFFICES ASSUME Init PROVE AskInv
  OBVIOUS
<1>1. \A k \in Kind, e \in Epoch : ask[k][e] # None => e = 1
  BY DEF Init
<1>2. \A k \in Kind, e \in Epoch : sent[k][e] = None
  BY DEF Init
<1>3. pc = "ingest" /\ current = 1
  BY DEF Init
<1> QED
  BY <1>1, <1>2, <1>3 DEF AskInv

\* WriterTypes: the writer's memory, its files, the queue and the chain have their types,
\* whatever crashes, losses and reorgs come.
THEOREM WriterTypes == Spec => []TypeOK
<1>1. Init => TypeInv /\ AskInv
  BY InitTypes, InitAsks
<1>2. TypeInv /\ AskInv /\ [Next]_vars => TypeInv' /\ AskInv'
  BY NextTypes
<1>3. TypeInv => TypeOK
  BY TypesGiven
<1> QED
  BY <1>1, <1>2, <1>3, PTL DEF Spec

-----------------------------------------------------------------------------
(* The signed transactions.                                                *)

\* What a step writes to the batch files.
LEMMA BatchStep ==
    ASSUME TypeInv, [Next]_vars
    PROVE  \/ Cut
           \/ /\ batches' \in Seq(Batch) /\ DOMAIN batches' = DOMAIN batches
              /\ \A b \in DOMAIN batches : /\ batches'[b].items = batches[b].items
                                           /\ batches'[b].epoch = batches[b].epoch
                                           /\ batches'[b].nonce = batches[b].nonce
<1>1. batches \in Seq(Batch)
  BY DEF TypeInv, BatchType
<1>2. ASSUME UNCHANGED batches
      PROVE  /\ batches' \in Seq(Batch) /\ DOMAIN batches' = DOMAIN batches
             /\ \A b \in DOMAIN batches : /\ batches'[b].items = batches[b].items
                                          /\ batches'[b].epoch = batches[b].epoch
                                          /\ batches'[b].nonce = batches[b].nonce
  BY <1>1, <1>2
<1>3. CASE MarkPending
  <2>1. at \in DOMAIN batches /\ batches' = [batches EXCEPT ![at].state = "pending"]
    BY <1>3 DEF MarkPending, TypeInv, BatchType
  <2> QED
    BY <2>1, StateWritten
<1>4. CASE Include
  <2>1. PICK b \in Pending :
           /\ Mined(BatchTx(b))
           /\ batches' = [batches EXCEPT ![b].state = "included", ![b].height = Height(BatchTx(b)),
                                         ![b].fork = blocks[Height(BatchTx(b))].fork]
    BY <1>4 DEF Include
  <2>2. b \in DOMAIN batches
    BY DEF Pending
  <2> QED
    BY <2>1, <2>2, Included
<1>5. CASE Promote
  BY <1>5, Promoted
<1>6. CASE Drop
  <2>1. PICK b \in Open : batches' = [batches EXCEPT ![b].state = "dropped"]
    BY <1>6 DEF Drop
  <2>2. b \in DOMAIN batches
    BY DEF Open
  <2> QED
    BY <2>1, <2>2, StateWritten
<1>7. CASE ~(MarkPending \/ Include \/ Promote \/ Drop \/ Cut)
  <2>1. UNCHANGED batches
    BY <1>7 DEF Next, TickStep, ParentStep, vars, files, Commit, Enqueue, AskClose, AskPublish,
        NextEpoch, Ingest, SaveCursor, PassIdle, PassSign, PassSend, PassMined, PassWait, PassReplace,
        TakeItems, SaveChain, WriteSidecars, Send, Wait, Replace, NoBatch, AnswerCloses, Requeue,
        PollDone, TickError, Restart, Mine, Reorg, Settle
  <2> QED
    BY <1>2, <2>1
<1> QED
  BY <1>3, <1>4, <1>5, <1>6, <1>7

\* A cut adds a batch that is to be sent, and changes no other.
LEMMA CutAdds ==
    ASSUME TypeInv, Cut
    PROVE  /\ Len(batches) \in Nat /\ DOMAIN batches = 1..Len(batches)
           /\ DOMAIN batches' = 1..(Len(batches) + 1) /\ at' = Len(batches) + 1
           /\ \A b \in DOMAIN batches : b \in DOMAIN batches' /\ batches'[b] = batches[b]
           /\ \A b \in DOMAIN batches' : b \in DOMAIN batches \/ b = Len(batches) + 1
           /\ batches'[Len(batches) + 1].state = "sending"
           /\ batches'[Len(batches) + 1].items = Group(NextGroup)
           /\ batches'[Len(batches) + 1].height = 0
           /\ batches'[Len(batches) + 1].nonce = NextNonce
<1> DEFINE nb == [items |-> Group(NextGroup), epoch |-> NextGroup, prev |-> lastPayload,
                  nonce |-> NextNonce, state |-> "sending", height |-> 0, fork |-> 0,
                  unread |-> FALSE]
<1>1. batches \in Seq(Batch) /\ Len(batches) \in Nat /\ DOMAIN batches = 1..Len(batches)
  BY LenProperties DEF TypeInv, BatchType
<1>2. batches' = Append(batches, nb) /\ at' = Len(batches')
  BY DEF Cut
<1>3. batches' \in Seq(Batch)
  BY BatchTypes DEF Next, TickStep, BatchType
<1>4. nb.state = "sending" /\ nb.items = Group(NextGroup) /\ nb.height = 0 /\ nb.nonce = NextNonce
  OBVIOUS
<1> HIDE DEF nb
<1>5. batches \in Seq(Batch \cup {nb}) /\ nb \in Batch \cup {nb}
  BY <1>1, SeqMonotonic
<1>6. /\ Len(batches') = Len(batches) + 1
      /\ batches'[Len(batches) + 1] = nb /\ \A i \in 1..Len(batches) : batches'[i] = batches[i]
  BY <1>2, <1>5, AppendProperties
<1>7. DOMAIN batches' = 1..(Len(batches) + 1)
  BY <1>3, <1>6, LenProperties
<1>8. /\ \A i \in 1..(Len(batches) + 1) : i \in 1..Len(batches) \/ i = Len(batches) + 1
      /\ \A i \in 1..Len(batches) : i \in 1..(Len(batches) + 1)
  BY <1>1
<1> QED
  BY <1>1, <1>2, <1>4, <1>6, <1>7, <1>8

\* What was signed stays signed: a batch keeps its nonce, and so does a request.
LEMMA SavedStays ==
    ASSUME TypeInv, [Next]_vars, NEW tx \in Tx, Saved(tx)
    PROVE  Saved(tx)'
<1>1. tx.nonce \in Nat /\ tx.nonce # None
  BY NoneAssumption DEF Tx
<1>2. CASE tx.kind = "batch" /\ tx.of \in DOMAIN batches /\ tx.nonce = batches[tx.of].nonce
  <2>1. tx.of \in DOMAIN batches' /\ batches'[tx.of].nonce = batches[tx.of].nonce
    BY <1>2, BatchStep, CutAdds
  <2> QED
    BY <1>2, <2>1 DEF Saved
<1>3. CASE tx.kind \in Kind /\ tx.of \in Epoch /\ tx.nonce = sent[tx.kind][tx.of]
  <2>1. sent'[tx.kind][tx.of] = sent[tx.kind][tx.of]
    <3>1. ASSUME NEW k \in Kind, PassSign(k) PROVE sent'[tx.kind][tx.of] = sent[tx.kind][tx.of]
      <4>1. PICK e \in Epoch : sent' = [sent EXCEPT ![k][e] = NextNonce] /\ sent[k][e] = None
        BY <3>1 DEF PassSign, Oldest, Watched, Unanswered
      <4>2. sent \in [Kind -> [Epoch -> {None} \cup Nat]]
        BY DEF TypeInv, PassType
      <4> QED
        BY <1>1, <1>3, <4>1, <4>2
    <3>2. CASE ~ \E k \in Kind : PassSign(k)
      BY <3>2 DEF Next, TickStep, ParentStep, vars, files, Commit, Enqueue, AskClose, AskPublish,
        NextEpoch, Ingest, SaveCursor, PassIdle, PassSend, PassMined, PassWait, PassReplace, Cut,
        TakeItems, SaveChain, WriteSidecars, Send, MarkPending, Include, Wait, Replace, NoBatch,
        AnswerCloses, Promote, Drop, Requeue, PollDone, TickError, Restart, Mine, Reorg, Settle
    <3> QED
      BY <3>1, <3>2
  <2> QED
    BY <1>3, <2>1 DEF Saved
<1> QED
  BY <1>2, <1>3 DEF Saved

\* Every step keeps what left equal to what was saved.
LEMMA NextSent == TypeInv /\ AskInv /\ SentInv /\ [Next]_vars => SentInv'
<1> SUFFICES ASSUME TypeInv, AskInv, SentInv, [Next]_vars PROVE SentInv'
  OBVIOUS
<1>1. /\ \A tx \in mempool : tx \in Tx /\ Saved(tx)
      /\ \A h \in DOMAIN blocks : blocks[h].tx # NoTx => blocks[h].tx \in Tx /\ Saved(blocks[h].tx)
  <2>1. blocks \in Seq([tx: Tx \cup {NoTx}, fork: {0, 1}]) /\ mempool \subseteq Tx
    BY DEF TypeInv, BaseType
  <2>2. \A h \in DOMAIN blocks : blocks[h] \in [tx: Tx \cup {NoTx}, fork: {0, 1}]
    <3> DEFINE Block == [tx: Tx \cup {NoTx}, fork: {0, 1}]
    <3>1. blocks \in Seq(Block)
      BY <2>1
    <3> HIDE DEF Block
    <3>2. \A h \in DOMAIN blocks : blocks[h] \in Block
      BY <3>1, ElementOfSeq, LenProperties
    <3> QED
      BY <3>2 DEF Block
  <2> QED
    BY <2>1, <2>2 DEF SentInv
<1>2. \A tx \in Tx : Saved(tx) => Saved(tx)'
  BY SavedStays
<1>3. ASSUME \A tx \in mempool' : tx \in Tx /\ Saved(tx),
             \A h \in DOMAIN blocks' : blocks'[h].tx # NoTx => blocks'[h].tx \in Tx /\ Saved(blocks'[h].tx)
      PROVE  SentInv'
  <2>1. \A tx \in mempool' : Saved(tx)'
    BY <1>2, <1>3
  <2>2. ASSUME NEW h \in DOMAIN blocks', blocks'[h].tx # NoTx PROVE (\E t \in Tx : t = blocks'[h].tx /\ Saved(t)')
    BY <1>2, <1>3, <2>2
  <2>3. \A h \in DOMAIN blocks' : blocks'[h].tx # NoTx =>
           \/ blocks'[h].tx.kind = "batch" /\ blocks'[h].tx.of \in DOMAIN batches' /\ blocks'[h].tx.nonce = batches'[blocks'[h].tx.of].nonce
           \/ blocks'[h].tx.kind \in Kind /\ blocks'[h].tx.of \in Epoch /\ blocks'[h].tx.nonce = sent'[blocks'[h].tx.kind][blocks'[h].tx.of]
    BY <2>2 DEF Saved
  <2> QED
    BY <2>1, <2>3 DEF SentInv, Saved
<1>4. CASE Mine
  <2>1. PICK tx \in mempool :
             /\ mempool' \subseteq mempool
             /\ DOMAIN blocks = 1..Len(blocks) /\ DOMAIN blocks' = 1..(Len(blocks) + 1) /\ Len(blocks) \in Nat
             /\ blocks'[Len(blocks) + 1] = [tx |-> tx, fork |-> 0]
             /\ \A h \in DOMAIN blocks : blocks'[h] = blocks[h]
    BY <1>4, BlocksMined
  <2>2. \A h \in DOMAIN blocks' : h \in DOMAIN blocks \/ h = Len(blocks) + 1
    BY <2>1
  <2> QED
    BY <1>1, <1>3, <2>1, <2>2
<1>5. CASE Reorg
  <2>1. /\ mempool' = mempool \cup {blocks[Len(blocks)].tx} /\ blocks[Len(blocks)].tx \in Tx
        /\ DOMAIN blocks' = DOMAIN blocks /\ Len(blocks) \in DOMAIN blocks
        /\ \A h \in DOMAIN blocks : blocks'[h] = IF h = Len(blocks) THEN [tx |-> NoTx, fork |-> 1]
                                                                    ELSE blocks[h]
    BY <1>5, BlocksReplaced
  <2>2. blocks[Len(blocks)].tx # NoTx
    BY <1>5 DEF Reorg, Last
  <2> QED
    BY <1>1, <1>3, <2>1, <2>2
<1>6. CASE Send \/ Replace \/ \E k \in Kind : PassSend(k) \/ PassReplace(k)
  <2>1. mempool' \subseteq Tx /\ UNCHANGED blocks /\ \A tx \in mempool' \ mempool : Saved(tx)
    BY <1>6, BroadcastsSaved
  <2> QED
    BY <1>1, <1>3, <2>1
<1>7. CASE UNCHANGED <<blocks, mempool>>
  BY <1>1, <1>3, <1>7
<1>8. Settle \/ UNCHANGED base => UNCHANGED <<blocks, mempool>>
  BY DEF Settle, base
<1> QED
  BY <1>4, <1>5, <1>6, <1>7, <1>8, BaseKept

\* SignedBytes: every transaction that ever left, mined or not, is the one that its batch file
\* or sent.json holds: "a restart rebroadcasts the same bytes instead of minting a second nonce".
THEOREM SignedBytes == Spec => []SignedBytesKept
<1>1. Init => TypeInv /\ AskInv /\ SentInv
  <2>1. Init => SentInv
    BY DEF Init, SentInv
  <2> QED
    BY <2>1, InitTypes, InitAsks
<1>2. TypeInv /\ AskInv /\ SentInv /\ [Next]_vars => (TypeInv /\ AskInv /\ SentInv)'
  BY NextTypes, NextSent
<1>3. SentInv => SignedBytesKept
  <2>1. "batch" \notin Kind
    BY DEF Kind
  <2> QED
    BY <2>1 DEF SentInv, Saved, SignedBytesKept
<1> QED
  BY <1>1, <1>2, <1>3, PTL DEF Spec

-----------------------------------------------------------------------------
(* A batch flies alone.                                                    *)

\* A batch is in flight from its cut on, and only a cut puts one in flight.
LEMMA ActiveStep ==
    ASSUME TypeInv, [Next]_vars
    PROVE  \/ Active' \subseteq Active
           \/ /\ Cut /\ Active = {}
              /\ \A b \in Active' : b = Len(batches) + 1
<1>1. CASE Cut
  <2>1. Active = {}
    BY <1>1 DEF Cut, CutNow
  <2>2. ASSUME NEW b \in Active' PROVE b = Len(batches) + 1
    <3>1. b \in DOMAIN batches' /\ batches'[b].state \in {"sending", "pending"}
      BY DEF Active
    <3>2. b \in DOMAIN batches => b \in Active
      BY <1>1, <3>1, CutAdds DEF Active
    <3> QED
      BY <1>1, <2>1, <3>1, <3>2, CutAdds
  <2> QED
    BY <1>1, <2>1, <2>2
<1>2. CASE MarkPending
  <2>1. at \in Active /\ at \in DOMAIN batches /\ batches' = [batches EXCEPT ![at].state = "pending"]
    BY <1>2 DEF MarkPending, TypeInv, BatchType
  <2>2. DOMAIN batches' = DOMAIN batches /\ \A c \in DOMAIN batches : c # at => batches'[c] = batches[c]
    BY <2>1, StateWritten
  <2> QED
    BY <2>1, <2>2 DEF Active
<1>3. CASE Include
  <2>1. PICK b \in Pending :
           /\ Mined(BatchTx(b))
           /\ batches' = [batches EXCEPT ![b].state = "included", ![b].height = Height(BatchTx(b)),
                                         ![b].fork = blocks[Height(BatchTx(b))].fork]
    BY <1>3 DEF Include
  <2>2. b \in DOMAIN batches
    BY DEF Pending
  <2>3. /\ DOMAIN batches' = DOMAIN batches /\ batches'[b].state = "included"
        /\ \A c \in DOMAIN batches : c # b => batches'[c] = batches[c]
    BY <2>1, <2>2, Included
  <2> QED
    BY <2>2, <2>3 DEF Active
<1>4. CASE Promote \/ Drop
  <2>1. \E b \in DOMAIN batches :
           /\ DOMAIN batches' = DOMAIN batches /\ batches'[b].state \notin {"sending", "pending"}
           /\ \A c \in DOMAIN batches : c # b => batches'[c] = batches[c]
    <3>1. CASE Promote
      BY <3>1, Promoted
    <3>2. CASE Drop
      <4>1. PICK b \in DOMAIN batches : batches' = [batches EXCEPT ![b].state = "dropped"]
        BY <3>2 DEF Drop, Open
      <4> QED
        BY <4>1, StateWritten
    <3> QED
      BY <1>4, <3>1, <3>2
  <2> QED
    BY <2>1 DEF Active
<1>5. CASE ~(MarkPending \/ Include \/ Promote \/ Drop \/ Cut)
  <2>1. UNCHANGED batches
    BY <1>5 DEF Next, TickStep, ParentStep, vars, files, Commit, Enqueue, AskClose, AskPublish,
        NextEpoch, Ingest, SaveCursor, PassIdle, PassSign, PassSend, PassMined, PassWait, PassReplace,
        TakeItems, SaveChain, WriteSidecars, Send, Wait, Replace, NoBatch, AnswerCloses, Requeue,
        PollDone, TickError, Restart, Mine, Reorg, Settle
  <2> QED
    BY <2>1 DEF Active
<1> QED
  BY <1>1, <1>2, <1>3, <1>4, <1>5

\* A signature is the only step that makes a request's transaction one to watch.
LEMMA WatchStep ==
    ASSUME TypeInv, AskInv, [Next]_vars, NEW k \in Kind
    PROVE  Watched(k)' \subseteq Watched(k) \/ PassSign(k)
<1>1. /\ sent \in [Kind -> [Epoch -> {None} \cup Nat]] /\ done \in [Kind -> [Epoch -> BOOLEAN]]
  BY DEF TypeInv, PassType
<1>2. Watched(k)' \subseteq {e \in Epoch : sent'[k][e] # None /\ ~done'[k][e]}
  BY DEF Watched, Oldest, Unanswered
<1>3. Watched(k) = {e \in Epoch : sent[k][e] # None /\ ~done[k][e]}
  BY WatchedIs
<1>4. ASSUME NEW l \in Kind, PassSign(l), l # k PROVE Watched(k)' \subseteq Watched(k)
  <2>1. PICK e \in Epoch : sent' = [sent EXCEPT ![l][e] = NextNonce]
    BY <1>4 DEF PassSign, Oldest, Unanswered
  <2>2. done' = done /\ sent'[k] = sent[k]
    BY <1>1, <1>4, <2>1 DEF PassSign
  <2> QED
    BY <1>2, <1>3, <2>2
<1>5. ASSUME NEW l \in Kind, PassMined(l) PROVE Watched(k)' \subseteq Watched(k)
  <2>1. PICK e \in Epoch : done' = [done EXCEPT ![l][e] = TRUE]
    BY <1>5 DEF PassMined, Watched, Oldest, Unanswered
  <2>2. sent' = sent /\ \A f \in Epoch : ~done'[k][f] => ~done[k][f]
    BY <1>1, <1>5, <2>1 DEF PassMined
  <2> QED
    BY <1>2, <1>3, <2>2
<1>6. CASE ~ \E l \in Kind : PassSign(l) \/ PassMined(l)
  <2>1. UNCHANGED <<sent, done>>
    BY <1>6 DEF Next, TickStep, ParentStep, vars, files, Commit, Enqueue, AskClose, AskPublish,
        NextEpoch, Ingest, SaveCursor, PassIdle, PassSend, PassWait, PassReplace, Cut,
        TakeItems, SaveChain, WriteSidecars, Send, MarkPending, Include, Wait, Replace, NoBatch,
        AnswerCloses, Promote, Drop, Requeue, PollDone, TickError, Restart, Mine, Reorg, Settle
  <2> QED
    BY <1>2, <1>3, <2>1
<1> QED
  BY <1>4, <1>5, <1>6

\* What a pass returns is so: FALSE only when nothing of its kind is watched.
LEMMA PassReturns ==
    ASSUME TypeInv, AskInv, NEW k \in Kind,
           PassIdle(k) \/ PassSend(k) \/ PassMined(k) \/ PassWait(k) \/ PassReplace(k)
    PROVE  /\ pc' = AfterPass(k) /\ pc \in {k, IF k = "genesis" THEN "sendGenesis" ELSE "sendPublish"}
           /\ \A l \in Kind \ {k} : flying'[l] = flying[l]
           /\ ~flying'[k] => Watched(k)' = {}
<1>1. flying \in [Kind -> BOOLEAN] /\ done \in [Kind -> [Epoch -> BOOLEAN]]
  BY DEF TypeInv, PassType
<1>2. PICK x \in BOOLEAN : Returns(k, x) /\ (PassIdle(k) \/ PassMined(k) \/ x = TRUE)
  BY DEF PassIdle, PassSend, PassMined, PassWait, PassReplace
<1>3. pc' = AfterPass(k) /\ flying'[k] = x /\ \A l \in Kind \ {k} : flying'[l] = flying[l]
  BY <1>1, <1>2 DEF Returns, Goto
<1>4. pc \in {k, IF k = "genesis" THEN "sendGenesis" ELSE "sendPublish"}
  BY DEF PassIdle, PassSend, PassMined, PassWait, PassReplace
<1>5. Watched(k)' \subseteq {e \in Epoch : sent'[k][e] # None /\ ~done'[k][e]}
  BY DEF Watched, Oldest, Unanswered
<1>6. Watched(k) = {e \in Epoch : sent[k][e] # None /\ ~done[k][e]}
  BY WatchedIs
<1>7. CASE PassIdle(k)
  <2>1. Watched(k) = {} /\ UNCHANGED <<sent, done>>
    BY <1>7 DEF PassIdle, Watched, files
  <2> QED
    BY <1>3, <1>4, <1>5, <1>6, <2>1
<1>8. CASE PassMined(k)
  <2>1. PICK e \in Watched(k) : done' = [done EXCEPT ![k][e] = TRUE]
    BY <1>8 DEF PassMined
  <2>2. e \in Epoch /\ sent' = sent
    BY <1>8 DEF PassMined, Watched, Oldest, Unanswered
  <2>3. done'[k][e] /\ \A f \in Epoch : f # e => done'[k][f] = done[k][f]
    BY <1>1, <2>1, <2>2
  <2>4. \A f \in Watched(k) : f = e
    <3>1. \A f \in Epoch : f \in Nat
      BY EpochsAssumption DEF Epoch
    <3> QED
      BY <2>1, <3>1 DEF Watched, Oldest, Unanswered
  <2> QED
    BY <1>3, <1>4, <1>5, <1>6, <2>2, <2>3, <2>4
<1> QED
  BY <1>2, <1>3, <1>4, <1>7, <1>8

\* The steps that are not of a pass do not lead into one, and leave what the passes returned.
LEMMA NotInPass ==
    ASSUME [Next]_vars,
           ~ \E k \in Kind : \/ PassIdle(k) \/ PassSign(k) \/ PassSend(k) \/ PassMined(k)
                             \/ PassWait(k) \/ PassReplace(k)
    PROVE  UNCHANGED <<pc, flying>> \/ pc' \notin {"publish", "sendPublish", "batch"}
<1>1. CASE \/ UNCHANGED vars \/ (\E r \in Record : Commit(r) \/ Enqueue(r))
           \/ AskClose \/ AskPublish \/ NextEpoch \/ Mine \/ Reorg \/ Settle
  BY <1>1 DEF vars, memory, Commit, Enqueue, AskClose, AskPublish, NextEpoch, Mine, Reorg, Settle
<1>2. CASE \/ Ingest \/ SaveCursor \/ Cut \/ TakeItems \/ SaveChain \/ WriteSidecars \/ Send
           \/ MarkPending \/ Include \/ Wait \/ Replace \/ NoBatch \/ AnswerCloses \/ Promote \/ Drop
           \/ Requeue \/ PollDone \/ TickError \/ Restart
  BY <1>2 DEF Ingest, SaveCursor, Cut, TakeItems, SaveChain, WriteSidecars, Send, MarkPending,
        Include, Wait, Replace, NoBatch, AnswerCloses, Promote, Drop, Requeue, PollDone, TickError,
        Restart, TickOver, Goto
<1> QED
  BY <1>1, <1>2 DEF Next, TickStep, ParentStep

\* Every step keeps a batch alone in the air.
LEMMA NextAlone == TypeInv /\ AskInv /\ AloneInv /\ [Next]_vars => AloneInv'
<1> SUFFICES ASSUME TypeInv, AskInv, AloneInv, [Next]_vars PROVE AloneInv'
  OBVIOUS
<1> DEFINE G == "genesis"
           P == "publish"
<1>1. /\ \A b, c \in Active : b = c
      /\ Active # {} => \A k \in Kind : Watched(k) = {}
      /\ pc \in {"publish", "sendPublish", "batch"} /\ ~flying[G] => Watched(G) = {}
      /\ pc = "batch" /\ ~flying[P] => Watched(P) = {}
      /\ Kind = {G, P}
  BY DEF AloneInv, Kind
<1>2. \A k \in Kind : Watched(k)' \subseteq Watched(k) \/ PassSign(k)
  BY WatchStep
<1>3. ASSUME NEW k \in Kind, PassSign(k) PROVE AloneInv'
  <2>1. /\ Active' = {} /\ pc = k /\ flying' = flying
        /\ pc' = IF k = G THEN "sendGenesis" ELSE "sendPublish"
    BY <1>3 DEF PassSign, CanSend, Active, Goto
  <2>2. CASE k = G
    BY <2>1, <2>2 DEF AloneInv
  <2>3. CASE k = P
    <3>1. ~PassSign(G)
      BY <2>1, <2>3 DEF PassSign
    <3>2. Watched(G)' \subseteq Watched(G)
      BY <1>1, <1>2, <3>1
    <3> QED
      BY <1>1, <2>1, <2>3, <3>2 DEF AloneInv
  <2> QED
    BY <1>1, <2>2, <2>3
<1>4. ASSUME NEW k \in Kind,
             PassIdle(k) \/ PassSend(k) \/ PassMined(k) \/ PassWait(k) \/ PassReplace(k)
      PROVE  AloneInv'
  <2>1. /\ pc' = AfterPass(k) /\ pc \in {k, IF k = G THEN "sendGenesis" ELSE "sendPublish"}
        /\ \A l \in Kind \ {k} : flying'[l] = flying[l]
        /\ ~flying'[k] => Watched(k)' = {}
    BY <1>4, PassReturns
  <2>2. UNCHANGED batches /\ UNCHANGED sent
    BY <1>4 DEF PassIdle, PassSend, PassMined, PassWait, PassReplace, files
  <2>3. Active' = Active
    BY <2>2 DEF Active
  <2>4. \A l \in Kind : Watched(l)' \subseteq Watched(l)
    <3>1. ASSUME NEW l \in Kind, PassSign(l) PROVE FALSE
      <4>1. pc' \in {"sendGenesis", "sendPublish"}
        BY <3>1 DEF PassSign, Goto
      <4>2. pc' \in {"publish", "batch"}
        BY <2>1 DEF AfterPass
      <4> QED
        BY <4>1, <4>2
    <3> QED
      BY <1>2, <3>1
  <2>5. CASE k = G
    <3>1. pc' = "publish"
      BY <2>1, <2>5 DEF AfterPass
    <3> QED
      BY <1>1, <2>1, <2>3, <2>4, <2>5, <3>1 DEF AloneInv
  <2>6. CASE k = P
    <3>1. pc' = "batch" /\ pc \in {"publish", "sendPublish"} /\ flying'[G] = flying[G]
      BY <1>1, <2>1, <2>6 DEF AfterPass
    <3>2. ~flying'[G] => Watched(G)' = {}
      BY <1>1, <2>4, <3>1
    <3> QED
      BY <1>1, <2>1, <2>3, <2>4, <2>6, <3>1, <3>2 DEF AloneInv
  <2> QED
    BY <1>1, <2>5, <2>6
<1>5. CASE ~ \E k \in Kind : \/ PassIdle(k) \/ PassSign(k) \/ PassSend(k) \/ PassMined(k)
                             \/ PassWait(k) \/ PassReplace(k)
  <2>1. \A k \in Kind : Watched(k)' \subseteq Watched(k)
    BY <1>2, <1>5
  <2>2. UNCHANGED <<pc, flying>> \/ pc' \notin {"publish", "sendPublish", "batch"}
    BY <1>5, NotInPass
  <2>3. CASE Active' \subseteq Active
    BY <1>1, <2>1, <2>2, <2>3 DEF AloneInv
  <2>4. CASE Cut /\ \A b \in Active' : b = Len(batches) + 1
    <3>1. pc = "batch" /\ ~flying[G] /\ ~flying[P] /\ pc' = "takeItems"
      BY <2>4 DEF Cut, CutNow, Goto
    <3>2. \A k \in Kind : Watched(k)' = {}
      BY <1>1, <2>1, <3>1
    <3> QED
      BY <2>4, <3>1, <3>2 DEF AloneInv
  <2> QED
    BY <2>3, <2>4, ActiveStep
<1> QED
  BY <1>3, <1>4, <1>5

\* At first nothing is in the air.
LEMMA InitAlone == Init => AloneInv
<1> SUFFICES ASSUME Init PROVE AloneInv
  OBVIOUS
<1>1. Active = {} /\ pc = "ingest"
  BY DEF Init, Active
<1> QED
  BY <1>1 DEF AloneInv

\* OneInTheAir: "A genesis transaction and a ceiling batch never fly together", and no publish
\* and no second batch flies with a batch, across every restart.
THEOREM OneInTheAir == Spec => []BatchFliesAlone
<1>1. Init => TypeInv /\ AskInv /\ AloneInv
  BY InitTypes, InitAsks, InitAlone
<1>2. TypeInv /\ AskInv /\ AloneInv /\ [Next]_vars => (TypeInv /\ AskInv /\ AloneInv)'
  BY NextTypes, NextAlone
<1>3. AloneInv => BatchFliesAlone
  <2> SUFFICES ASSUME AloneInv, Active # {} PROVE Cardinality(Active) = 1
    BY DEF AloneInv, BatchFliesAlone
  <2>1. PICK b \in Active : Active = {b}
    BY DEF AloneInv
  <2> QED
    BY <2>1, FS_Singleton
<1> QED
  BY <1>1, <1>2, <1>3, PTL DEF Spec

-----------------------------------------------------------------------------
(* The nonces: a batch's transaction is not pushed out.                    *)

\* The transactions in the blocks are counted by the account's nonce.
LEMMA FullIs ==
    ASSUME BaseType
    PROVE  /\ IsFiniteSet(Full) /\ MinedCount = Cardinality(Full) /\ MinedCount \in Nat
           /\ \A h \in Full : h \in Nat /\ blocks[h].tx \in Tx
           /\ \A tx \in Seen : tx \in Tx /\ tx.nonce \in Nat /\ tx # NoTx
<1> DEFINE Block == [tx: Tx \cup {NoTx}, fork: {0, 1}]
<1>1. blocks \in Seq(Block) /\ mempool \subseteq Tx
  BY DEF BaseType
<1>2. \A h \in DOMAIN blocks : h \in Nat /\ blocks[h].tx \in Tx \cup {NoTx}
  <2> SUFFICES ASSUME NEW h \in DOMAIN blocks PROVE h \in Nat /\ blocks[h] \in Block
    BY DEF Block
  <2> HIDE DEF Block
  <2> QED
    BY <1>1, ElementOfSeq, LenProperties
<1>3. IsFiniteSet(DOMAIN blocks)
  <2> HIDE DEF Block
  <2>1. Len(blocks) \in Nat /\ DOMAIN blocks = 1..Len(blocks)
    BY <1>1, LenProperties
  <2> QED
    BY <2>1, FS_Interval
<1>4. IsFiniteSet(Full)
  BY <1>3, FS_Subset DEF Full
<1>5. NoTx \notin Tx
  BY DEF Tx, NoTx, Kind
<1>6. \A tx \in Seen : tx \in Tx
  BY <1>1, <1>2 DEF Seen, Full
<1>7. \A tx \in Tx : tx.nonce \in Nat
  BY DEF Tx
<1> QED
  BY <1>2, <1>4, <1>5, <1>6, <1>7, FS_CardinalityType DEF MinedCount, Full

\* The next nonce is that of no transaction anybody can see.
LEMMA NextNonceFree ==
    ASSUME TypeInv, NonceInv, NEW tx \in Seen
    PROVE  tx.nonce # NextNonce
<1>1. NextNonce \in Nat /\ MinedCount <= NextNonce /\ \A t \in mempool : t.nonce # NextNonce
  BY NextNonceType DEF TypeInv
<1>2. MinedCount \in Nat /\ tx.nonce \in Nat
  BY FullIs DEF TypeInv
<1>3. \A h \in Full : blocks[h].tx.nonce < MinedCount
  BY DEF NonceInv, MinedInOrder
<1> QED
  BY <1>1, <1>2, <1>3 DEF Seen

\* While no batch is in flight the next nonce is that of no batch that stands.
LEMMA NextNonceOfNone ==
    ASSUME TypeInv, NonceInv, Active = {}, NEW b \in DOMAIN batches, Live(b)
    PROVE  batches[b].nonce # NextNonce
<1>1. batches[b].state \in {"included", "safe", "finalized"}
  BY ItemsAre DEF Active, Live, Batch
<1>2. BatchTx(b) \in Seen
  BY <1>1 DEF NonceInv, Out
<1> QED
  BY <1>2, NextNonceFree DEF BatchTx

\* Only a cut makes a batch stand, and only a mined one comes out.
LEMMA StandStep ==
    ASSUME TypeInv, [Next]_vars, ~Cut
    PROVE  /\ DOMAIN batches' = DOMAIN batches
           /\ \A b \in DOMAIN batches : /\ batches'[b].nonce = batches[b].nonce
                                        /\ Live(b)' => Live(b)
                                        /\ Out(b)' => Out(b) \/ Mined(BatchTx(b))
<1>1. CASE MarkPending
  <2>1. at \in DOMAIN batches /\ at \in Active /\ batches' = [batches EXCEPT ![at].state = "pending"]
    BY <1>1 DEF MarkPending, TypeInv, BatchType
  <2>2. /\ DOMAIN batches' = DOMAIN batches /\ batches'[at].state = "pending"
        /\ \A c \in DOMAIN batches : /\ c # at => batches'[c] = batches[c]
                                     /\ batches'[c].nonce = batches[c].nonce
                                     /\ batches'[c].height = batches[c].height
    BY <2>1, StateWritten
  <2> QED
    BY <2>1, <2>2 DEF Live, Out, Active
<1>2. CASE Include
  <2>1. PICK b \in Pending :
           /\ Mined(BatchTx(b))
           /\ batches' = [batches EXCEPT ![b].state = "included", ![b].height = Height(BatchTx(b)),
                                         ![b].fork = blocks[Height(BatchTx(b))].fork]
    BY <1>2 DEF Include
  <2>2. b \in DOMAIN batches /\ batches[b].state = "pending"
    BY DEF Pending
  <2>3. /\ DOMAIN batches' = DOMAIN batches
        /\ \A c \in DOMAIN batches : /\ c # b => batches'[c] = batches[c]
                                     /\ batches'[c].nonce = batches[c].nonce
    BY <2>1, <2>2, Included
  <2> QED
    BY <2>1, <2>2, <2>3 DEF Live, Out
<1>3. CASE Promote
  <2>1. PICK b \in DOMAIN batches :
           /\ batches[b].state \in {"included", "safe"} /\ DOMAIN batches' = DOMAIN batches
           /\ \A c \in DOMAIN batches : /\ c # b => batches'[c] = batches[c]
                                        /\ batches'[c].nonce = batches[c].nonce
    BY <1>3, Promoted
  <2> QED
    BY <2>1 DEF Live, Out
<1>4. CASE Drop
  <2>1. PICK b \in DOMAIN batches : batches' = [batches EXCEPT ![b].state = "dropped"]
    BY <1>4 DEF Drop, Open
  <2>2. /\ DOMAIN batches' = DOMAIN batches /\ batches'[b].state = "dropped"
        /\ \A c \in DOMAIN batches : /\ c # b => batches'[c] = batches[c]
                                     /\ batches'[c].nonce = batches[c].nonce
    BY <2>1, StateWritten
  <2> QED
    BY <2>2 DEF Live, Out
<1>5. CASE ~(MarkPending \/ Include \/ Promote \/ Drop)
  <2>1. UNCHANGED batches
    BY <1>5 DEF Next, TickStep, ParentStep, vars, files, Commit, Enqueue, AskClose, AskPublish,
        NextEpoch, Ingest, SaveCursor, PassIdle, PassSign, PassSend, PassMined, PassWait, PassReplace,
        TakeItems, SaveChain, WriteSidecars, Send, Wait, Replace, NoBatch, AnswerCloses, Requeue,
        PollDone, TickError, Restart, Mine, Reorg, Settle
  <2> QED
    BY <2>1 DEF Live, Out
<1> QED
  BY <1>1, <1>2, <1>3, <1>4, <1>5

\* A request that is signed and not reported has the nonce it was signed with.
LEMMA AskedStep ==
    ASSUME TypeInv, [Next]_vars, NEW k \in Kind, NEW e \in Epoch, sent'[k][e] # None, ~done'[k][e]
    PROVE  \/ sent[k][e] = sent'[k][e] /\ ~done[k][e]
           \/ PassSign(k) /\ sent'[k][e] = NextNonce
<1>1. /\ sent \in [Kind -> [Epoch -> {None} \cup Nat]] /\ done \in [Kind -> [Epoch -> BOOLEAN]]
  BY DEF TypeInv, PassType
<1>2. ASSUME NEW l \in Kind, PassSign(l)
      PROVE  \/ sent[k][e] = sent'[k][e] /\ ~done[k][e]
             \/ PassSign(k) /\ sent'[k][e] = NextNonce
  <2>1. PICK f \in Epoch : sent' = [sent EXCEPT ![l][f] = NextNonce]
    BY <1>2 DEF PassSign, Oldest, Unanswered
  <2>2. done' = done
    BY <1>2 DEF PassSign
  <2> QED
    BY <1>1, <1>2, <2>1, <2>2
<1>3. ASSUME NEW l \in Kind, PassMined(l) PROVE sent[k][e] = sent'[k][e] /\ ~done[k][e]
  <2>1. PICK f \in Epoch : done' = [done EXCEPT ![l][f] = TRUE]
    BY <1>3 DEF PassMined, Watched, Oldest, Unanswered
  <2>2. sent' = sent
    BY <1>3 DEF PassMined
  <2> QED
    BY <1>1, <2>1, <2>2
<1>4. CASE ~ \E l \in Kind : PassSign(l) \/ PassMined(l)
  <2>1. UNCHANGED <<sent, done>>
    BY <1>4 DEF Next, TickStep, ParentStep, vars, files, Commit, Enqueue, AskClose, AskPublish,
        NextEpoch, Ingest, SaveCursor, PassIdle, PassSend, PassWait, PassReplace, Cut,
        TakeItems, SaveChain, WriteSidecars, Send, MarkPending, Include, Wait, Replace, NoBatch,
        AnswerCloses, Promote, Drop, Requeue, PollDone, TickError, Restart, Mine, Reorg, Settle
  <2> QED
    BY <2>1
<1> QED
  BY <1>2, <1>3, <1>4

\* The batches that stand keep the nonces to themselves, when the chain's step lets them.
LEMMA NoncesStay ==
    ASSUME TypeInv, NonceInv, [Next]_vars, ~Cut, MinedInOrder',
           \A b \in DOMAIN batches : Live(b) =>
               /\ BatchTx(b) \in Seen => BatchTx(b) \in Seen'
               /\ \A tx \in Seen' : tx.nonce = batches[b].nonce => tx \in Seen \/ tx = BatchTx(b)
    PROVE  NonceInv'
<1>1. /\ DOMAIN batches' = DOMAIN batches
      /\ \A b \in DOMAIN batches : /\ batches'[b].nonce = batches[b].nonce
                                   /\ Live(b)' => Live(b)
                                   /\ Out(b)' => Out(b) \/ Mined(BatchTx(b))
  BY StandStep
<1>2. \A b \in DOMAIN batches : BatchTx(b)' = BatchTx(b)
  BY <1>1 DEF BatchTx
<1>3. ASSUME NEW b \in DOMAIN batches, Out(b)' PROVE BatchTx(b) \in Seen'
  <2>1. Live(b)' /\ Live(b)
    BY <1>1, <1>3 DEF Out
  <2>2. Out(b) => BatchTx(b) \in Seen
    BY DEF NonceInv
  <2>3. Mined(BatchTx(b)) => BatchTx(b) \in Seen
    BY TxTypes DEF Mined, Seen, Full
  <2> QED
    BY <1>1, <1>3, <2>1, <2>2, <2>3
<1>4. ASSUME NEW b \in DOMAIN batches, Live(b), NEW tx \in Seen', tx.nonce = batches[b].nonce
      PROVE  tx = BatchTx(b)
  BY <1>4 DEF NonceInv
<1>5. ASSUME NEW b \in DOMAIN batches, Live(b), NEW c \in DOMAIN batches, Live(c),
             batches[c].nonce = batches[b].nonce
      PROVE  c = b
  BY <1>5 DEF NonceInv
<1>6. ASSUME NEW b \in DOMAIN batches, Live(b), NEW k \in Kind, NEW e \in Epoch,
             sent'[k][e] # None, ~done'[k][e]
      PROVE  sent'[k][e] # batches[b].nonce
  <2>1. CASE sent[k][e] = sent'[k][e] /\ ~done[k][e]
    BY <1>6, <2>1 DEF NonceInv
  <2>2. CASE PassSign(k) /\ sent'[k][e] = NextNonce
    <3>1. Active = {}
      BY <2>2 DEF PassSign, CanSend
    <3> QED
      BY <1>6, <2>2, <3>1, NextNonceOfNone
  <2> QED
    BY <1>6, <2>1, <2>2, AskedStep
<1> QED
  BY <1>1, <1>2, <1>3, <1>4, <1>5, <1>6 DEF NonceInv

\* A cut takes a nonce that nobody has.
LEMMA CutNonce == ASSUME TypeInv, AskInv, AloneInv, NonceInv, Cut PROVE NonceInv'
<1> PICK n : n = Len(batches) + 1
  OBVIOUS
<1>1. /\ \A b \in DOMAIN batches : b \in DOMAIN batches' /\ batches'[b] = batches[b]
      /\ \A b \in DOMAIN batches' : b \in DOMAIN batches \/ b = n
      /\ batches'[n].state = "sending" /\ batches'[n].height = 0 /\ batches'[n].nonce = NextNonce
  BY CutAdds
<1>2. Active = {} /\ \A k \in Kind : Watched(k) = {}
  BY DEF Cut, CutNow, AloneInv, Kind
<1>3. \A k \in Kind, e \in Epoch : sent[k][e] # None => done[k][e]
  BY <1>2, WatchedIs
<1>4. UNCHANGED <<blocks, mempool, sent, done>>
  BY DEF Cut, base
<1>5. Seen' = Seen /\ MinedInOrder'
  BY <1>4 DEF Seen, Full, MinedInOrder, MinedCount, NonceInv
<1>6. \A b \in DOMAIN batches : /\ BatchTx(b)' = BatchTx(b) /\ (Live(b)' <=> Live(b))
                                /\ (Out(b)' <=> Out(b))
  BY <1>1 DEF BatchTx, Live, Out
<1>7. ~Out(n)'
  BY <1>1 DEF Out
<1>8. \A b \in DOMAIN batches : Live(b) => batches[b].nonce # NextNonce
  BY <1>2, NextNonceOfNone
<1>9. \A tx \in Seen : tx.nonce # NextNonce
  BY NextNonceFree
<1>10. \A b \in DOMAIN batches' : Out(b)' => BatchTx(b)' \in Seen'
  BY <1>1, <1>5, <1>6, <1>7 DEF NonceInv
<1>11. ASSUME NEW b \in DOMAIN batches', Live(b)', NEW tx \in Seen', tx.nonce = batches'[b].nonce
       PROVE  tx = BatchTx(b)'
  BY <1>1, <1>5, <1>6, <1>9, <1>11 DEF NonceInv
<1>12. ASSUME NEW b \in DOMAIN batches', Live(b)', NEW c \in DOMAIN batches', Live(c)',
              batches'[c].nonce = batches'[b].nonce
       PROVE  c = b
  BY <1>1, <1>6, <1>8, <1>12 DEF NonceInv
<1> QED
  BY <1>3, <1>4, <1>5, <1>10, <1>11, <1>12 DEF NonceInv

\* A mined block takes the next nonce, and pushes out nothing but what has the same.
LEMMA MineNonce == ASSUME TypeInv, AskInv, NonceInv, Mine PROVE NonceInv'
<1> DEFINE n == Len(blocks) + 1
<1>1. PICK tx \in mempool :
             /\ tx.nonce = MinedCount /\ mempool' = {t \in mempool : t.nonce # tx.nonce}
             /\ Len(blocks) \in Nat /\ DOMAIN blocks = 1..Len(blocks) /\ DOMAIN blocks' = 1..n
             /\ blocks'[n] = [tx |-> tx, fork |-> 0]
             /\ \A h \in DOMAIN blocks : blocks'[h] = blocks[h]
  BY BlocksMined
<1>2. /\ DOMAIN blocks' = DOMAIN blocks \cup {n} /\ n \notin DOMAIN blocks /\ n \in Nat
      /\ \A h \in DOMAIN blocks : h < n
  BY <1>1
<1> HIDE DEF n
<1>3. tx \in Seen /\ tx # NoTx
  <2>1. tx \in Seen
    BY DEF Seen
  <2> QED
    BY <2>1, FullIs DEF TypeInv
<1>4. Full' = Full \cup {n} /\ n \notin Full
  <2>1. blocks'[n].tx # NoTx /\ \A h \in DOMAIN blocks : blocks'[h].tx = blocks[h].tx
    BY <1>1, <1>3
  <2>2. Full' = {h \in DOMAIN blocks \cup {n} : blocks'[h].tx # NoTx}
    BY <1>2 DEF Full
  <2>3. n \notin Full /\ \A h \in DOMAIN blocks : h \in Full <=> blocks[h].tx # NoTx
    BY <1>2 DEF Full
  <2> QED
    BY <2>1, <2>2, <2>3 DEF Full
<1>5. MinedCount' = MinedCount + 1 /\ MinedCount \in Nat
  <2>1. IsFiniteSet(Full) /\ MinedCount = Cardinality(Full) /\ MinedCount \in Nat
    BY FullIs DEF TypeInv
  <2>2. MinedCount' = Cardinality(Full')
    BY DEF MinedCount, Full
  <2> QED
    BY <1>4, <2>1, <2>2, FS_AddElement
<1>6. \A h \in Full : blocks'[h].tx = blocks[h].tx /\ h < n /\ h \in Nat /\ blocks[h].tx.nonce \in Nat
  BY <1>1, <1>2, FullIs DEF Full, Seen, TypeInv
<1>7. MinedInOrder'
  <2>1. \A h \in Full : /\ blocks[h].tx.nonce < MinedCount
                        /\ \A j \in Full : j < h => blocks[j].tx.nonce < blocks[h].tx.nonce
    BY DEF NonceInv, MinedInOrder
  <2>2. blocks'[n].tx.nonce = MinedCount
    BY <1>1
  <2>3. ASSUME NEW h \in Full'
        PROVE  /\ blocks'[h].tx.nonce < MinedCount'
               /\ \A j \in Full' : j < h => blocks'[j].tx.nonce < blocks'[h].tx.nonce
    <3>1. CASE h = n
      BY <1>2, <1>4, <1>5, <1>6, <2>1, <2>2, <3>1
    <3>2. CASE h \in Full
      <4>1. \A j \in Full' : j < h => j \in Full
        BY <1>2, <1>4, <1>6, <3>2
      <4> QED
        BY <1>5, <1>6, <2>1, <3>2, <4>1
    <3> QED
      BY <1>4, <3>1, <3>2
  <2> QED
    BY <2>3 DEF MinedInOrder
<1>8. Seen' \subseteq Seen
  BY <1>1, <1>3, <1>4, <1>6 DEF Seen
<1>9. ASSUME NEW b \in DOMAIN batches, Live(b), BatchTx(b) \in Seen PROVE BatchTx(b) \in Seen'
  <2>1. BatchTx(b).nonce = tx.nonce => tx = BatchTx(b)
    BY <1>3, <1>9 DEF NonceInv, BatchTx
  <2>2. tx \in Seen'
    BY <1>1, <1>4 DEF Seen
  <2>3. \A t \in Seen : t.nonce = tx.nonce \/ t \in Seen'
    BY <1>1, <1>4, <1>6 DEF Seen
  <2> QED
    BY <1>9, <2>1, <2>2, <2>3
<1>10. Next /\ ~Cut
  BY DEF Next, Mine, Cut, memory, Goto
<1> QED
  BY <1>7, <1>8, <1>9, <1>10, NoncesStay

\* A reorg gives back the newest nonce, and its transaction.
LEMMA ReorgNonce == ASSUME TypeInv, AskInv, NonceInv, Reorg PROVE NonceInv'
<1> DEFINE n == Len(blocks)
<1>1. /\ mempool' = mempool \cup {blocks[n].tx} /\ n \in Nat /\ n \in DOMAIN blocks
      /\ DOMAIN blocks' = DOMAIN blocks /\ blocks[n].tx # NoTx
      /\ blocks'[n].tx = NoTx /\ \A h \in DOMAIN blocks : h # n => blocks'[h] = blocks[h]
  BY BlocksReplaced DEF Reorg, Last
<1>2. \A h \in DOMAIN blocks : h \in Nat /\ h <= n
  BY LenProperties DEF TypeInv, BaseType
<1> HIDE DEF n
<1>3. Full' = Full \ {n} /\ n \in Full
  BY <1>1 DEF Full
<1>4. MinedCount' = MinedCount - 1 /\ MinedCount \in Nat
  <2>1. IsFiniteSet(Full) /\ MinedCount = Cardinality(Full) /\ MinedCount \in Nat
    BY FullIs DEF TypeInv
  <2>2. MinedCount' = Cardinality(Full')
    BY DEF MinedCount, Full
  <2> QED
    BY <1>3, <2>1, <2>2, FS_RemoveElement
<1>5. \A h \in Full' : h \in Full /\ blocks'[h].tx = blocks[h].tx /\ h < n
  BY <1>1, <1>2, <1>3 DEF Full
<1>6. MinedInOrder'
  <2>1. \A h \in Full : /\ blocks[h].tx.nonce < MinedCount /\ blocks[h].tx.nonce \in Nat
                        /\ \A j \in Full : j < h => blocks[j].tx.nonce < blocks[h].tx.nonce
    BY FullIs DEF NonceInv, MinedInOrder, Seen, TypeInv
  <2>2. ASSUME NEW h \in Full' PROVE blocks'[h].tx.nonce < MinedCount'
    <3>1. h \in Full /\ blocks'[h].tx = blocks[h].tx /\ h < n
      BY <1>5
    <3>2. blocks[h].tx.nonce < blocks[n].tx.nonce
      BY <1>3, <2>1, <3>1
    <3> QED
      BY <1>3, <1>4, <2>1, <3>1, <3>2
  <2> QED
    BY <1>5, <2>1, <2>2 DEF MinedInOrder
<1>7. Seen' = Seen
  <2>1. Seen' = mempool' \cup {blocks[h].tx : h \in Full'}
    BY <1>5 DEF Seen
  <2> QED
    BY <1>1, <1>3, <2>1 DEF Seen
<1>8. Next /\ ~Cut
  BY DEF Next, Reorg, Cut, memory, Goto
<1> QED
  BY <1>6, <1>7, <1>8, NoncesStay

\* Every step keeps the nonces apart.
LEMMA NextNonces == TypeInv /\ AskInv /\ AloneInv /\ NonceInv /\ [Next]_vars => NonceInv'
<1> SUFFICES ASSUME TypeInv, AskInv, AloneInv, NonceInv, [Next]_vars PROVE NonceInv'
  OBVIOUS
<1>1. CASE Send \/ Replace \/ \E k \in Kind : PassSend(k) \/ PassReplace(k)
  <2>1. UNCHANGED <<blocks, batches>> /\ ~Cut
    <3>1. UNCHANGED <<blocks, batches>>
      BY <1>1, BroadcastsSaved
    <3>2. Cut => batches' # batches
      <4>1. Cut => Len(batches) + 1 \in DOMAIN batches' /\ Len(batches) + 1 \notin DOMAIN batches
        BY CutAdds
      <4> QED
        BY <4>1
    <3> QED
      BY <3>1, <3>2
  <2>2. MinedInOrder' /\ Full' = Full
    BY <2>1 DEF Full, MinedInOrder, MinedCount, NonceInv
  <2>3. mempool \subseteq mempool'
    BY <1>1, TxTypes, BroadcastOf DEF Broadcast
  <2>4. Seen \subseteq Seen' /\ \A tx \in Seen' : tx \in Seen \/ tx \in mempool' \ mempool
    BY <2>1, <2>2, <2>3 DEF Seen
  <2>5. ASSUME NEW tx \in mempool' \ mempool, NEW b \in DOMAIN batches, Live(b), tx.nonce = batches[b].nonce
        PROVE  tx = BatchTx(b)
    <3>1. CASE \E k \in Kind : \E e \in Watched(k) : Broadcast(AskTx(k, e))
      <4>1. PICK k \in Kind : \E e \in Watched(k) : Broadcast(AskTx(k, e))
        BY <3>1
      <4>2. PICK e \in Watched(k) : Broadcast(AskTx(k, e))
        BY <4>1
      <4>3. tx = AskTx(k, e)
        BY <2>5, <4>2 DEF Broadcast
      <4>4. e \in Epoch /\ sent[k][e] # None /\ ~done[k][e]
        BY WatchedIs
      <4> QED
        BY <2>5, <4>3, <4>4 DEF AskTx, NonceInv
    <3>2. CASE \E c \in Active : Broadcast(BatchTx(c))
      <4>1. PICK c \in Active : Broadcast(BatchTx(c))
        BY <3>2
      <4>2. tx = BatchTx(c) /\ c \in DOMAIN batches /\ Live(c)
        BY <2>5, <4>1 DEF Broadcast, Active, Live
      <4> QED
        BY <2>5, <4>2 DEF BatchTx, NonceInv
    <3> QED
      BY <1>1, <3>1, <3>2, BroadcastOf
  <2> QED
    BY <2>1, <2>2, <2>4, <2>5, NoncesStay
<1>2. CASE UNCHANGED <<blocks, mempool>> /\ ~Cut
  <2>1. Seen' = Seen /\ MinedInOrder'
    BY <1>2 DEF Seen, Full, MinedInOrder, MinedCount, NonceInv
  <2> QED
    BY <1>2, <2>1, NoncesStay
<1>3. UNCHANGED base \/ Settle => UNCHANGED <<blocks, mempool>>
  BY DEF base, Settle
<1> QED
  BY <1>1, <1>2, <1>3, CutNonce, MineNonce, ReorgNonce, BaseKept

\* At first there is no transaction.
LEMMA InitNonces == Init => NonceInv
<1> SUFFICES ASSUME Init PROVE NonceInv
  OBVIOUS
<1>1. DOMAIN blocks = {} /\ DOMAIN batches = {}
  BY DEF Init
<1> QED
  BY <1>1 DEF NonceInv, MinedInOrder, Full

-----------------------------------------------------------------------------
(* What is called final is on the chain.                                   *)

\* A block is a record of a transaction, or none, and its fork.
LEMMA BlockType ==
    ASSUME TypeInv, NEW h \in DOMAIN blocks
    PROVE  /\ blocks[h] \in [tx: Tx \cup {NoTx}, fork: {0, 1}]
           /\ blocks[h] = [tx |-> blocks[h].tx, fork |-> blocks[h].fork]
           /\ h \in Nat
<1> DEFINE Block == [tx: Tx \cup {NoTx}, fork: {0, 1}]
<1>1. blocks \in Seq(Block)
  BY DEF TypeInv, BaseType
<1> HIDE DEF Block
<1>2. blocks[h] \in Block /\ h \in Nat
  BY <1>1, ElementOfSeq, LenProperties
<1> QED
  BY <1>2 DEF Block

\* The batch files stay as they are while the chain moves.
LEMMA ChainMoves ==
    ASSUME TypeInv, ChainInv, [Next]_vars, UNCHANGED batches
    PROVE  ChainInv'
<1>1. /\ \A h \in DOMAIN blocks : blocks[h].fork = 1 <=> blocks[h].tx = NoTx
      /\ \A b \in DOMAIN batches : batches[b].state \in {"included", "safe", "finalized"} => Placed(b)
      /\ \A b \in DOMAIN batches : batches[b].state \in {"safe", "finalized"} /\ ~batches[b].unread =>
            batches[b].height <= safe /\ blocks[batches[b].height].fork = 0
  BY DEF ChainInv
<1>2. \A b \in DOMAIN batches : BatchTx(b)' = BatchTx(b) /\ batches'[b] = batches[b]
  BY DEF BatchTx
<1>3. \A b \in DOMAIN batches : batches[b].height \in Nat
  BY ItemsAre DEF Batch
<1>4. safe \in Nat /\ final \in Nat /\ Len(blocks) \in Nat /\ safe <= Len(blocks)
  BY LenProperties DEF TypeInv, BaseType
<1>5. CASE Mine
  <2>1. PICK tx \in mempool :
             /\ DOMAIN blocks = 1..Len(blocks) /\ DOMAIN blocks' = 1..(Len(blocks) + 1)
             /\ blocks'[Len(blocks) + 1] = [tx |-> tx, fork |-> 0]
             /\ \A h \in DOMAIN blocks : blocks'[h] = blocks[h]
    BY <1>5, BlocksMined
  <2>2. /\ \A h \in DOMAIN blocks' : h \in DOMAIN blocks \/ h = Len(blocks) + 1
        /\ \A h \in DOMAIN blocks : h \in DOMAIN blocks'
    BY <1>4, <2>1
  <2>3. tx # NoTx
    BY DEF TypeInv, BaseType, Tx, NoTx, Kind
  <2>4. \A h \in DOMAIN blocks' : blocks'[h].fork = 1 <=> blocks'[h].tx = NoTx
    BY <1>1, <2>1, <2>2, <2>3
  <2>5. \A b \in DOMAIN batches : Placed(b) => Placed(b)'
    BY <1>2, <2>1, <2>2 DEF Placed
  <2>6. safe' = safe
    BY <1>5 DEF Mine
  <2> QED
    BY <1>1, <1>2, <2>1, <2>4, <2>5, <2>6 DEF ChainInv, Placed
<1>6. CASE Reorg
  <2>1. /\ DOMAIN blocks' = DOMAIN blocks /\ safe < Len(blocks)
        /\ \A h \in DOMAIN blocks : blocks'[h] = IF h = Len(blocks) THEN [tx |-> NoTx, fork |-> 1]
                                                                    ELSE blocks[h]
    BY <1>6, BlocksReplaced
  <2>2. \A h \in DOMAIN blocks' : blocks'[h].fork = 1 <=> blocks'[h].tx = NoTx
    BY <1>1, <2>1
  <2>3. \A b \in DOMAIN batches : Placed(b) => Placed(b)'
    BY <1>2, <2>1 DEF Placed
  <2>4. safe' = safe
    BY <1>6 DEF Reorg
  <2>5. ASSUME NEW b \in DOMAIN batches, batches[b].state \in {"safe", "finalized"}, ~batches[b].unread
        PROVE  batches[b].height <= safe /\ blocks'[batches[b].height].fork = 0
    <3>1. batches[b].height <= safe /\ blocks[batches[b].height].fork = 0 /\ batches[b].height \in DOMAIN blocks
      BY <1>1, <2>5 DEF Placed
    <3>2. batches[b].height # Len(blocks)
      BY <1>3, <1>4, <2>1, <3>1
    <3> QED
      BY <2>1, <3>1, <3>2
  <2> QED
    BY <1>1, <1>2, <2>2, <2>3, <2>4, <2>5 DEF ChainInv
<1>7. CASE Settle
  <2>1. UNCHANGED blocks /\ safe' \in Nat /\ safe <= safe'
    BY <1>4, <1>7 DEF Settle
  <2>2. \A b \in DOMAIN batches : batches[b].height <= safe => batches[b].height <= safe'
    BY <1>3, <1>4, <2>1
  <2>3. \A b \in DOMAIN batches : Placed(b) => Placed(b)'
    BY <1>2, <2>1 DEF Placed
  <2> QED
    BY <1>1, <1>2, <2>1, <2>2, <2>3 DEF ChainInv
<1>8. CASE UNCHANGED <<blocks, safe>>
  <2>1. \A b \in DOMAIN batches : Placed(b) => Placed(b)'
    BY <1>2, <1>8 DEF Placed
  <2> QED
    BY <1>1, <1>2, <1>8, <2>1 DEF ChainInv
<1>9. UNCHANGED base \/ Send \/ Replace \/ (\E k \in Kind : PassSend(k) \/ PassReplace(k))
         => UNCHANGED <<blocks, safe>>
  BY DEF base, Send, Replace, PassSend, PassReplace
<1> QED
  BY <1>5, <1>6, <1>7, <1>8, <1>9, BaseKept

\* One batch file is written, and the chain stays as it is.
LEMMA BatchMoves ==
    ASSUME TypeInv, ChainInv, UNCHANGED <<blocks, safe>>, NEW b \in DOMAIN batches',
           \A c \in DOMAIN batches' \ {b} : c \in DOMAIN batches /\ batches'[c] = batches[c],
           batches'[b].state \in {"included", "safe", "finalized"} => Placed(b)',
           batches'[b].state \in {"safe", "finalized"} /\ ~batches'[b].unread =>
               batches'[b].height <= safe /\ blocks[batches'[b].height].fork = 0
    PROVE  ChainInv'
<1>1. \A c \in DOMAIN batches' \ {b} : BatchTx(c)' = BatchTx(c)
  BY DEF BatchTx
<1>2. \A c \in DOMAIN batches' \ {b} : Placed(c) => Placed(c)'
  BY <1>1 DEF Placed
<1>3. \A h \in DOMAIN blocks' : blocks'[h].fork = 1 <=> blocks'[h].tx = NoTx
  BY DEF ChainInv
<1>4. ASSUME NEW c \in DOMAIN batches' \ {b}
      PROVE  /\ batches'[c].state \in {"included", "safe", "finalized"} => Placed(c)'
             /\ batches'[c].state \in {"safe", "finalized"} /\ ~batches'[c].unread =>
                   batches'[c].height <= safe' /\ blocks'[batches'[c].height].fork = 0
  BY <1>2 DEF ChainInv
<1> QED
  BY <1>3, <1>4 DEF ChainInv

\* Every step keeps the batches' blocks.
LEMMA NextChain == TypeInv /\ ChainInv /\ [Next]_vars => ChainInv'
<1> SUFFICES ASSUME TypeInv, ChainInv, [Next]_vars PROVE ChainInv'
  OBVIOUS
<1>1. CASE Cut
  <2>1. UNCHANGED <<blocks, safe>>
    BY <1>1 DEF Cut, base
  <2> DEFINE b == Len(batches) + 1
  <2>2. /\ b \in DOMAIN batches' /\ batches'[b].state = "sending"
        /\ \A c \in DOMAIN batches' \ {b} : c \in DOMAIN batches /\ batches'[c] = batches[c]
    BY <1>1, CutAdds
  <2> HIDE DEF b
  <2> QED
    BY <2>1, <2>2, BatchMoves
<1>2. CASE MarkPending \/ Drop
  <2>1. PICK b \in DOMAIN batches, x \in {"pending", "dropped"} : batches' = [batches EXCEPT ![b].state = x]
    BY <1>2 DEF MarkPending, Drop, Open, TypeInv, BatchType
  <2>2. UNCHANGED <<blocks, safe>>
    BY <1>2 DEF MarkPending, Drop, base
  <2>3. /\ DOMAIN batches' = DOMAIN batches /\ batches'[b].state = x
        /\ \A c \in DOMAIN batches : c # b => batches'[c] = batches[c]
    BY <2>1, StateWritten
  <2> QED
    BY <2>2, <2>3, BatchMoves
<1>3. CASE Include
  <2>1. PICK b \in Pending :
           /\ Mined(BatchTx(b))
           /\ batches' = [batches EXCEPT ![b].state = "included", ![b].height = Height(BatchTx(b)),
                                         ![b].fork = blocks[Height(BatchTx(b))].fork]
    BY <1>3 DEF Include
  <2>2. b \in DOMAIN batches /\ UNCHANGED <<blocks, safe>>
    BY <1>3 DEF Pending, Include, base
  <2>h. PICK h : h = Height(BatchTx(b))
    OBVIOUS
  <2>3. /\ h \in DOMAIN blocks /\ blocks[h].tx = BatchTx(b) /\ blocks[h].fork \in {0, 1}
        /\ DOMAIN batches' = DOMAIN batches
        /\ batches'[b].state = "included" /\ batches'[b].height = h
        /\ batches'[b].fork = blocks[h].fork
        /\ \A c \in DOMAIN batches : c # b => batches'[c] = batches[c]
    <3>1. /\ h \in DOMAIN blocks /\ blocks[h].tx = BatchTx(b) /\ blocks[h].fork \in {0, 1}
          /\ DOMAIN batches' = DOMAIN batches
          /\ batches'[b].state = "included" /\ batches'[b].height = h
          /\ \A c \in DOMAIN batches : c # b => batches'[c] = batches[c]
      BY <2>1, <2>2, <2>h, Included
    <3>2. batches'[b].fork = blocks[h].fork
      <4>1. b \in DOMAIN batches /\ batches[b] \in Batch
        BY <2>2, ItemsAre
      <4>2. batches'[b] = [batches[b] EXCEPT !.state = "included", !.height = h, !.fork = blocks[h].fork]
        BY <2>1, <2>h, <4>1
      <4> QED
        BY <4>1, <4>2 DEF Batch
    <3> QED
      BY <3>1, <3>2
  <2>4. BatchTx(b) # NoTx /\ BatchTx(b)' = BatchTx(b)
    <3>1. Next /\ ~Cut
      BY <1>3 DEF Next, TickStep, Include, Cut, Goto
    <3> QED
      BY <2>2, <3>1, BatchStep, TxTypes DEF BatchTx
  <2>5. blocks[h].fork = 0
    BY <2>3, <2>4 DEF ChainInv
  <2>6. Placed(b)'
    BY <2>2, <2>3, <2>4, <2>5 DEF Placed
  <2> QED
    BY <2>2, <2>3, <2>6, BatchMoves
<1>4. CASE Promote
  <2>1. PICK b \in DOMAIN batches, seen \in {"ours", "null"} :
           /\ batches[b].state \in {"included", "safe"} /\ Compared(b, seen)
           /\ batches[b].height <= safe
           /\ DOMAIN batches' = DOMAIN batches /\ batches'[b].unread = (seen = "null")
           /\ batches'[b].height = batches[b].height /\ batches'[b].fork = batches[b].fork
           /\ batches'[b].nonce = batches[b].nonce
           /\ \A c \in DOMAIN batches : c # b => batches'[c] = batches[c]
    BY <1>4, Promoted
  <2>2. UNCHANGED <<blocks, safe>>
    BY <1>4 DEF Promote, base
  <2>3. Placed(b)
    BY <2>1 DEF ChainInv
  <2>4. seen = "ours" => blocks[batches[b].height].fork = 0
    BY <2>1, <2>3 DEF Compared, Placed
  <2>5. Placed(b)'
    <3>1. BatchTx(b)' = BatchTx(b)
      BY <2>1 DEF BatchTx
    <3> QED
      BY <2>1, <2>2, <2>3, <3>1 DEF Placed
  <2>6. ~batches'[b].unread => seen = "ours"
    BY <2>1
  <2> QED
    BY <2>1, <2>2, <2>4, <2>5, <2>6, BatchMoves
<1>5. CASE ~(MarkPending \/ Include \/ Promote \/ Drop \/ Cut)
  <2>1. UNCHANGED batches
    BY <1>5 DEF Next, TickStep, ParentStep, vars, files, Commit, Enqueue, AskClose, AskPublish,
        NextEpoch, Ingest, SaveCursor, PassIdle, PassSign, PassSend, PassMined, PassWait, PassReplace,
        TakeItems, SaveChain, WriteSidecars, Send, Wait, Replace, NoBatch, AnswerCloses, Requeue,
        PollDone, TickError, Restart, Mine, Reorg, Settle
  <2> QED
    BY <2>1, ChainMoves
<1> QED
  BY <1>1, <1>2, <1>3, <1>4, <1>5

\* FinalStays: a batch that pollStatus has called safe or finalized, after it read the hash of
\* the block at the batch's height, has its own transaction in that block, whatever null
\* answers, reorgs and crashes came before and come after.
THEOREM FinalStays == Spec => []FinalIsCanonical
<1>1. Init => TypeInv /\ AskInv /\ ChainInv
  <2>1. Init => ChainInv
    BY DEF Init, ChainInv
  <2> QED
    BY <2>1, InitTypes, InitAsks
<1>2. TypeInv /\ AskInv /\ ChainInv /\ [Next]_vars => (TypeInv /\ AskInv /\ ChainInv)'
  BY NextTypes, NextChain
<1>3. TypeInv /\ ChainInv => FinalIsCanonical
  <2> SUFFICES ASSUME TypeInv, ChainInv, NEW b \in DOMAIN batches,
                      batches[b].state \in {"safe", "finalized"}, ~batches[b].unread
               PROVE  blocks[batches[b].height] = [tx |-> BatchTx(b), fork |-> batches[b].fork]
    BY DEF FinalIsCanonical
  <2> DEFINE h == batches[b].height
  <2>1. h \in DOMAIN blocks /\ batches[b].fork = 0 /\ blocks[h].fork = 0 /\ blocks[h].tx = BatchTx(b)
    BY DEF ChainInv, Placed
  <2>2. blocks[h] = [tx |-> blocks[h].tx, fork |-> blocks[h].fork]
    BY <2>1, BlockType
  <2> QED
    BY <2>1, <2>2
<1> QED
  BY <1>1, <1>2, <1>3, PTL DEF Spec

-----------------------------------------------------------------------------
(* No record that was read is lost.                                        *)

\* A record of a batch that stands is anchored.
LEMMA AnchoredIs ==
    \A x : x \in Anchored <=> \E b \in DOMAIN batches : Live(b) /\ x \in batches[b].items
BY DEF Anchored

\* Only a dropped batch lets go of its records.
LEMMA AnchoredStep ==
    ASSUME TypeInv, [Next]_vars, ~Drop
    PROVE  /\ \A b \in DOMAIN batches : /\ b \in DOMAIN batches' /\ batches'[b].items = batches[b].items
                                        /\ Live(b) => Live(b)'
           /\ Anchored \subseteq Anchored'
<1>1. \A b \in DOMAIN batches : b \in DOMAIN batches' /\ batches'[b].items = batches[b].items
  BY BatchStep, CutAdds
<1>2. \A b \in DOMAIN batches : Live(b) => Live(b)'
  <2>1. CASE Cut
    BY <2>1, CutAdds DEF Live
  <2>2. CASE MarkPending
    <3>1. at \in DOMAIN batches /\ batches' = [batches EXCEPT ![at].state = "pending"]
      BY <2>2 DEF MarkPending, TypeInv, BatchType
    <3>2. batches'[at].state = "pending" /\ \A c \in DOMAIN batches : c # at => batches'[c] = batches[c]
      BY <3>1, StateWritten
    <3> QED
      BY <3>2 DEF Live
  <2>3. CASE Include
    <3>1. PICK b \in Pending :
           /\ Mined(BatchTx(b))
           /\ batches' = [batches EXCEPT ![b].state = "included", ![b].height = Height(BatchTx(b)),
                                         ![b].fork = blocks[Height(BatchTx(b))].fork]
      BY <2>3 DEF Include
    <3>2. b \in DOMAIN batches
      BY DEF Pending
    <3>3. /\ DOMAIN batches' = DOMAIN batches /\ batches'[b].state = "included"
          /\ \A c \in DOMAIN batches : c # b => batches'[c] = batches[c]
      BY <3>1, <3>2, Included
    <3> QED
      BY <3>3 DEF Live
  <2>4. CASE Promote
    BY <2>4, Promoted DEF Live
  <2>5. CASE ~(MarkPending \/ Include \/ Promote \/ Drop \/ Cut)
    <3>1. UNCHANGED batches
      BY <2>5 DEF Next, TickStep, ParentStep, vars, files, Commit, Enqueue, AskClose, AskPublish,
        NextEpoch, Ingest, SaveCursor, PassIdle, PassSign, PassSend, PassMined, PassWait, PassReplace,
        TakeItems, SaveChain, WriteSidecars, Send, Wait, Replace, NoBatch, AnswerCloses, Requeue,
        PollDone, TickError, Restart, Mine, Reorg, Settle
    <3> QED
      BY <3>1 DEF Live
  <2> QED
    BY <2>1, <2>2, <2>3, <2>4, <2>5
<1>3. Anchored \subseteq Anchored'
  BY <1>1, <1>2 DEF Anchored
<1> QED
  BY <1>1, <1>2, <1>3

\* A batch that is dropped is in hand, to be queued again.
LEMMA DropStep ==
    ASSUME TypeInv, Drop
    PROVE  /\ pc' = "requeue" /\ at' \in DOMAIN batches /\ DOMAIN batches' = DOMAIN batches
           /\ batches'[at'].state = "dropped"
           /\ \A c \in DOMAIN batches : /\ batches'[c].items = batches[c].items
                                        /\ batches'[c].height = batches[c].height
                                        /\ c # at' => batches'[c] = batches[c]
           /\ UNCHANGED <<queue, cursor, cursorFile, backlog, backlogFile, sidecar>>
<1>1. PICK b \in Open : batches' = [batches EXCEPT ![b].state = "dropped"] /\ at' = b
  BY DEF Drop
<1>2. b \in DOMAIN batches
  BY DEF Open
<1>3. pc' = "requeue" /\ UNCHANGED <<queue, cursor, cursorFile, backlog, backlogFile, sidecar>>
  BY DEF Drop, Goto, parent
<1> QED
  BY <1>1, <1>2, <1>3, StateWritten

\* What a step does to the backlog.
LEMMA BacklogStep ==
    ASSUME TypeInv, [Next]_vars
    PROVE  \/ backlog' = backlog
           \/ Ingest /\ backlog' = backlog \o NewLines /\ cursor' = Len(queue)
           \/ TakeItems \/ Requeue
<1>1. CASE Ingest
  BY <1>1 DEF Ingest
<1>2. CASE Restart
  BY <1>2 DEF Restart, TypeInv, ReadType
<1> QED
  BY <1>1, <1>2 DEF Next, TickStep, ParentStep, vars, memory, Commit, Enqueue, AskClose, AskPublish,
        NextEpoch, SaveCursor, PassIdle, PassSign, PassSend, PassMined, PassWait, PassReplace, Cut,
        SaveChain, WriteSidecars, Send, MarkPending, Include, Wait, Replace, NoBatch, AnswerCloses,
        Promote, Drop, PollDone, TickError, Mine, Reorg, Settle

\* A step leaves "requeue" by queueing the records again, or by the end of the process.
LEMMA RequeueStep ==
    ASSUME [Next]_vars, pc = "requeue"
    PROVE  Requeue \/ Restart \/ UNCHANGED <<pc, at, batches, backlog, cursor, sidecar>>
BY DEF Next, TickStep, ParentStep, vars, files, memory, Commit, Enqueue, AskClose, AskPublish,
    NextEpoch, Ingest, SaveCursor, PassIdle, PassSign, PassSend, PassMined, PassWait, PassReplace, Cut,
    TakeItems, SaveChain, WriteSidecars, Send, MarkPending, Include, Wait, Replace, NoBatch,
    AnswerCloses, Promote, Drop, PollDone, TickError, Mine, Reorg, Settle, Kind

\* HeldStays: a record that is held stays so, unless the process ends inside reorged().
LEMMA HeldStays ==
    ASSUME TypeInv, KeepInv, [Next]_vars, ~EndsInReorged, NEW x, Held(x)
    PROVE  Held(x)'
<1>1. backlog \in Seq(committed)
  BY DEF TypeInv, ReadType
<1>2. CASE pc = "requeue" /\ ~Requeue
  <2>1. UNCHANGED <<pc, at, batches, backlog>>
    BY <1>2, RequeueStep DEF EndsInReorged
  <2> QED
    BY <2>1 DEF Held, Anchored, Live
<1>3. CASE Requeue
  <2> DEFINE S == batches[at].items
  <2>1. /\ at \in DOMAIN batches /\ backlog' = SetToSeq(S) \o Without(backlog, S)
        /\ UNCHANGED <<at, batches>>
    BY <1>3 DEF Requeue, TypeInv, BatchType
  <2>2. SetToSeq(S) \in Seq(committed) /\ Range(SetToSeq(S)) = S
    BY <2>1, ItemsAre
  <2> HIDE DEF S
  <2>3. Without(backlog, S) \in Seq(committed) /\ Range(Without(backlog, S)) = Range(backlog) \ S
    BY <1>1, WithoutIs
  <2>4. Range(backlog') = Range(SetToSeq(S)) \cup Range(Without(backlog, S))
    BY <2>1, <2>2, <2>3, RangeConcatenation
  <2>5. Anchored' = Anchored
    BY <2>1 DEF Anchored, Live
  <2> QED
    BY <2>2, <2>3, <2>4, <2>5 DEF Held, S
<1>4. ASSUME x \in Range(backlog) \cup Anchored, ~Requeue PROVE Held(x)'
  <2>1. CASE Drop
    <3>1. UNCHANGED backlog /\ pc' = "requeue"
      BY <2>1, DropStep
    <3>2. ASSUME x \in Anchored PROVE x \in Anchored' \/ x \in batches'[at'].items
      <4>1. PICK b \in DOMAIN batches : Live(b) /\ x \in batches[b].items
        BY <3>2, AnchoredIs
      <4>2. CASE b = at'
        BY <2>1, <4>1, <4>2, DropStep
      <4>3. CASE b # at'
        <5>1. b \in DOMAIN batches' /\ Live(b)' /\ x \in batches'[b].items
          BY <2>1, <4>1, <4>3, DropStep DEF Live
        <5> QED
          BY <5>1 DEF Anchored
      <4> QED
        BY <4>2, <4>3
    <3> QED
      BY <1>4, <3>1, <3>2 DEF Held
  <2>2. CASE TakeItems
    <3>1. /\ backlog' = Without(backlog, batches[at].items) /\ UNCHANGED batches
          /\ at \in DOMAIN batches /\ Live(at)
      BY <2>2 DEF TakeItems, KeepInv, TypeInv, BatchType
    <3>2. Range(backlog') = Range(backlog) \ batches[at].items
      BY <1>1, <3>1, WithoutIs
    <3>3. batches[at].items \subseteq Anchored /\ Anchored' = Anchored
      BY <3>1 DEF Anchored, Live
    <3> QED
      BY <1>4, <3>2, <3>3 DEF Held
  <2>3. CASE backlog' = backlog /\ ~Drop
    BY <1>4, <2>3, AnchoredStep DEF Held
  <2>4. CASE Ingest /\ backlog' = backlog \o NewLines
    <3>1. Range(backlog') = Range(backlog) \cup Range(NewLines)
      BY <1>1, <2>4, NewLinesAre, RangeConcatenation
    <3>2. Anchored' = Anchored
      BY <2>4 DEF Ingest, Anchored, Live
    <3> QED
      BY <1>4, <3>1, <3>2 DEF Held
  <2> QED
    BY <1>4, <2>1, <2>2, <2>3, <2>4, BacklogStep
<1> QED
  BY <1>2, <1>3, <1>4 DEF Held

\* The queue only grows, and what a step reads past the cursor is then held.
LEMMA CursorStep ==
    ASSUME TypeInv, [Next]_vars
    PROVE  /\ \A i \in 1..cursor : queue'[i] = queue[i]
           /\ \/ cursor' \in 0..cursor
              \/ /\ Ingest /\ backlog' = backlog \o NewLines /\ cursor' = Len(queue) /\ queue' = queue
<1>1. /\ cursor \in 0..Len(queue) /\ cursorFile \in 0..cursor /\ Len(queue) \in Nat
      /\ queue \in Seq(committed)
  BY LenProperties DEF TypeInv, ParentType, ReadType
<1>2. ASSUME NEW r \in Record, Enqueue(r) PROVE cursor' = cursor /\ \A i \in 1..cursor : queue'[i] = queue[i]
  <2>1. queue' = Append(queue, r) /\ r \in committed /\ cursor' = cursor
    BY <1>2 DEF Enqueue, memory
  <2>2. \A i \in 1..Len(queue) : queue'[i] = queue[i]
    BY <1>1, <2>1, AppendProperties
  <2>3. \A i \in 1..cursor : i \in 1..Len(queue)
    BY <1>1
  <2> QED
    BY <2>1, <2>2, <2>3
<1>3. CASE ~ \E r \in Record : Enqueue(r)
  <2>1. queue' = queue
    BY <1>3 DEF Next, TickStep, ParentStep, vars, parent, Commit, AskClose, AskPublish,
        NextEpoch, Ingest, SaveCursor, PassIdle, PassSign, PassSend, PassMined, PassWait, PassReplace,
        Cut, TakeItems, SaveChain, WriteSidecars, Send, MarkPending, Include, Wait, Replace, NoBatch,
        AnswerCloses, Promote, Drop, Requeue, PollDone, TickError, Restart, Mine, Reorg, Settle
  <2>2. \/ cursor' \in {cursor, cursorFile}
        \/ Ingest /\ backlog' = backlog \o NewLines /\ cursor' = Len(queue)
    BY <1>3 DEF Next, TickStep, ParentStep, vars, memory, Commit, AskClose, AskPublish,
        NextEpoch, Ingest, SaveCursor, PassIdle, PassSign, PassSend, PassMined, PassWait, PassReplace,
        Cut, TakeItems, SaveChain, WriteSidecars, Send, MarkPending, Include, Wait, Replace, NoBatch,
        AnswerCloses, Promote, Drop, Requeue, PollDone, TickError, Restart, Mine, Reorg, Settle
  <2> QED
    BY <1>1, <2>1, <2>2
<1> QED
  BY <1>1, <1>2, <1>3

\* Every step but the end of the process inside reorged() keeps every record that was read.
LEMMA NextKeeps == TypeInv /\ KeepInv /\ [Next]_vars /\ [~EndsInReorged]_vars => KeepInv'
<1> SUFFICES ASSUME TypeInv, KeepInv, [Next]_vars, [~EndsInReorged]_vars PROVE KeepInv'
  OBVIOUS
<1>1. CASE UNCHANGED vars
  BY <1>1 DEF vars, parent, files, memory, KeepInv, Held, Anchored, Live
<1>2. CASE ~EndsInReorged
  <2>1. \A x : Held(x) => Held(x)'
    BY <1>2, HeldStays
  <2>2. cursor \in Nat /\ Len(queue) \in Nat
    BY LenProperties DEF TypeInv, ParentType, ReadType
  <2>3. (\A i \in 1..cursor : Held(queue[i]))'
    <3>1. CASE cursor' \in 0..cursor
      <4>1. \A i \in 1..cursor' : i \in 1..cursor
        BY <2>2, <3>1
      <4>2. ASSUME NEW i \in 1..cursor' PROVE (\E x : x = queue'[i] /\ Held(x)')
        BY <2>1, <4>1, CursorStep DEF KeepInv
      <4> QED
        BY <4>2 DEF Held
    <3>2. CASE Ingest /\ backlog' = backlog \o NewLines /\ cursor' = Len(queue) /\ queue' = queue
      <4>1. backlog \in Seq(committed)
        BY DEF TypeInv, ReadType
      <4>2. /\ Range(backlog') = Range(backlog) \cup Range(NewLines)
            /\ Range(NewLines) = {queue[i] : i \in (cursor + 1)..Len(queue)} \ (Range(backlog) \cup Anchored)
        BY <3>2, <4>1, NewLinesAre, RangeConcatenation
      <4>3. Anchored' = Anchored
        BY <3>2 DEF Ingest, Anchored, Live
      <4>4. \A i \in 1..Len(queue) : i \in 1..cursor \/ i \in (cursor + 1)..Len(queue)
        BY <2>2
      <4>5. ASSUME NEW i \in 1..cursor' PROVE (\E x : x = queue'[i] /\ Held(x)')
        <5>1. CASE i \in 1..cursor
          BY <2>1, <3>2, <5>1 DEF KeepInv
        <5>2. CASE i \in (cursor + 1)..Len(queue)
          <6>1. queue[i] \in Range(backlog') \cup Anchored'
            BY <4>2, <4>3, <5>2
          <6> QED
            BY <3>2, <6>1 DEF Held
        <5> QED
          BY <3>2, <4>4, <5>1, <5>2
      <4> QED
        BY <4>5 DEF Held
    <3> QED
      BY <3>1, <3>2, CursorStep
  <2>4. pc' = "takeItems" => Live(at)'
    <3>1. CASE Cut
      BY <3>1, CutAdds DEF Live
    <3>2. CASE ~Cut
      <4>1. pc' = "takeItems" => UNCHANGED <<pc, at, batches>>
        BY <3>2 DEF Next, TickStep, ParentStep, vars, files, memory, Commit, Enqueue, AskClose, AskPublish,
          NextEpoch, Ingest, SaveCursor, PassIdle, PassSign, PassSend, PassMined, PassWait, PassReplace,
          TakeItems, SaveChain, WriteSidecars, Send, MarkPending, Include, Wait, Replace, NoBatch,
          AnswerCloses, Promote, Drop, Requeue, PollDone, TickError, Restart, Mine, Reorg, Settle,
          TickOver, Returns, AfterPass, Goto
      <4> QED
        BY <4>1 DEF KeepInv, Live
    <3> QED
      BY <3>1, <3>2
  <2> QED
    BY <2>3, <2>4 DEF KeepInv
<1> QED
  BY <1>1, <1>2

\* At first nothing was read.
LEMMA InitKeeps == Init => KeepInv
BY DEF Init, KeepInv

\* NothingReadIsLost: "so no record is left without a root", for any number of crashes and
\* reorgs: unless the process ends between reorged()'s two writes, every record that the
\* cursor on disk has passed is in the backlog on disk or in a batch that stands.
THEOREM NothingReadIsLost == Spec /\ RequeueHappens => []NoRecordLost
<1>1. Init => TypeInv /\ AskInv /\ KeepInv
  BY InitTypes, InitAsks, InitKeeps
<1>2. TypeInv /\ AskInv /\ KeepInv /\ [Next]_vars /\ [~EndsInReorged]_vars
        => (TypeInv /\ AskInv /\ KeepInv)'
  BY NextTypes, NextKeeps
<1>3. TypeInv /\ KeepInv => NoRecordLost
  <2> SUFFICES ASSUME TypeInv, KeepInv, pc # "requeue", NEW i \in 1..cursorFile
               PROVE  queue[i] \in Range(backlogFile) \cup Anchored
    BY DEF NoRecordLost
  <2>1. i \in 1..cursor /\ backlogFile = backlog
    BY LenProperties DEF TypeInv, ParentType, ReadType
  <2> QED
    BY <2>1 DEF KeepInv, Held
<1> QED
  BY <1>1, <1>2, <1>3, PTL DEF Spec, RequeueHappens

\* CloseIsTrue: when answerCloses answers for an epoch, every record of it that was read is
\* under a root that was found in a block, and whose transaction is in a block still or waits
\* to be mined again; so for any number of crashes, reorgs, lost calls and publishes but for
\* the end of the process between reorged()'s two writes.
THEOREM CloseIsTrue == Spec /\ RequeueHappens => ClosedIsWritten
<1> DEFINE Inv == TypeInv /\ AskInv /\ AloneInv /\ NonceInv /\ KeepInv
<1>1. Init => Inv
  BY InitTypes, InitAsks, InitAlone, InitNonces, InitKeeps
<1>2. Inv /\ [Next]_vars /\ [~EndsInReorged]_vars => Inv'
  BY NextTypes, NextAlone, NextNonces, NextKeeps
<1>3. Inv /\ [Next]_vars =>
         [\A e \in closed' \ closed : \A i \in 1..cursor :
             EpochOf[queue[i]] = e =>
                 \E b \in DOMAIN batches :
                     /\ queue[i] \in batches[b].items /\ Live(b) /\ batches[b].height # 0
                     /\ Public(BatchTx(b))]_vars
  <2> SUFFICES ASSUME TypeInv, NonceInv, KeepInv, [Next]_vars,
                      NEW e \in closed' \ closed, NEW i \in 1..cursor, EpochOf[queue[i]] = e
               PROVE  \E b \in DOMAIN batches :
                         /\ queue[i] \in batches[b].items /\ Live(b) /\ batches[b].height # 0
                         /\ Public(BatchTx(b))
    OBVIOUS
  <2>1. AnswerCloses
    <3>1. closed' # closed
      OBVIOUS
    <3> QED
      BY <3>1 DEF Next, TickStep, ParentStep, vars, files, Commit, Enqueue, AskClose, AskPublish,
        NextEpoch, Ingest, SaveCursor, PassIdle, PassSign, PassSend, PassMined, PassWait, PassReplace,
        Cut, TakeItems, SaveChain, WriteSidecars, Send, MarkPending, Include, Wait, Replace, NoBatch,
        Promote, Drop, Requeue, PollDone, TickError, Restart, Mine, Reorg, Settle
  <2>2. Answerable(e) /\ pc = "closes"
    BY <2>1 DEF AnswerCloses
  <2>3. queue[i] \in Range(backlog) \cup Anchored
    BY <2>2 DEF KeepInv, Held
  <2>4. queue[i] \notin Range(backlog)
    BY <2>2 DEF Answerable, Group
  <2>5. PICK b \in DOMAIN batches : Live(b) /\ queue[i] \in batches[b].items
    BY <2>3, <2>4, AnchoredIs
  <2>6. batches[b].epoch = e
    BY <2>5 DEF TypeInv, BatchType
  <2>7. batches[b].height # 0
    BY <2>2, <2>5, <2>6 DEF Answerable
  <2>8. BatchTx(b) \in Seen
    BY <2>5, <2>7 DEF NonceInv, Out
  <2>9. Public(BatchTx(b))
    BY <2>8 DEF Seen, Full, Public, Mined
  <2> QED
    BY <2>5, <2>7, <2>9
<1> QED
  BY <1>1, <1>2, <1>3, PTL DEF Spec, RequeueHappens, ClosedIsWritten

-----------------------------------------------------------------------------
(* What the sidecars show.                                                 *)

\* A record that was found in a block stays so, but for a batch that is dropped.
LEMMA FoundStays ==
    ASSUME TypeInv, [Next]_vars, ~Drop, NEW r, Found(r)
    PROVE  Found(r)'
<1>1. PICK b \in DOMAIN batches : r \in batches[b].items /\ Live(b) /\ batches[b].height # 0
  BY DEF Found
<1>2. b \in DOMAIN batches' /\ r \in batches'[b].items /\ Live(b)'
  BY <1>1, AnchoredStep
<1>3. batches'[b].height # 0
  <2>1. CASE Cut
    BY <1>1, <2>1, CutAdds
  <2>2. CASE MarkPending
    <3>1. at \in DOMAIN batches /\ batches' = [batches EXCEPT ![at].state = "pending"]
      BY <2>2 DEF MarkPending, TypeInv, BatchType
    <3> QED
      BY <1>1, <3>1, StateWritten
  <2>p. CASE Promote
    BY <1>1, <2>p, Promoted
  <2>3. CASE Include
    <3>1. PICK c \in Pending :
           /\ Mined(BatchTx(c))
           /\ batches' = [batches EXCEPT ![c].state = "included", ![c].height = Height(BatchTx(c)),
                                         ![c].fork = blocks[Height(BatchTx(c))].fork]
      BY <2>3 DEF Include
    <3>2. c \in DOMAIN batches
      BY DEF Pending
    <3>3. PICK h : h = Height(BatchTx(c))
      OBVIOUS
    <3>4. /\ h \in DOMAIN blocks /\ batches'[c].height = h
          /\ \A d \in DOMAIN batches : d # c => batches'[d] = batches[d]
      BY <3>1, <3>2, <3>3, Included
    <3>5. h # 0
      BY <3>4, LenProperties DEF TypeInv, BaseType
    <3> QED
      BY <1>1, <3>4, <3>5
  <2>4. CASE ~(MarkPending \/ Include \/ Promote \/ Drop \/ Cut)
    <3>1. UNCHANGED batches
      BY <2>4 DEF Next, TickStep, ParentStep, vars, files, Commit, Enqueue, AskClose, AskPublish,
        NextEpoch, Ingest, SaveCursor, PassIdle, PassSign, PassSend, PassMined, PassWait, PassReplace,
        TakeItems, SaveChain, WriteSidecars, Send, Wait, Replace, NoBatch, AnswerCloses, Requeue,
        PollDone, TickError, Restart, Mine, Reorg, Settle
    <3> QED
      BY <1>1, <3>1
  <2> QED
    BY <2>1, <2>2, <2>p, <2>3, <2>4
<1> QED
  BY <1>2, <1>3 DEF Found

\* The batch in hand stays so until its sidecars are written.
LEMMA SidecarsStep ==
    ASSUME [Next]_vars, pc = "sidecars"
    PROVE  WriteSidecars \/ Restart \/ UNCHANGED <<pc, at, batches, sidecar>>
BY DEF Next, TickStep, ParentStep, vars, files, memory, Commit, Enqueue, AskClose, AskPublish,
    NextEpoch, Ingest, SaveCursor, PassIdle, PassSign, PassSend, PassMined, PassWait, PassReplace, Cut,
    TakeItems, SaveChain, Send, MarkPending, Include, Wait, Replace, NoBatch,
    AnswerCloses, Promote, Drop, Requeue, PollDone, TickError, Mine, Reorg, Settle, Kind

\* Every step but the end of the process inside reorged() keeps the sidecars true.
LEMMA NextShown == TypeInv /\ ChainInv /\ ShownInv /\ [Next]_vars /\ [~CutShort]_vars => ShownInv'
<1> SUFFICES ASSUME TypeInv, ChainInv, ShownInv, [Next]_vars, [~CutShort]_vars PROVE ShownInv'
  OBVIOUS
<1>1. CASE UNCHANGED vars
  BY <1>1 DEF vars, files, memory, ShownInv, Found, Live
<1>2. ASSUME ~CutShort, NEW r \in Record, sidecar[r] \in {"included", "safe", "finalized"}, ~WriteSidecars
      PROVE  \/ Found(r)'
             \/ /\ pc' \in {"requeue", "sidecars"} /\ batches'[at'].state = "dropped"
                /\ r \in batches'[at'].items
  <2>1. CASE Found(r) /\ ~Drop
    BY <2>1, FoundStays
  <2>2. CASE Found(r) /\ Drop
    <3>1. PICK b \in DOMAIN batches : r \in batches[b].items /\ Live(b) /\ batches[b].height # 0
      BY <2>2 DEF Found
    <3>2. CASE b = at'
      BY <2>2, <3>1, <3>2, DropStep
    <3>3. CASE b # at'
      <4>1. b \in DOMAIN batches' /\ batches'[b] = batches[b]
        BY <2>2, <3>1, <3>3, DropStep
      <4> QED
        BY <3>1, <4>1 DEF Found, Live
    <3> QED
      BY <3>2, <3>3
  <2>3. CASE pc \in {"requeue", "sidecars"} /\ batches[at].state = "dropped" /\ r \in batches[at].items
    <3>1. CASE Requeue
      BY <2>3, <3>1 DEF Requeue, Goto
    <3>2. CASE ~Requeue
      <4>1. UNCHANGED <<pc, at, batches>>
        BY <1>2, <2>3, <3>2, RequeueStep, SidecarsStep DEF CutShort
      <4> QED
        BY <2>3, <4>1
    <3> QED
      BY <3>1, <3>2
  <2> QED
    BY <1>2, <2>1, <2>2, <2>3 DEF ShownInv
<1>3. CASE ~CutShort /\ ~WriteSidecars
  <2>1. sidecar' = sidecar
    BY <1>3 DEF Next, TickStep, ParentStep, vars, files, Commit, Enqueue, AskClose, AskPublish,
        NextEpoch, Ingest, SaveCursor, PassIdle, PassSign, PassSend, PassMined, PassWait, PassReplace,
        Cut, TakeItems, SaveChain, Send, MarkPending, Include, Wait, Replace, NoBatch,
        AnswerCloses, Promote, Drop, Requeue, PollDone, TickError, Restart, Mine, Reorg, Settle
  <2> QED
    BY <1>2, <1>3, <2>1 DEF ShownInv
<1>4. CASE WriteSidecars
  <2>1. /\ at \in DOMAIN batches /\ pc = "sidecars" /\ UNCHANGED <<at, batches>>
        /\ \A r \in Record : sidecar'[r] = IF r \in batches[at].items THEN Status(at) ELSE sidecar[r]
    BY <1>4 DEF WriteSidecars, TypeInv, BatchType
  <2>2. ASSUME NEW r \in Record, sidecar'[r] \in {"included", "safe", "finalized"} PROVE Found(r)
    <3>1. CASE r \in batches[at].items
      <4>1. batches[at].state \in {"included", "safe", "finalized"}
        BY <2>1, <2>2, <3>1, ItemsAre DEF Status, Batch
      <4>2. batches[at].height \in DOMAIN blocks
        BY <2>1, <4>1 DEF ChainInv, Placed
      <4>3. batches[at].height # 0
        BY <4>2, LenProperties DEF TypeInv, BaseType
      <4> QED
        BY <2>1, <3>1, <4>1, <4>3 DEF Found, Live
    <3>2. CASE r \notin batches[at].items
      BY <2>1, <2>2, <3>2 DEF ShownInv
    <3> QED
      BY <3>1, <3>2
  <2>3. \A r : Found(r)' <=> Found(r)
    BY <2>1 DEF Found, Live
  <2> QED
    BY <2>2, <2>3 DEF ShownInv
<1> QED
  BY <1>1, <1>3, <1>4 DEF CutShort

\* SidecarsAreTrue: a sidecar shows a block only while a batch that stands has one for its
\* record, for any number of crashes and reorgs but for the end of the process inside reorged().
THEOREM SidecarsAreTrue == Spec /\ ReorgedIsWhole => []SidecarBacked
<1>1. Init => TypeInv /\ AskInv /\ ChainInv /\ ShownInv
  <2>1. Init => ShownInv
    <3> SUFFICES ASSUME Init, NEW r \in Record PROVE sidecar[r] \notin {"included", "safe", "finalized"}
      BY DEF ShownInv
    <3>1. sidecar[r] = None
      BY DEF Init
    <3> QED
      BY <3>1, NoneAssumption
  <2>2. Init => ChainInv
    BY DEF Init, ChainInv
  <2> QED
    BY <2>1, <2>2, InitTypes, InitAsks
<1>2. TypeInv /\ AskInv /\ ChainInv /\ ShownInv /\ [Next]_vars /\ [~CutShort]_vars
        => (TypeInv /\ AskInv /\ ChainInv /\ ShownInv)'
  BY NextTypes, NextChain, NextShown
<1>3. ShownInv => SidecarBacked
  BY DEF ShownInv, SidecarBacked, Found
<1> QED
  BY <1>1, <1>2, <1>3, PTL DEF Spec, ReorgedIsWhole

=============================================================================
