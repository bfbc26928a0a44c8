--------------------------- MODULE EnclaveProofs ---------------------------
(***************************************************************************)
(* Proofs about Enclave.tla, for any number of connections, digests,       *)
(* nonces and boots: its types, the unbroken sequence, the single use of   *)
(* nonces, that it implements BoundSequence, and that its lock loses no    *)
(* request.                                                                *)
(***************************************************************************)
EXTENDS Enclave, TLAPS

-----------------------------------------------------------------------------
(* The inductive invariant.  UnbrokenSequence alone is not inductive: a    *)
(* proof is built from local variables read several steps before it is     *)
(* released, so it needs that nobody else moved the chain meanwhile, and   *)
(* that the chain agrees with the last proof given out.                    *)

\* Only the holder of the lock is inside a bind.
LockInv == \A c \in Conn : Running(c) => lock = c

\* The local variables of the running bind are still what they were read from.
LocalInv ==
    \A c \in Conn : Running(c) =>
        /\ initialized
        /\ task[c].nonceCount = chain.counter + 1
        /\ task[c].payloadCount = chain.counter + 2
        /\ task[c].step # "getFreshNonce" =>
               /\ task[c].nonce \in drawn
               /\ \A i \in DOMAIN released : released[i].nonce # task[c].nonce
        /\ task[c].step \in {"getAttestation", "signBody"} => task[c].prev = chain.last

\* The chain stands at the last proof of this epoch, or at its start.
HeadInv ==
    LET n == Len(released)
    IN  IF n > 0 /\ released[n].epoch = epochId
        THEN chain.counter = released[n].counter /\ chain.last = released[n].nonce
        ELSE chain.counter = 0 /\ chain.last = NoProof

\* Proofs are of this epoch or an earlier one, and their nonces were drawn.
PastInv ==
    \A i \in DOMAIN released : released[i].epoch <= epochId /\ released[i].nonce \in drawn

IInv == TypeOK /\ LockInv /\ LocalInv /\ HeadInv /\ PastInv /\ UnbrokenSequence /\ NonceBoundOnce

-----------------------------------------------------------------------------
(* The types.                                                              *)

\* An idle connection has a task of the right type.
LEMMA NoTaskIsTask == NoTask \in Task
BY DEF Task

\* A new epoch starts with a well-typed chain.
LEMMA FreshChainIsChain == FreshChain \in [counter: Nat, last: Nonce \cup {NoProof}]
BY DEF FreshChain

\* The empty sequence is a sequence over any set.
LEMMA EmptyIsSeq == ASSUME NEW S PROVE <<>> \in Seq(S)
OBVIOUS

\* The first boot is well typed.
LEMMA InitTypeOK == Init => TypeOK
<1> SUFFICES ASSUME Init PROVE TypeOK
  OBVIOUS
<1>1. waiting \in Seq(Conn) /\ released \in Seq(Proof)
  BY EmptyIsSeq DEF Init
<1>2. task \in [Conn -> Task]
  BY NoTaskIsTask DEF Init
<1> QED
  BY <1>1, <1>2, FreshChainIsChain DEF Init, TypeOK

\* Every step of the enclave keeps the types.
LEMMA NextTypeOK == TypeOK /\ [Next]_vars => TypeOK'
<1> SUFFICES ASSUME TypeOK, [Next]_vars PROVE TypeOK'
  OBVIOUS
<1> USE DEF TypeOK
<1>1. ASSUME NEW c \in Conn, NEW r \in Request, Receive(c, r) PROVE TypeOK'
  BY <1>1 DEF Receive, Task, Queued
<1>2. CASE Acquire
  BY <1>2 DEF Acquire
<1>3. ASSUME NEW c \in Conn, HandlerStep(c) PROVE TypeOK'
  <2>1. CASE HandleInit(c)
    BY <2>1 DEF HandleInit, Answer, Task
  <2>2. CASE HandleRead(c) \/ RefuseBind(c) \/ BindFails(c)
    BY <2>2 DEF HandleRead, RefuseBind, BindFails, Answer, Task
  <2>3. CASE StartBind(c)
    <3>1. task[c].req \in [action: {"bind"}, digest: Digest \cup {BadDigest}]
      BY <2>3 DEF StartBind, Dispatched, Task, NoTask, Queued, AwaitsNonce, AwaitsSlot,
                  AwaitsBody, Request
    <3>2. task'[c] \in AwaitsNonce
      BY <2>3, <3>1 DEF StartBind, Acceptable, AwaitsNonce
    <3> QED
      BY <2>3, <3>2 DEF StartBind, Task
  <2>4. ASSUME NEW n \in Nonce, NonceDrawn(c, n) PROVE TypeOK'
    <3>1. task[c] \in AwaitsNonce
      BY <2>4 DEF NonceDrawn, Task, NoTask, Queued, AwaitsNonce, AwaitsSlot, AwaitsBody
    <3>2. task'[c] \in AwaitsSlot
      BY <2>4, <3>1 DEF NonceDrawn, AwaitsNonce, AwaitsSlot
    <3> QED
      BY <2>4, <3>2 DEF NonceDrawn, Task
  <2>5. CASE SlotSigned(c)
    <3>1. task[c] \in AwaitsSlot
      BY <2>5 DEF SlotSigned, Task, NoTask, Queued, AwaitsNonce, AwaitsSlot, AwaitsBody
    <3>2. task'[c] \in AwaitsBody
      BY <2>5, <3>1 DEF SlotSigned, AwaitsSlot, AwaitsBody
    <3> QED
      BY <2>5, <3>2 DEF SlotSigned, Task
  <2>6. CASE Attested(c)
    <3>1. task[c] \in AwaitsBody
      BY <2>6 DEF Attested, Task, NoTask, Queued, AwaitsNonce, AwaitsSlot, AwaitsBody
    <3>2. task'[c] \in AwaitsBody
      BY <2>6, <3>1 DEF Attested, AwaitsBody
    <3> QED
      BY <2>6, <3>2 DEF Attested, Task
  <2>7. CASE BodySigned(c)
    <3>1. task[c] \in AwaitsBody
      BY <2>7 DEF BodySigned, Task, NoTask, Queued, AwaitsNonce, AwaitsSlot, AwaitsBody
    <3>2. ProofOf(task[c]) \in Proof
      BY <3>1 DEF ProofOf, Proof, AwaitsBody
    <3>3. chain' \in [counter: Nat, last: Nonce \cup {NoProof}]
      BY <2>7, <3>1 DEF BodySigned, AwaitsBody
    <3>4. task' \in [Conn -> Task]
      BY <2>7 DEF BodySigned, Answer, Task
    <3> QED
      BY <2>7, <3>2, <3>3, <3>4 DEF BodySigned, Answer
  <2> QED
    BY <1>3, <2>1, <2>2, <2>3, <2>4, <2>5, <2>6, <2>7 DEF HandlerStep
<1>4. CASE Boot
  <2>1. task' \in [Conn -> Task]
    BY <1>4, NoTaskIsTask DEF Boot
  <2>2. waiting' \in Seq(Conn)
    BY <1>4, EmptyIsSeq DEF Boot
  <2>3. chain' \in [counter: Nat, last: Nonce \cup {NoProof}]
    BY <1>4, FreshChainIsChain DEF Boot
  <2>4. epochId' \in Nat
    BY <1>4 DEF Boot
  <2>5. initialized' \in BOOLEAN /\ lock' \in Conn \cup {NoConn}
    BY <1>4 DEF Boot
  <2>6. drawn' \in SUBSET Nonce /\ released' \in Seq(Proof)
    BY <1>4 DEF Boot
  <2> QED
    BY <2>1, <2>2, <2>3, <2>4, <2>5, <2>6
<1>5. CASE UNCHANGED vars
  BY <1>5 DEF vars
<1> QED
  BY <1>1, <1>2, <1>3, <1>4, <1>5 DEF Next

\* Every variable of the enclave (app.ts) keeps its type, however requests interleave.
THEOREM TypeCorrect == Spec => []TypeOK
BY InitTypeOK, NextTypeOK, PTL DEF Spec

-----------------------------------------------------------------------------
(* The sequence.                                                           *)

\* A connection inside a bind is the only one.
LEMMA Alone ==
    ASSUME LockInv, NEW c \in Conn, lock = c, NEW d \in Conn, Running(d)
    PROVE  d = c
BY DEF LockInv

\* A step that starts no bind, gives out no proof and draws no nonce keeps the invariant.
LEMMA QuietStep ==
    ASSUME IInv, TypeOK', UNCHANGED <<epochId, chain, drawn, released>>,
           initialized => initialized',
           \A d \in Conn : Running(d)' => Running(d) /\ task'[d] = task[d] /\ lock' = lock
    PROVE  IInv'
<1> USE DEF IInv
<1>1. LockInv'
  BY DEF LockInv
<1>2. LocalInv'
  BY DEF LocalInv
<1>3. HeadInv' /\ PastInv' /\ UnbrokenSequence' /\ NonceBoundOnce'
  BY DEF HeadInv, PastInv, UnbrokenSequence, NonceBoundOnce, Opens, Follows
<1> QED
  BY <1>1, <1>2, <1>3

\* Ending the request that holds the lock is quiet: no other bind was running.
LEMMA AnswerQuiet ==
    ASSUME LockInv, TypeOK, NEW c \in Conn, lock = c, Answer(c), NEW d \in Conn, Running(d)'
    PROVE  FALSE
<1>1. CASE d = c
  BY <1>1 DEF Answer, Running, NoTask, TypeOK
<1>2. CASE d # c
  <2>1. task'[d] = task[d]
    BY <1>2 DEF Answer, TypeOK
  <2> QED
    BY <1>2, <2>1, Alone DEF Running
<1> QED
  BY <1>1, <1>2

\* A step of the running bind that gives out nothing touches only its own task.
LEMMA BindStep ==
    ASSUME IInv, TypeOK', NEW c \in Conn, lock = c,
           UNCHANGED <<epochId, chain, initialized, lock, released>>,
           drawn \subseteq drawn',
           \A d \in Conn \ {c} : task'[d] = task[d],
           initialized,
           task'[c].nonceCount = chain.counter + 1,
           task'[c].payloadCount = chain.counter + 2,
           task'[c].step # "getFreshNonce" =>
               /\ task'[c].nonce \in drawn'
               /\ \A i \in DOMAIN released : released[i].nonce # task'[c].nonce,
           task'[c].step \in {"getAttestation", "signBody"} => task'[c].prev = chain.last
    PROVE  IInv'
<1> USE DEF IInv
<1>1. \A d \in Conn : Running(d)' => d = c
  BY Alone DEF Running
<1>2. LockInv'
  BY <1>1 DEF LockInv
<1>3. LocalInv'
  BY <1>1 DEF LocalInv
<1>4. HeadInv' /\ PastInv' /\ UnbrokenSequence' /\ NonceBoundOnce'
  BY DEF HeadInv, PastInv, UnbrokenSequence, NonceBoundOnce, Opens, Follows
<1> QED
  BY <1>2, <1>3, <1>4

\* The first boot satisfies the invariant.
LEMMA InitIInv == Init => IInv
<1> SUFFICES ASSUME Init PROVE IInv
  OBVIOUS
<1>1. TypeOK
  BY InitTypeOK
<1>2. \A c \in Conn : ~Running(c)
  BY DEF Init, Running, NoTask
<1>3. LockInv /\ LocalInv
  BY <1>2 DEF LockInv, LocalInv
<1>4. Len(released) = 0 /\ DOMAIN released = {}
  BY DEF Init
<1>5. HeadInv
  BY <1>4 DEF Init, HeadInv, FreshChain
<1>6. PastInv /\ UnbrokenSequence /\ NonceBoundOnce
  BY <1>4 DEF PastInv, UnbrokenSequence, NonceBoundOnce
<1> QED
  BY <1>1, <1>3, <1>5, <1>6 DEF IInv

\* A bind that starts reads the chain it will extend.
LEMMA StartBindInv == ASSUME IInv, TypeOK', NEW c \in Conn, StartBind(c) PROVE IInv'
<1>1. /\ task'[c].nonceCount = chain.counter + 1
      /\ task'[c].payloadCount = chain.counter + 2
      /\ task'[c].step = "getFreshNonce"
  BY DEF StartBind, IInv, TypeOK
<1>2. \A d \in Conn \ {c} : task'[d] = task[d]
  BY DEF StartBind, IInv, TypeOK
<1> QED
  BY <1>1, <1>2, BindStep DEF StartBind, Dispatched, Acceptable

\* A nonce that is drawn is in no proof.
LEMMA NonceDrawnInv ==
    ASSUME IInv, TypeOK', NEW c \in Conn, NEW n \in Nonce, NonceDrawn(c, n) PROVE IInv'
<1>1. Running(c)
  BY DEF NonceDrawn, Running
<1>2. lock = c /\ initialized
  BY <1>1 DEF IInv, LockInv, LocalInv
<1>3. /\ task'[c].nonceCount = chain.counter + 1
      /\ task'[c].payloadCount = chain.counter + 2
      /\ task'[c].step = "signSlot"
      /\ task'[c].nonce = n
  BY <1>1 DEF NonceDrawn, IInv, TypeOK, LocalInv
<1>4. \A d \in Conn \ {c} : task'[d] = task[d]
  BY DEF NonceDrawn, IInv, TypeOK
<1>5. n \in drawn' /\ \A i \in DOMAIN released : released[i].nonce # n
  BY DEF NonceDrawn, IInv, PastInv
<1> QED
  BY <1>2, <1>3, <1>4, <1>5, BindStep DEF NonceDrawn

\* The slot is signed under the count after the chain's.
LEMMA SlotSignedInv == ASSUME IInv, TypeOK', NEW c \in Conn, SlotSigned(c) PROVE IInv'
<1>1. Running(c)
  BY DEF SlotSigned, Running
<1>2. lock = c /\ initialized
  BY <1>1 DEF IInv, LockInv, LocalInv
<1>3. /\ task'[c].nonceCount = chain.counter + 1
      /\ task'[c].payloadCount = chain.counter + 2
      /\ task'[c].nonce = task[c].nonce
      /\ task'[c].prev = chain.last
  BY <1>1 DEF SlotSigned, IInv, TypeOK, LocalInv
<1>4. \A d \in Conn \ {c} : task'[d] = task[d]
  BY DEF SlotSigned, IInv, TypeOK
<1>5. task[c].nonce \in drawn /\ \A i \in DOMAIN released : released[i].nonce # task[c].nonce
  BY <1>1 DEF SlotSigned, IInv, LocalInv
<1> QED
  BY <1>2, <1>3, <1>4, <1>5, BindStep DEF SlotSigned

\* The attestation changes nothing the chain depends on.
LEMMA AttestedInv == ASSUME IInv, TypeOK', NEW c \in Conn, Attested(c) PROVE IInv'
<1>1. Running(c)
  BY DEF Attested, Running
<1>2. lock = c /\ initialized
  BY <1>1 DEF IInv, LockInv, LocalInv
<1>3. task[c] \in AwaitsBody
  BY DEF Attested, IInv, TypeOK, Task, NoTask, Queued, AwaitsNonce, AwaitsSlot, AwaitsBody
<1>4. /\ task'[c].nonceCount = task[c].nonceCount
      /\ task'[c].payloadCount = task[c].payloadCount
      /\ task'[c].nonce = task[c].nonce
      /\ task'[c].prev = task[c].prev
  BY <1>3 DEF Attested, IInv, TypeOK, AwaitsBody
<1>5. \A d \in Conn \ {c} : task'[d] = task[d]
  BY DEF Attested, IInv, TypeOK
<1>6. /\ task[c].nonceCount = chain.counter + 1
      /\ task[c].payloadCount = chain.counter + 2
      /\ task[c].nonce \in drawn
      /\ \A i \in DOMAIN released : released[i].nonce # task[c].nonce
      /\ task[c].prev = chain.last
  BY <1>1 DEF Attested, IInv, LocalInv
<1> QED
  BY <1>2, <1>4, <1>5, <1>6, BindStep DEF Attested

\* The one step that moves the chain: the new proof goes right after the last one.
LEMMA BodySignedInv == ASSUME IInv, TypeOK', NEW c \in Conn, BodySigned(c) PROVE IInv'
<1> DEFINE n == Len(released)
           p == ProofOf(task[c])
<1> USE DEF IInv
<1>1. Running(c)
  BY DEF BodySigned, Running
<1>2. lock = c
  BY <1>1 DEF LockInv
<1>3. /\ p.epoch = epochId /\ p.slotCounter = chain.counter + 1
      /\ p.counter = chain.counter + 2 /\ p.prev = chain.last
      /\ p.nonce = task[c].nonce /\ p.nonce \in drawn
      /\ \A i \in DOMAIN released : released[i].nonce # p.nonce
  BY <1>1 DEF BodySigned, LocalInv, ProofOf
<1>4. /\ chain'.counter = p.counter /\ chain'.last = p.nonce
      /\ UNCHANGED <<epochId, drawn>>
  BY DEF BodySigned, ProofOf
<1>5. n \in Nat /\ DOMAIN released = 1..n
  BY DEF TypeOK
<1>6. p \in Proof
  <2>1. task[c] \in AwaitsBody
    BY DEF BodySigned, TypeOK, Task, NoTask, Queued, AwaitsNonce, AwaitsSlot, AwaitsBody
  <2> QED
    BY <2>1 DEF ProofOf, Proof, AwaitsBody, TypeOK
<1>7. /\ Len(released') = n + 1 /\ DOMAIN released' = 1..(n + 1)
      /\ released'[n + 1] = p
      /\ \A i \in 1..n : released'[i] = released[i]
  BY <1>5, <1>6 DEF BodySigned, TypeOK
<1>8. LockInv' /\ LocalInv'
  <2>1. \A d \in Conn : ~Running(d)'
    BY <1>2, AnswerQuiet DEF BodySigned
  <2> QED
    BY <2>1 DEF LockInv, LocalInv
<1>9. HeadInv'
  BY <1>3, <1>4, <1>5, <1>7 DEF HeadInv
<1>10. PastInv'
  <2> SUFFICES ASSUME NEW i \in 1..(n + 1)
               PROVE  released'[i].epoch <= epochId' /\ released'[i].nonce \in drawn'
    BY <1>7 DEF PastInv
  <2>1. CASE i = n + 1
    BY <2>1, <1>3, <1>4, <1>7 DEF TypeOK
  <2>2. CASE i \in 1..n
    BY <2>2, <1>4, <1>5, <1>7 DEF PastInv
  <2> QED
    BY <2>1, <2>2, <1>5
<1>11. UnbrokenSequence'
  <2> SUFFICES ASSUME NEW i \in 1..(n + 1)
               PROVE  IF i > 1 /\ released'[i - 1].epoch = released'[i].epoch
                      THEN Follows(released'[i - 1], released'[i])
                      ELSE /\ Opens(released'[i])
                           /\ i > 1 => released'[i - 1].epoch < released'[i].epoch
    BY <1>7 DEF UnbrokenSequence, Opens, Follows
  <2>1. CASE i \in 1..n
    <3>1. released'[i] = released[i] /\ (i > 1 => released'[i - 1] = released[i - 1])
      BY <2>1, <1>5, <1>7
    <3> QED
      BY <2>1, <3>1, <1>5 DEF UnbrokenSequence, Opens, Follows
  <2>2. CASE i = n + 1 /\ n > 0
    <3>1. released'[i] = p /\ released'[i - 1] = released[n]
      BY <2>2, <1>5, <1>7
    <3>2. released[n].epoch <= epochId /\ released[n] \in Proof
      BY <2>2, <1>5 DEF PastInv, TypeOK
    <3>3. released[n].epoch \in Nat /\ epochId \in Nat
      BY <3>2 DEF Proof, TypeOK
    <3>4. CASE released[n].epoch = epochId
      <4>1. Follows(released[n], p)
        BY <2>2, <3>4, <1>3 DEF HeadInv, Follows
      <4> QED
        BY <2>2, <3>1, <3>4, <4>1, <1>3
    <3>5. CASE released[n].epoch < epochId
      <4>1. Opens(p)
        BY <2>2, <3>5, <3>3, <1>3 DEF HeadInv, Opens
      <4> QED
        BY <2>2, <3>1, <3>3, <3>5, <4>1, <1>3
    <3> QED
      BY <3>2, <3>3, <3>4, <3>5
  <2>3. CASE i = 1 /\ n = 0
    <3>1. Opens(p)
      BY <2>3, <1>3 DEF HeadInv, Opens
    <3> QED
      BY <2>3, <3>1, <1>7
  <2> QED
    BY <2>1, <2>2, <2>3, <1>5
<1>12. NonceBoundOnce'
  <2> SUFFICES ASSUME NEW i \in 1..(n + 1), NEW j \in 1..(n + 1),
                      released'[i].nonce = released'[j].nonce
               PROVE  i = j
    BY <1>7 DEF NonceBoundOnce
  <2>1. CASE i \in 1..n /\ j \in 1..n
    BY <2>1, <1>5, <1>7 DEF NonceBoundOnce
  <2>2. CASE i = n + 1 \/ j = n + 1
    BY <2>2, <1>3, <1>5, <1>7
  <2> QED
    BY <2>1, <2>2, <1>5
<1> QED
  BY <1>8, <1>9, <1>10, <1>11, <1>12

\* A boot loses the binds under way and starts a fresh chain.
LEMMA BootInv == ASSUME IInv, TypeOK', Boot PROVE IInv'
<1> USE DEF IInv
<1>1. \A d \in Conn : ~Running(d)'
  BY DEF Boot, Running, NoTask
<1>2. LockInv' /\ LocalInv'
  BY <1>1 DEF LockInv, LocalInv
<1>3. epochId \in Nat /\ epochId' = epochId + 1 /\ UNCHANGED <<drawn, released>>
  BY DEF Boot, TypeOK
<1>4. \A i \in DOMAIN released : released[i].epoch \in Nat
  <2> TAKE i \in DOMAIN released
  <2>1. released[i] \in Proof
    BY DEF TypeOK
  <2> QED
    BY <2>1 DEF Proof
<1>5. Len(released) \in Nat /\ DOMAIN released = 1..Len(released)
  BY DEF TypeOK
<1>6. HeadInv'
  <2>1. chain'.counter = 0 /\ chain'.last = NoProof
    BY DEF Boot, FreshChain
  <2>2. Len(released) > 0 => released[Len(released)].epoch # epochId'
    BY <1>3, <1>4, <1>5 DEF PastInv
  <2> QED
    BY <2>1, <2>2, <1>3 DEF HeadInv
<1>7. PastInv'
  <2> SUFFICES ASSUME NEW i \in DOMAIN released
               PROVE  released[i].epoch <= epochId + 1 /\ released[i].nonce \in drawn
    BY <1>3 DEF PastInv
  <2> QED
    BY <1>3, <1>4 DEF PastInv
<1>8. UnbrokenSequence' /\ NonceBoundOnce'
  BY <1>3 DEF UnbrokenSequence, NonceBoundOnce, Opens, Follows
<1> QED
  BY <1>2, <1>6, <1>7, <1>8

\* Every step keeps the invariant.
LEMMA NextIInv == IInv /\ [Next]_vars => IInv'
<1> SUFFICES ASSUME IInv, [Next]_vars PROVE IInv'
  OBVIOUS
<1>1. TypeOK'
  BY NextTypeOK DEF IInv
<1>2. ASSUME NEW c \in Conn, NEW r \in Request, Receive(c, r) PROVE IInv'
  <2>1. \A d \in Conn : Running(d)' => Running(d) /\ task'[d] = task[d] /\ lock' = lock
    BY <1>2 DEF Receive, Running, IInv, TypeOK
  <2> QED
    BY <1>1, <1>2, <2>1, QuietStep DEF Receive
<1>3. CASE Acquire
  <2>1. \A d \in Conn : ~Running(d)'
    BY <1>3, NoConnAssumption DEF Acquire, LockFree, Running, IInv, LockInv
  <2> QED
    BY <1>1, <1>3, <2>1, QuietStep DEF Acquire
<1>4. ASSUME NEW c \in Conn, HandlerStep(c) PROVE IInv'
  <2>1. CASE HandleInit(c) \/ HandleRead(c) \/ RefuseBind(c)
    <3>1. lock = c /\ Answer(c)
      BY <2>1 DEF HandleInit, HandleRead, RefuseBind, Dispatched
    <3>2. \A d \in Conn : ~Running(d)'
      BY <3>1, AnswerQuiet DEF IInv
    <3> QED
      BY <1>1, <2>1, <3>2, QuietStep DEF HandleInit, HandleRead, RefuseBind
  <2>2. CASE BindFails(c)
    <3>1. lock = c /\ Answer(c)
      BY <2>2 DEF BindFails, IInv, LockInv
    <3>2. \A d \in Conn : ~Running(d)'
      BY <3>1, AnswerQuiet DEF IInv
    <3> QED
      BY <1>1, <2>2, <3>2, QuietStep DEF BindFails
  <2>3. CASE StartBind(c)
    BY <1>1, <2>3, StartBindInv
  <2>4. ASSUME NEW n \in Nonce, NonceDrawn(c, n) PROVE IInv'
    BY <1>1, <2>4, NonceDrawnInv
  <2>5. CASE SlotSigned(c)
    BY <1>1, <2>5, SlotSignedInv
  <2>6. CASE Attested(c)
    BY <1>1, <2>6, AttestedInv
  <2>7. CASE BodySigned(c)
    BY <1>1, <2>7, BodySignedInv
  <2> QED
    BY <1>4, <2>1, <2>2, <2>3, <2>4, <2>5, <2>6, <2>7 DEF HandlerStep
<1>5. CASE Boot
  BY <1>1, <1>5, BootInv
<1>6. CASE UNCHANGED vars
  <2>1. \A d \in Conn : Running(d)' => Running(d) /\ task'[d] = task[d] /\ lock' = lock
    BY <1>6 DEF vars, Running
  <2> QED
    BY <1>1, <1>6, <2>1, QuietStep DEF vars
<1> QED
  BY <1>2, <1>3, <1>4, <1>5, <1>6 DEF Next

\* The invariant holds throughout.
LEMMA Invariance == Spec => []IInv
BY InitIInv, NextIInv, PTL DEF Spec

\* However many binds run concurrently, fail, or are cut off by a reboot, the proofs of an
\* epoch take every count once and name the proof before them (app.ts, handleBind).
THEOREM SequenceUnbroken == Spec => []UnbrokenSequence
<1>1. IInv => UnbrokenSequence
  BY DEF IInv
<1> QED
  BY <1>1, Invariance, PTL

\* A nonce is in at most one proof, in all epochs (app.ts, handleBind).
THEOREM NoncesBoundOnce == Spec => []NonceBoundOnce
<1>1. IInv => NonceBoundOnce
  BY DEF IInv
<1> QED
  BY <1>1, Invariance, PTL

-----------------------------------------------------------------------------
(* The refinement.                                                         *)

\* The first boot is an initial state of BoundSequence.
LEMMA InitRefines == Init => Abstract!SeqInit
BY DEF Init, Abstract!SeqInit, FreshChain

\* A step of the enclave is a step of BoundSequence or a stutter.
LEMMA NextRefines == IInv /\ [Next]_vars => [Abstract!SeqNext]_(Abstract!seqVars)
<1> SUFFICES ASSUME IInv, [Next]_vars
             PROVE  Abstract!SeqNext \/ UNCHANGED Abstract!seqVars
  OBVIOUS
<1> USE DEF Abstract!SeqNext, Abstract!seqVars
<1>1. ASSUME NEW c \in Conn, NEW r \in Request, Receive(c, r) PROVE UNCHANGED Abstract!seqVars
  BY <1>1 DEF Receive
<1>2. CASE Acquire
  BY <1>2 DEF Acquire
<1>3. ASSUME NEW c \in Conn, HandlerStep(c)
      PROVE  Abstract!SeqNext \/ UNCHANGED Abstract!seqVars
  <2>1. CASE HandleInit(c)
    BY <2>1 DEF HandleInit, Abstract!OpenEpoch
  <2>2. CASE HandleRead(c) \/ RefuseBind(c) \/ BindFails(c)
    BY <2>2 DEF HandleRead, RefuseBind, BindFails
  <2>3. CASE StartBind(c) \/ SlotSigned(c) \/ Attested(c)
    BY <2>3 DEF StartBind, SlotSigned, Attested
  <2>4. ASSUME NEW n \in Nonce, NonceDrawn(c, n) PROVE UNCHANGED Abstract!seqVars
    BY <2>4 DEF NonceDrawn
  <2>5. CASE BodySigned(c)
    <3>1. task[c] \in AwaitsBody
      BY <2>5 DEF BodySigned, IInv, TypeOK, Task, NoTask, Queued, AwaitsNonce, AwaitsSlot,
                  AwaitsBody
    <3>2. Running(c)
      BY <2>5 DEF BodySigned, Running
    <3>3. /\ initialized
          /\ task[c].nonceCount = chain.counter + 1
          /\ task[c].payloadCount = chain.counter + 2
          /\ \A i \in DOMAIN released : released[i].nonce # task[c].nonce
          /\ task[c].prev = chain.last
      BY <2>5, <3>2 DEF BodySigned, IInv, LocalInv
    <3>4. task[c].nonce \notin Abstract!Bound(released)
      BY <3>3 DEF Abstract!Bound
    <3>5. Abstract!Bind(task[c].digest, task[c].nonce)
      BY <2>5, <3>3, <3>4 DEF BodySigned, ProofOf, Abstract!Bind
    <3>6. task[c].digest \in Digest /\ task[c].nonce \in Nonce
      BY <3>1 DEF AwaitsBody
    <3> QED
      BY <3>5, <3>6
  <2> QED
    BY <1>3, <2>1, <2>2, <2>3, <2>4, <2>5 DEF HandlerStep
<1>4. CASE Boot
  BY <1>4 DEF Boot, FreshChain, Abstract!NewEpoch
<1>5. CASE UNCHANGED vars
  BY <1>5 DEF vars
<1> QED
  BY <1>1, <1>2, <1>3, <1>4, <1>5 DEF Next

\* The enclave implements BoundSequence: a bind, with its lock, its awaits and its failures,
\* is one atomic action to everyone outside (app.ts, runExclusive and handleBind).
THEOREM BindIsAtomic == Spec => AtomicBind
BY InitRefines, NextRefines, Invariance, PTL DEF Spec, AtomicBind, Abstract!SeqSpec

-----------------------------------------------------------------------------
(* The line before the lock.                                               *)

\* Every request that reached the enclave has the lock or waits for it, at one place; and
\* whoever has the lock has a request, so there is a step that gives it back.
NobodyLeftBehind ==
    /\ \A c \in Conn : task[c].step # "none" => lock = c \/ \E i \in DOMAIN waiting : waiting[i] = c
    /\ \A i \in DOMAIN waiting : task[waiting[i]].step = "queued" /\ waiting[i] # lock
    /\ \A i, j \in DOMAIN waiting : waiting[i] = waiting[j] => i = j
    /\ lock # NoConn => task[lock].step # "none"

\* A step of the running handler: its request goes on under the lock, or is over and lets go.
LEMMA HandlerOutcome ==
    ASSUME IInv, NEW c \in Conn, HandlerStep(c)
    PROVE  /\ lock = c /\ waiting' = waiting /\ \A d \in Conn \ {c} : task'[d] = task[d]
           /\ \/ lock' = NoConn /\ task'[c].step = "none"
              \/ lock' = lock /\ task'[c].step # "none"
<1>1. TypeOK /\ LockInv
  BY DEF IInv
<1>2. CASE HandleInit(c) \/ HandleRead(c) \/ RefuseBind(c) \/ BindFails(c)
  BY <1>1, <1>2 DEF HandleInit, HandleRead, RefuseBind, BindFails, Answer, Dispatched, LockInv,
                    NoTask, TypeOK
<1>3. CASE StartBind(c) \/ SlotSigned(c) \/ Attested(c)
  BY <1>1, <1>3 DEF StartBind, SlotSigned, Attested, Dispatched, LockInv, Running, TypeOK, Task,
                    NoTask, Queued, AwaitsNonce, AwaitsSlot, AwaitsBody
<1>4. ASSUME NEW n \in Nonce, NonceDrawn(c, n)
      PROVE  /\ lock = c /\ UNCHANGED <<lock, waiting>> /\ task'[c].step # "none"
             /\ \A d \in Conn \ {c} : task'[d] = task[d]
  BY <1>1, <1>4 DEF NonceDrawn, LockInv, Running, TypeOK
<1>5. CASE BodySigned(c)
  BY <1>1, <1>5 DEF BodySigned, Answer, LockInv, Running, NoTask, TypeOK
<1> QED
  BY <1>2, <1>3, <1>4, <1>5 DEF HandlerStep

\* Every step keeps the line.
LEMMA LineStep ==
    ASSUME IInv, NobodyLeftBehind, [Next]_vars
    PROVE  NobodyLeftBehind'
<1>1. /\ waiting \in Seq(Conn) /\ Len(waiting) \in Nat /\ DOMAIN waiting = 1..Len(waiting)
      /\ \A i \in DOMAIN waiting : waiting[i] \in Conn
      /\ task \in [Conn -> Task] /\ lock \in Conn \cup {NoConn}
  BY DEF IInv, TypeOK
<1>2. ASSUME NEW c \in Conn, NEW r \in Request, Receive(c, r) PROVE NobodyLeftBehind'
  <2>1. /\ task[c].step = "none" /\ task'[c].step = "queued" /\ lock' = lock
        /\ \A d \in Conn \ {c} : task'[d] = task[d]
    BY <1>1, <1>2 DEF Receive
  <2>2. /\ DOMAIN waiting' = 1..(Len(waiting) + 1) /\ waiting'[Len(waiting) + 1] = c
        /\ \A i \in DOMAIN waiting : waiting'[i] = waiting[i] /\ i \in DOMAIN waiting'
        /\ \A i \in DOMAIN waiting' : i \in DOMAIN waiting \/ i = Len(waiting) + 1
    BY <1>1, <1>2 DEF Receive
  <2>3. c # lock /\ \A i \in DOMAIN waiting : waiting[i] # c
    BY <1>1, <2>1, NoConnAssumption DEF NobodyLeftBehind
  <2>4. Len(waiting) + 1 \in DOMAIN waiting'
    BY <1>1, <2>2
  <2> QED
    BY <1>1, <2>1, <2>2, <2>3, <2>4, NoConnAssumption DEF NobodyLeftBehind
<1>3. CASE Acquire
  <2>1. /\ lock = NoConn /\ Len(waiting) # 0 /\ lock' = waiting[1] /\ 1 \in DOMAIN waiting
        /\ waiting' = Tail(waiting) /\ task' = task
    BY <1>1, <1>3 DEF Acquire, LockFree
  <2>2. /\ DOMAIN waiting' = 1..(Len(waiting) - 1)
        /\ \A i \in DOMAIN waiting' : /\ i + 1 \in DOMAIN waiting /\ i + 1 # 1
                                      /\ waiting'[i] = waiting[i + 1]
        /\ \A i \in DOMAIN waiting \ {1} : i - 1 \in DOMAIN waiting' /\ waiting'[i - 1] = waiting[i]
    BY <1>1, <2>1
  <2>3. \A i, j \in DOMAIN waiting' : i + 1 = j + 1 => i = j
    BY <1>1, <2>2
  <2>4. ASSUME NEW c \in Conn, task[c].step # "none"
        PROVE  lock' = c \/ \E i \in DOMAIN waiting' : waiting'[i] = c
    <3>1. PICK k \in DOMAIN waiting : waiting[k] = c
      BY <2>1, <2>4, NoConnAssumption DEF NobodyLeftBehind
    <3> QED
      BY <2>1, <2>2, <3>1
  <2>5. \A i \in DOMAIN waiting' : task[waiting'[i]].step = "queued" /\ waiting'[i] # lock'
    BY <2>1, <2>2 DEF NobodyLeftBehind
  <2>6. \A i, j \in DOMAIN waiting' : waiting'[i] = waiting'[j] => i = j
    BY <2>2, <2>3 DEF NobodyLeftBehind
  <2>7. task[lock'].step # "none"
    BY <2>1 DEF NobodyLeftBehind
  <2> QED
    BY <2>1, <2>4, <2>5, <2>6, <2>7 DEF NobodyLeftBehind
<1>4. ASSUME NEW c \in Conn, HandlerStep(c) PROVE NobodyLeftBehind'
  <2>1. \A i \in DOMAIN waiting : waiting[i] # c
    BY <1>4, HandlerOutcome DEF NobodyLeftBehind
  <2> QED
    BY <1>1, <1>4, <2>1, HandlerOutcome, NoConnAssumption DEF NobodyLeftBehind
<1>5. CASE Boot
  BY <1>5 DEF Boot, NobodyLeftBehind, NoTask
<1>6. CASE UNCHANGED vars
  BY <1>6 DEF vars, NobodyLeftBehind
<1> QED
  BY <1>2, <1>3, <1>4, <1>5, <1>6 DEF Next

\* The promise lock loses no request (app.ts, runExclusive, which goes on after a rejection as
\* after an answer): nobody waits for a lock that is never given back, and nobody is dropped.
THEOREM NobodyIsLeftBehind == Spec => []NobodyLeftBehind
<1>1. Init => NobodyLeftBehind
  BY DEF Init, NobodyLeftBehind, NoTask
<1>2. IInv /\ NobodyLeftBehind /\ [Next]_vars => NobodyLeftBehind'
  BY LineStep
<1> QED
  BY <1>1, <1>2, Invariance, PTL DEF Spec
=============================================================================
