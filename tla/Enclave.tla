------------------------------ MODULE Enclave ------------------------------
(***************************************************************************)
(* The Nitro enclave (server/commit-service/src/enclave/app.ts).           *)
(*                                                                         *)
(* Requests arrive on any number of connections and queue for one promise  *)
(* lock.  The holder of the lock runs the dispatcher; a bind awaits the    *)
(* random generator, two signatures and the attestation document, any of   *)
(* which may throw, and Node runs the other connections' handlers during   *)
(* each await.  The counts of a bind are local until its last step.        *)
(*                                                                         *)
(* A caller that gives up (the parent's 30 s timeout) leaves no trace in   *)
(* here: its request stays queued or running and its answer goes to a      *)
(* closed socket, so giving up is no action of this module.                *)
(***************************************************************************)
EXTENDS Integers, Sequences

CONSTANTS Digest,     \* the 32-byte digests a caller may ask to bind
          BadDigest,  \* a digestB64 that is not 32 bytes of standard base64
          Nonce,      \* what the hardware random generator can return
          NoProof,    \* lastProofHashB64 undefined: no proof yet in this epoch
          Conn,       \* connections
          NoConn,     \* nobody holds the lock
          MaxEpoch    \* bound: boots explored

ASSUME NoProofAssumption == NoProof \notin Nonce
ASSUME NoConnAssumption == NoConn \notin Conn
ASSUME BadDigestAssumption == BadDigest \notin Digest
ASSUME MaxEpochAssumption == MaxEpoch \in Nat \ {0}

VARIABLES epochId,     \* which boot this is; every boot draws a new key and epoch identity
          chain,       \* chain.counter and chain.lastProofHashB64; a hash is named by its nonce
          initialized, \* init was called in this epoch
          lock,        \* the connection whose request runs under enclaveLock
          waiting,     \* the connections queued behind it
          task,        \* per connection: its request, or the bind's local variables
          drawn,       \* nonces the generator has returned
          released     \* history: the proofs given out, in order

vars == <<epochId, chain, initialized, lock, waiting, task, drawn, released>>

-----------------------------------------------------------------------------
\* "read" stands for health, key and every unknown action: they change nothing.
Request == [action: {"init", "read"}] \cup [action: {"bind"}, digest: Digest \cup {BadDigest}]

\* The bind's progress, each step named for what it awaits next.
NoTask == [step |-> "none"]
Queued == [step: {"queued"}, req: Request]
AwaitsNonce == [step: {"getFreshNonce"}, digest: Digest, nonceCount: Nat, payloadCount: Nat]
AwaitsSlot == [step: {"signSlot"}, digest: Digest, nonceCount: Nat, payloadCount: Nat,
               nonce: Nonce]
AwaitsBody == [step: {"getAttestation", "signBody"}, digest: Digest, nonceCount: Nat,
               payloadCount: Nat, nonce: Nonce, prev: Nonce \cup {NoProof}]
Task == {NoTask} \cup Queued \cup AwaitsNonce \cup AwaitsSlot \cup AwaitsBody

Proof == [epoch: Nat, slotCounter: Nat, counter: Nat, nonce: Nonce,
          prev: Nonce \cup {NoProof}, digest: Digest]

FreshChain == [counter |-> 0, last |-> NoProof]

Running(c) ==
    task[c].step \in {"getFreshNonce", "signSlot", "getAttestation", "signBody"}

\* Bug: requests are not serialised.
LockFreeAlways == TRUE

\* runExclusive: the next request starts when the one before it has settled.
LockFree == lock = NoConn

\* The request is over, answered or failed: the socket ends and the lock settles.
Answer(c) ==
    /\ task' = [task EXCEPT ![c] = NoTask]
    /\ lock' = NoConn

-----------------------------------------------------------------------------
Init ==
    /\ epochId = 1
    /\ chain = FreshChain
    /\ initialized = FALSE
    /\ lock = NoConn
    /\ waiting = <<>>
    /\ task = [c \in Conn |-> NoTask]
    /\ drawn = {}
    /\ released = <<>>

\* A complete JSON object has arrived: it queues for the lock.
Receive(c, r) ==
    /\ task[c].step = "none"
    /\ waiting' = Append(waiting, c)
    /\ task' = [task EXCEPT ![c] = [step |-> "queued", req |-> r]]
    /\ UNCHANGED <<epochId, chain, initialized, lock, drawn, released>>

\* The lock passes to the request that has waited longest.
Acquire ==
    /\ LockFree
    /\ waiting # <<>>
    /\ lock' = Head(waiting)
    /\ waiting' = Tail(waiting)
    /\ UNCHANGED <<epochId, chain, initialized, task, drawn, released>>

Dispatched(c, action) ==
    /\ lock = c
    /\ task[c].step = "queued"
    /\ task[c].req.action = action

HandleInit(c) ==
    /\ Dispatched(c, "init")
    /\ initialized' = TRUE
    /\ Answer(c)
    /\ UNCHANGED <<epochId, chain, waiting, drawn, released>>

HandleRead(c) ==
    /\ Dispatched(c, "read")
    /\ Answer(c)
    /\ UNCHANGED <<epochId, chain, initialized, waiting, drawn, released>>

\* Bug: the digest is not looked at.
AcceptableAnything(d) == initialized

Acceptable(d) == initialized /\ d # BadDigest

\* A bind before init, or of something that is no digest, throws before anything is drawn.
RefuseBind(c) ==
    /\ Dispatched(c, "bind")
    /\ ~Acceptable(task[c].req.digest)
    /\ Answer(c)
    /\ UNCHANGED <<epochId, chain, initialized, waiting, drawn, released>>

\* Bug: the counter is moved when the bind starts.
StartBindCounting(c) ==
    /\ Dispatched(c, "bind")
    /\ Acceptable(task[c].req.digest)
    /\ chain' = [chain EXCEPT !.counter = @ + 2]
    /\ task' = [task EXCEPT ![c] = [step |-> "getFreshNonce", digest |-> task[c].req.digest,
                                    nonceCount |-> chain.counter + 1,
                                    payloadCount |-> chain.counter + 2]]
    /\ UNCHANGED <<epochId, initialized, lock, waiting, drawn, released>>

\* The counts are computed into local variables, and the generator is called.
StartBind(c) ==
    /\ Dispatched(c, "bind")
    /\ Acceptable(task[c].req.digest)
    /\ task' = [task EXCEPT ![c] = [step |-> "getFreshNonce", digest |-> task[c].req.digest,
                                    nonceCount |-> chain.counter + 1,
                                    payloadCount |-> chain.counter + 2]]
    /\ UNCHANGED <<epochId, chain, initialized, lock, waiting, drawn, released>>

\* Bug: a nonce drawn before is used again.
NonceDrawnCached(c, n) ==
    /\ task[c].step = "getFreshNonce"
    /\ drawn' = drawn \cup {n}
    /\ task' = [task EXCEPT ![c] = [step |-> "signSlot", digest |-> task[c].digest,
                                    nonceCount |-> task[c].nonceCount,
                                    payloadCount |-> task[c].payloadCount, nonce |-> n]]
    /\ UNCHANGED <<epochId, chain, initialized, lock, waiting, released>>

\* The generator returned: the slot record is built and goes to be signed.
NonceDrawn(c, n) ==
    /\ task[c].step = "getFreshNonce"
    /\ n \notin drawn
    /\ drawn' = drawn \cup {n}
    /\ task' = [task EXCEPT ![c] = [step |-> "signSlot", digest |-> task[c].digest,
                                    nonceCount |-> task[c].nonceCount,
                                    payloadCount |-> task[c].payloadCount, nonce |-> n]]
    /\ UNCHANGED <<epochId, chain, initialized, lock, waiting, released>>

\* The slot is signed: the body, with the last proof's hash read now, goes to be attested.
SlotSigned(c) ==
    /\ task[c].step = "signSlot"
    /\ task' = [task EXCEPT ![c] = [step |-> "getAttestation", digest |-> task[c].digest,
                                    nonceCount |-> task[c].nonceCount,
                                    payloadCount |-> task[c].payloadCount,
                                    nonce |-> task[c].nonce, prev |-> chain.last]]
    /\ UNCHANGED <<epochId, chain, initialized, lock, waiting, drawn, released>>

Attested(c) ==
    /\ task[c].step = "getAttestation"
    /\ task' = [task EXCEPT ![c].step = "signBody"]
    /\ UNCHANGED <<epochId, chain, initialized, lock, waiting, drawn, released>>

\* What the proof says: the bind's local variables, and the epoch of this boot.
ProofOf(t) ==
    [epoch |-> epochId, slotCounter |-> t.nonceCount, counter |-> t.payloadCount,
     nonce |-> t.nonce, prev |-> t.prev, digest |-> t.digest]

\* Everything succeeded: the chain moves, and the proof is released.
BodySigned(c) ==
    /\ task[c].step = "signBody"
    /\ chain' = [counter |-> task[c].payloadCount, last |-> task[c].nonce]
    /\ released' = Append(released, ProofOf(task[c]))
    /\ Answer(c)
    /\ UNCHANGED <<epochId, initialized, waiting, drawn>>

\* Bug: an exception leaves the lock chain rejected, and the next request never starts.
BindFailsLocked(c) ==
    /\ Running(c)
    /\ task' = [task EXCEPT ![c] = NoTask]
    /\ UNCHANGED <<epochId, chain, initialized, lock, waiting, drawn, released>>

\* What the bind awaited threw: nothing is released, nothing moves.
BindFails(c) ==
    /\ Running(c)
    /\ Answer(c)
    /\ UNCHANGED <<epochId, chain, initialized, waiting, drawn, released>>

\* The enclave ends and boots again: a new epoch, and everything in memory gone.
Boot ==
    /\ epochId < MaxEpoch
    /\ epochId' = epochId + 1
    /\ chain' = FreshChain
    /\ initialized' = FALSE
    /\ lock' = NoConn
    /\ waiting' = <<>>
    /\ task' = [c \in Conn |-> NoTask]
    /\ UNCHANGED <<drawn, released>>

\* One step of the handler that runs for connection c.
HandlerStep(c) ==
    \/ HandleInit(c)
    \/ HandleRead(c)
    \/ RefuseBind(c)
    \/ StartBind(c)
    \/ \E n \in Nonce : NonceDrawn(c, n)
    \/ SlotSigned(c)
    \/ Attested(c)
    \/ BodySigned(c)
    \/ BindFails(c)

Next ==
    \/ \E c \in Conn, r \in Request : Receive(c, r)
    \/ Acquire
    \/ \E c \in Conn : HandlerStep(c)
    \/ Boot

Spec == Init /\ [][Next]_vars

\* Promises settle, and awaits return a value or throw.
Fairness == WF_vars(Acquire) /\ \A c \in Conn : WF_vars(HandlerStep(c))

FairSpec == Spec /\ Fairness

-----------------------------------------------------------------------------
(* What the enclave guarantees.                                            *)

TypeOK ==
    /\ epochId \in Nat
    /\ chain \in [counter: Nat, last: Nonce \cup {NoProof}]
    /\ initialized \in BOOLEAN
    /\ lock \in Conn \cup {NoConn}
    /\ waiting \in Seq(Conn)
    /\ task \in [Conn -> Task]
    /\ drawn \in SUBSET Nonce
    /\ released \in Seq(Proof)

\* q is the first proof of its epoch: counts 1 and 2, and no proof before it.
Opens(q) == q.slotCounter = 1 /\ q.counter = 2 /\ q.prev = NoProof

\* q takes the two counts right after p's and names p as the proof before it.
Follows(p, q) ==
    q.slotCounter = p.counter + 1 /\ q.counter = p.counter + 2 /\ q.prev = p.nonce

\* "A stretch of proofs accounts for every count in it" (app.ts, header): whatever
\* binds ran concurrently, failed or were cut off by a reboot, each proof of an epoch
\* directly follows the one released before it, with no count shared or skipped.
UnbrokenSequence ==
    \A i \in DOMAIN released :
        IF i > 1 /\ released[i - 1].epoch = released[i].epoch
        THEN Follows(released[i - 1], released[i])
        ELSE Opens(released[i]) /\ (i > 1 => released[i - 1].epoch < released[i].epoch)

\* No nonce is bound twice, in any epoch: not by two binds whose handlers overlap,
\* and not by a bind that failed after drawing it and was tried again.
NonceBoundOnce ==
    \A i, j \in DOMAIN released : released[i].nonce = released[j].nonce => i = j

\* The handler with its lock, awaits and failures is one atomic action: every step of
\* the enclave is a whole bind, an init, a new epoch, or no visible change at all.
Abstract == INSTANCE BoundSequence WITH
    epoch <- epochId, counter <- chain.counter, last <- chain.last,
    open <- initialized, ledger <- released

AtomicBind == Abstract!SeqSpec

\* Every request that reached the enclave is answered, or ended by a reboot, however
\* many others queue and fail before it (runExclusive settles after a rejection too).
EveryRequestEnds == \A c \in Conn : task[c].step # "none" ~> task[c].step = "none"
=============================================================================
