---------------------------- MODULE ParentProofs ----------------------------
(***************************************************************************)
(* Proofs about Parent.tla, for any requests and any number of binds,      *)
(* block reads, boots, starts and faults: the one call in flight is that   *)
(* of the head of bindExclusive's chain, a floor is directly before its    *)
(* file, notes name the epoch they are bound in, Base gets the files and   *)
(* nothing else, no digest is bound twice, the genesis marker ends it,     *)
(* nobody is left waiting, and the enclave sees a BoundSequence.           *)
(***************************************************************************)
EXTENDS Parent, FiniteSetTheorems, SequenceTheorems, TLAPS

-----------------------------------------------------------------------------
(* The inductive invariants.                                               *)

Load(i) == wire[i].bind[1]

\* The enclave's half: proofs are named by their places.
EnclaveType ==
    /\ epoch \in 1..MaxEpochs /\ counter \in Nat /\ open \in BOOLEAN
    /\ ledger \in Seq(Sequence!Proof) /\ Len(ledger) <= MaxBinds
    /\ last \in 0..Len(ledger)
    /\ \A i \in DOMAIN ledger : ledger[i].nonce = i

ServiceType ==
    /\ up \in {"down", "serving", "stopping"}
    /\ openEpochId \in 0..epoch /\ epochStarting \in BOOLEAN
    /\ pc \in [Actor -> Step]
    /\ bindChain \in Seq(Actor)
    /\ call \in Actor \cup {None}
    /\ made \in [Req -> SUBSET Made] /\ floor \in [Req -> {0} \cup Made]
    /\ kept \subseteq Made /\ ceiling \subseteq kept /\ queueFile \subseteq ceiling

\* A call carries an init or one bind.
WireType ==
    /\ wire \in Seq([of: Actor, bind: Seq(Payload), live: BOOLEAN])
    /\ \A i \in DOMAIN wire :
          wire[i].bind # <<>> => Load(i) \in Payload /\ wire[i].bind = <<Load(i)>>

TypeInv == EnclaveType /\ ServiceType /\ WireType

\* bindExclusive: who waits is in the chain, once, and nobody else; only the head has begun.
Waits(a) == IF a \in Req THEN pc[a] \in {"queued", "sendDrop", "sendFile"} ELSE pc[a] = "queued"

Turns(c) == {c[i] : i \in DOMAIN c}
Once(c) == \A i, j \in DOMAIN c : c[i] = c[j] => i = j

TurnInv ==
    /\ Once(bindChain)
    /\ \A a \in Actor : Waits(a) <=> a \in Turns(bindChain)
    /\ \A r \in Req : pc[r] \in {"sendDrop", "sendFile"} => AtHead(r)

\* The vsock client: one call in flight, the init or the head's.
Sent(a) == IF pc[a] = "init" THEN <<>> ELSE <<NextBind(a)>>

CallInv ==
    /\ call # None => \/ call = Boot /\ pc[Boot] = "init"
                      \/ AtHead(call) /\ Sendable(call)
    /\ pc[Boot] = "init" => /\ call = Boot /\ openEpochId = 0
                            /\ pc[Reader] = "idle" /\ pc[Genesis] = "idle"
    /\ up = "down" => /\ call = None /\ bindChain = <<>> /\ openEpochId = 0
                      /\ \A a \in Notes : pc[a] = "idle"
                      /\ \A r \in Req : pc[r] \in {"idle", "done"}
    /\ up = "serving" => pc[End] = "idle"
    /\ \A i \in DOMAIN wire : wire[i].live =>
          i = Len(wire) /\ call # None /\ wire[i].bind = Sent(call)

FlowInv == TurnInv /\ CallInv

\* The epoch the parent knows is the one that binds, or nothing is bound.
EpochInv ==
    /\ openEpochId # 0 => \A i \in DOMAIN wire : wire[i].bind # <<>>
    /\ openEpochId \notin {0, epoch} => ~open /\ epoch \notin marked
    /\ \A i \in DOMAIN wire : wire[i].bind # <<>> /\ Load(i).note \notin {0, epoch} =>
          ~open /\ \A j \in 1..(i - 1) : wire[j].bind # <<>>

\* A floor is the last proof of the ledger until its file is bound, or nothing is bound.
Follows(f) ==
    /\ f = Len(ledger) /\ Kind(f) = "drop"
    /\ ~open \/ (ledger[f].epoch = epoch /\ last = f)

WireFloor == \A i \in DOMAIN wire : wire[i].bind # <<>> /\ wire[i].bind[1].floor # 0 =>
                i = 1 /\ Follows(wire[i].bind[1].floor)
HeldFloor == \A r \in Req : pc[r] = "sendFile" /\ floor[r] # 0 /\ call # r =>
                wire = <<>> /\ Follows(floor[r])

\* What a request has made are its files.
FilesOf(r) == {i \in Made : Kind(i) = "file" /\ ledger[i].digest.of = r}

MadeInv == \A r \in Req : made[r] \subseteq FilesOf(r)

\* The places of the files that Base is to get.
ForBase(L) == {i \in DOMAIN L : L[i].digest.kind = "file" /\ L[i].digest.of \notin Anchors}

\* The files of a request, and those that are still on the way.
FileAt(r, w) == w.bind # <<>> /\ w.bind[1].kind = "file" /\ w.bind[1].of = r

Counted(r) ==
    /\ \A i, j \in DOMAIN wire : FileAt(r, wire[i]) /\ FileAt(r, wire[j]) => i = j
    /\ pc[r] \in {"idle", "readBody"} => FilesOf(r) = {} /\ made[r] = {}
    /\ pc[r] \in {"queued", "sendDrop", "sendFile"} =>
          FilesOf(r) = made[r] /\ Cardinality(made[r]) < Digests[r]
    /\ pc[r] # "done" => \A i \in DOMAIN wire : FileAt(r, wire[i]) => wire[i].live /\ call = r
    /\ Cardinality(FilesOf(r)) <= Digests[r]
    /\ (\E i \in DOMAIN wire : FileAt(r, wire[i])) => Cardinality(FilesOf(r)) < Digests[r]

CountInv == \A r \in Req : Counted(r)

\* The marker of an epoch comes when nothing is on the way any more.
MarkInv ==
    /\ marked \subseteq asked /\ asked \subseteq 1..epoch
    /\ pc[Genesis] \in {"reading", "queued"} => openEpochId \in asked \ marked
    /\ \A i \in DOMAIN wire : wire[i].bind # <<>> /\ Load(i).kind = "genesis" => epoch \notin marked

-----------------------------------------------------------------------------
(* The actors and the steps.                                               *)

\* The callers are all different.
LEMMA Apart ==
    /\ Notes \subseteq Actor /\ Req \subseteq Actor /\ \A a \in Notes : a \notin Req
    /\ Actor = Req \cup Notes /\ None \notin Actor
    /\ Boot \in Notes /\ Reader \in Notes /\ Genesis \in Notes /\ End \in Notes
    /\ Boot # Reader /\ Boot # Genesis /\ Boot # End /\ Reader # Genesis /\ Reader # End /\ Genesis # End
    /\ \A a \in Notes : a = Boot \/ a = Reader \/ a = Genesis \/ a = End
BY ActorAssumption DEF Actor, Notes

\* A call comes to its end: answered, refused, or rejected while the enclave may have bound.
Reply(o, i) ==
    \/ ServeInit /\ Head(wire).live /\ o = "ok" /\ i = 0
    \/ ServeBind /\ Head(wire).live /\ o = "ok" /\ i = Place
    \/ ServeBind /\ Head(wire).live /\ o = "rejected" /\ i = 0
    \/ RefuseBind /\ Head(wire).live /\ o = "refused" /\ i = 0
    \/ (Timeout \/ CallReset) /\ o = "rejected" /\ i = 0

\* A call that nobody waits for is served.
LateServe == (ServeInit \/ ServeBind \/ RefuseBind) /\ ~Head(wire).live /\ Unheard

Outcome == {"ok", "refused", "rejected"}

\* Every step is one of these.
LEMMA StepCases ==
    ASSUME [Next]_vars
    PROVE  \/ UNCHANGED vars \/ Listen \/ (\E r \in Req : Arrive(r) \/ Body(r) \/ StartJob(r))
           \/ (\E a \in Actor : Send(a)) \/ (\E a \in {Boot, Reader, Genesis} : ReadBlock(a))
           \/ FirstStored \/ GiveUpFirst \/ (\E c \in BOOLEAN : Stop(c)) \/ Gone \/ Reboot
           \/ LateServe
           \/ \E o \in Outcome, i \in {0, Place} : Reply(o, i) /\ Settled(o, i)
<1>1. CASE ServeInit
  BY <1>1 DEF ServeInit, Settled, Reply, LateServe, Outcome
<1>2. CASE ServeBind
  BY <1>2 DEF ServeBind, Reply, LateServe, Outcome
<1>3. CASE RefuseBind
  BY <1>3 DEF RefuseBind, Reply, LateServe, Outcome
<1>4. CASE Timeout \/ CallReset
  BY <1>4 DEF Timeout, CallReset, Reply, Outcome
<1>5. CASE \E a \in Actor : Progress(a)
  BY <1>5 DEF Progress, ReadBlock, Exit
<1> QED
  BY <1>1, <1>2, <1>3, <1>4, <1>5 DEF Next, Serve, Crash

\* What a step does to the enclave.
LEMMA EnclaveStep ==
    ASSUME [Next]_vars
    PROVE  \/ UNCHANGED enclave
           \/ ServeInit /\ open' = TRUE /\ UNCHANGED <<epoch, counter, last, ledger>>
           \/ Reboot /\ epoch < MaxEpochs /\ epoch' = epoch + 1 /\ counter' = 0 /\ last' = 0 /\ open' = FALSE
              /\ ledger' = ledger /\ wire' = <<>>
           \/ /\ ServeBind /\ wire # <<>> /\ Head(wire).bind # <<>> /\ Place <= MaxBinds /\ open
              /\ counter' = counter + 2 /\ last' = Place /\ UNCHANGED <<epoch, open>>
              /\ ledger' = Append(ledger, [epoch |-> epoch, slotCounter |-> counter + 1,
                              counter |-> counter + 2, nonce |-> Place, prev |-> last,
                              digest |-> Head(wire).bind[1]])
<1>1. CASE ServeInit
  BY <1>1 DEF ServeInit, Sequence!OpenEpoch
<1>2. CASE Reboot
  BY <1>2 DEF Reboot, Sequence!NewEpoch
<1>3. CASE ServeBind
  BY <1>3 DEF ServeBind, Sequence!Bind
<1>4. CASE ~(ServeInit \/ Reboot \/ ServeBind)
  BY <1>4 DEF Next, vars, enclave, Listen, Arrive, Progress, Body, StartJob, Send, ReadBlock, FirstStored,
      Exit, Gone, Serve, RefuseBind, CallReset, Timeout, GiveUpFirst, Stop, Crash
<1> QED
  BY <1>1, <1>2, <1>3, <1>4

\* The ledger grows by what the head of the wire carries.
LEMMA LedgerStep ==
    ASSUME TypeInv, [Next]_vars
    PROVE  /\ Len(ledger) \in Nat /\ DOMAIN ledger = 1..Len(ledger) /\ Made \subseteq Made'
           /\ \A i \in Made : ledger'[i] = ledger[i]
           /\ \/ ledger' = ledger /\ ~ServeBind
              \/ /\ ServeBind /\ wire # <<>> /\ Head(wire).bind # <<>> /\ open
                 /\ Place = Len(ledger) + 1 /\ Place <= MaxBinds /\ last' = Place /\ Place \notin Made
                 /\ UNCHANGED <<epoch, open>> /\ counter' = counter + 2
                 /\ Len(ledger') = Place /\ Made' = Made \cup {Place}
                 /\ ledger'[Place] = [epoch |-> epoch, slotCounter |-> counter + 1,
                                      counter |-> counter + 2, nonce |-> Place, prev |-> last,
                                      digest |-> Head(wire).bind[1]]
<1>1. ledger \in Seq(Sequence!Proof) /\ Len(ledger) \in Nat /\ DOMAIN ledger = 1..Len(ledger)
  BY LenProperties DEF TypeInv, EnclaveType
<1>2. CASE ServeBind
  <2> DEFINE p == [epoch |-> epoch, slotCounter |-> counter + 1, counter |-> counter + 2,
                   nonce |-> Place, prev |-> last, digest |-> Head(wire).bind[1]]
  <2>1. /\ ledger' = Append(ledger, p) /\ wire # <<>> /\ Head(wire).bind # <<>> /\ open
        /\ Place <= MaxBinds /\ last' = Place /\ UNCHANGED <<epoch, open>> /\ counter' = counter + 2
    BY <1>2 DEF ServeBind, Sequence!Bind
  <2> HIDE DEF p
  <2>2. ledger \in Seq(Sequence!Proof \cup {p}) /\ p \in Sequence!Proof \cup {p}
    BY <1>1, SeqMonotonic
  <2>3. /\ Len(ledger') = Len(ledger) + 1 /\ ledger'[Len(ledger) + 1] = p
        /\ \A i \in 1..Len(ledger) : ledger'[i] = ledger[i]
        /\ ledger' \in Seq(Sequence!Proof \cup {p})
    BY <2>1, <2>2, AppendProperties
  <2>4. DOMAIN ledger' = 1..(Len(ledger) + 1)
    BY <2>3, LenProperties
  <2>5. 1..(Len(ledger) + 1) = 1..Len(ledger) \cup {Len(ledger) + 1} /\ Len(ledger) + 1 \notin 1..Len(ledger)
    BY <1>1
  <2> QED
    BY <1>1, <1>2, <2>1, <2>3, <2>4, <2>5 DEF Place, Made, p
<1>3. CASE ~ServeBind
  <2>1. ledger' = ledger
    BY <1>3, EnclaveStep DEF enclave
  <2> QED
    BY <1>1, <1>3, <2>1 DEF Made
<1> QED
  BY <1>2, <1>3

-----------------------------------------------------------------------------
(* The wire.                                                               *)

CallType == [of: Actor, bind: Seq(Payload), live: BOOLEAN]

\* What the wire holds, entry by entry.
LEMMA WireIs ==
    ASSUME WireType
    PROVE  /\ Len(wire) \in Nat /\ DOMAIN wire = 1..Len(wire) /\ wire \in Seq(CallType)
           /\ \A i \in DOMAIN wire : wire[i] \in CallType /\ i \in Nat
           /\ wire # <<>> => Head(wire) = wire[1] /\ 1 \in DOMAIN wire
<1>1. wire \in Seq(CallType)
  BY DEF WireType, CallType
<1>2. Len(wire) \in Nat /\ DOMAIN wire = 1..Len(wire)
  BY <1>1, LenProperties
<1>3. \A i \in DOMAIN wire : wire[i] \in CallType /\ i \in Nat
  BY <1>1, <1>2, ElementOfSeq
<1>4. ASSUME wire # <<>> PROVE Head(wire) = wire[1] /\ 1 \in DOMAIN wire
  <2>1. Len(wire) # 0
    BY <1>1, <1>4, EmptySeq
  <2> QED
    BY <1>1, <1>2, <1>4, <2>1, HeadTailProperties
<1> QED
  BY <1>1, <1>2, <1>3, <1>4

\* A call is served: the rest of the wire moves up.
LEMMA WireServed ==
    ASSUME WireType, wire # <<>>, wire' = Tail(wire)
    PROVE  /\ wire' \in Seq(CallType) /\ Len(wire') = Len(wire) - 1
           /\ DOMAIN wire' = 1..(Len(wire) - 1)
           /\ \A i \in DOMAIN wire' : i + 1 \in DOMAIN wire /\ i + 1 # 1 /\ wire'[i] = wire[i + 1]
           /\ Len(wire) = 1 => wire' = <<>>
<1>1. wire \in Seq(CallType) /\ Len(wire) \in Nat /\ DOMAIN wire = 1..Len(wire)
  BY WireIs
<1>2. /\ wire' \in Seq(CallType) /\ Len(wire') = Len(wire) - 1
      /\ \A i \in 1..Len(wire') : wire'[i] = wire[i + 1]
  BY <1>1, HeadTailProperties
<1>3. DOMAIN wire' = 1..Len(wire')
  BY <1>2, LenProperties
<1>4. \A i \in 1..(Len(wire) - 1) : i + 1 \in 1..Len(wire) /\ i + 1 # 1
  BY <1>1
<1>5. Len(wire) = 1 => wire' = <<>>
  BY <1>2, EmptySeq
<1> QED
  BY <1>1, <1>2, <1>3, <1>4, <1>5

\* A call is sent: it is the last one on the wire.
LEMMA WireSent ==
    ASSUME WireType, NEW w \in CallType, wire' = Append(wire, w)
    PROVE  /\ wire' \in Seq(CallType) /\ Len(wire') = Len(wire) + 1 /\ Len(wire) \in Nat
           /\ DOMAIN wire' = 1..(Len(wire) + 1) /\ DOMAIN wire = 1..Len(wire)
           /\ wire'[Len(wire) + 1] = w
           /\ \A i \in DOMAIN wire' : i \in DOMAIN wire \/ i = Len(wire) + 1
           /\ \A i \in DOMAIN wire : i \in DOMAIN wire' /\ wire'[i] = wire[i]
<1>1. wire \in Seq(CallType) /\ Len(wire) \in Nat /\ DOMAIN wire = 1..Len(wire)
  BY WireIs
<1>2. /\ wire' \in Seq(CallType) /\ Len(wire') = Len(wire) + 1 /\ wire'[Len(wire) + 1] = w
      /\ \A i \in 1..Len(wire) : wire'[i] = wire[i]
  BY <1>1, AppendProperties
<1>3. DOMAIN wire' = 1..(Len(wire) + 1)
  BY <1>2, LenProperties
<1>4. /\ \A i \in 1..(Len(wire) + 1) : i \in 1..Len(wire) \/ i = Len(wire) + 1
      /\ \A i \in 1..Len(wire) : i \in 1..(Len(wire) + 1)
  BY <1>1
<1> QED
  BY <1>1, <1>2, <1>3, <1>4

\* The wire keeps its calls, or loses some at its end, and calls lose who waited for them.
Thinned ==
    /\ wire' \in Seq(CallType) /\ Len(wire') <= Len(wire)
    /\ \A i \in DOMAIN wire' : /\ i \in DOMAIN wire /\ wire'[i].bind = wire[i].bind
                               /\ wire'[i].live => wire[i].live
    /\ wire = <<>> => wire' = <<>>

\* A call that is given up is lost, or stays on the wire with nobody waiting.
LEMMA ThinnedByTimeout ==
    ASSUME WireType, CallInv, Timeout
    PROVE  Thinned /\ \A i \in DOMAIN wire' : ~wire'[i].live
<1>1. /\ wire \in Seq(CallType) /\ Len(wire) \in Nat /\ DOMAIN wire = 1..Len(wire)
      /\ \A i \in DOMAIN wire : wire[i] \in CallType
  BY WireIs
<1>2. PICK n \in DOMAIN wire :
         /\ wire[n].live
         /\ \/ wire' = [wire EXCEPT ![n].live = FALSE]
            \/ wire' = SubSeq(wire, 1, n - 1) \o SubSeq(wire, n + 1, Len(wire))
  BY DEF Timeout
<1>3. n = Len(wire) /\ \A i \in DOMAIN wire : wire[i].live => i = n
  BY <1>2 DEF CallInv
<1>4. wire # <<>>
  BY <1>2, <1>3, EmptySeq, <1>1
<1>5. CASE wire' = [wire EXCEPT ![n].live = FALSE]
  <2> DEFINE w == [wire[n] EXCEPT !.live = FALSE]
  <2>1. w \in CallType /\ w.bind = wire[n].bind /\ w.live = FALSE /\ wire' = [wire EXCEPT ![n] = w]
    BY <1>1, <1>5 DEF CallType
  <2> HIDE DEF w
  <2>2. /\ wire' \in Seq(CallType) /\ Len(wire') = Len(wire)
        /\ \A i \in 1..Len(wire) : wire'[i] = IF i = n THEN w ELSE wire[i]
    BY <1>1, <2>1, ExceptSeq
  <2>3. DOMAIN wire' = 1..Len(wire)
    BY <2>2, LenProperties
  <2> QED
    BY <1>1, <1>3, <1>4, <2>1, <2>2, <2>3 DEF Thinned
<1>6. CASE wire' = SubSeq(wire, 1, n - 1) \o SubSeq(wire, n + 1, Len(wire))
  <2> DEFINE a == SubSeq(wire, 1, n - 1)
             b == SubSeq(wire, n + 1, Len(wire))
  <2>1. n \in Nat /\ n \in 1..Len(wire) /\ \A i \in 1..(n - 1) : wire[i] \in CallType
    BY <1>1, <1>3
  <2>2. /\ a \in Seq(CallType) /\ Len(a) = IF 1 <= n - 1 THEN n - 1 - 1 + 1 ELSE 0
        /\ \A i \in 1..(n - 1 - 1 + 1) : a[i] = wire[1 + i - 1]
    BY <1>1, <2>1, SubSeqProperties
  <2>3. /\ b \in Seq(CallType) /\ Len(b) = IF n + 1 <= Len(wire) THEN Len(wire) - (n + 1) + 1 ELSE 0
    <3>1. \A i \in (n + 1)..Len(wire) : wire[i] \in CallType
      BY <1>1, <1>3
    <3> QED
      BY <1>1, <2>1, <3>1, SubSeqProperties
  <2> HIDE DEF a, b
  <2>4. Len(a) = n - 1 /\ Len(b) = 0 /\ \A i \in 1..(n - 1) : a[i] = wire[i]
    BY <1>3, <2>1, <2>2, <2>3
  <2>5. b = <<>>
    BY <2>3, <2>4, EmptySeq
  <2>6. wire' = a
    <3>1. wire' = a \o b
      BY <1>6 DEF a, b
    <3> QED
      BY <2>2, <2>5, <3>1, ConcatEmptySeq
  <2>7. DOMAIN wire' = 1..(n - 1)
    BY <2>2, <2>4, <2>6, LenProperties
  <2>8. \A i \in 1..(n - 1) : i \in DOMAIN wire /\ i # n
    BY <1>1, <2>1
  <2>9. Len(wire') <= Len(wire)
    BY <1>3, <2>1, <2>4, <2>6
  <2>10. \A i \in DOMAIN wire' : i \in DOMAIN wire /\ i # n /\ wire'[i] = wire[i]
    BY <2>4, <2>6, <2>7, <2>8
  <2>11. \A i \in DOMAIN wire' : ~wire'[i].live
    BY <1>3, <2>10
  <2>12. wire' \in Seq(CallType)
    BY <2>2, <2>6
  <2> QED
    BY <1>4, <2>9, <2>10, <2>11, <2>12 DEF Thinned
<1> QED
  BY <1>2, <1>5, <1>6

\* The process ends: nobody waits any more.
LEMMA ThinnedByGone ==
    ASSUME WireType, Gone
    PROVE  Thinned /\ \A i \in DOMAIN wire' : ~wire'[i].live
<1>1. /\ wire \in Seq(CallType) /\ Len(wire) \in Nat /\ DOMAIN wire = 1..Len(wire)
      /\ \A i \in DOMAIN wire : wire[i] \in CallType
  BY WireIs
<1>2. wire' = [i \in 1..Len(wire) |-> [wire[i] EXCEPT !.live = FALSE]]
  BY <1>1 DEF Gone
<1>3. \A i \in 1..Len(wire) : /\ wire'[i] \in CallType /\ wire'[i].bind = wire[i].bind
                              /\ wire'[i].live = FALSE
  BY <1>1, <1>2 DEF CallType
<1>4. wire' \in Seq(CallType)
  BY <1>1, <1>2, <1>3, IsASeq
<1>5. Len(wire') = Len(wire) /\ DOMAIN wire' = 1..Len(wire)
  <2>1. DOMAIN wire' = 1..Len(wire)
    BY <1>2
  <2>2. Len(wire') \in Nat /\ DOMAIN wire' = 1..Len(wire')
    BY <1>4, LenProperties
  <2>3. \A m, n \in Nat : 1..m = 1..n => m = n
    <3> SUFFICES ASSUME NEW m \in Nat, NEW n \in Nat, 1..m = 1..n, m # n PROVE FALSE
      OBVIOUS
    <3>1. CASE m < n
      BY <3>1, n \in 1..n
    <3>2. CASE n < m
      BY <3>2, m \in 1..m
    <3> QED
      BY <3>1, <3>2
  <2> QED
    BY <1>1, <2>1, <2>2, <2>3
<1>6. wire = <<>> => wire' = <<>>
  BY <1>1, <1>4, <1>5, EmptySeq
<1> QED
  BY <1>1, <1>3, <1>4, <1>5, <1>6 DEF Thinned

-----------------------------------------------------------------------------
(* A call comes to its end.                                                *)

\* Nobody waits for what the wire still holds, and the caller is the init or the head of
\* the chain, told of the proof its own bind got.
LEMMA ReplyStep ==
    ASSUME TypeInv, FlowInv, NEW o \in Outcome, NEW i \in {0, Place}, Reply(o, i), Settled(o, i)
    PROVE  /\ Thinned /\ \A n \in DOMAIN wire' : ~wire'[n].live
           /\ UNCHANGED <<up, starts, reads, epoch>> /\ call \in Actor /\ call' = None
           /\ UNCHANGED enclave \/ wire' = <<>>
           /\ \/ /\ InitSettled(o) /\ call = Boot /\ pc[Boot] = "init"
                 /\ UNCHANGED <<counter, last, ledger>>
                 /\ o = "ok" => wire' = <<>>
                 /\ o # "ok" => open' = open
              \/ /\ bindChain # <<>> /\ AtHead(call) /\ Sendable(call) /\ open' = open
                 /\ \/ call \in Req /\ FileSettled(call, o, i)
                    \/ call \in Req /\ DropSettled(call, o, i)
                    \/ call \in Notes /\ NoteSettled(call, o, i)
                 /\ o = "ok" => ServeBind /\ wire' = <<>> /\ i = Place
                 /\ ServeBind => Head(wire).bind = <<NextBind(call)>>
<1> USE DEF FlowInv
<1>1. WireType
  BY DEF TypeInv
<1>2. /\ wire \in Seq(CallType) /\ Len(wire) \in Nat /\ DOMAIN wire = 1..Len(wire)
      /\ wire # <<>> => Head(wire) = wire[1] /\ 1 \in DOMAIN wire
  BY <1>1, WireIs
<1>3. ASSUME wire # <<>>, Head(wire).live, wire' = Tail(wire)
      PROVE  /\ wire' = <<>> /\ Head(wire).bind = Sent(call) /\ call # None /\ Thinned
             /\ \A n \in DOMAIN wire' : ~wire'[n].live
  <2>1. 1 = Len(wire) /\ call # None /\ Head(wire).bind = Sent(call)
    BY <1>2, <1>3 DEF CallInv
  <2>2. wire' = <<>> /\ wire' \in Seq(CallType) /\ Len(wire') = 0 /\ DOMAIN wire' = 1..0
    BY <1>1, <1>3, <2>1, WireServed
  <2>3. DOMAIN wire' = {}
    BY <2>2
  <2> QED
    BY <1>2, <2>1, <2>2, <2>3 DEF Thinned
<1>4. call # None => \/ call = Boot /\ pc[Boot] = "init"
                     \/ bindChain # <<>> /\ AtHead(call) /\ Sendable(call) /\ pc[call] # "init"
  BY DEF CallInv, AtHead, Sendable
<1>5. call # None => call \in Actor
  BY DEF TypeInv, ServiceType
<1>6. call' = None
  BY DEF Settled, InitSettled, FileSettled, DropSettled, NoteSettled
<1>7. CASE ServeInit /\ Head(wire).live /\ o = "ok" /\ i = 0
  <2>1. /\ InitSettled(o) /\ call = Boot /\ pc[Boot] = "init"
        /\ UNCHANGED <<up, starts, reads, epoch, counter, last, ledger>>
        /\ wire # <<>> /\ wire' = Tail(wire)
    BY <1>7 DEF ServeInit, InitSettled, Sequence!OpenEpoch
  <2> QED
    BY <1>3, <1>5, <1>6, <1>7, <2>1
<1>8. ASSUME ~(ServeInit /\ Head(wire).live /\ o = "ok" /\ i = 0)
      PROVE  /\ Thinned /\ \A n \in DOMAIN wire' : ~wire'[n].live
             /\ UNCHANGED <<up, starts, reads, epoch, open>> /\ call # None
             /\ UNCHANGED enclave \/ wire' = <<>>
             /\ o = "ok" => ServeBind /\ wire' = <<>> /\ i = Place
             /\ ServeBind => Head(wire).bind = <<NextBind(call)>>
             /\ pc[call] = "init" => UNCHANGED <<counter, last, ledger>> /\ o # "ok"
  <2>1. CASE ServeBind /\ Head(wire).live
    <3>1. /\ wire # <<>> /\ wire' = Tail(wire) /\ Head(wire).bind # <<>>
          /\ UNCHANGED <<up, starts, reads, epoch, open>>
      BY <2>1 DEF ServeBind, Sequence!Bind
    <3>2. pc[call] # "init" /\ Head(wire).bind = <<NextBind(call)>>
      BY <1>3, <2>1, <3>1 DEF Sent
    <3> QED
      BY <1>3, <1>8, <2>1, <3>1, <3>2 DEF Reply
  <2>2. UNCHANGED enclave => ~ServeBind
    <3>1. counter \in Nat
      BY DEF TypeInv, EnclaveType
    <3> QED
      BY <3>1 DEF ServeBind, Sequence!Bind, enclave
  <2>3. CASE RefuseBind /\ Head(wire).live /\ o = "refused" /\ i = 0
    <3>1. /\ wire # <<>> /\ wire' = Tail(wire) /\ UNCHANGED <<up, starts, reads, enclave>>
      BY <2>3 DEF RefuseBind
    <3> QED
      BY <1>3, <2>2, <2>3, <3>1 DEF enclave
  <2>4. CASE Timeout /\ o = "rejected" /\ i = 0
    <3>1. call # None /\ UNCHANGED <<up, starts, reads, enclave>>
      BY <2>4 DEF Timeout
    <3> QED
      BY <1>1, <2>2, <2>4, <3>1, ThinnedByTimeout DEF enclave
  <2>5. CASE CallReset /\ o = "rejected" /\ i = 0
    <3>1. /\ call # None /\ UNCHANGED <<up, starts, reads, enclave, wire>>
          /\ \A n \in DOMAIN wire : ~wire[n].live
      BY <2>5 DEF CallReset
    <3> QED
      BY <1>2, <2>2, <2>5, <3>1 DEF Thinned, enclave
  <2> QED
    BY <1>8, <2>1, <2>3, <2>4, <2>5 DEF Reply
<1>9. CASE InitSettled(o)
  <2>1. call = Boot /\ pc[Boot] = "init"
    BY <1>9 DEF InitSettled
  <2> QED
    BY <1>5, <1>6, <1>7, <1>8, <1>9, <2>1
<1>10. CASE ~InitSettled(o)
  <2>1. \/ call \in Req /\ FileSettled(call, o, i)
        \/ call \in Req /\ DropSettled(call, o, i)
        \/ call \in Notes /\ NoteSettled(call, o, i)
    BY <1>10 DEF Settled, FileSettled, DropSettled, NoteSettled
  <2>2. pc[call] # "init"
    BY <2>1 DEF FileSettled, DropSettled, NoteSettled
  <2>3. ~(ServeInit /\ Head(wire).live /\ o = "ok" /\ i = 0)
    BY <1>10 DEF ServeInit
  <2> QED
    BY <1>4, <1>5, <1>6, <1>8, <2>1, <2>2, <2>3
<1> QED
  BY <1>9, <1>10

-----------------------------------------------------------------------------
(* bindExclusive's chain.                                                  *)

\* The head is released: the others keep their order.
LEMMA TailOnce ==
    ASSUME NEW c \in Seq(Actor), c # <<>>, Once(c)
    PROVE  /\ Tail(c) \in Seq(Actor) /\ Once(Tail(c)) /\ Head(c) \in Turns(c)
           /\ Turns(Tail(c)) = Turns(c) \ {Head(c)}
<1>1. /\ Len(c) \in Nat /\ DOMAIN c = 1..Len(c) /\ Len(c) # 0
  BY LenProperties, EmptySeq
<1>2. /\ Tail(c) \in Seq(Actor) /\ Len(Tail(c)) = Len(c) - 1 /\ Head(c) = c[1]
      /\ \A i \in 1..Len(Tail(c)) : Tail(c)[i] = c[i + 1]
  BY <1>1, HeadTailProperties
<1> DEFINE d == Tail(c)
<1>3. DOMAIN d = 1..(Len(c) - 1)
  BY <1>2, LenProperties
<1>4. /\ \A i \in 1..(Len(c) - 1) : i + 1 \in 1..Len(c) /\ i + 1 # 1 /\ d[i] = c[i + 1]
      /\ \A i \in 1..Len(c) : i # 1 => i - 1 \in 1..(Len(c) - 1) /\ (i - 1) + 1 = i
      /\ 1 \in 1..Len(c)
  BY <1>1, <1>2
<1> HIDE DEF d
<1>5. Once(d)
  <2> SUFFICES ASSUME NEW i \in DOMAIN d, NEW j \in DOMAIN d, d[i] = d[j] PROVE i = j
    BY DEF Once
  <2>1. i + 1 = j + 1
    BY <1>1, <1>3, <1>4 DEF Once
  <2> QED
    BY <1>1, <1>3, <2>1
<1>6. Head(c) \in Turns(c)
  BY <1>1, <1>2, <1>4 DEF Turns
<1>7. Turns(d) \subseteq Turns(c) \ {Head(c)}
  BY <1>1, <1>2, <1>3, <1>4 DEF Turns, Once
<1>8. Turns(c) \ {Head(c)} \subseteq Turns(d)
  <2> SUFFICES ASSUME NEW i \in DOMAIN c, c[i] # c[1] PROVE c[i] \in Turns(d)
    BY <1>2 DEF Turns
  <2>1. i - 1 \in DOMAIN d /\ d[i - 1] = c[i]
    BY <1>1, <1>3, <1>4
  <2> QED
    BY <2>1 DEF Turns
<1> QED
  BY <1>2, <1>5, <1>6, <1>7, <1>8 DEF d

\* A function queues behind the others.
LEMMA AppendOnce ==
    ASSUME NEW c \in Seq(Actor), Once(c), NEW a \in Actor, a \notin Turns(c)
    PROVE  /\ Append(c, a) \in Seq(Actor) /\ Once(Append(c, a)) /\ Append(c, a) # <<>>
           /\ Turns(Append(c, a)) = Turns(c) \cup {a}
           /\ c # <<>> => Head(Append(c, a)) = Head(c)
<1>1. /\ Len(c) \in Nat /\ DOMAIN c = 1..Len(c)
  BY LenProperties
<1> DEFINE d == Append(c, a)
<1>2. /\ d \in Seq(Actor) /\ Len(d) = Len(c) + 1 /\ d[Len(c) + 1] = a
      /\ \A i \in 1..Len(c) : d[i] = c[i]
  BY AppendProperties
<1>3. DOMAIN d = 1..(Len(c) + 1)
  BY <1>2, LenProperties
<1> HIDE DEF d
<1>4. /\ \A i \in 1..(Len(c) + 1) : i \in 1..Len(c) \/ i = Len(c) + 1
      /\ \A i \in 1..Len(c) : i \in 1..(Len(c) + 1)
      /\ Len(c) + 1 \in 1..(Len(c) + 1) /\ Len(c) + 1 # 0
  BY <1>1
<1>5. d # <<>>
  BY <1>1, <1>2, EmptySeq
<1>6. \A i \in DOMAIN c : c[i] # a
  BY DEF Turns
<1>7. Once(d)
  BY <1>1, <1>2, <1>3, <1>4, <1>6 DEF Once
<1>8. Turns(d) = Turns(c) \cup {a}
  BY <1>1, <1>2, <1>3, <1>4 DEF Turns
<1>9. ASSUME c # <<>> PROVE Head(d) = Head(c)
  <2>1. Head(d) = d[1] /\ Head(c) = c[1] /\ Len(c) # 0
    BY <1>2, <1>5, <1>9, HeadTailProperties, EmptySeq
  <2> QED
    BY <1>1, <1>2, <2>1
<1> QED
  BY <1>2, <1>5, <1>7, <1>8, <1>9 DEF d

\* Nobody runs in an empty chain, and the head is in it.
LEMMA HeadTurns ==
    ASSUME TypeInv, TurnInv
    PROVE  /\ \A a : AtHead(a) => a \in Turns(bindChain) /\ a \in Actor /\ bindChain # <<>>
           /\ Turns(<<>>) = {} /\ Once(<<>>)
           /\ \A a \in Turns(bindChain) : a \in Actor /\ Waits(a)
<1>1. bindChain \in Seq(Actor)
  BY DEF TypeInv, ServiceType
<1>2. \A a \in Turns(bindChain) : a \in Actor /\ Waits(a)
  BY <1>1, ElementOfSeq, LenProperties DEF TurnInv, Turns
<1>3. \A a : AtHead(a) => a \in Turns(bindChain) /\ bindChain # <<>>
  BY <1>1, TailOnce DEF TurnInv, AtHead
<1> QED
  BY <1>2, <1>3 DEF Turns, Once

-----------------------------------------------------------------------------
(* Types.                                                                  *)

\* What each caller sends.
LEMMA NextBindIs ==
    ASSUME NEW a \in Actor, Sendable(a)
    PROVE  /\ pc[a] = "sendFile" => NextBind(a) = [kind |-> "file", of |-> a, note |-> 0, floor |-> floor[a]]
           /\ pc[a] = "sendDrop" => NextBind(a) = [kind |-> "drop", of |-> a, note |-> openEpochId, floor |-> 0]
           /\ a = Boot => NextBind(a) = [kind |-> "first", of |-> a, note |-> openEpochId, floor |-> 0]
           /\ a = Reader => NextBind(a) = [kind |-> "read", of |-> a, note |-> openEpochId, floor |-> 0]
           /\ a = Genesis => NextBind(a) = [kind |-> "genesis", of |-> a, note |-> openEpochId, floor |-> 0]
           /\ a = End => NextBind(a) = [kind |-> "end", of |-> a, note |-> openEpochId, floor |-> 0]
           /\ a \in Req => pc[a] = "sendFile" \/ pc[a] = "sendDrop"
           /\ a \in Notes => pc[a] = "queued"
<1>1. CASE a \in Req
  BY <1>1, Apart DEF Sendable, NextBind
<1>2. CASE a \in Notes
  <2>1. pc[a] = "queued"
    BY <1>2, Apart DEF Sendable
  <2> QED
    BY <1>2, <2>1, Apart DEF NextBind
<1> QED
  BY <1>1, <1>2, Apart

\* What the head of the chain sends is a payload.
LEMMA NextBindType ==
    ASSUME EnclaveType, ServiceType, NEW a \in Actor, Sendable(a)
    PROVE  NextBind(a) \in Payload
<1>1. openEpochId \in 0..MaxEpochs /\ 0 \in 0..MaxEpochs
  BY BoundAssumption DEF EnclaveType, ServiceType
<1>2. \A n \in {0} \cup Made : n \in 0..MaxBinds
  <2>1. Len(ledger) \in Nat /\ DOMAIN ledger = 1..Len(ledger) /\ Len(ledger) <= MaxBinds /\ MaxBinds \in Nat
    BY LenProperties, BoundAssumption DEF EnclaveType
  <2> QED
    BY <2>1 DEF Made
<1>3. a \in Req => floor[a] \in 0..MaxBinds
  BY <1>2 DEF ServiceType
<1>4. CASE a \in Req
  <2>1. CASE pc[a] = "sendFile"
    BY <1>1, <1>3, <1>4, <2>1, NextBindIs DEF Payload
  <2>2. CASE pc[a] = "sendDrop"
    BY <1>1, <1>2, <1>4, <2>2, NextBindIs DEF Payload
  <2> QED
    BY <1>4, <2>1, <2>2, NextBindIs
<1>5. CASE a \in Notes
  <2>1. CASE a = Boot
    BY <1>1, <1>2, <2>1, NextBindIs DEF Payload
  <2>2. CASE a = Reader
    BY <1>1, <1>2, <2>2, NextBindIs DEF Payload
  <2>3. CASE a = Genesis
    BY <1>1, <1>2, <2>3, NextBindIs DEF Payload
  <2>4. CASE a = End
    BY <1>1, <1>2, <2>4, NextBindIs DEF Payload
  <2> QED
    BY <1>5, <2>1, <2>2, <2>3, <2>4, Apart
<1> QED
  BY <1>4, <1>5, Apart

\* The enclave's half.
LEMMA EnclaveTypeStep ==
    ASSUME TypeInv, [Next]_vars
    PROVE  EnclaveType'
<1>1. /\ ledger \in Seq(Sequence!Proof) /\ Len(ledger) \in Nat /\ DOMAIN ledger = 1..Len(ledger)
      /\ MaxBinds \in Nat /\ MaxEpochs \in Nat /\ epoch \in 1..MaxEpochs /\ counter \in Nat
      /\ last \in 0..Len(ledger) /\ Len(ledger) <= MaxBinds
      /\ \A i \in DOMAIN ledger : ledger[i].nonce = i
  BY LenProperties, BoundAssumption DEF TypeInv, EnclaveType
<1>2. CASE ~ServeBind
  <2>1. ledger' = ledger
    BY <1>2, EnclaveStep DEF enclave
  <2>2. epoch' \in 1..MaxEpochs /\ counter' \in Nat /\ open' \in BOOLEAN /\ last' \in 0..Len(ledger)
    <3>1. CASE UNCHANGED enclave
      BY <3>1 DEF TypeInv, EnclaveType, enclave
    <3>2. CASE open' = TRUE /\ UNCHANGED <<epoch, counter, last, ledger>>
      BY <3>2 DEF TypeInv, EnclaveType
    <3>3. CASE epoch < MaxEpochs /\ epoch' = epoch + 1 /\ counter' = 0 /\ last' = 0 /\ open' = FALSE
      <4>1. epoch + 1 \in 1..MaxEpochs /\ 0 \in Nat /\ 0 \in 0..Len(ledger)
        BY <1>1, <3>3
      <4> QED
        BY <3>3, <4>1
    <3> QED
      BY <1>2, <3>1, <3>2, <3>3, EnclaveStep
  <2> QED
    BY <1>1, <2>1, <2>2 DEF EnclaveType
<1>3. CASE ServeBind
  <2> DEFINE p == [epoch |-> epoch, slotCounter |-> counter + 1, counter |-> counter + 2,
                   nonce |-> Place, prev |-> last, digest |-> Head(wire).bind[1]]
  <2>1. /\ ledger' = Append(ledger, p) /\ wire # <<>> /\ Head(wire).bind # <<>>
        /\ Place <= MaxBinds /\ last' = Place /\ UNCHANGED <<epoch, open>> /\ counter' = counter + 2
    BY <1>3 DEF ServeBind, Sequence!Bind
  <2>2. Head(wire).bind[1] \in Payload
    BY <2>1, WireIs DEF TypeInv, WireType, Load
  <2>3. p \in Sequence!Proof
    <3>1. /\ epoch \in Nat /\ counter + 1 \in Nat /\ counter + 2 \in Nat /\ Place \in 1..MaxBinds
          /\ last \in (1..MaxBinds) \cup {0}
      BY <1>1, <2>1 DEF Place
    <3> QED
      BY <2>2, <3>1 DEF Sequence!Proof
  <2>4. p.nonce = Place
    OBVIOUS
  <2> HIDE DEF p
  <2>5. /\ ledger' \in Seq(Sequence!Proof) /\ Len(ledger') = Len(ledger) + 1
        /\ ledger'[Len(ledger) + 1] = p /\ \A i \in 1..Len(ledger) : ledger'[i] = ledger[i]
    BY <1>1, <2>1, <2>3, AppendProperties
  <2>6. DOMAIN ledger' = 1..(Len(ledger) + 1)
    BY <2>5, LenProperties
  <2>7. \A i \in 1..(Len(ledger) + 1) : ledger'[i].nonce = i
    <3>1. \A i \in 1..(Len(ledger) + 1) : i \in 1..Len(ledger) \/ i = Len(ledger) + 1
      BY <1>1
    <3> QED
      BY <1>1, <2>4, <2>5, <3>1 DEF Place
  <2>8. counter' \in Nat /\ last' \in 0..Len(ledger') /\ Len(ledger') <= MaxBinds
    BY <1>1, <2>1, <2>5 DEF Place
  <2>9. epoch' \in 1..MaxEpochs /\ open' \in BOOLEAN
    BY <1>1, <2>1 DEF TypeInv, EnclaveType
  <2> QED
    BY <2>5, <2>6, <2>7, <2>8, <2>9 DEF EnclaveType
<1> QED
  BY <1>2, <1>3

\* What a step does to the wire.
LEMMA WireStep ==
    ASSUME TypeInv, FlowInv, [Next]_vars
    PROVE  \/ Thinned /\ wire' = wire
           \/ Thinned /\ \A n \in DOMAIN wire' : ~wire'[n].live
           \/ LateServe /\ wire # <<>> /\ wire' = Tail(wire) /\ ~Head(wire).live
           \/ Listen
           \/ \E a \in Actor : Send(a)
<1>1. WireType
  BY DEF TypeInv
<1>2. wire' = wire => Thinned
  BY <1>1, WireIs DEF Thinned
<1>3. CASE \E o \in Outcome, i \in {0, Place} : Reply(o, i) /\ Settled(o, i)
  BY <1>3, ReplyStep
<1>4. CASE Gone
  BY <1>1, <1>4, ThinnedByGone
<1>5. CASE Reboot
  <2>1. wire' = <<>> /\ wire' \in Seq(CallType) /\ Len(wire') = 0 /\ DOMAIN wire' = {}
    BY <1>5 DEF Reboot
  <2> QED
    BY <1>1, <2>1, WireIs DEF Thinned
<1>6. CASE LateServe
  BY <1>6 DEF LateServe, ServeInit, ServeBind, RefuseBind
<1>7. CASE \/ UNCHANGED vars \/ (\E r \in Req : Arrive(r) \/ Body(r) \/ StartJob(r))
           \/ (\E a \in {Boot, Reader, Genesis} : ReadBlock(a))
           \/ FirstStored \/ GiveUpFirst \/ (\E c \in BOOLEAN : Stop(c))
  BY <1>2, <1>7 DEF vars, Arrive, Body, StartJob, ReadBlock, FirstStored, GiveUpFirst, Stop
<1> QED
  BY <1>3, <1>4, <1>5, <1>6, <1>7, StepCases

\* A call carries an init or one bind, whatever happens to it.
LEMMA WireTypeStep ==
    ASSUME TypeInv, FlowInv, [Next]_vars
    PROVE  WireType'
<1> DEFINE Carries(w) == w.bind # <<>> => w.bind[1] \in Payload /\ w.bind = <<w.bind[1]>>
<1>1. WireType /\ \A i \in DOMAIN wire : Carries(wire[i])
  BY DEF TypeInv, WireType, Load
<1>2. SUFFICES wire' \in Seq(CallType) /\ \A i \in DOMAIN wire' : Carries(wire'[i])
  BY DEF WireType, CallType, Load
<1>3. CASE Thinned
  BY <1>1, <1>3 DEF Thinned
<1>4. CASE wire # <<>> /\ wire' = Tail(wire)
  <2>1. /\ wire' \in Seq(CallType)
        /\ \A i \in DOMAIN wire' : i + 1 \in DOMAIN wire /\ wire'[i] = wire[i + 1]
    BY <1>1, <1>4, WireServed
  <2> HIDE DEF Carries
  <2> QED
    BY <1>1, <2>1
<1>5. ASSUME NEW w \in CallType, Carries(w), wire' = Append(wire, w)
      PROVE  wire' \in Seq(CallType) /\ \A i \in DOMAIN wire' : Carries(wire'[i])
  <2>1. /\ wire' \in Seq(CallType) /\ wire'[Len(wire) + 1] = w
        /\ \A i \in DOMAIN wire' : i \in DOMAIN wire \/ i = Len(wire) + 1
        /\ \A i \in DOMAIN wire : wire'[i] = wire[i]
    BY <1>1, <1>5, WireSent
  <2> HIDE DEF Carries
  <2> QED
    BY <1>1, <1>5, <2>1
<1>6. CASE Listen
  <2> DEFINE w == [of |-> Boot, bind |-> <<>>, live |-> TRUE]
  <2>1. w \in CallType /\ Carries(w) /\ wire' = Append(wire, w)
    BY <1>6, Apart DEF Listen, CallType
  <2> QED
    BY <1>5, <2>1
<1>7. ASSUME NEW a \in Actor, Send(a)
      PROVE  wire' \in Seq(CallType) /\ \A i \in DOMAIN wire' : Carries(wire'[i])
  <2> DEFINE w == [of |-> a, bind |-> <<NextBind(a)>>, live |-> TRUE]
  <2>1. NextBind(a) \in Payload
    BY <1>7, NextBindType DEF TypeInv, Send
  <2>2. <<NextBind(a)>> \in Seq(Payload) /\ <<NextBind(a)>>[1] = NextBind(a)
    BY <2>1
  <2>3. w \in CallType /\ Carries(w) /\ wire' = Append(wire, w)
    BY <1>7, <2>1, <2>2 DEF Send, CallType
  <2> QED
    BY <1>5, <2>3
<1> HIDE DEF Carries
<1> QED
  BY <1>3, <1>4, <1>6, <1>7, WireStep

\* What is kept, and what of it goes to the ceiling queue.
LEMMA KeepMadeIs ==
    ASSUME ceiling \subseteq kept, queueFile \subseteq ceiling,
           NEW proofs, NEW items \in SUBSET proofs, KeepMade(proofs, items)
    PROVE  /\ kept' = kept \cup proofs /\ ceiling' = ceiling \cup items
           /\ ceiling' \subseteq kept' /\ queueFile' \subseteq ceiling'
BY DEF KeepMade, EnqueueCeiling

\* The service's variables keep their types when a call ends.
LEMMA SettledTypes ==
    ASSUME TypeInv, FlowInv, [Next]_vars,
           NEW o \in Outcome, NEW i \in {0, Place}, Reply(o, i), Settled(o, i)
    PROVE  ServiceType'
<1> DEFINE T == DOMAIN ledger'
<1>1. /\ pc \in [Actor -> Step] /\ bindChain \in Seq(Actor) /\ Once(bindChain)
      /\ openEpochId \in 0..epoch /\ epochStarting \in BOOLEAN
      /\ up \in {"down", "serving", "stopping"} /\ epoch \in Nat
      /\ ceiling \subseteq kept /\ queueFile \subseteq ceiling
  BY DEF TypeInv, EnclaveType, ServiceType, FlowInv, TurnInv
<1>2. made \in [Req -> SUBSET T] /\ floor \in [Req -> {0} \cup T] /\ kept \subseteq T
  <2>1. Made \subseteq T
    BY LedgerStep DEF Made
  <2>2. made \in [Req -> SUBSET Made] /\ floor \in [Req -> {0} \cup Made] /\ kept \subseteq Made
    BY DEF TypeInv, ServiceType
  <2> HIDE DEF T
  <2> QED
    BY <2>1, <2>2
<1>3. /\ UNCHANGED <<up, epoch>> /\ call' = None
      /\ \/ InitSettled(o)
         \/ /\ bindChain # <<>> /\ AtHead(call)
            /\ \/ call \in Req /\ FileSettled(call, o, i)
               \/ call \in Req /\ DropSettled(call, o, i)
               \/ call \in Notes /\ NoteSettled(call, o, i)
            /\ o = "ok" => i \in T
  <2>1. ServeBind => Place \in T
    <3>1. ServeBind => Made' = Made \cup {Place}
      BY LedgerStep
    <3> QED
      BY <3>1 DEF Made
  <2> HIDE DEF T
  <2> QED
    BY <2>1, ReplyStep
<1>4. ASSUME /\ openEpochId' \in 0..epoch /\ epochStarting' \in BOOLEAN
             /\ pc' \in [Actor -> Step] /\ bindChain' \in Seq(Actor)
             /\ made' \in [Req -> SUBSET T] /\ floor' \in [Req -> {0} \cup T]
             /\ kept' \subseteq T /\ ceiling' \subseteq kept' /\ queueFile' \subseteq ceiling'
      PROVE  ServiceType'
  BY <1>1, <1>3, <1>4 DEF ServiceType, Made
<1>5. CASE InitSettled(o)
  <2>1. openEpochId' \in 0..epoch /\ epochStarting' \in BOOLEAN
    <3>1. openEpochId' = epoch \/ openEpochId' = 0
      BY <1>5 DEF InitSettled
    <3>2. epochStarting' \in BOOLEAN
      BY <1>5 DEF InitSettled
    <3> QED
      BY <1>1, <3>1, <3>2
  <2>2. pc' \in [Actor -> Step]
    BY <1>1, <1>5, Apart DEF InitSettled, Step
  <2>3. UNCHANGED <<made, floor, bindChain, marked, kept, ceiling, queueFile>>
    BY <1>5 DEF InitSettled, history
  <2> QED
    BY <1>1, <1>2, <1>4, <2>1, <2>2, <2>3
<1>6. \/ Tail(bindChain) \in Seq(Actor) /\ Append(Tail(bindChain), call) \in Seq(Actor)
      \/ InitSettled(o)
  <2>1. SUFFICES ASSUME ~InitSettled(o)
                 PROVE  Tail(bindChain) \in Seq(Actor) /\ Append(Tail(bindChain), call) \in Seq(Actor)
    OBVIOUS
  <2>2. Tail(bindChain) \in Seq(Actor) /\ call \in Actor
    BY <1>1, <1>3, <2>1, TailOnce, Apart
  <2> QED
    BY <2>2, AppendProperties
<1>7. ASSUME ~InitSettled(o), call \in Req, FileSettled(call, o, i)
      PROVE  ServiceType'
  <2> DEFINE proofs == Pushed(call, o, i)
  <2>1. proofs \subseteq T /\ kept \cup proofs \subseteq T
    BY <1>2, <1>3, <1>7 DEF Pushed
  <2>2. UNCHANGED <<openEpochId, epochStarting, floor>>
    BY <1>7 DEF FileSettled
  <2>3. pc' \in [Actor -> Step]
    BY <1>1, <1>7, Apart DEF FileSettled, Goto, Step
  <2>4. bindChain' \in Seq(Actor)
    BY <1>6, <1>7 DEF FileSettled, Released, Enqueue
  <2>5. made' \in [Req -> SUBSET T]
    <3>1. \/ made' = [made EXCEPT ![call] = {}]
          \/ made' = [made EXCEPT ![call] = proofs]
      BY <1>7 DEF FileSettled
    <3> HIDE DEF proofs, T
    <3> QED
      BY <1>2, <1>7, <2>1, <3>1
  <2>6. kept' \subseteq T /\ ceiling' \subseteq kept' /\ queueFile' \subseteq ceiling'
    <3>1. \/ kept' = kept \cup proofs /\ ceiling' \subseteq kept' /\ queueFile' \subseteq ceiling'
          \/ UNCHANGED <<kept, ceiling, queueFile>>
      <4>1. CeilingItems(call, proofs) \subseteq proofs
        BY DEF CeilingItems
      <4>2. KeepMade(proofs, CeilingItems(call, proofs)) \/ UNCHANGED history
        BY <1>7 DEF FileSettled
      <4> HIDE DEF proofs
      <4> QED
        BY <1>1, <4>1, <4>2, KeepMadeIs DEF history
    <3> HIDE DEF proofs, T
    <3> QED
      BY <1>1, <1>2, <2>1, <3>1
  <2> HIDE DEF proofs, T
  <2> QED
    BY <1>1, <1>2, <1>4, <2>2, <2>3, <2>4, <2>5, <2>6
<1>8. ASSUME ~InitSettled(o), call \in Req, DropSettled(call, o, i)
      PROVE  ServiceType'
  <2>1. UNCHANGED <<openEpochId, epochStarting>>
    BY <1>8 DEF DropSettled
  <2>2. pc' \in [Actor -> Step]
    BY <1>1, <1>8, Apart DEF DropSettled, Goto, Step
  <2>3. bindChain' \in Seq(Actor)
    BY <1>1, <1>6, <1>8 DEF DropSettled, AfterDrop, Released
  <2>4. made' \in [Req -> SUBSET T]
    <3>1. made' = made \/ made' = [made EXCEPT ![call] = {}]
      BY <1>8 DEF DropSettled
    <3> HIDE DEF T
    <3> QED
      BY <1>2, <1>8, <3>1
  <2>5. floor' \in [Req -> {0} \cup T]
    <3>1. \/ o = "ok" /\ floor' = [floor EXCEPT ![call] = i]
          \/ floor' = [floor EXCEPT ![call] = 0]
      BY <1>8 DEF DropSettled
    <3> HIDE DEF T
    <3> QED
      BY <1>2, <1>3, <1>8, <3>1
  <2>6. kept' \subseteq T /\ ceiling' \subseteq kept' /\ queueFile' \subseteq ceiling'
    <3>1. \/ o = "ok" /\ kept' = kept \cup {i} /\ ceiling' \subseteq kept' /\ queueFile' \subseteq ceiling'
          \/ UNCHANGED <<kept, ceiling, queueFile>>
      BY <1>1, <1>8, KeepMadeIs DEF DropSettled, history
    <3> HIDE DEF T
    <3> QED
      BY <1>1, <1>2, <1>3, <1>8, <3>1
  <2> HIDE DEF T
  <2> QED
    BY <1>1, <1>4, <2>1, <2>2, <2>3, <2>4, <2>5, <2>6
<1>9. ASSUME ~InitSettled(o), call \in Notes, NoteSettled(call, o, i)
      PROVE  ServiceType'
  <2>1. UNCHANGED <<openEpochId, epochStarting, made, floor>>
    BY <1>9 DEF NoteSettled
  <2>2. pc' \in [Actor -> Step]
    <3>1. AfterNote(call, o) \in Step
      <4>1. call = End \/ call = Reader \/ call = Boot \/ call = Genesis
        BY <1>9, Apart
      <4> QED
        BY <4>1, Apart DEF AfterNote, Step
    <3> QED
      BY <1>1, <1>9, <3>1, Apart DEF NoteSettled, Goto
  <2>3. bindChain' \in Seq(Actor)
    BY <1>6, <1>9 DEF NoteSettled, Released
  <2>4. kept' \subseteq T /\ ceiling' \subseteq kept' /\ queueFile' \subseteq ceiling'
    <3>1. \/ o = "ok" /\ kept' = kept \cup {i} /\ ceiling' \subseteq kept' /\ queueFile' \subseteq ceiling'
          \/ UNCHANGED <<kept, ceiling, queueFile>>
      BY <1>1, <1>9, KeepMadeIs DEF NoteSettled, history
    <3> HIDE DEF T
    <3> QED
      BY <1>1, <1>2, <1>3, <1>9, <3>1
  <2> HIDE DEF T
  <2> QED
    BY <1>1, <1>2, <1>4, <2>1, <2>2, <2>3, <2>4
<1> QED
  BY <1>3, <1>5, <1>7, <1>8, <1>9

\* Types are kept by every step.
LEMMA TypeStep ==
    ASSUME TypeInv, FlowInv, [Next]_vars
    PROVE  TypeInv'
<1> DEFINE T == DOMAIN ledger'
<1>1. /\ pc \in [Actor -> Step] /\ bindChain \in Seq(Actor) /\ call \in Actor \cup {None}
      /\ openEpochId \in 0..epoch /\ epochStarting \in BOOLEAN
      /\ up \in {"down", "serving", "stopping"}
      /\ ceiling \subseteq kept /\ queueFile \subseteq ceiling
  BY DEF TypeInv, ServiceType
<1>2. made \in [Req -> SUBSET T] /\ floor \in [Req -> {0} \cup T] /\ kept \subseteq T
  <2>1. Made \subseteq T
    BY LedgerStep DEF Made
  <2>2. made \in [Req -> SUBSET Made] /\ floor \in [Req -> {0} \cup Made] /\ kept \subseteq Made
    BY DEF TypeInv, ServiceType
  <2> HIDE DEF T
  <2> QED
    BY <2>1, <2>2
<1>3. epoch \in Nat /\ epoch' \in Nat /\ epoch' >= epoch
  <2>1. epoch \in 1..MaxEpochs /\ MaxEpochs \in Nat
    BY BoundAssumption DEF TypeInv, EnclaveType
  <2>2. epoch' = epoch \/ epoch' = epoch + 1
    BY EnclaveStep DEF enclave
  <2> QED
    BY <2>1, <2>2
<1>4. openEpochId \in 0..epoch' /\ 0 \in 0..epoch'
  BY <1>1, <1>3
<1>5. ASSUME /\ up' \in {"down", "serving", "stopping"} /\ openEpochId' \in 0..epoch'
             /\ epochStarting' \in BOOLEAN /\ pc' \in [Actor -> Step]
             /\ bindChain' \in Seq(Actor) /\ call' \in Actor \cup {None}
             /\ made' \in [Req -> SUBSET T] /\ floor' \in [Req -> {0} \cup T]
             /\ kept' \subseteq T /\ ceiling' \subseteq kept' /\ queueFile' \subseteq ceiling'
      PROVE  ServiceType'
  BY <1>5 DEF ServiceType, Made
<1> HIDE DEF T
<1> SUFFICES ServiceType'
  BY EnclaveTypeStep, WireTypeStep DEF TypeInv
<1>6. CASE UNCHANGED vars
  BY <1>1, <1>2, <1>4, <1>5, <1>6 DEF vars
<1>7. CASE Listen
  <2>1. pc' \in [Actor -> Step] /\ call' \in Actor /\ up' = "serving"
    BY <1>1, <1>7, Apart DEF Listen, Goto, Step
  <2>2. UNCHANGED <<openEpochId, epochStarting, made, floor, bindChain, kept, ceiling, queueFile>>
    BY <1>7 DEF Listen, history
  <2> QED
    BY <1>1, <1>2, <1>4, <1>5, <2>1, <2>2
<1>8. ASSUME NEW r \in Req, Arrive(r) \/ Body(r) \/ StartJob(r)
      PROVE  ServiceType'
  <2>1. pc' \in [Actor -> Step]
    BY <1>1, <1>8, Apart DEF Arrive, Body, StartJob, Goto, Step
  <2>2. bindChain' \in Seq(Actor)
    <3>1. bindChain' = bindChain \/ bindChain' = Append(bindChain, r)
      BY <1>8 DEF Arrive, Body, StartJob, Enqueue
    <3> QED
      BY <1>1, <3>1, AppendProperties, Apart
  <2>3. floor' = floor \/ floor' = [floor EXCEPT ![r] = 0]
    BY <1>8 DEF Arrive, Body, StartJob
  <2>4. floor' \in [Req -> {0} \cup T]
    BY <1>2, <2>3
  <2>5. UNCHANGED <<up, openEpochId, epochStarting, made, call, kept, ceiling, queueFile>>
    BY <1>8 DEF Arrive, Body, StartJob, history
  <2> QED
    BY <1>1, <1>2, <1>4, <1>5, <2>1, <2>2, <2>4, <2>5
<1>9. ASSUME NEW a \in Actor, Send(a)
      PROVE  ServiceType'
  <2>1. /\ UNCHANGED <<up, openEpochId, epochStarting, pc, made, floor, bindChain, kept, ceiling, queueFile>>
        /\ call' \in Actor
    BY <1>9 DEF Send, history
  <2> QED
    BY <1>1, <1>2, <1>4, <1>5, <2>1
<1>10. ASSUME NEW a \in {Boot, Reader, Genesis}, ReadBlock(a)
       PROVE  ServiceType'
  <2>1. pc' \in [Actor -> Step]
    BY <1>1, <1>10, Apart DEF ReadBlock, Goto, Step
  <2>2. bindChain' \in Seq(Actor)
    <3>1. bindChain' = Append(bindChain, a) /\ a \in Actor
      BY <1>10, Apart DEF ReadBlock, Enqueue
    <3> QED
      BY <1>1, <3>1, AppendProperties
  <2>3. UNCHANGED <<up, openEpochId, epochStarting, made, floor, call, kept, ceiling, queueFile>>
    BY <1>10 DEF ReadBlock, history
  <2> QED
    BY <1>1, <1>2, <1>4, <1>5, <2>1, <2>2, <2>3
<1>11. CASE FirstStored \/ GiveUpFirst
  <2>1. pc' \in [Actor -> Step] /\ epochStarting' \in BOOLEAN
    BY <1>1, <1>11, Apart DEF FirstStored, GiveUpFirst, Goto, Step
  <2>2. UNCHANGED <<up, openEpochId, made, floor, bindChain, call, kept, ceiling, queueFile>>
    BY <1>11 DEF FirstStored, GiveUpFirst, history
  <2> QED
    BY <1>1, <1>2, <1>4, <1>5, <2>1, <2>2
<1>12. ASSUME NEW c \in BOOLEAN, Stop(c)
       PROVE  ServiceType'
  <2>1. pc' \in [Actor -> Step] /\ up' = "stopping"
    BY <1>1, <1>12, Apart DEF Stop, Goto, Step
  <2>2. bindChain' \in Seq(Actor)
    <3>1. bindChain' = bindChain \/ bindChain' = Append(bindChain, End)
      BY <1>12 DEF Stop, Enqueue
    <3> QED
      BY <1>1, <3>1, AppendProperties, Apart
  <2>3. UNCHANGED <<openEpochId, epochStarting, made, floor, call, kept, ceiling, queueFile>>
    BY <1>12 DEF Stop, history
  <2> QED
    BY <1>1, <1>2, <1>4, <1>5, <2>1, <2>2, <2>3
<1>13. CASE Gone
  <2>1. pc' \in [Actor -> Step] /\ up' = "down" /\ call' = None /\ openEpochId' = 0
    BY <1>1, <1>13 DEF Gone, Step
  <2>2. made' \in [Req -> SUBSET T] /\ floor' \in [Req -> {0} \cup T]
    BY <1>13 DEF Gone
  <2>3. bindChain' = <<>> /\ epochStarting' = FALSE /\ UNCHANGED <<kept, ceiling, queueFile>>
    BY <1>13 DEF Gone, history
  <2>4. bindChain' \in Seq(Actor)
    BY <2>3, EmptySeq
  <2> QED
    BY <1>1, <1>2, <1>4, <1>5, <2>1, <2>2, <2>3, <2>4
<1>14. CASE Reboot \/ LateServe
  <2>1. UNCHANGED <<up, openEpochId, epochStarting, pc, made, floor, bindChain, call, kept, ceiling, queueFile>>
    BY <1>14 DEF Reboot, LateServe, ServeInit, ServeBind, RefuseBind, Unheard, history
  <2> QED
    BY <1>1, <1>2, <1>4, <1>5, <2>1
<1> QED
  BY <1>6, <1>7, <1>8, <1>9, <1>10, <1>11, <1>12, <1>13, <1>14, StepCases, SettledTypes

-----------------------------------------------------------------------------
(* bindExclusive: one function runs at a time.                             *)

\* One actor goes on: it stays in its place, queues, leaves, or leaves and queues again.
LEMMA TurnMove ==
    ASSUME TypeInv, TurnInv, NEW a \in Actor, \A b \in Actor \ {a} : pc'[b] = pc[b],
           \/ /\ bindChain' = bindChain /\ (Waits(a) <=> Waits(a)')
              /\ a \in Req /\ pc'[a] \in {"sendDrop", "sendFile"} => AtHead(a)
           \/ bindChain' = Append(bindChain, a) /\ ~Waits(a) /\ pc'[a] = "queued"
           \/ AtHead(a) /\ bindChain' = Tail(bindChain) /\ ~Waits(a)'
           \/ AtHead(a) /\ bindChain' = Append(Tail(bindChain), a) /\ pc'[a] = "queued"
    PROVE  TurnInv'
<1>1. bindChain \in Seq(Actor) /\ Once(bindChain)
  BY DEF TypeInv, ServiceType, TurnInv
<1>2. /\ \A b : AtHead(b) => b \in Turns(bindChain) /\ b \in Actor /\ bindChain # <<>>
      /\ \A b \in Actor : Waits(b) <=> b \in Turns(bindChain)
  BY HeadTurns DEF TurnInv
<1>3. \A b \in Actor \ {a} : Waits(b)' <=> Waits(b)
  BY DEF Waits
<1>4. \A r \in Req : pc[r] \in {"sendDrop", "sendFile"} => AtHead(r)
  BY DEF TurnInv
<1>5. /\ pc'[a] = "queued" => Waits(a)'
      /\ ~Waits(a)' /\ a \in Req => pc'[a] \notin {"sendDrop", "sendFile"}
  BY DEF Waits
<1>6. CASE /\ bindChain' = bindChain /\ (Waits(a) <=> Waits(a)')
           /\ a \in Req /\ pc'[a] \in {"sendDrop", "sendFile"} => AtHead(a)
  <2>1. \A b \in Actor : Waits(b)' <=> b \in Turns(bindChain')
    BY <1>2, <1>3, <1>6
  <2>2. \A r \in Req : pc'[r] \in {"sendDrop", "sendFile"} => AtHead(r)'
    <3>1. \A r \in Req : pc'[r] \in {"sendDrop", "sendFile"} => AtHead(r)
      BY <1>4, <1>6, Apart
    <3> QED
      BY <1>6, <3>1 DEF AtHead
  <2> QED
    BY <1>1, <1>6, <2>1, <2>2 DEF TurnInv, Turns, Once
<1>7. CASE bindChain' = Append(bindChain, a) /\ ~Waits(a) /\ pc'[a] = "queued"
  <2>1. a \notin Turns(bindChain)
    BY <1>2, <1>7
  <2>2. /\ Once(bindChain') /\ bindChain' # <<>> /\ Turns(bindChain') = Turns(bindChain) \cup {a}
        /\ bindChain # <<>> => Head(bindChain') = Head(bindChain)
    BY <1>1, <1>7, <2>1, AppendOnce
  <2>3. \A b \in Actor : Waits(b)' <=> b \in Turns(bindChain')
    BY <1>2, <1>3, <1>5, <1>7, <2>2
  <2>4. \A r \in Req : pc'[r] \in {"sendDrop", "sendFile"} => AtHead(r)'
    <3>1. \A r \in Req : pc'[r] \in {"sendDrop", "sendFile"} => AtHead(r)
      BY <1>4, <1>7, Apart
    <3> QED
      BY <2>2, <3>1 DEF AtHead
  <2> QED
    BY <2>2, <2>3, <2>4 DEF TurnInv, Turns, Once
<1>8. ASSUME AtHead(a), a \in Req => pc'[a] \notin {"sendDrop", "sendFile"}
      PROVE  \A r \in Req : pc'[r] \notin {"sendDrop", "sendFile"}
  BY <1>4, <1>8, Apart DEF AtHead
<1>9. ASSUME AtHead(a)
      PROVE  /\ Tail(bindChain) \in Seq(Actor) /\ Once(Tail(bindChain))
             /\ Turns(Tail(bindChain)) = Turns(bindChain) \ {a}
  BY <1>1, <1>2, <1>9, TailOnce DEF AtHead
<1>10. CASE AtHead(a) /\ bindChain' = Tail(bindChain) /\ ~Waits(a)'
  <2>1. Once(bindChain') /\ \A b \in Actor : Waits(b)' <=> b \in Turns(bindChain')
    BY <1>2, <1>3, <1>9, <1>10
  <2>2. \A r \in Req : pc'[r] \notin {"sendDrop", "sendFile"}
    BY <1>5, <1>8, <1>10
  <2> QED
    BY <2>1, <2>2 DEF TurnInv, Turns, Once
<1>11. CASE AtHead(a) /\ bindChain' = Append(Tail(bindChain), a) /\ pc'[a] = "queued"
  <2>1. Once(bindChain') /\ Turns(bindChain') = (Turns(bindChain) \ {a}) \cup {a}
    BY <1>9, <1>11, AppendOnce
  <2>2. \A b \in Actor : Waits(b)' <=> b \in Turns(bindChain')
    BY <1>2, <1>3, <1>5, <1>11, <2>1
  <2>3. \A r \in Req : pc'[r] \notin {"sendDrop", "sendFile"}
    BY <1>8, <1>11
  <2> QED
    BY <2>1, <2>2, <2>3 DEF TurnInv, Turns, Once
<1> QED
  BY <1>6, <1>7, <1>10, <1>11

\* Whatever happens, the chain holds who waits, once, and only the head has begun.
LEMMA TurnStep ==
    ASSUME TypeInv, FlowInv, [Next]_vars
    PROVE  TurnInv'
<1>1. TurnInv /\ CallInv /\ pc \in [Actor -> Step]
  BY DEF FlowInv, TypeInv, ServiceType
<1>2. ASSUME UNCHANGED <<pc, bindChain>> PROVE TurnInv'
  BY <1>1, <1>2 DEF TurnInv, Turns, Once, Waits, AtHead
<1>3. CASE UNCHANGED vars \/ Reboot \/ LateServe \/ \E a \in Actor : Send(a)
  BY <1>2, <1>3 DEF vars, Reboot, LateServe, Unheard, Send
<1>4. CASE Listen
  <2>1. pc[Boot] = "idle" /\ bindChain' = bindChain /\ pc' = [pc EXCEPT ![Boot] = "init"]
    BY <1>1, <1>4, Apart DEF Listen, Goto, CallInv
  <2>2. /\ ~Waits(Boot) /\ ~Waits(Boot)' /\ Boot \in Actor /\ Boot \notin Req
        /\ \A b \in Actor \ {Boot} : pc'[b] = pc[b]
    BY <1>1, <2>1, Apart DEF Waits
  <2> QED
    BY <1>1, <2>1, <2>2, TurnMove
<1>5. ASSUME NEW r \in Req, Arrive(r) \/ Body(r) \/ StartJob(r) PROVE TurnInv'
  <2>1. r \in Actor /\ \A b \in Actor \ {r} : pc'[b] = pc[b]
    BY <1>1, <1>5, Apart DEF Arrive, Body, StartJob, Goto
  <2>2. CASE Arrive(r)
    <3>1. /\ bindChain' = bindChain /\ ~Waits(r) /\ ~Waits(r)'
          /\ pc'[r] \notin {"sendDrop", "sendFile"}
      BY <1>1, <2>1, <2>2 DEF Arrive, Goto, Waits
    <3> QED
      BY <1>1, <2>1, <3>1, TurnMove
  <2>3. CASE Body(r)
    <3>1. ~Waits(r) /\ (pc'[r] = "done" => ~Waits(r)')
      BY <2>3 DEF Body, Waits
    <3>2. \/ bindChain' = bindChain /\ pc'[r] = "done"
          \/ bindChain' = Append(bindChain, r) /\ pc'[r] = "queued"
      BY <1>1, <2>1, <2>3 DEF Body, Goto, Enqueue
    <3> QED
      BY <1>1, <2>1, <3>1, <3>2, TurnMove
  <2>4. CASE StartJob(r)
    <3>1. AtHead(r) /\ bindChain' = bindChain /\ pc'[r] \in {"sendDrop", "sendFile"}
      BY <1>1, <2>1, <2>4 DEF StartJob, Goto
    <3>2. Waits(r) /\ Waits(r)'
      BY <2>4, <3>1 DEF StartJob, Waits
    <3> QED
      BY <1>1, <2>1, <3>1, <3>2, TurnMove
  <2> QED
    BY <1>5, <2>2, <2>3, <2>4
<1>6. ASSUME NEW a \in {Boot, Reader, Genesis}, ReadBlock(a) PROVE TurnInv'
  <2>1. /\ a \in Actor /\ a \notin Req /\ pc' = [pc EXCEPT ![a] = "queued"] /\ pc[a] = "reading"
        /\ bindChain' = Append(bindChain, a)
    BY <1>6, Apart DEF ReadBlock, Goto, Enqueue
  <2>2. ~Waits(a) /\ pc'[a] = "queued" /\ \A b \in Actor \ {a} : pc'[b] = pc[b]
    BY <1>1, <2>1 DEF Waits
  <2> QED
    BY <1>1, <2>1, <2>2, TurnMove
<1>7. CASE FirstStored \/ GiveUpFirst
  <2>1. /\ Boot \in Actor /\ Boot \notin Req /\ pc' = [pc EXCEPT ![Boot] = "done"]
        /\ pc[Boot] \in {"storing", "reading"} /\ bindChain' = bindChain
    BY <1>7, Apart DEF FirstStored, GiveUpFirst, Goto
  <2>2. ~Waits(Boot) /\ ~Waits(Boot)' /\ \A b \in Actor \ {Boot} : pc'[b] = pc[b]
    BY <1>1, <2>1 DEF Waits
  <2> QED
    BY <1>1, <2>1, <2>2, TurnMove
<1>8. ASSUME NEW c \in BOOLEAN, Stop(c) PROVE TurnInv'
  <2>1. End \in Actor /\ End \notin Req /\ pc[End] = "idle"
    BY <1>1, <1>8, Apart DEF Stop, CallInv
  <2>2. ~Waits(End)
    BY <2>1 DEF Waits
  <2>3. \/ pc' = [pc EXCEPT ![End] = "queued"] /\ bindChain' = Append(bindChain, End)
        \/ pc' = [pc EXCEPT ![End] = "done"] /\ bindChain' = bindChain
    BY <1>8 DEF Stop, Goto, Enqueue
  <2>4. /\ \A b \in Actor \ {End} : pc'[b] = pc[b]
        /\ \/ pc'[End] = "queued" /\ bindChain' = Append(bindChain, End)
           \/ bindChain' = bindChain /\ ~Waits(End)'
    BY <1>1, <2>1, <2>3 DEF Waits
  <2> QED
    BY <1>1, <2>1, <2>2, <2>4, TurnMove
<1>9. CASE Gone
  <2>1. bindChain' = <<>> /\ \A a \in Actor : pc'[a] \in {"done", "idle"}
    BY <1>9 DEF Gone
  <2>2. Turns(<<>>) = {} /\ \A a \in Actor : ~Waits(a)'
    BY <1>1, <2>1, HeadTurns DEF Waits
  <2> QED
    BY <2>1, <2>2, Apart DEF TurnInv, Turns, Once
<1>10. ASSUME NEW o \in Outcome, NEW i \in {0, Place}, Reply(o, i), Settled(o, i) PROVE TurnInv'
  <2>1. CASE InitSettled(o)
    <3>1. pc[Boot] = "init" /\ pc[Reader] = "idle" /\ pc[Genesis] = "idle" /\ bindChain' = bindChain
      BY <1>1, <2>1 DEF InitSettled, CallInv
    <3>2. \A b \in Actor \ {Boot, Reader, Genesis} : pc'[b] = pc[b]
      BY <1>1, <2>1 DEF InitSettled
    <3>3. \A b \in Actor : Waits(b)' <=> Waits(b)
      <4>1. pc'[Boot] # "queued" /\ pc'[Reader] # "queued" /\ pc'[Genesis] # "queued"
        BY <1>1, <2>1, <3>1, Apart DEF InitSettled
      <4> QED
        BY <3>1, <3>2, <4>1, Apart DEF Waits
    <3>4. \A r \in Req : pc'[r] = pc[r]
      BY <3>2, Apart
    <3> QED
      BY <1>1, <3>1, <3>3, <3>4 DEF TurnInv, Turns, Once, AtHead
  <2>2. CASE ~InitSettled(o)
    <3>1. /\ call \in Actor /\ AtHead(call) /\ bindChain # <<>>
          /\ \/ call \in Req /\ FileSettled(call, o, i)
             \/ call \in Req /\ DropSettled(call, o, i)
             \/ call \in Notes /\ NoteSettled(call, o, i)
      BY <1>10, <2>2, ReplyStep
    <3>2. \A b \in Actor \ {call} : pc'[b] = pc[b]
      BY <1>1, <3>1, Apart DEF FileSettled, DropSettled, NoteSettled, Goto
    <3>3. CASE call \in Req /\ FileSettled(call, o, i)
      <4>1. \/ pc'[call] = "done" /\ bindChain' = Tail(bindChain)
            \/ pc'[call] = "queued" /\ bindChain' = Append(Tail(bindChain), call)
        BY <1>1, <3>1, <3>3 DEF FileSettled, Goto, Released, Enqueue
      <4>2. \A a \in Actor : pc'[a] = "done" => ~Waits(a)'
        BY DEF Waits
      <4> QED
        BY <1>1, <3>1, <3>2, <4>1, <4>2, TurnMove
    <3>4. CASE call \in Req /\ DropSettled(call, o, i)
      <4>1. PICK a \in Actor : a = call
        BY <3>1
      <4>2. \/ pc'[a] = "done" /\ bindChain' = Tail(bindChain)
            \/ pc'[a] = "sendFile" /\ bindChain' = bindChain
        BY <1>1, <3>1, <3>4, <4>1 DEF DropSettled, Goto, AfterDrop, Released
      <4>3. Waits(a) /\ (pc'[a] = "sendFile" => Waits(a)') /\ (pc'[a] = "done" => ~Waits(a)')
        BY <3>4, <4>1 DEF DropSettled, Waits
      <4>4. AtHead(a) /\ \A b \in Actor \ {a} : pc'[b] = pc[b]
        BY <3>1, <3>2, <4>1
      <4> QED
        BY <1>1, <4>2, <4>3, <4>4, TurnMove
    <3>5. CASE call \in Notes /\ NoteSettled(call, o, i)
      <4>1. bindChain' = Tail(bindChain) /\ pc'[call] = AfterNote(call, o)
        BY <1>1, <3>1, <3>5 DEF NoteSettled, Goto, Released
      <4>2. \A a \in Actor : a = call => ~Waits(a)'
        <5>1. call = End \/ call = Reader \/ call = Boot \/ call = Genesis
          BY <3>5, Apart
        <5>2. AfterNote(call, o) \in {"done", "reading", "storing"}
          BY <1>10, <5>1, Apart DEF AfterNote, Outcome
        <5> QED
          BY <3>5, <4>1, <5>2, Apart DEF Waits
      <4> QED
        BY <1>1, <3>1, <3>2, <4>1, <4>2, TurnMove
    <3> QED
      BY <3>1, <3>3, <3>4, <3>5
  <2> QED
    BY <2>1, <2>2
<1> QED
  BY <1>3, <1>4, <1>5, <1>6, <1>7, <1>8, <1>9, <1>10, StepCases

-----------------------------------------------------------------------------
(* The vsock client: one call in flight, the init or the head's.           *)

CallerInv == call # None => \/ call = Boot /\ pc[Boot] = "init"
                            \/ AtHead(call) /\ Sendable(call)
InitInv == pc[Boot] = "init" => /\ call = Boot /\ openEpochId = 0
                                /\ pc[Reader] = "idle" /\ pc[Genesis] = "idle"
DownInv == up = "down" => /\ call = None /\ bindChain = <<>> /\ openEpochId = 0
                          /\ \A a \in Notes : pc[a] = "idle"
                          /\ \A r \in Req : pc[r] \in {"idle", "done"}
LiveInv == \A i \in DOMAIN wire : wire[i].live =>
              i = Len(wire) /\ call # None /\ wire[i].bind = Sent(call)

\* What a caller sends does not change while it waits for the answer.
LEMMA SentSame ==
    ASSUME NEW a \in Actor, Sendable(a) \/ pc[a] = "init", pc'[a] = pc[a], openEpochId' = openEpochId,
           a \in Req => floor'[a] = floor[a]
    PROVE  Sent(a)' = Sent(a) /\ (Sendable(a) => Sendable(a)')
<1>1. CASE pc[a] = "init"
  BY <1>1 DEF Sent, Sendable
<1>2. CASE a \in Req /\ Sendable(a)
  <2>1. CASE pc[a] = "sendFile"
    BY <1>2, <2>1 DEF Sent, NextBind, Sendable
  <2>2. CASE pc[a] = "sendDrop"
    BY <1>2, <2>2 DEF Sent, NextBind, Sendable
  <2> QED
    BY <1>2, <2>1, <2>2 DEF Sendable
<1>3. CASE a \in Notes /\ Sendable(a)
  <2>1. pc[a] = "queued" /\ a \notin Req
    BY <1>3, Apart DEF Sendable
  <2>2. NextBind(a)' = NextBind(a)
    <3>1. a = Boot \/ a = Reader \/ a = Genesis \/ a = End
      BY <1>3, Apart
    <3> QED
      BY <2>1, <3>1 DEF NextBind
  <2> QED
    BY <2>1, <2>2 DEF Sent, Sendable
<1> QED
  BY <1>1, <1>2, <1>3, Apart

\* Steps that leave the call alone.
LEMMA CallWaits ==
    ASSUME TypeInv, CallInv, UNCHANGED <<call, openEpochId>>,
           \A a \in Actor : call = a => /\ pc'[a] = pc[a] /\ (a \in Req => floor'[a] = floor[a])
                                        /\ AtHead(a) => AtHead(a)',
           \A i \in DOMAIN wire' : wire'[i].live =>
              /\ i = Len(wire') /\ Len(wire) \in DOMAIN wire /\ wire[Len(wire)].live
              /\ wire'[i].bind = wire[Len(wire)].bind
    PROVE  CallerInv' /\ LiveInv'
<1>1. CASE call = None
  <2>1. \A i \in DOMAIN wire' : ~wire'[i].live
    BY <1>1 DEF CallInv
  <2> QED
    BY <1>1, <2>1 DEF CallerInv, LiveInv
<1>2. CASE call # None
  <2>1. PICK a \in Actor : a = call
    BY <1>2 DEF TypeInv, ServiceType
  <2>2. /\ a # None /\ pc'[a] = pc[a] /\ (a \in Req => floor'[a] = floor[a]) /\ call' = a
        /\ (a = Boot /\ pc[a] = "init") \/ (AtHead(a) /\ Sendable(a) /\ AtHead(a)')
    BY <1>2, <2>1 DEF CallInv
  <2>3. Sent(a)' = Sent(a) /\ (Sendable(a) => Sendable(a)')
    BY <2>2, SentSame
  <2>4. CallerInv'
    <3>1. (a = Boot /\ pc'[Boot] = "init") \/ (AtHead(a)' /\ Sendable(a)')
      BY <2>2, <2>3
    <3> QED
      BY <2>2, <3>1 DEF CallerInv, AtHead, Sendable
  <2>5. LiveInv'
    <3>1. \A i \in DOMAIN wire' : wire'[i].live => i = Len(wire') /\ wire'[i].bind = Sent(a)'
      BY <2>1, <2>3 DEF CallInv
    <3> QED
      BY <2>2, <3>1 DEF LiveInv, Sent, NextBind
  <2> QED
    BY <2>4, <2>5
<1> QED
  BY <1>1, <1>2

\* The same, when the wire is as before.
LEMMA CallKept ==
    ASSUME TypeInv, CallInv, UNCHANGED <<call, openEpochId, wire>>,
           \A a \in Actor : call = a => /\ pc'[a] = pc[a] /\ (a \in Req => floor'[a] = floor[a])
                                        /\ AtHead(a) => AtHead(a)'
    PROVE  CallerInv' /\ LiveInv'
<1>1. \A i \in DOMAIN wire' : wire'[i].live =>
              /\ i = Len(wire') /\ Len(wire) \in DOMAIN wire /\ wire[Len(wire)].live
              /\ wire'[i].bind = wire[Len(wire)].bind
  BY DEF CallInv
<1> QED
  BY <1>1, CallWaits

\* An actor that stands where no call is made from is not the caller.
LEMMA NotCalling ==
    ASSUME CallInv, NEW a \in Actor, pc[a] \in {"idle", "done", "readBody", "reading", "storing"}
                                     \/ (a \in Req /\ pc[a] = "queued")
    PROVE  call # a
<1>1. call # None \/ call # a
  BY Apart
<1>2. ~Sendable(a) /\ pc[a] # "init"
  BY Apart DEF Sendable
<1> QED
  BY <1>1, <1>2 DEF CallInv

\* The client's invariant is kept when a call ends.
LEMMA CallEnds ==
    ASSUME TypeInv, FlowInv, NEW o \in Outcome, NEW i \in {0, Place}, Reply(o, i), Settled(o, i)
    PROVE  CallInv'
<1>1. CallInv /\ pc \in [Actor -> Step]
  BY DEF FlowInv, TypeInv, ServiceType
<1>2. /\ \A n \in DOMAIN wire' : ~wire'[n].live
      /\ up' = up /\ call \in Actor /\ call' = None
      /\ \/ InitSettled(o) /\ call = Boot /\ pc[Boot] = "init"
         \/ /\ AtHead(call) /\ Sendable(call)
            /\ \/ call \in Req /\ FileSettled(call, o, i)
               \/ call \in Req /\ DropSettled(call, o, i)
               \/ call \in Notes /\ NoteSettled(call, o, i)
  BY ReplyStep
<1>3. CallerInv' /\ LiveInv'
  BY <1>2 DEF CallerInv, LiveInv
<1>4. up # "down"
  BY <1>1, <1>2, Apart DEF CallInv
<1>5. DownInv'
  BY <1>2, <1>4 DEF DownInv
<1>6. pc'[Boot] # "init" /\ (up = "serving" => pc'[End] = pc[End])
  <2>1. CASE InitSettled(o)
    <3>1. pc' = [pc EXCEPT ![Boot] = pc'[Boot], ![Reader] = pc'[Reader], ![Genesis] = pc'[Genesis]]
          /\ pc'[Boot] \in {"reading", "done"}
      BY <1>1, <2>1, Apart DEF InitSettled
    <3> QED
      BY <1>1, <3>1, Apart
  <2>2. CASE AtHead(call) /\ Sendable(call) /\ call \in Req
                /\ (FileSettled(call, o, i) \/ DropSettled(call, o, i))
    <3>1. /\ \A b \in Actor \ {call} : pc'[b] = pc[b]
      BY <1>1, <2>2 DEF FileSettled, DropSettled, Goto
    <3>2. pc[Boot] # "init"
      BY <1>1, <2>2, Apart DEF CallInv
    <3> QED
      BY <2>2, <3>1, <3>2, Apart
  <2>3. CASE AtHead(call) /\ Sendable(call) /\ call \in Notes /\ NoteSettled(call, o, i)
    <3>1. /\ \A b \in Actor \ {call} : pc'[b] = pc[b]
          /\ pc'[call] = AfterNote(call, o) /\ pc[call] = "queued"
      BY <1>1, <1>2, <2>3 DEF NoteSettled, Goto
    <3>2. AfterNote(call, o) # "init"
      <4>1. call = End \/ call = Reader \/ call = Boot \/ call = Genesis
        BY <2>3, Apart
      <4> QED
        BY <4>1, Apart DEF AfterNote
    <3>3. pc[Boot] # "init"
      BY <1>1, <3>1 DEF CallInv
    <3>4. up = "serving" => call # End
      BY <1>1, <3>1 DEF CallInv
    <3> QED
      BY <3>1, <3>2, <3>3, <3>4, Apart
  <2> QED
    BY <1>2, <2>1, <2>2, <2>3
<1>7. InitInv' /\ (up' = "serving" => pc'[End] = "idle")
  BY <1>1, <1>2, <1>6 DEF InitInv, CallInv
<1>8. (CallerInv /\ InitInv /\ DownInv /\ (up = "serving" => pc[End] = "idle") /\ LiveInv)'
  BY <1>3, <1>5, <1>7
<1> QED
  BY <1>8 DEF CallInv, CallerInv, InitInv, DownInv, LiveInv

\* The client's invariant is kept by every step.
LEMMA CallStep ==
    ASSUME TypeInv, FlowInv, [Next]_vars
    PROVE  CallInv'
<1>1. CallInv /\ TurnInv /\ pc \in [Actor -> Step] /\ WireType /\ bindChain \in Seq(Actor)
  BY DEF FlowInv, TypeInv, ServiceType
<1>2. /\ \A a : AtHead(a) => a \in Turns(bindChain) /\ a \in Actor /\ bindChain # <<>>
      /\ \A a \in Turns(bindChain) : a \in Actor /\ Waits(a)
  BY <1>1, HeadTurns
<1>3. ASSUME CallerInv', InitInv', DownInv', up' = "serving" => pc'[End] = "idle", LiveInv'
      PROVE  CallInv'
  BY <1>3 DEF CallInv, CallerInv, InitInv, DownInv, LiveInv
<1>4. ASSUME UNCHANGED <<call, openEpochId, wire, up, bindChain, pc, floor>>
      PROVE  CallInv'
  BY <1>1, <1>4 DEF CallInv, AtHead, Sendable, Sent, NextBind
<1>5. CASE UNCHANGED vars
  BY <1>4, <1>5 DEF vars
<1>6. CASE Listen
  <2>1. /\ up = "down" /\ up' = "serving" /\ call' = Boot /\ pc' = [pc EXCEPT ![Boot] = "init"]
        /\ wire' = Append(wire, [of |-> Boot, bind |-> <<>>, live |-> TRUE])
        /\ UNCHANGED <<openEpochId, bindChain>>
    BY <1>6 DEF Listen, Goto
  <2>2. /\ call = None /\ openEpochId = 0 /\ \A a \in Notes : pc[a] = "idle"
    BY <1>1, <2>1 DEF CallInv
  <2>3. /\ pc'[Boot] = "init" /\ pc'[Reader] = "idle" /\ pc'[Genesis] = "idle" /\ pc'[End] = "idle"
    BY <1>1, <2>1, <2>2, Apart
  <2>4. LiveInv'
    <3> DEFINE w == [of |-> Boot, bind |-> <<>>, live |-> TRUE]
    <3>1. w \in CallType /\ wire' = Append(wire, w)
      BY <2>1, Apart DEF CallType
    <3>2. /\ Len(wire') = Len(wire) + 1 /\ wire'[Len(wire) + 1] = w
          /\ \A i \in DOMAIN wire' : i \in DOMAIN wire \/ i = Len(wire) + 1
          /\ \A i \in DOMAIN wire : wire'[i] = wire[i]
      BY <1>1, <3>1, WireSent
    <3>3. \A i \in DOMAIN wire : ~wire[i].live
      BY <1>1, <2>2 DEF CallInv
    <3>4. w.bind = <<>> /\ call' # None /\ Sent(Boot)' = <<>>
      BY <2>1, <2>3, Apart DEF Sent
    <3>5. Sent(call)' = <<>>
      BY <2>1, <2>3 DEF Sent
    <3> HIDE DEF w
    <3> QED
      BY <3>2, <3>3, <3>4, <3>5 DEF LiveInv
  <2>5. CallerInv' /\ InitInv' /\ DownInv'
    BY <2>1, <2>2, <2>3 DEF CallerInv, InitInv, DownInv
  <2> QED
    BY <1>3, <2>3, <2>4, <2>5
<1>7. ASSUME NEW r \in Req, Arrive(r) \/ Body(r) \/ StartJob(r) PROVE CallInv'
  <2>1. /\ r \in Actor /\ \A b \in Actor \ {r} : pc'[b] = pc[b]
        /\ UNCHANGED <<up, openEpochId, call, wire>>
        /\ \A q \in Req \ {r} : floor'[q] = floor[q]
    BY <1>1, <1>7, Apart DEF Arrive, Body, StartJob, Goto, TypeInv, ServiceType
  <2>2. pc[r] \in {"idle", "readBody", "queued"} /\ up # "down"
    BY <1>1, <1>7, <1>2 DEF Arrive, Body, StartJob, CallInv
  <2>3. call # r
    BY <1>1, <2>1, <2>2, NotCalling
  <2>4. \A a : AtHead(a) => AtHead(a)'
    <3>1. bindChain' = bindChain \/ (bindChain' = Append(bindChain, r) /\ pc[r] = "readBody")
      BY <1>7 DEF Arrive, Body, StartJob, Enqueue
    <3>2. CASE bindChain' = bindChain
      BY <3>2 DEF AtHead
    <3>3. CASE bindChain' = Append(bindChain, r) /\ pc[r] = "readBody"
      <4>1. r \notin Turns(bindChain)
        BY <1>2, <3>3 DEF Waits
      <4>2. bindChain' # <<>> /\ (bindChain # <<>> => Head(bindChain') = Head(bindChain))
        BY <1>1, <2>1, <3>3, <4>1, AppendOnce DEF TurnInv
      <4> QED
        BY <4>2 DEF AtHead
    <3> QED
      BY <3>1, <3>2, <3>3
  <2>5. CallerInv' /\ LiveInv'
    BY <1>1, <2>1, <2>3, <2>4, CallKept
  <2>6. InitInv' /\ DownInv' /\ (up' = "serving" => pc'[End] = "idle")
    BY <1>1, <2>1, <2>2, Apart DEF InitInv, DownInv, CallInv
  <2> QED
    BY <1>3, <2>5, <2>6
<1>8. ASSUME NEW a \in Actor, Send(a) PROVE CallInv'
  <2>1. /\ AtHead(a) /\ Sendable(a) /\ call = None /\ call' = a
        /\ UNCHANGED <<up, pc, openEpochId, floor, bindChain>>
    BY <1>8 DEF Send
  <2>2. NextBind(a)' = NextBind(a) /\ pc[a] # "init"
    BY <2>1 DEF NextBind, Sendable
  <2>3. CallerInv'
    BY <2>1 DEF CallerInv, AtHead, Sendable
  <2>4. up # "down" /\ pc[Boot] # "init"
    BY <1>1, <2>1, Apart DEF CallInv, AtHead
  <2>5. InitInv' /\ DownInv' /\ (up' = "serving" => pc'[End] = "idle")
    BY <1>1, <2>1, <2>4 DEF InitInv, DownInv, CallInv
  <2>6. LiveInv'
    <3> DEFINE w == [of |-> a, bind |-> <<NextBind(a)>>, live |-> TRUE]
    <3>1. NextBind(a) \in Payload
      BY <2>1, NextBindType DEF TypeInv
    <3>2. <<NextBind(a)>> \in Seq(Payload)
      BY <3>1
    <3>3. w \in CallType /\ wire' = Append(wire, w)
      BY <1>8, <3>2 DEF CallType, Send
    <3>4. /\ Len(wire') = Len(wire) + 1 /\ wire'[Len(wire) + 1] = w
          /\ \A i \in DOMAIN wire' : i \in DOMAIN wire \/ i = Len(wire) + 1
          /\ \A i \in DOMAIN wire : wire'[i] = wire[i]
      BY <1>1, <3>3, WireSent
    <3>5. \A i \in DOMAIN wire : ~wire[i].live
      BY <1>1, <2>1 DEF CallInv
    <3>6. w.bind = Sent(call)' /\ call' # None
      <4>1. Sent(a)' = <<NextBind(a)>>
        BY <2>1, <2>2 DEF Sent
      <4>2. Sent(call)' = Sent(a)'
        BY <2>1 DEF Sent, NextBind
      <4> QED
        BY <2>1, <4>1, <4>2, Apart
    <3> HIDE DEF w
    <3> QED
      BY <3>4, <3>5, <3>6 DEF LiveInv
  <2> QED
    BY <1>3, <2>3, <2>5, <2>6
<1>9. ASSUME NEW a \in {Boot, Reader, Genesis}, ReadBlock(a) PROVE CallInv'
  <2>1. /\ a \in Notes /\ a \in Actor /\ pc[a] = "reading" /\ pc' = [pc EXCEPT ![a] = "queued"]
        /\ bindChain' = Append(bindChain, a) /\ UNCHANGED <<up, openEpochId, call, wire, floor>>
    BY <1>9, Apart DEF ReadBlock, Goto, Enqueue
  <2>2. call # a /\ a \notin Turns(bindChain)
    BY <1>1, <1>2, <2>1, NotCalling DEF Waits
  <2>3. bindChain' # <<>> /\ (bindChain # <<>> => Head(bindChain') = Head(bindChain))
    BY <1>1, <2>1, <2>2, AppendOnce DEF TurnInv
  <2>4. CallerInv' /\ LiveInv'
    <3>1. \A b \in Actor : call = b => pc'[b] = pc[b] /\ (AtHead(b) => AtHead(b)')
      BY <1>1, <2>1, <2>2, <2>3 DEF AtHead
    <3> QED
      BY <1>1, <2>1, <3>1, CallKept
  <2>5. up # "down" /\ pc[Boot] # "init"
    BY <1>1, <2>1, <1>9 DEF CallInv
  <2>6. InitInv' /\ DownInv' /\ (up' = "serving" => pc'[End] = "idle")
    BY <1>1, <1>9, <2>1, <2>5, Apart DEF InitInv, DownInv, CallInv
  <2> QED
    BY <1>3, <2>4, <2>6
<1>10. CASE FirstStored \/ GiveUpFirst
  <2>1. /\ Boot \in Notes /\ Boot \in Actor /\ pc[Boot] \in {"reading", "storing"}
        /\ pc' = [pc EXCEPT ![Boot] = "done"]
        /\ UNCHANGED <<up, openEpochId, call, wire, floor, bindChain>>
    BY <1>10, Apart DEF FirstStored, GiveUpFirst, Goto
  <2>2. call # Boot
    BY <1>1, <2>1, NotCalling
  <2>3. CallerInv' /\ LiveInv'
    <3>1. \A b \in Actor : call = b => pc'[b] = pc[b] /\ (AtHead(b) => AtHead(b)')
      BY <1>1, <2>1, <2>2 DEF AtHead
    <3> QED
      BY <1>1, <2>1, <3>1, CallKept
  <2>4. up # "down"
    BY <1>1, <2>1 DEF CallInv
  <2>5. InitInv' /\ DownInv' /\ (up' = "serving" => pc'[End] = "idle")
    BY <1>1, <2>1, <2>4, Apart DEF InitInv, DownInv, CallInv
  <2> QED
    BY <1>3, <2>3, <2>5
<1>11. ASSUME NEW c \in BOOLEAN, Stop(c) PROVE CallInv'
  <2>1. /\ up = "serving" /\ up' = "stopping" /\ End \in Actor /\ End \in Notes /\ pc[End] = "idle"
        /\ UNCHANGED <<openEpochId, call, wire, floor>>
        /\ \/ pc' = [pc EXCEPT ![End] = "queued"] /\ bindChain' = Append(bindChain, End)
           \/ pc' = [pc EXCEPT ![End] = "done"] /\ bindChain' = bindChain
    BY <1>1, <1>11, Apart DEF Stop, Goto, Enqueue, CallInv
  <2>2. call # End /\ End \notin Turns(bindChain)
    BY <1>1, <1>2, <2>1, NotCalling, Apart DEF Waits
  <2>3. \A b : AtHead(b) => AtHead(b)'
    <3>1. CASE bindChain' = Append(bindChain, End)
      <4>1. bindChain' # <<>> /\ (bindChain # <<>> => Head(bindChain') = Head(bindChain))
        BY <1>1, <2>1, <2>2, <3>1, AppendOnce DEF TurnInv
      <4> QED
        BY <4>1 DEF AtHead
    <3>2. CASE bindChain' = bindChain
      BY <3>2 DEF AtHead
    <3> QED
      BY <2>1, <3>1, <3>2
  <2>4. \A b \in Actor \ {End} : pc'[b] = pc[b]
    BY <1>1, <2>1
  <2>5. CallerInv' /\ LiveInv'
    <3>1. \A b \in Actor : call = b => pc'[b] = pc[b] /\ (AtHead(b) => AtHead(b)')
      BY <2>2, <2>3, <2>4
    <3> QED
      BY <1>1, <2>1, <3>1, CallKept
  <2>6. InitInv' /\ DownInv' /\ up' # "serving"
    BY <1>1, <2>1, <2>4, Apart DEF InitInv, DownInv, CallInv
  <2> QED
    BY <1>3, <2>5, <2>6
<1>12. CASE Gone
  <2>1. /\ up' = "down" /\ openEpochId' = 0 /\ bindChain' = <<>> /\ call' = None
        /\ pc' = [a \in Actor |-> IF a \in Req /\ pc[a] # "idle" THEN "done" ELSE "idle"]
    BY <1>12 DEF Gone
  <2>2. (\A a \in Notes : pc'[a] = "idle") /\ \A r \in Req : pc'[r] \in {"idle", "done"}
    BY <2>1, Apart
  <2>3. \A n \in DOMAIN wire' : ~wire'[n].live
    BY <1>1, <1>12, ThinnedByGone
  <2>4. CallerInv' /\ InitInv' /\ DownInv' /\ LiveInv'
    BY <2>1, <2>2, <2>3, Apart DEF CallerInv, InitInv, DownInv, LiveInv
  <2> QED
    BY <1>3, <2>1, <2>4
<1>13. CASE Reboot \/ LateServe
  <2>1. UNCHANGED <<up, openEpochId, pc, floor, bindChain, call>>
    BY <1>13 DEF Reboot, LateServe, ServeInit, ServeBind, RefuseBind, Unheard
  <2>2. wire' = <<>> \/ (wire # <<>> /\ wire' = Tail(wire))
    BY <1>13 DEF Reboot, LateServe, ServeInit, ServeBind, RefuseBind
  <2>3. \A i \in DOMAIN wire' : wire'[i].live =>
              /\ i = Len(wire') /\ Len(wire) \in DOMAIN wire /\ wire[Len(wire)].live
              /\ wire'[i].bind = wire[Len(wire)].bind
    <3>1. CASE wire' = <<>>
      BY <3>1
    <3>2. CASE wire # <<>> /\ wire' = Tail(wire)
      <4>1. /\ Len(wire') = Len(wire) - 1 /\ DOMAIN wire' = 1..(Len(wire) - 1)
            /\ \A i \in DOMAIN wire' : i + 1 \in DOMAIN wire /\ wire'[i] = wire[i + 1]
        BY <1>1, <3>2, WireServed
      <4>2. Len(wire) \in Nat
        BY <1>1, WireIs
      <4> SUFFICES ASSUME NEW i \in DOMAIN wire', wire'[i].live
                   PROVE  /\ i = Len(wire') /\ Len(wire) \in DOMAIN wire /\ wire[Len(wire)].live
                          /\ wire'[i].bind = wire[Len(wire)].bind
        OBVIOUS
      <4>3. i + 1 = Len(wire) /\ wire[Len(wire)].live /\ wire'[i] = wire[Len(wire)]
        BY <1>1, <4>1 DEF CallInv
      <4>4. i = Len(wire')
        BY <4>1, <4>2, <4>3
      <4> QED
        BY <4>1, <4>3, <4>4
    <3> QED
      BY <2>2, <3>1, <3>2
  <2>4. \A b \in Actor : call = b => pc'[b] = pc[b] /\ (AtHead(b) => AtHead(b)')
    BY <2>1 DEF AtHead
  <2>5. CallerInv' /\ LiveInv'
    BY <1>1, <2>1, <2>3, <2>4, CallWaits
  <2>6. InitInv' /\ DownInv' /\ (up' = "serving" => pc'[End] = "idle")
    BY <1>1, <2>1 DEF InitInv, DownInv, CallInv
  <2> QED
    BY <1>3, <2>5, <2>6
<1> QED
  BY <1>5, <1>6, <1>7, <1>8, <1>9, <1>10, <1>11, <1>12, <1>13, StepCases, CallEnds

-----------------------------------------------------------------------------
(* The chain and the client together.                                      *)

\* The service starts with nothing queued, sent or bound.
LEMMA InitFlow == Init => TypeInv /\ FlowInv
<1> SUFFICES ASSUME Init PROVE TypeInv /\ FlowInv
  OBVIOUS
<1>1. /\ epoch = 1 /\ counter = 0 /\ last = 0 /\ open = FALSE /\ ledger = <<>> /\ bindChain = <<>>
      /\ wire = <<>> /\ pc = [a \in Actor |-> "idle"] /\ call = None /\ up = "down" /\ openEpochId = 0
  BY DEF Init, Sequence!SeqInit
<1>2. /\ ledger \in Seq(Sequence!Proof) /\ Len(ledger) = 0 /\ DOMAIN ledger = {}
      /\ bindChain \in Seq(Actor) /\ DOMAIN bindChain = {} /\ wire \in Seq(CallType) /\ DOMAIN wire = {}
  BY <1>1, EmptySeq
<1>3. EnclaveType
  <2>1. epoch \in 1..MaxEpochs /\ Len(ledger) <= MaxBinds /\ last \in 0..Len(ledger) /\ counter \in Nat
    BY <1>1, <1>2, BoundAssumption
  <2> QED
    BY <1>1, <1>2, <2>1 DEF EnclaveType
<1>4. ServiceType
  <2>1. pc \in [Actor -> Step] /\ openEpochId \in 0..epoch
    BY <1>1 DEF Step
  <2>2. made \in [Req -> SUBSET Made] /\ floor \in [Req -> {0} \cup Made]
    BY DEF Init
  <2>3. kept = {} /\ ceiling = {} /\ queueFile = {} /\ epochStarting = FALSE
    BY DEF Init
  <2> QED
    BY <1>1, <1>2, <2>1, <2>2, <2>3 DEF ServiceType
<1>5. WireType
  BY <1>2 DEF WireType, CallType
<1>6. TurnInv
  BY <1>1, <1>2, Apart DEF TurnInv, Once, Turns, Waits
<1>7. CallInv
  BY <1>1, <1>2, Apart DEF CallInv
<1> QED
  BY <1>3, <1>4, <1>5, <1>6, <1>7 DEF TypeInv, FlowInv

\* One call is in flight, that of the init or of the head of bindExclusive's chain.
LEMMA FlowHolds == Spec => [](TypeInv /\ FlowInv)
<1>1. TypeInv /\ FlowInv /\ [Next]_vars => (TypeInv /\ FlowInv)'
  BY TypeStep, TurnStep, CallStep DEF FlowInv
<1> QED
  BY <1>1, InitFlow, PTL DEF Spec

\* Nobody is left waiting by bindExclusive and the vsock client: everyone who waits has a
\* turn in the chain; the head of the chain is about to run, can send, has its call in flight,
\* or stands behind the init's call; and the call in flight has somebody to take its answer,
\* whichever it is.
NobodyStuck ==
    /\ \A a \in Actor : Waits(a) => a \in Turns(bindChain)
    /\ bindChain # <<>> =>
          LET a == Head(bindChain)
          IN  \/ a \in Req /\ pc[a] = "queued"
              \/ Sendable(a) /\ call \in {None, a}
              \/ call = Boot /\ pc[Boot] = "init"
    /\ call # None => \/ call = Boot /\ pc[Boot] = "init"
                      \/ AtHead(call) /\ Sendable(call)

\* The promise chain and the one call in flight lose no caller (server.ts, bindExclusive;
\* vsock-client.ts, send): whatever times out, restarts or is refused, nobody waits for a
\* function that is not queued or for a call that nobody makes.
THEOREM NobodyIsStuck == Spec => []NobodyStuck
<1>1. ASSUME TypeInv, FlowInv PROVE NobodyStuck
  <2>1. TurnInv /\ CallInv
    BY <1>1 DEF FlowInv
  <2>2. ASSUME bindChain # <<>>
        PROVE  LET a == Head(bindChain)
               IN  \/ a \in Req /\ pc[a] = "queued"
                   \/ Sendable(a) /\ call \in {None, a}
                   \/ call = Boot /\ pc[Boot] = "init"
    <3>1. AtHead(Head(bindChain))
      BY <2>2 DEF AtHead
    <3>2. Head(bindChain) \in Actor /\ Waits(Head(bindChain))
      BY <1>1, <2>1, <3>1, HeadTurns
    <3>3. call \in {None, Head(bindChain)} \/ (call = Boot /\ pc[Boot] = "init")
      BY <2>1 DEF CallInv, AtHead
    <3> QED
      BY <3>2, <3>3 DEF Waits, Sendable
  <2> QED
    BY <2>1, <2>2 DEF TurnInv, CallInv, NobodyStuck
<1> QED
  BY <1>1, FlowHolds, PTL

\* The service leaves the enclave's promise whole: of what the handlers, the wire and their
\* faults do together, the enclave sees an init, a bind of one of the payloads under a new
\* nonce, a boot, or nothing, which is what Enclave.tla implements.
THEOREM EnclaveIsKept == Spec => Sequence!SeqSpec
<1>1. Init => Sequence!SeqInit
  BY DEF Init
<1>2. ASSUME TypeInv, [Next]_vars
      PROVE  Sequence!SeqNext \/ UNCHANGED Sequence!seqVars
  <2>1. CASE UNCHANGED enclave
    BY <2>1 DEF enclave, Sequence!seqVars
  <2>2. CASE ServeInit
    BY <2>2 DEF ServeInit, Sequence!SeqNext
  <2>3. CASE Reboot
    BY <2>3 DEF Reboot, Sequence!SeqNext
  <2>4. CASE ServeBind
    <3>1. /\ wire # <<>> /\ Head(wire).bind # <<>> /\ Place <= MaxBinds
          /\ Sequence!Bind(Head(wire).bind[1], Place)
      BY <2>4 DEF ServeBind
    <3>2. Head(wire).bind[1] \in Payload
      BY <1>2, <3>1, WireIs DEF TypeInv, WireType, Load
    <3>3. Place \in 1..MaxBinds
      BY <1>2, <3>1, LedgerStep, BoundAssumption DEF Place
    <3> QED
      BY <3>1, <3>2, <3>3 DEF Sequence!SeqNext
  <2> QED
    BY <1>2, <2>1, <2>2, <2>3, <2>4, EnclaveStep
<1>3. TypeInv /\ [Next]_vars => [Sequence!SeqNext]_(Sequence!seqVars)
  BY <1>2
<1> QED
  BY <1>1, <1>3, FlowHolds, PTL DEF Spec, Sequence!SeqSpec

-----------------------------------------------------------------------------
(* The epoch the parent knows, and the genesis marker.                     *)

\* Steps that bring no call to the enclave, no new epoch and no marker.
LEMMA KnownKept ==
    ASSUME TypeInv, WireType', EpochInv, MarkInv, UNCHANGED <<epoch, open, asked, marked>>,
           \A i \in DOMAIN wire' : i \in DOMAIN wire /\ wire'[i].bind = wire[i].bind,
           openEpochId' = openEpochId \/ openEpochId' = 0,
           pc'[Genesis] \in {"reading", "queued"} =>
              pc[Genesis] \in {"reading", "queued"} /\ openEpochId' = openEpochId
    PROVE  EpochInv' /\ MarkInv'
<1>1. DOMAIN wire' = 1..Len(wire') /\ Len(wire') \in Nat
  BY WireIs, LenProperties DEF WireType
<1>2. openEpochId' # 0 => \A i \in DOMAIN wire' : wire'[i].bind # <<>>
  BY DEF EpochInv
<1>3. openEpochId' \notin {0, epoch'} => ~open' /\ epoch' \notin marked'
  BY DEF EpochInv
<1>4. ASSUME NEW i \in DOMAIN wire', wire'[i].bind # <<>>, Load(i)'.note \notin {0, epoch'}
      PROVE  ~open' /\ \A j \in 1..(i - 1) : wire'[j].bind # <<>>
  <2>1. ~open /\ \A j \in 1..(i - 1) : wire[j].bind # <<>>
    BY <1>4 DEF EpochInv, Load
  <2>2. \A j \in 1..(i - 1) : j \in DOMAIN wire'
    BY <1>1
  <2> QED
    BY <2>1, <2>2
<1>5. MarkInv'
  BY DEF MarkInv, Load
<1> QED
  BY <1>2, <1>3, <1>4, <1>5 DEF EpochInv

\* The invariants are kept when a call ends: an init tells the epoch, a genesis record is marked.
LEMMA KnownSettled ==
    ASSUME TypeInv, FlowInv, EpochInv, MarkInv, WireType',
           NEW o \in Outcome, NEW i \in {0, Place}, Reply(o, i), Settled(o, i)
    PROVE  EpochInv' /\ MarkInv'
<1>1. CallInv /\ pc \in [Actor -> Step] /\ epoch \in Nat /\ epoch \in 1..epoch
  <2>1. epoch \in 1..MaxEpochs /\ MaxEpochs \in Nat
    BY BoundAssumption DEF TypeInv, EnclaveType
  <2> QED
    BY <2>1 DEF FlowInv, TypeInv, ServiceType
<1>2. /\ Thinned /\ epoch' = epoch /\ call \in Actor
      /\ \/ /\ InitSettled(o)
            /\ o = "ok" => wire' = <<>>
            /\ o # "ok" => open' = open
         \/ /\ open' = open
            /\ \/ call \in Req /\ FileSettled(call, o, i)
               \/ call \in Req /\ DropSettled(call, o, i)
               \/ call \in Notes /\ NoteSettled(call, o, i)
            /\ o = "ok" => wire' = <<>>
  BY ReplyStep
<1>3. \A n \in DOMAIN wire' : n \in DOMAIN wire /\ wire'[n].bind = wire[n].bind
  BY <1>2 DEF Thinned
<1>4. CASE InitSettled(o) /\ o = "ok"
  <2>1. wire' = <<>> /\ openEpochId' = epoch /\ pc[Genesis] = "idle" /\ marked' = marked
    BY <1>1, <1>2, <1>4 DEF InitSettled, CallInv
  <2>2. \/ asked' = asked \cup {epoch} /\ epoch \notin marked
        \/ asked' = asked /\ pc'[Genesis] = pc[Genesis]
    <3>1. CASE TimelineOn /\ GenesisDue
      BY <1>4, <3>1 DEF InitSettled, GenesisDue
    <3>2. CASE ~(TimelineOn /\ GenesisDue)
      BY <1>1, <1>4, <3>2, Apart DEF InitSettled
    <3> QED
      BY <3>1, <3>2
  <2>3. MarkInv'
    <3>1. marked' \subseteq asked' /\ asked' \subseteq 1..epoch'
      BY <1>1, <1>2, <2>1, <2>2 DEF MarkInv
    <3>2. pc'[Genesis] \in {"reading", "queued"} => openEpochId' \in asked' \ marked'
      BY <2>1, <2>2
    <3>3. DOMAIN wire' = {}
      BY <2>1
    <3> QED
      BY <3>1, <3>2, <3>3 DEF MarkInv
  <2>4. EpochInv'
    <3>1. DOMAIN wire' = {}
      BY <2>1
    <3> QED
      BY <1>2, <2>1, <3>1 DEF EpochInv
  <2> QED
    BY <2>3, <2>4
<1>5. CASE InitSettled(o) /\ o # "ok"
  <2>1. openEpochId' = 0 /\ UNCHANGED <<asked, marked>> /\ pc[Genesis] = "idle" /\ open' = open
    BY <1>1, <1>2, <1>5 DEF InitSettled, CallInv
  <2>2. pc'[Genesis] = pc[Genesis]
    BY <1>1, <1>5, Apart DEF InitSettled
  <2> QED
    BY <1>2, <1>3, <2>1, <2>2, KnownKept
<1>6. CASE open' = open /\ call \in Req /\ (FileSettled(call, o, i) \/ DropSettled(call, o, i))
  <2>1. UNCHANGED <<openEpochId, asked, marked>>
    BY <1>6 DEF FileSettled, DropSettled, files
  <2>2. pc'[Genesis] = pc[Genesis]
    BY <1>1, <1>6, Apart DEF FileSettled, DropSettled, Goto
  <2> QED
    BY <1>2, <1>3, <1>6, <2>1, <2>2, KnownKept
<1>7. CASE open' = open /\ call \in Notes /\ NoteSettled(call, o, i) /\ ~(call = Genesis /\ o = "ok")
  <2>1. UNCHANGED <<openEpochId, asked, marked>>
    BY <1>7 DEF NoteSettled
  <2>2. pc'[Genesis] = pc[Genesis] \/ pc[Genesis] = "queued"
    BY <1>1, <1>7, Apart DEF NoteSettled, Goto
  <2> QED
    BY <1>2, <1>3, <1>7, <2>1, <2>2, KnownKept
<1>8. CASE open' = open /\ call = Genesis /\ NoteSettled(call, o, i) /\ o = "ok" /\ wire' = <<>>
  <2>1. /\ UNCHANGED <<openEpochId, asked>> /\ marked' = marked \cup {openEpochId}
        /\ pc[Genesis] = "queued"
    BY <1>8 DEF NoteSettled
  <2>2. pc'[Genesis] = "done"
    <3>1. AfterNote(Genesis, "ok") = "done"
      BY Apart DEF AfterNote
    <3> QED
      BY <1>1, <1>8, <3>1, Apart DEF NoteSettled, Goto
  <2>3. openEpochId \in asked
    BY <2>1 DEF MarkInv
  <2>4. DOMAIN wire' = {}
    BY <1>8
  <2>5. MarkInv'
    BY <1>2, <2>1, <2>2, <2>3, <2>4 DEF MarkInv
  <2>6. EpochInv'
    BY <1>2, <1>8, <2>1, <2>4 DEF EpochInv
  <2> QED
    BY <2>5, <2>6
<1> QED
  BY <1>2, <1>4, <1>5, <1>6, <1>7, <1>8

\* The epoch the parent knows and the genesis marker stay true by every step.
LEMMA KnownStep ==
    ASSUME TypeInv, FlowInv, EpochInv, MarkInv, [Next]_vars
    PROVE  EpochInv' /\ MarkInv'
<1>1. CallInv /\ pc \in [Actor -> Step] /\ WireType /\ epoch \in Nat
  <2>1. epoch \in 1..MaxEpochs /\ MaxEpochs \in Nat
    BY BoundAssumption DEF TypeInv, EnclaveType
  <2> QED
    BY <2>1 DEF FlowInv, TypeInv, ServiceType
<1>2. WireType'
  BY WireTypeStep
<1>3. Len(wire) \in Nat /\ DOMAIN wire = 1..Len(wire)
  BY <1>1, WireIs
<1>4. CASE \/ UNCHANGED vars \/ (\E r \in Req : Arrive(r) \/ Body(r) \/ StartJob(r))
           \/ FirstStored \/ GiveUpFirst \/ (\E c \in BOOLEAN : Stop(c))
  <2>1. UNCHANGED <<epoch, open, asked, marked, wire, openEpochId>>
    BY <1>4 DEF vars, Arrive, Body, StartJob, FirstStored, GiveUpFirst, Stop, enclave, files
  <2>2. pc'[Genesis] = pc[Genesis]
    BY <1>1, <1>4, Apart DEF vars, Arrive, Body, StartJob, FirstStored, GiveUpFirst, Stop, Goto
  <2> QED
    BY <1>2, <2>1, <2>2, KnownKept
<1>5. ASSUME NEW a \in {Boot, Reader, Genesis}, ReadBlock(a) PROVE EpochInv' /\ MarkInv'
  <2>1. UNCHANGED <<epoch, open, asked, marked, wire, openEpochId>>
    BY <1>5 DEF ReadBlock, enclave, files
  <2>2. pc'[Genesis] = pc[Genesis] \/ pc[Genesis] = "reading"
    BY <1>1, <1>5, Apart DEF ReadBlock, Goto
  <2> QED
    BY <1>2, <2>1, <2>2, KnownKept
<1>6. CASE Gone
  <2>1. UNCHANGED <<epoch, open, asked, marked>> /\ openEpochId' = 0
    BY <1>6 DEF Gone, enclave, files
  <2>2. pc'[Genesis] = "idle"
    BY <1>6, Apart DEF Gone
  <2>3. Thinned
    BY <1>1, <1>6, ThinnedByGone
  <2> QED
    BY <1>2, <2>1, <2>2, <2>3, KnownKept DEF Thinned
<1>7. CASE Reboot
  <2>1. /\ epoch' = epoch + 1 /\ open' = FALSE /\ wire' = <<>>
        /\ UNCHANGED <<asked, marked, openEpochId, pc>>
    BY <1>7 DEF Reboot, Sequence!NewEpoch, files
  <2>2. epoch' \notin marked /\ asked \subseteq 1..epoch'
    BY <1>1, <2>1 DEF MarkInv
  <2>3. DOMAIN wire' = {}
    BY <2>1
  <2> QED
    BY <2>1, <2>2, <2>3 DEF EpochInv, MarkInv
<1>8. CASE Listen
  <2> DEFINE w == [of |-> Boot, bind |-> <<>>, live |-> TRUE]
  <2>1. w \in CallType /\ w.bind = <<>> /\ wire' = Append(wire, w)
    BY <1>8, Apart DEF CallType, Listen
  <2> HIDE DEF w
  <2>2. /\ UNCHANGED <<epoch, open, asked, marked, openEpochId>> /\ openEpochId = 0
        /\ pc'[Genesis] = pc[Genesis]
    BY <1>1, <1>8, Apart DEF Listen, Goto, enclave, files, CallInv
  <2>3. /\ wire'[Len(wire) + 1] = w
        /\ \A i \in DOMAIN wire' : i \in DOMAIN wire \/ i = Len(wire) + 1
        /\ \A i \in DOMAIN wire : wire'[i] = wire[i]
    BY <1>1, <2>1, WireSent
  <2>4. MarkInv'
    BY <2>1, <2>2, <2>3 DEF MarkInv, Load
  <2>5. ASSUME NEW i \in DOMAIN wire', wire'[i].bind # <<>>, Load(i)'.note \notin {0, epoch'}
        PROVE  ~open' /\ \A j \in 1..(i - 1) : wire'[j].bind # <<>>
    <3>1. i \in DOMAIN wire /\ wire'[i] = wire[i]
      BY <2>1, <2>3, <2>5
    <3>2. ~open /\ \A j \in 1..(i - 1) : wire[j].bind # <<>>
      BY <2>2, <2>5, <3>1 DEF EpochInv, Load
    <3>3. \A j \in 1..(i - 1) : j \in DOMAIN wire
      BY <1>3, <3>1
    <3> QED
      BY <2>2, <2>3, <3>2, <3>3
  <2> QED
    BY <2>2, <2>4, <2>5 DEF EpochInv
<1>9. ASSUME NEW a \in Actor, Send(a) PROVE EpochInv' /\ MarkInv'
  <2> DEFINE n == NextBind(a)
             w == [of |-> a, bind |-> <<n>>, live |-> TRUE]
  <2>1. Sendable(a) /\ wire' = Append(wire, w) /\ UNCHANGED <<epoch, open, asked, marked, openEpochId, pc>>
    BY <1>9 DEF Send, enclave, files
  <2>2. n \in Payload
    BY <2>1, NextBindType DEF TypeInv
  <2>3. /\ n.note = 0 \/ n.note = openEpochId
        /\ n.kind = "genesis" => a = Genesis /\ pc[Genesis] = "queued"
    <3>1. CASE a \in Req
      BY <2>1, <3>1, NextBindIs
    <3>2. CASE a \in Notes
      BY <2>1, <3>2, NextBindIs, Apart
    <3> QED
      BY <3>1, <3>2, Apart
  <2> HIDE DEF n
  <2>4. w \in CallType /\ w.bind = <<n>> /\ w.bind # <<>> /\ w.bind[1] = n
    BY <2>2 DEF CallType
  <2> HIDE DEF w
  <2>5. /\ wire'[Len(wire) + 1] = w
        /\ \A i \in DOMAIN wire' : i \in DOMAIN wire \/ i = Len(wire) + 1
        /\ \A i \in DOMAIN wire : wire'[i] = wire[i]
    BY <1>1, <2>1, <2>4, WireSent
  <2>6. n.kind = "genesis" => epoch \notin marked
    <3>1. SUFFICES ASSUME n.kind = "genesis" PROVE epoch \notin marked
      OBVIOUS
    <3>2. openEpochId \in asked /\ openEpochId \notin marked /\ openEpochId # 0
      BY <1>1, <2>3, <3>1 DEF MarkInv
    <3> QED
      BY <3>2 DEF EpochInv
  <2>7. MarkInv'
    <3>1. \A i \in DOMAIN wire' : wire'[i].bind # <<>> /\ wire'[i].bind[1].kind = "genesis" => epoch \notin marked
      <4>1. \A i \in DOMAIN wire : wire[i].bind # <<>> /\ wire[i].bind[1].kind = "genesis" => epoch \notin marked
        BY DEF MarkInv, Load
      <4> QED
        BY <2>4, <2>5, <2>6, <4>1
    <3> QED
      BY <2>1, <3>1 DEF MarkInv, Load
  <2>8. ASSUME NEW i \in DOMAIN wire', wire'[i].bind # <<>>, wire'[i].bind[1].note \notin {0, epoch'}
        PROVE  ~open' /\ \A j \in 1..(i - 1) : wire'[j].bind # <<>>
    <3>1. CASE i \in DOMAIN wire
      <4>1. ~open /\ \A j \in 1..(i - 1) : wire[j].bind # <<>>
        BY <2>1, <2>5, <2>8, <3>1 DEF EpochInv, Load
      <4>2. \A j \in 1..(i - 1) : j \in DOMAIN wire
        BY <1>3, <3>1
      <4> QED
        BY <2>1, <2>5, <4>1, <4>2
    <3>2. CASE i = Len(wire) + 1
      <4>1. openEpochId \notin {0, epoch}
        BY <2>1, <2>3, <2>4, <2>5, <2>8, <3>2
      <4>2. ~open /\ \A j \in DOMAIN wire : wire[j].bind # <<>>
        BY <4>1 DEF EpochInv
      <4>3. \A j \in 1..(i - 1) : j \in DOMAIN wire
        BY <1>3, <3>2
      <4> QED
        BY <2>1, <2>5, <4>2, <4>3
    <3> QED
      BY <2>5, <3>1, <3>2
  <2>9. openEpochId' # 0 => \A i \in DOMAIN wire' : wire'[i].bind # <<>>
    BY <2>1, <2>4, <2>5 DEF EpochInv
  <2> QED
    BY <2>1, <2>7, <2>8, <2>9 DEF EpochInv, Load
<1>10. CASE LateServe
  <2>1. /\ wire # <<>> /\ wire' = Tail(wire) /\ UNCHANGED <<asked, marked, openEpochId, pc>>
    BY <1>10 DEF LateServe, ServeInit, ServeBind, RefuseBind, Unheard, files
  <2>2. /\ DOMAIN wire' = 1..(Len(wire) - 1) /\ Head(wire) = wire[1] /\ 1 \in DOMAIN wire
        /\ \A i \in DOMAIN wire' : i + 1 \in DOMAIN wire /\ i + 1 # 1 /\ wire'[i] = wire[i + 1]
    BY <1>1, <2>1, WireServed, WireIs
  <2>3. /\ epoch' = epoch
        /\ open' = open \/ Head(wire).bind = <<>>
    BY <1>10 DEF LateServe, ServeInit, ServeBind, RefuseBind, Sequence!OpenEpoch, Sequence!Bind, enclave
  <2>4. MarkInv'
    <3>1. \A i \in DOMAIN wire' : wire'[i].bind # <<>> /\ wire'[i].bind[1].kind = "genesis" => epoch \notin marked
      BY <2>2 DEF MarkInv, Load
    <3> QED
      BY <2>1, <2>3, <3>1 DEF MarkInv, Load
  <2>5. openEpochId # 0 => \A i \in DOMAIN wire' : wire'[i].bind # <<>>
    BY <2>2 DEF EpochInv
  <2>6. openEpochId \notin {0, epoch} => ~open' /\ epoch \notin marked
    BY <2>2, <2>3 DEF EpochInv
  <2>7. ASSUME NEW i \in DOMAIN wire', wire'[i].bind # <<>>, wire'[i].bind[1].note \notin {0, epoch}
        PROVE  ~open' /\ \A j \in 1..(i - 1) : wire'[j].bind # <<>>
    <3>1. /\ i + 1 \in DOMAIN wire /\ wire[i + 1].bind # <<>>
          /\ wire[i + 1].bind[1].note \notin {0, epoch}
      BY <2>2, <2>7
    <3>2. ~open /\ \A j \in 1..((i + 1) - 1) : wire[j].bind # <<>>
      BY <3>1 DEF EpochInv, Load
    <3>3. 1 \in 1..((i + 1) - 1) /\ \A j \in 1..(i - 1) : j \in DOMAIN wire' /\ j + 1 \in 1..((i + 1) - 1)
      BY <1>3, <2>2
    <3>4. open' = open
      BY <2>2, <2>3, <3>2, <3>3
    <3>5. \A j \in 1..(i - 1) : wire'[j].bind # <<>>
      BY <2>2, <3>2, <3>3
    <3> QED
      BY <3>2, <3>4, <3>5
  <2> QED
    BY <2>1, <2>3, <2>4, <2>5, <2>6, <2>7 DEF EpochInv, Load
<1> QED
  BY <1>2, <1>4, <1>5, <1>6, <1>7, <1>8, <1>9, <1>10, StepCases, KnownSettled

\* The parent's knowledge of the epoch, for every run of the service.
LEMMA KnownHolds == Spec => [](TypeInv /\ FlowInv /\ EpochInv /\ MarkInv)
<1>1. Init => EpochInv /\ MarkInv
  <2> SUFFICES ASSUME Init PROVE EpochInv /\ MarkInv
    OBVIOUS
  <2>1. /\ wire = <<>> /\ openEpochId = 0 /\ asked = {} /\ marked = {}
        /\ pc = [a \in Actor |-> "idle"]
    BY DEF Init
  <2>2. DOMAIN wire = {} /\ pc[Genesis] = "idle"
    BY <2>1, Apart
  <2> QED
    BY <2>1, <2>2 DEF EpochInv, MarkInv
<1>2. EpochInv /\ MarkInv /\ TypeInv /\ FlowInv /\ [Next]_vars => (EpochInv /\ MarkInv)'
  BY KnownStep
<1> QED
  BY <1>1, <1>2, FlowHolds, PTL DEF Spec

\* Every variable of the service keeps its type: bindExclusive is never released when it is
\* empty, a proof a handler holds exists, and a marked epoch is one that was asked for.
THEOREM ServiceTypes == Spec => []TypeOK
<1>1. TypeInv /\ MarkInv => TypeOK
  BY DEF TypeInv, MarkInv, TypeOK, EnclaveType, ServiceType, WireType
<1> QED
  BY <1>1, KnownHolds, PTL

\* A record whose file names an epoch is bound in that epoch, however stale the parent's
\* openEpochId is after the enclave restarted.
THEOREM NotesAreRight == Spec => []NotesNameTheirEpoch
<1>1. Init => NotesNameTheirEpoch
  BY DEF Init, Sequence!SeqInit, NotesNameTheirEpoch, Made
<1>2. ASSUME NotesNameTheirEpoch, TypeInv, EpochInv, [Next]_vars
      PROVE  NotesNameTheirEpoch'
  <2>1. /\ \A i \in Made : ledger'[i] = ledger[i]
        /\ \/ ledger' = ledger
           \/ /\ ServeBind /\ wire # <<>> /\ Head(wire).bind # <<>> /\ open
              /\ Made' = Made \cup {Place}
              /\ ledger'[Place] = [epoch |-> epoch, slotCounter |-> counter + 1,
                                   counter |-> counter + 2, nonce |-> Place, prev |-> last,
                                   digest |-> Head(wire).bind[1]]
    BY <1>2, LedgerStep
  <2>2. CASE ledger' = ledger
    BY <1>2, <2>2 DEF NotesNameTheirEpoch, Made
  <2>3. CASE ServeBind /\ ledger' # ledger
    <3>1. Head(wire) = wire[1] /\ 1 \in DOMAIN wire
      BY <1>2, <2>1, <2>3, WireIs DEF TypeInv
    <3>2. wire[1].bind[1].note \in {0, epoch}
      BY <1>2, <2>1, <2>3, <3>1 DEF EpochInv, Load
    <3>3. \A i \in Made' : ledger'[i].digest.note \in {0, ledger'[i].epoch}
      BY <1>2, <2>1, <2>3, <3>1, <3>2 DEF NotesNameTheirEpoch
    <3> QED
      BY <3>3 DEF NotesNameTheirEpoch
  <2> QED
    BY <2>1, <2>2, <2>3
<1> QED
  BY <1>1, <1>2, KnownHolds, PTL DEF Spec

\* Once an epoch's genesis-bound marker is written no further genesis record is bound in it,
\* not by a restarted parent and not by an attempt that timed out and is served late.
THEOREM GenesisIsSettled == Spec => GenesisSettled
<1>1. ASSUME TypeInv, MarkInv, [Next]_vars
      PROVE  \A e \in marked : GenesisOf(e)' = GenesisOf(e)
  <2> TAKE e \in marked
  <2>1. /\ \A i \in Made : ledger'[i] = ledger[i]
        /\ \/ ledger' = ledger
           \/ /\ ServeBind /\ wire # <<>> /\ Head(wire).bind # <<>>
              /\ Made' = Made \cup {Place}
              /\ ledger'[Place] = [epoch |-> epoch, slotCounter |-> counter + 1,
                                   counter |-> counter + 2, nonce |-> Place, prev |-> last,
                                   digest |-> Head(wire).bind[1]]
    BY <1>1, LedgerStep
  <2>2. CASE ledger' = ledger
    BY <2>2 DEF GenesisOf, Kind, Made
  <2>3. CASE ServeBind /\ ledger' # ledger
    <3>1. Head(wire) = wire[1] /\ 1 \in DOMAIN wire
      BY <1>1, <2>1, <2>3, WireIs DEF TypeInv
    <3>2. wire[1].bind[1].kind = "genesis" => epoch # e
      BY <1>1, <2>1, <2>3, <3>1 DEF MarkInv, Load
    <3>3. ~(ledger'[Place].digest.kind = "genesis" /\ ledger'[Place].epoch = e)
      BY <2>1, <2>3, <3>1, <3>2
    <3>4. \A i : i \in GenesisOf(e)' <=> i \in GenesisOf(e)
      BY <2>1, <2>3, <3>3 DEF GenesisOf, Kind
    <3> QED
      BY <3>4 DEF GenesisOf
  <2> QED
    BY <2>1, <2>2, <2>3
<1>2. TypeInv /\ MarkInv /\ [Next]_vars => [\A e \in marked : GenesisOf(e)' = GenesisOf(e)]_vars
  BY <1>1
<1> QED
  BY <1>2, KnownHolds, PTL DEF Spec, GenesisSettled

-----------------------------------------------------------------------------
(* The Base queue.                                                         *)

\* What the proof of the record just bound says.
LEMMA NewProof ==
    ASSUME TypeInv, FlowInv, [Next]_vars, NEW o \in Outcome, NEW i \in {0, Place},
           Reply(o, i), Settled(o, i), ~InitSettled(o)
    PROVE  /\ \A n \in Made : Kind(n)' = Kind(n)
           /\ ServeBind => /\ ledger'[Place].digest = NextBind(call) /\ Made' = Made \cup {Place}
                           /\ Place \notin Made
           /\ o = "ok" => ServeBind /\ i = Place
<1>1. \A n \in Made : Kind(n)' = Kind(n)
  BY LedgerStep DEF Kind
<1>2. /\ o = "ok" => ServeBind /\ i = Place
      /\ ServeBind => Head(wire).bind = <<NextBind(call)>>
  BY ReplyStep
<1>3. ServeBind => /\ Made' = Made \cup {Place} /\ Place \notin Made
                   /\ ledger'[Place].digest = Head(wire).bind[1]
  BY LedgerStep
<1>4. \A x : <<x>>[1] = x
  OBVIOUS
<1> QED
  BY <1>1, <1>2, <1>3, <1>4

\* What a request has made are its files, and of what is kept the files go to Base.
LEMMA BaseStep ==
    ASSUME TypeInv, FlowInv, MadeInv, BaseGetsTheFiles, [Next]_vars
    PROVE  MadeInv' /\ BaseGetsTheFiles'
<1>1. /\ made \in [Req -> SUBSET Made] /\ kept \subseteq Made
      /\ ceiling \subseteq kept /\ queueFile \subseteq ceiling
  BY DEF TypeInv, ServiceType
<1>2. Made \subseteq Made' /\ \A n \in Made : ledger'[n] = ledger[n]
  BY LedgerStep DEF Made
<1>3. ASSUME UNCHANGED <<kept, ceiling, queueFile>> PROVE BaseGetsTheFiles'
  BY <1>1, <1>2, <1>3 DEF BaseGetsTheFiles, Kind
<1>4. ASSUME \A r \in Req : made'[r] \subseteq made[r] PROVE MadeInv'
  BY <1>1, <1>2, <1>4 DEF MadeInv, FilesOf, Kind
<1>5. CASE \/ UNCHANGED vars \/ Listen \/ (\E r \in Req : Arrive(r) \/ Body(r) \/ StartJob(r))
           \/ (\E a \in Actor : Send(a)) \/ (\E a \in {Boot, Reader, Genesis} : ReadBlock(a))
           \/ FirstStored \/ GiveUpFirst \/ (\E c \in BOOLEAN : Stop(c)) \/ Reboot \/ LateServe
  <2>1. UNCHANGED <<made, kept, ceiling, queueFile>>
    BY <1>5 DEF vars, Listen, Arrive, Body, StartJob, Send, ReadBlock, FirstStored, GiveUpFirst, Stop,
        Reboot, LateServe, Unheard, history
  <2> QED
    BY <1>3, <1>4, <2>1
<1>6. CASE Gone
  <2>1. UNCHANGED <<kept, ceiling, queueFile>> /\ \A r \in Req : made'[r] = {}
    BY <1>6 DEF Gone, history
  <2> QED
    BY <1>3, <1>4, <2>1
<1>7. ASSUME NEW P, NEW I \in SUBSET P, KeepMade(P, I), P \subseteq Made',
             \A n \in P : n \in I <=> n \in ForBase(ledger'),
             \A n \in P \cap Made : n \in ForBase(ledger') <=> n \in ForBase(ledger)
      PROVE  BaseGetsTheFiles'
  <2>1. /\ kept' = kept \cup P /\ ceiling' = ceiling \cup I
        /\ ceiling' \subseteq kept' /\ queueFile' \subseteq ceiling'
    BY <1>1, <1>7, KeepMadeIs
  <2>2. \A n \in kept : n \in ceiling <=> n \in ForBase(ledger')
    BY <1>1, <1>2 DEF BaseGetsTheFiles, ForBase, Made, Kind
  <2>3. \A n \in kept' : n \in ceiling' <=> n \in ForBase(ledger')
    BY <1>1, <1>7, <2>1, <2>2
  <2>4. \A n \in Made' : n \in ForBase(ledger') <=> Kind(n)' = "file" /\ ledger'[n].digest.of \notin Anchors
    BY DEF ForBase, Made, Kind
  <2>5. kept' \subseteq Made'
    BY <1>1, <1>2, <1>7, <2>1
  <2> QED
    BY <2>1, <2>3, <2>4, <2>5 DEF BaseGetsTheFiles
<1>8. ASSUME NEW o \in Outcome, NEW i \in {0, Place}, Reply(o, i), Settled(o, i)
      PROVE  MadeInv' /\ BaseGetsTheFiles'
  <2>1. CASE InitSettled(o)
    <3>1. UNCHANGED <<made, kept, ceiling, queueFile>>
      BY <2>1 DEF InitSettled, history
    <3> QED
      BY <1>3, <1>4, <3>1
  <2>2. CASE ~InitSettled(o)
    <3>1. /\ ServeBind => /\ ledger'[Place].digest = NextBind(call) /\ Made' = Made \cup {Place}
                          /\ Place \notin Made
          /\ o = "ok" => ServeBind /\ i = Place
      BY <1>8, <2>2, NewProof
    <3>2. /\ call \in Actor /\ Sendable(call)
          /\ \/ call \in Req /\ FileSettled(call, o, i)
             \/ call \in Req /\ DropSettled(call, o, i)
             \/ call \in Notes /\ NoteSettled(call, o, i)
      BY <1>8, <2>2, ReplyStep
    <3>3. ASSUME KeepMade({i}, {}), o = "ok", NextBind(call).kind # "file"
          PROVE  BaseGetsTheFiles'
      <4>1. i \in Made' /\ i \notin Made /\ ledger'[i].digest.kind # "file"
        BY <3>1, <3>3
      <4>2. i \notin ForBase(ledger')
        BY <4>1 DEF ForBase
      <4> QED
        BY <1>7, <3>3, <4>1, <4>2
    <3>4. ASSUME NEW r \in Req, r = call, FileSettled(r, o, i) PROVE MadeInv' /\ BaseGetsTheFiles'
      <4> DEFINE proofs == Pushed(r, o, i)
      <4>1. pc[r] = "sendFile" /\ NextBind(r).kind = "file" /\ NextBind(r).of = r
        BY <3>2, <3>4, NextBindIs DEF FileSettled
      <4>2. proofs \subseteq FilesOf(r)'
        <5>1. made[r] \subseteq FilesOf(r)'
          BY <1>1, <1>2 DEF MadeInv, FilesOf, Kind
        <5>2. o = "ok" => i \in FilesOf(r)'
          BY <3>1, <3>4, <4>1 DEF FilesOf, Kind
        <5> QED
          BY <5>1, <5>2 DEF Pushed
      <4>3. MadeInv'
        <5>1. made' = [made EXCEPT ![r] = {}] \/ made' = [made EXCEPT ![r] = proofs]
          BY <3>4 DEF FileSettled
        <5> HIDE DEF proofs
        <5>2. ASSUME NEW s \in Req, s # r PROVE made'[s] \subseteq FilesOf(s)'
          <6>1. made'[s] = made[s]
            BY <1>1, <5>1, <5>2
          <6> QED
            BY <1>1, <1>2, <6>1 DEF MadeInv, FilesOf, Kind
        <5>3. made'[r] \subseteq FilesOf(r)'
          BY <1>1, <4>2, <5>1
        <5> QED
          BY <5>2, <5>3 DEF MadeInv
      <4>4. BaseGetsTheFiles'
        <5>1. UNCHANGED history \/ KeepMade(proofs, CeilingItems(r, proofs))
          BY <3>4 DEF FileSettled
        <5>2. CeilingItems(r, proofs) \in SUBSET proofs
          BY DEF CeilingItems
        <5> HIDE DEF proofs
        <5>3. \A n \in proofs : n \in Made' /\ (n \in ForBase(ledger') <=> r \notin Anchors)
          BY <4>2 DEF FilesOf, ForBase, Made, Kind
        <5>4. \A n \in proofs : n \in CeilingItems(r, proofs) <=> n \in ForBase(ledger')
          BY <5>3 DEF CeilingItems
        <5>5. \A n \in Made : n \in ForBase(ledger') <=> n \in ForBase(ledger)
          BY <1>2 DEF ForBase, Made
        <5>6. CASE KeepMade(proofs, CeilingItems(r, proofs))
          BY <1>7, <5>2, <5>3, <5>4, <5>5, <5>6
        <5> QED
          BY <1>3, <5>1, <5>6 DEF history
      <4> QED
        BY <4>3, <4>4
    <3>5. CASE call \in Req /\ DropSettled(call, o, i)
      <4>1. pc[call] = "sendDrop" /\ NextBind(call).kind # "file"
        BY <3>2, <3>5, NextBindIs DEF DropSettled
      <4>2. \A r \in Req : made'[r] \subseteq made[r]
        BY <1>1, <3>5 DEF DropSettled
      <4>3. UNCHANGED <<kept, ceiling, queueFile>> \/ (o = "ok" /\ KeepMade({i}, {}))
        BY <3>5 DEF DropSettled, history
      <4> QED
        BY <1>3, <1>4, <3>3, <4>1, <4>2, <4>3
    <3>6. CASE call \in Notes /\ NoteSettled(call, o, i)
      <4>1. NextBind(call).kind # "file"
        BY <3>2, <3>6, NextBindIs, Apart
      <4>2. made' = made
        BY <3>6 DEF NoteSettled
      <4>3. UNCHANGED <<kept, ceiling, queueFile>> \/ (o = "ok" /\ KeepMade({i}, {}))
        BY <3>6 DEF NoteSettled, history
      <4> QED
        BY <1>3, <1>4, <3>3, <4>1, <4>2, <4>3
    <3> QED
      BY <3>2, <3>4, <3>5, <3>6
  <2> QED
    BY <2>1, <2>2
<1> QED
  BY <1>5, <1>6, <1>8, StepCases

\* Of what is kept a line is appended to the ceiling queue for exactly the files that no
\* anchor service sent: none for a block read, a floor or a genesis record, and none is
\* left out; and the queue file has no line besides them.
THEOREM BaseIsRight == Spec => []BaseGetsTheFiles
<1>1. Init => MadeInv /\ BaseGetsTheFiles
  BY DEF Init, MadeInv, BaseGetsTheFiles
<1>2. MadeInv /\ BaseGetsTheFiles /\ TypeInv /\ FlowInv /\ [Next]_vars => (MadeInv /\ BaseGetsTheFiles)'
  BY BaseStep
<1> QED
  BY <1>1, <1>2, FlowHolds, PTL DEF Spec

-----------------------------------------------------------------------------
(* The drop floor.                                                         *)

\* Nothing of the enclave changed, and the wire lost calls at its end.
LEMMA WireFloorKept ==
    ASSUME WireFloor, UNCHANGED enclave,
           \A i \in DOMAIN wire' : i \in DOMAIN wire /\ wire'[i].bind = wire[i].bind
    PROVE  WireFloor'
BY DEF WireFloor, Follows, Kind, enclave

\* The floors are kept when a call ends.
LEMMA FloorSettled ==
    ASSUME TypeInv, FlowInv, WireFloor, HeldFloor, [Next]_vars,
           NEW o \in Outcome, NEW i \in {0, Place}, Reply(o, i), Settled(o, i)
    PROVE  WireFloor' /\ HeldFloor'
<1>1. /\ CallInv /\ TurnInv /\ pc \in [Actor -> Step] /\ floor \in [Req -> {0} \cup Made]
  BY DEF FlowInv, TypeInv, ServiceType
<1>2. /\ Thinned /\ (UNCHANGED enclave \/ wire' = <<>>)
      /\ call \in Actor /\ call' = None /\ epoch' = epoch
      /\ \/ /\ InitSettled(o) /\ call = Boot
            /\ UNCHANGED <<counter, last, ledger>>
            /\ o # "ok" => open' = open
         \/ /\ AtHead(call) /\ Sendable(call)
            /\ \/ call \in Req /\ FileSettled(call, o, i)
               \/ call \in Req /\ DropSettled(call, o, i)
               \/ call \in Notes /\ NoteSettled(call, o, i)
            /\ o = "ok" => ServeBind /\ wire' = <<>> /\ i = Place
  BY ReplyStep
<1>3. WireFloor'
  <2>1. CASE UNCHANGED enclave
    BY <1>2, <2>1, WireFloorKept DEF Thinned
  <2>2. CASE wire' = <<>>
    <3>1. DOMAIN wire' = {}
      BY <2>2
    <3> QED
      BY <3>1 DEF WireFloor
  <2> QED
    BY <1>2, <2>1, <2>2
<1>4. CASE InitSettled(o)
  <2>1. \A r \in Req : pc'[r] = pc[r] /\ floor'[r] = floor[r] /\ call # r
    BY <1>1, <1>2, <1>4, Apart DEF InitSettled
  <2>2. CASE o = "ok"
    <3>1. wire # <<>>
      BY <2>2 DEF Reply, ServeInit, ServeBind
    <3> QED
      BY <1>3, <2>1, <3>1 DEF HeldFloor
  <2>3. CASE o # "ok"
    <3>1. UNCHANGED <<epoch, last, open, ledger>> /\ (wire = <<>> => wire' = <<>>)
      BY <1>1, <1>2, <1>4, <2>3 DEF Thinned, FileSettled, DropSettled, NoteSettled, InitSettled, Sendable
    <3> QED
      BY <1>3, <2>1, <3>1 DEF HeldFloor, Follows, Kind
  <2> QED
    BY <2>2, <2>3
<1>5. CASE ~InitSettled(o)
  <2>1. \A r \in Req : r # call => pc[r] # "sendFile"
    BY <1>1, <1>2, <1>5 DEF TurnInv, AtHead
  <2>2. CASE call \in Req /\ FileSettled(call, o, i)
    <3>1. pc'[call] # "sendFile" /\ \A r \in Req : r # call => pc'[r] = pc[r]
      BY <1>1, <2>2, Apart DEF FileSettled, Goto
    <3> QED
      BY <1>3, <2>1, <3>1 DEF HeldFloor
  <2>3. CASE call \in Req /\ DropSettled(call, o, i)
    <3>1. /\ \A r \in Req : r # call => pc'[r] = pc[r]
          /\ floor'[call] = IF o = "ok" THEN i ELSE 0
          /\ pc[call] = "sendDrop"
      BY <1>1, <2>3, Apart DEF DropSettled, Goto
    <3>2. CASE o = "ok"
      <4>1. ServeBind /\ wire' = <<>> /\ i = Place
        BY <1>2, <1>5, <3>2
      <4>2. ledger'[Place].digest.kind = "drop"
        <5>1. NextBind(call).kind = "drop"
          BY <1>2, <1>5, <3>1, NextBindIs
        <5> QED
          BY <1>5, <4>1, <5>1, NewProof
      <4>3. ledger'[Place].epoch = epoch /\ last' = Place /\ Len(ledger') = Place
        BY <4>1, LedgerStep
      <4>4. \A f : f = Place => Follows(f)'
        BY <1>2, <4>2, <4>3 DEF Follows, Kind
      <4>5. \A r \in Req : pc'[r] = "sendFile" => floor'[r] = Place
        BY <2>1, <3>1, <3>2, <4>1
      <4>6. ASSUME NEW r \in Req, pc'[r] = "sendFile" PROVE Follows(floor[r])'
        BY <4>4, <4>5, <4>6 DEF Follows, Kind
      <4> QED
        BY <1>3, <4>1, <4>6 DEF HeldFloor
    <3>3. CASE o # "ok"
      BY <1>3, <2>1, <3>1, <3>3 DEF HeldFloor
    <3> QED
      BY <3>2, <3>3
  <2>4. CASE call \in Notes /\ NoteSettled(call, o, i)
    <3>1. \A r \in Req : pc'[r] = pc[r] /\ r # call
      BY <1>1, <2>4, Apart DEF NoteSettled, Goto
    <3> QED
      BY <1>3, <2>1, <3>1 DEF HeldFloor
  <2> QED
    BY <1>2, <1>5, <2>2, <2>3, <2>4
<1> QED
  BY <1>4, <1>5

\* The floors are kept by every step.
LEMMA FloorStep ==
    ASSUME TypeInv, FlowInv, WireFloor, HeldFloor, [Next]_vars
    PROVE  WireFloor' /\ HeldFloor'
<1>1. /\ CallInv /\ TurnInv /\ pc \in [Actor -> Step] /\ floor \in [Req -> {0} \cup Made] /\ WireType
  BY DEF FlowInv, TypeInv, ServiceType
<1>2. Len(wire) \in Nat /\ DOMAIN wire = 1..Len(wire) /\ (wire = <<>> <=> Len(wire) = 0)
  BY <1>1, WireIs, EmptySeq
<1>3. ASSUME UNCHANGED <<enclave, wire, call>>,
             \A r \in Req : pc'[r] = "sendFile" => floor'[r] = 0 \/ (pc[r] = "sendFile" /\ floor'[r] = floor[r])
      PROVE  WireFloor' /\ HeldFloor'
  <2>1. WireFloor'
    BY <1>3, WireFloorKept
  <2>2. HeldFloor'
    BY <1>3 DEF HeldFloor, Follows, Kind, enclave
  <2> QED
    BY <2>1, <2>2
<1>4. CASE \/ UNCHANGED vars \/ (\E a \in {Boot, Reader, Genesis} : ReadBlock(a))
           \/ FirstStored \/ GiveUpFirst \/ (\E c \in BOOLEAN : Stop(c))
  <2>1. UNCHANGED <<enclave, wire, call, floor>>
    BY <1>4 DEF vars, enclave, ReadBlock, FirstStored, GiveUpFirst, Stop
  <2>2. \A r \in Req : pc'[r] = pc[r]
    BY <1>1, <1>4, Apart DEF vars, ReadBlock, FirstStored, GiveUpFirst, Stop, Goto
  <2> QED
    BY <1>3, <2>1, <2>2
<1>5. ASSUME NEW r \in Req, Arrive(r) \/ Body(r) \/ StartJob(r) PROVE WireFloor' /\ HeldFloor'
  <2>1. UNCHANGED <<enclave, wire, call>> /\ \A q \in Req : q # r => pc'[q] = pc[q] /\ floor'[q] = floor[q]
    BY <1>1, <1>5, Apart DEF Arrive, Body, StartJob, Goto
  <2>2. pc'[r] = "sendFile" => floor'[r] = 0
    BY <1>1, <1>5, Apart DEF Arrive, Body, StartJob, Goto
  <2> QED
    BY <1>3, <2>1, <2>2
<1>6. CASE Gone
  <2>1. UNCHANGED enclave /\ \A r \in Req : pc'[r] # "sendFile"
    BY <1>6, Apart DEF Gone
  <2>2. Thinned
    BY <1>1, <1>6, ThinnedByGone
  <2>3. WireFloor'
    BY <2>1, <2>2, WireFloorKept DEF Thinned
  <2> QED
    BY <2>1, <2>3 DEF HeldFloor
<1>7. CASE Reboot
  <2>1. open' = FALSE /\ wire' = <<>> /\ UNCHANGED <<ledger, pc, floor, call>>
    BY <1>7 DEF Reboot, Sequence!NewEpoch
  <2>2. DOMAIN wire' = {}
    BY <2>1
  <2> QED
    BY <2>1, <2>2 DEF WireFloor, HeldFloor, Follows, Kind
<1>8. CASE Listen
  <2> DEFINE w == [of |-> Boot, bind |-> <<>>, live |-> TRUE]
  <2>1. w \in CallType /\ w.bind = <<>> /\ wire' = Append(wire, w)
    BY <1>8, Apart DEF CallType, Listen
  <2> HIDE DEF w
  <2>2. UNCHANGED <<enclave, floor>> /\ \A r \in Req : pc'[r] # "sendFile"
    <3>1. \A r \in Req : pc[r] \in {"idle", "done"} /\ pc'[r] = pc[r]
      BY <1>1, <1>8, Apart DEF Listen, Goto, CallInv
    <3> QED
      BY <1>8, <3>1 DEF Listen
  <2>3. /\ wire'[Len(wire) + 1] = w
        /\ \A i \in DOMAIN wire' : i \in DOMAIN wire \/ i = Len(wire) + 1
        /\ \A i \in DOMAIN wire : wire'[i] = wire[i]
    BY <1>1, <2>1, WireSent
  <2>4. WireFloor'
    BY <2>1, <2>2, <2>3 DEF WireFloor, Follows, Kind, enclave
  <2> QED
    BY <2>2, <2>4 DEF HeldFloor
<1>9. ASSUME NEW a \in Actor, Send(a) PROVE WireFloor' /\ HeldFloor'
  <2> DEFINE n == NextBind(a)
             w == [of |-> a, bind |-> <<n>>, live |-> TRUE]
  <2>1. /\ AtHead(a) /\ Sendable(a) /\ call = None /\ call' = a /\ wire' = Append(wire, w)
        /\ UNCHANGED <<enclave, pc, floor>>
    BY <1>9 DEF Send
  <2>2. n \in Payload
    BY <2>1, NextBindType DEF TypeInv
  <2>3. n.floor # 0 => a \in Req /\ pc[a] = "sendFile" /\ n.floor = floor[a]
    <3>1. CASE a \in Req
      BY <2>1, <3>1, NextBindIs
    <3>2. CASE a \in Notes
      BY <2>1, <3>2, NextBindIs, Apart
    <3> QED
      BY <3>1, <3>2, Apart
  <2> HIDE DEF n
  <2>4. w \in CallType /\ w.bind = <<n>> /\ w.bind # <<>> /\ w.bind[1] = n
    BY <2>2 DEF CallType
  <2> HIDE DEF w
  <2>5. /\ wire'[Len(wire) + 1] = w
        /\ \A i \in DOMAIN wire' : i \in DOMAIN wire \/ i = Len(wire) + 1
        /\ \A i \in DOMAIN wire : wire'[i] = wire[i]
    BY <1>1, <2>1, <2>4, WireSent
  <2>6. n.floor # 0 => Len(wire) + 1 = 1 /\ Follows(n.floor)
    <3>1. SUFFICES ASSUME n.floor # 0 PROVE wire = <<>> /\ Follows(n.floor)
      BY <1>2
    <3>2. call # a
      BY <2>1, Apart
    <3> QED
      BY <2>3, <3>1, <3>2 DEF HeldFloor
  <2>7. \A f : Follows(f) => Follows(f)'
    BY <2>1 DEF Follows, Kind, enclave
  <2>8. WireFloor'
    <3>1. \A i \in DOMAIN wire' : wire'[i].bind # <<>> /\ wire'[i].bind[1].floor # 0 =>
             i = 1 /\ Follows(wire'[i].bind[1].floor)
      BY <2>4, <2>5, <2>6 DEF WireFloor
    <3> QED
      BY <2>1, <3>1 DEF WireFloor, Follows, Kind, enclave
  <2>9. HeldFloor'
    <3>1. \A r \in Req : pc[r] = "sendFile" => r = a
      BY <1>1, <2>1 DEF TurnInv, AtHead
    <3> QED
      BY <2>1, <3>1 DEF HeldFloor
  <2> QED
    BY <2>8, <2>9
<1>10. CASE LateServe
  <2>1. /\ wire # <<>> /\ wire' = Tail(wire) /\ UNCHANGED <<call, floor, pc>>
    BY <1>10 DEF LateServe, ServeInit, ServeBind, RefuseBind, Unheard
  <2>2. \A i \in DOMAIN wire' : i + 1 \in DOMAIN wire /\ i + 1 # 1 /\ wire'[i] = wire[i + 1]
    BY <1>1, <2>1, WireServed
  <2>3. \A i \in DOMAIN wire' : ~(wire'[i].bind # <<>> /\ wire'[i].bind[1].floor # 0)
    BY <2>2 DEF WireFloor
  <2>4. WireFloor'
    BY <2>3 DEF WireFloor
  <2>5. HeldFloor'
    BY <2>1 DEF HeldFloor
  <2> QED
    BY <2>4, <2>5
<1> QED
  BY <1>4, <1>5, <1>6, <1>7, <1>8, <1>9, <1>10, StepCases, FloorSettled

\* A file bound with a floor is directly behind it in the same epoch, and its signed prev
\* names it: pollers, other requests and late calls of a dead process bind nothing between.
THEOREM FloorIsDirectlyBefore == Spec => []FloorDirectlyBefore
<1>1. Init => WireFloor /\ HeldFloor /\ FloorDirectlyBefore
  <2> SUFFICES ASSUME Init PROVE WireFloor /\ HeldFloor /\ FloorDirectlyBefore
    OBVIOUS
  <2>1. wire = <<>> /\ ledger = <<>> /\ floor = [r \in Req |-> 0]
    BY DEF Init, Sequence!SeqInit
  <2>2. DOMAIN wire = {} /\ DOMAIN ledger = {}
    BY <2>1
  <2> QED
    BY <2>1, <2>2 DEF WireFloor, HeldFloor, FloorDirectlyBefore, Made
<1>2. ASSUME FloorDirectlyBefore, TypeInv, WireFloor, [Next]_vars
      PROVE  FloorDirectlyBefore'
  <2>1. /\ Len(ledger) \in Nat /\ Made = 1..Len(ledger)
        /\ \A i \in Made : ledger'[i] = ledger[i]
        /\ \/ ledger' = ledger
           \/ /\ ServeBind /\ wire # <<>> /\ Head(wire).bind # <<>> /\ open
              /\ Made' = Made \cup {Place} /\ Place = Len(ledger) + 1
              /\ ledger'[Place] = [epoch |-> epoch, slotCounter |-> counter + 1,
                                   counter |-> counter + 2, nonce |-> Place, prev |-> last,
                                   digest |-> Head(wire).bind[1]]
    BY <1>2, LedgerStep DEF Made
  <2> DEFINE After(i, f) == /\ f = i - 1 /\ ledger'[f].digest.kind = "drop"
                            /\ ledger'[f].epoch = ledger'[i].epoch
                            /\ ledger'[i].prev = ledger'[f].nonce
  <2>2. CASE ledger' = ledger
    BY <1>2, <2>2 DEF FloorDirectlyBefore, Made, Kind
  <2>3. CASE ServeBind /\ ledger' # ledger
    <3>1. ASSUME NEW i \in Made, ledger[i].digest.floor # 0
          PROVE  After(i, ledger[i].digest.floor)
      <4>1. PICK f : f = ledger[i].digest.floor
        OBVIOUS
      <4>2. /\ f = i - 1 /\ ledger[f].digest.kind = "drop" /\ ledger[f].epoch = ledger[i].epoch
            /\ ledger[i].prev = ledger[f].nonce /\ f # 0
        BY <1>2, <3>1, <4>1 DEF FloorDirectlyBefore, Kind
      <4>3. f \in Made
        BY <2>1, <4>2
      <4> QED
        BY <2>1, <4>1, <4>2, <4>3
    <3>2. ASSUME ledger'[Place].digest.floor # 0
          PROVE  After(Place, ledger'[Place].digest.floor)
      <4>1. Head(wire) = wire[1] /\ 1 \in DOMAIN wire
        BY <1>2, <2>1, <2>3, WireIs DEF TypeInv
      <4>2. PICK f : f = wire[1].bind[1].floor
        OBVIOUS
      <4>3. ledger'[Place].digest.floor = f /\ f # 0
        BY <2>1, <2>3, <3>2, <4>1, <4>2
      <4>4. Follows(f)
        BY <1>2, <2>1, <2>3, <4>1, <4>2, <4>3 DEF WireFloor
      <4>5. f = Len(ledger) /\ ledger[f].digest.kind = "drop" /\ ledger[f].epoch = epoch /\ last = f
        BY <2>1, <2>3, <4>4 DEF Follows, Kind
      <4>6. f \in Made /\ f = Place - 1
        BY <2>1, <2>3, <4>3, <4>5
      <4>7. ledger[f].nonce = f
        BY <1>2, <4>6 DEF TypeInv, EnclaveType, Made
      <4> QED
        BY <2>1, <2>3, <4>3, <4>5, <4>6, <4>7
    <3> HIDE DEF After
    <3>3. \A i \in Made' : ledger'[i].digest.floor # 0 => After(i, ledger'[i].digest.floor)
      BY <2>1, <2>3, <3>1, <3>2
    <3> QED
      BY <3>3 DEF FloorDirectlyBefore, Kind, After
  <2> QED
    BY <2>1, <2>2, <2>3
<1>3. WireFloor /\ HeldFloor /\ TypeInv /\ FlowInv /\ [Next]_vars => (WireFloor /\ HeldFloor)'
  BY FloorStep
<1> QED
  BY <1>1, <1>2, <1>3, FlowHolds, PTL DEF Spec

-----------------------------------------------------------------------------
(* The files of a request.                                                 *)

\* A request has finitely many files, and a step adds at most the one it serves.
LEMMA FilesStep ==
    ASSUME TypeInv, [Next]_vars, NEW r \in Req
    PROVE  /\ IsFiniteSet(FilesOf(r)) /\ Cardinality(FilesOf(r)) \in Nat
           /\ \/ FilesOf(r)' = FilesOf(r)
              \/ /\ ServeBind /\ ledger' # ledger /\ wire # <<>> /\ FileAt(r, Head(wire))
                 /\ FilesOf(r)' = FilesOf(r) \cup {Place}
                 /\ Cardinality(FilesOf(r) \cup {Place}) = Cardinality(FilesOf(r)) + 1
<1>1. /\ Len(ledger) \in Nat /\ Made = 1..Len(ledger)
      /\ \A i \in Made : ledger'[i] = ledger[i]
      /\ \/ ledger' = ledger
         \/ /\ ServeBind /\ wire # <<>> /\ Head(wire).bind # <<>>
            /\ Made' = Made \cup {Place} /\ Place \notin Made
            /\ ledger'[Place].digest = Head(wire).bind[1]
  BY LedgerStep DEF Made
<1>2. IsFiniteSet(FilesOf(r)) /\ Cardinality(FilesOf(r)) \in Nat
  <2>1. IsFiniteSet(Made)
    <3>1. 1 \in Int /\ Len(ledger) \in Int
      BY <1>1
    <3>2. IsFiniteSet(1..Len(ledger))
      BY <3>1, FS_Interval
    <3> QED
      BY <1>1, <3>2
  <2>2. FilesOf(r) \in SUBSET Made
    BY DEF FilesOf
  <2> QED
    BY <2>1, <2>2, FS_Subset, FS_CardinalityType
<1>3. CASE ledger' = ledger
  BY <1>2, <1>3 DEF FilesOf, Made, Kind
<1>4. CASE ServeBind /\ ledger' # ledger
  <2>1. CASE FileAt(r, Head(wire))
    <3>1. \A i : i \in FilesOf(r)' <=> i \in FilesOf(r) \cup {Place}
      BY <1>1, <1>4, <2>1 DEF FilesOf, Kind, FileAt
    <3>2. FilesOf(r)' = FilesOf(r) \cup {Place}
      BY <3>1 DEF FilesOf
    <3>3. Place \notin FilesOf(r)
      BY <1>1, <1>4 DEF FilesOf
    <3>4. Cardinality(FilesOf(r) \cup {Place}) = Cardinality(FilesOf(r)) + 1
      BY <1>2, <3>3, FS_AddElement
    <3> QED
      BY <1>1, <1>2, <1>4, <2>1, <3>2, <3>4
  <2>2. CASE ~FileAt(r, Head(wire))
    <3>1. \A i : i \in FilesOf(r)' <=> i \in FilesOf(r)
      BY <1>1, <1>4, <2>2 DEF FilesOf, Kind, FileAt
    <3>2. FilesOf(r)' = FilesOf(r)
      BY <3>1 DEF FilesOf
    <3> QED
      BY <1>2, <3>2
  <2> QED
    BY <2>1, <2>2
<1> QED
  BY <1>1, <1>3, <1>4

\* No file of the request is bound, and none is sent.
LEMMA CountKept ==
    ASSUME NEW r \in Req, Counted(r), FilesOf(r)' = FilesOf(r), WireType', NEW k \in Nat,
           \A i \in DOMAIN wire' : FileAt(r, wire'[i]) => i + k \in DOMAIN wire /\ FileAt(r, wire[i + k]),
           \/ pc'[r] = "done"
           \/ /\ pc[r] \in {"idle", "readBody"} /\ pc'[r] \in {"idle", "readBody"} /\ made'[r] = {}
           \/ /\ pc[r] \in {"readBody", "queued", "sendDrop", "sendFile"} /\ made'[r] = made[r]
              /\ pc'[r] \in {"queued", "sendDrop", "sendFile"},
           pc'[r] # "done" => \A i \in DOMAIN wire' : FileAt(r, wire'[i]) => wire'[i].live /\ call' = r
    PROVE  Counted(r)'
<1>1. DOMAIN wire' = 1..Len(wire') /\ Len(wire') \in Nat
  BY LenProperties DEF WireType
<1>2. ASSUME NEW i \in DOMAIN wire', NEW j \in DOMAIN wire', FileAt(r, wire'[i]), FileAt(r, wire'[j])
      PROVE  i = j
  <2>1. i + k = j + k
    BY <1>2 DEF Counted
  <2> QED
    BY <1>1, <2>1
<1>3. (\E i \in DOMAIN wire' : FileAt(r, wire'[i])) => Cardinality(FilesOf(r)) < Digests[r]
  BY DEF Counted
<1>4. pc'[r] \in {"idle", "readBody"} => FilesOf(r) = {} /\ made'[r] = {}
  BY DEF Counted
<1>5. pc'[r] \in {"queued", "sendDrop", "sendFile"} =>
          FilesOf(r) = made'[r] /\ Cardinality(made'[r]) < Digests[r]
  <2>1. Cardinality({}) = 0 /\ 0 < Digests[r]
    BY FS_EmptySet, DigestsAssumption
  <2> QED
    BY <2>1 DEF Counted
<1>6. Cardinality(FilesOf(r)) <= Digests[r]
  BY DEF Counted
<1> HIDE DEF FileAt
<1>7. \A i, j \in DOMAIN wire' : FileAt(r, wire'[i]) /\ FileAt(r, wire'[j]) => i = j
  BY <1>2
<1>8. /\ \A i, j \in DOMAIN wire' : FileAt(r, wire'[i]) /\ FileAt(r, wire'[j]) => i = j
      /\ pc'[r] \in {"idle", "readBody"} => FilesOf(r)' = {} /\ made'[r] = {}
      /\ pc'[r] \in {"queued", "sendDrop", "sendFile"} =>
            FilesOf(r)' = made'[r] /\ Cardinality(made'[r]) < Digests[r]
      /\ pc'[r] # "done" => \A i \in DOMAIN wire' : FileAt(r, wire'[i]) => wire'[i].live /\ call' = r
      /\ Cardinality(FilesOf(r)') <= Digests[r]
      /\ (\E i \in DOMAIN wire' : FileAt(r, wire'[i])) => Cardinality(FilesOf(r)') < Digests[r]
  BY <1>3, <1>4, <1>5, <1>6, <1>7
<1> QED
  BY <1>8 DEF Counted, FileAt

\* A request's files are counted right when its call, or another's, ends.
LEMMA CountSettled ==
    ASSUME TypeInv, FlowInv, CountInv, [Next]_vars, WireType', NEW r \in Req,
           NEW o \in Outcome, NEW i \in {0, Place}, Reply(o, i), Settled(o, i)
    PROVE  Counted(r)'
<1>1. /\ Counted(r) /\ CallInv /\ pc \in [Actor -> Step] /\ made \in [Req -> SUBSET Made] /\ r \in Actor
  BY Apart DEF CountInv, FlowInv, TypeInv, ServiceType
<1>2. /\ Thinned /\ (UNCHANGED enclave \/ wire' = <<>>)
      /\ call \in Actor
      /\ \/ InitSettled(o) /\ call = Boot /\ ledger' = ledger
         \/ /\ AtHead(call) /\ Sendable(call)
            /\ \/ call \in Req /\ FileSettled(call, o, i)
               \/ call \in Req /\ DropSettled(call, o, i)
               \/ call \in Notes /\ NoteSettled(call, o, i)
            /\ o = "ok" => ServeBind /\ wire' = <<>> /\ i = Place
            /\ ServeBind => Head(wire).bind = <<NextBind(call)>>
  BY ReplyStep
<1>3. \A n \in DOMAIN wire' : n \in DOMAIN wire /\ wire'[n].bind = wire[n].bind
  BY <1>2 DEF Thinned
<1>4. \A n \in DOMAIN wire' : FileAt(r, wire'[n]) => n + 0 \in DOMAIN wire /\ FileAt(r, wire[n + 0])
  <2>1. \A n \in DOMAIN wire : n + 0 = n
    BY WireIs DEF TypeInv
  <2> QED
    BY <1>3, <2>1 DEF FileAt
<1>5. ASSUME ~InitSettled(o), NextBind(call).kind = "file"
      PROVE  call \in Req /\ pc[call] = "sendFile" /\ NextBind(call).of = call
  <2>1. CASE call \in Req
    BY <1>2, <1>5, <2>1, NextBindIs
  <2>2. CASE call \in Notes
    BY <1>2, <1>5, <2>2, NextBindIs, Apart
  <2> QED
    BY <1>2, <2>1, <2>2, Apart
<1>6. CASE FilesOf(r)' = FilesOf(r) /\ call # r
  <2>1. pc'[r] = pc[r] /\ made'[r] = made[r]
    <3>1. CASE InitSettled(o)
      BY <1>1, <3>1, Apart DEF InitSettled
    <3>2. CASE ~InitSettled(o)
      BY <1>1, <1>2, <1>6, <3>2, Apart DEF FileSettled, DropSettled, NoteSettled, Goto
    <3> QED
      BY <3>1, <3>2
  <2>2. pc'[r] # "done" => \A n \in DOMAIN wire' : ~FileAt(r, wire'[n])
    BY <1>1, <1>3, <1>6, <2>1 DEF Counted, FileAt
  <2>3. pc[r] \in {"idle", "readBody", "queued", "sendDrop", "sendFile", "done"}
        \/ pc[r] \in {"init", "reading", "storing"}
    BY <1>1 DEF Step
  <2>4. CASE pc[r] \in {"idle", "readBody", "queued", "sendDrop", "sendFile", "done"}
    <3>1. pc[r] \in {"idle", "readBody"} => made[r] = {}
      BY <1>1 DEF Counted
    <3> QED
      BY <1>1, <1>4, <1>6, <2>1, <2>2, <2>4, <3>1, CountKept
  <2>5. CASE pc[r] \in {"init", "reading", "storing"}
    <3>1. Cardinality(FilesOf(r)') <= Digests[r]
      BY <1>1, <1>6 DEF Counted
    <3>2. \A m, n \in DOMAIN wire' : FileAt(r, wire'[m]) /\ FileAt(r, wire'[n]) => m = n
      BY <1>1, <1>3 DEF Counted, FileAt
    <3> QED
      BY <2>1, <2>2, <2>5, <3>1, <3>2 DEF Counted, FileAt
  <2> QED
    BY <2>3, <2>4, <2>5
<1>7. CASE FilesOf(r)' = FilesOf(r) /\ call = r
  <2>1. ~InitSettled(o) /\ (FileSettled(r, o, i) \/ DropSettled(r, o, i))
    BY <1>2, <1>7, Apart DEF InitSettled
  <2>2. CASE FileSettled(r, o, i)
    <3>1. o # "ok"
      <4>1. SUFFICES ASSUME o = "ok" PROVE FALSE
        OBVIOUS
      <4>2. /\ ledger'[Place].digest = NextBind(call) /\ Place \in Made' /\ Place \notin Made
        BY <2>1, <4>1, NewProof
      <4>3. NextBind(r).kind = "file" /\ NextBind(r).of = r
        <5>1. pc[r] = "sendFile" /\ Sendable(r)
          BY <1>2, <1>7, <2>1, <2>2 DEF FileSettled
        <5> QED
          BY <1>1, <5>1, NextBindIs
      <4>4. Place \in FilesOf(r)'
        BY <1>7, <4>2, <4>3 DEF FilesOf, Kind
      <4> QED
        BY <1>7, <4>2, <4>4 DEF FilesOf
    <3>2. pc'[r] = "done"
      BY <1>1, <2>2, <3>1 DEF FileSettled, LoopEnds, Goto
    <3> QED
      BY <1>1, <1>4, <1>7, <3>2, CountKept
  <2>3. CASE DropSettled(r, o, i)
    <3>1. /\ pc[r] = "sendDrop"
          /\ pc'[r] = "done" \/ (pc'[r] = "sendFile" /\ made' = made)
      BY <1>1, <2>3 DEF DropSettled, Goto
    <3>2. \A n \in DOMAIN wire' : ~FileAt(r, wire'[n])
      <4>1. SUFFICES ASSUME NEW n \in DOMAIN wire', FileAt(r, wire'[n]) PROVE FALSE
        OBVIOUS
      <4>2. n \in DOMAIN wire /\ FileAt(r, wire[n])
        BY <1>3, <4>1 DEF FileAt
      <4>3. wire[n].live
        BY <1>1, <3>1, <4>2 DEF Counted
      <4>4. wire[n].bind = <<NextBind(r)>>
        BY <1>1, <1>7, <3>1, <4>2, <4>3 DEF CallInv, Sent
      <4>5. NextBind(r).kind = "drop"
        BY <1>1, <1>2, <1>7, <2>1, <3>1, NextBindIs
      <4>6. wire[n].bind[1] = NextBind(r)
        BY <4>4
      <4> QED
        BY <4>2, <4>5, <4>6 DEF FileAt
    <3> QED
      BY <1>1, <1>4, <1>7, <3>1, <3>2, CountKept
  <2> QED
    BY <2>1, <2>2, <2>3
<1>8. CASE FilesOf(r)' # FilesOf(r)
  <2>1. /\ ServeBind /\ ledger' # ledger /\ FileAt(r, Head(wire))
        /\ FilesOf(r)' = FilesOf(r) \cup {Place}
        /\ Cardinality(FilesOf(r) \cup {Place}) = Cardinality(FilesOf(r)) + 1
        /\ Cardinality(FilesOf(r)) \in Nat
    BY <1>8, FilesStep
  <2>2. ~InitSettled(o) /\ wire' = <<>>
    <3>1. wire' = <<>>
      BY <1>2, <2>1 DEF enclave
    <3>2. CASE InitSettled(o)
      <4>1. call = Boot /\ pc[Boot] = "init"
        BY <3>2 DEF InitSettled
      <4>2. ledger' = ledger
        BY <1>2, <3>2, <4>1, Apart DEF Sendable
      <4> QED
        BY <2>1, <4>2
    <3> QED
      BY <3>1, <3>2
  <2>3. Head(wire).bind[1] = NextBind(call)
    <3>1. \A x : <<x>>[1] = x
      OBVIOUS
    <3> QED
      BY <1>2, <2>1, <2>2, <3>1
  <2>4. call = r /\ pc[r] = "sendFile" /\ FileSettled(r, o, i)
    <3>1. call \in Req /\ pc[call] = "sendFile" /\ NextBind(call).of = call /\ NextBind(call).of = r
      BY <1>5, <2>1, <2>2, <2>3 DEF FileAt
    <3> QED
      BY <1>2, <2>2, <3>1, Apart DEF DropSettled, NoteSettled
  <2>5. FilesOf(r) = made[r] /\ Cardinality(made[r]) < Digests[r] /\ Digests[r] \in Nat
    BY <1>1, <2>4, DigestsAssumption DEF Counted
  <2>6. Cardinality(FilesOf(r)') <= Digests[r]
    BY <2>1, <2>5
  <2>7. \/ pc'[r] = "done"
        \/ /\ pc'[r] = "queued" /\ made'[r] = FilesOf(r)'
           /\ Cardinality(made'[r]) # Digests[r]
    <3>1. CASE o = "ok"
      <4>1. Pushed(r, o, i) = made[r] \cup {Place}
        BY <1>2, <2>2, <3>1 DEF Pushed
      <4>2. Pushed(r, o, i) = FilesOf(r)'
        BY <2>1, <2>5, <4>1
      <4>3. CASE LoopEnds(r, o, Pushed(r, o, i))
        BY <1>1, <2>4, <4>3 DEF FileSettled, Goto
      <4>4. CASE ~LoopEnds(r, o, Pushed(r, o, i))
        <5>1. pc'[r] = "queued" /\ made'[r] = Pushed(r, o, i)
          BY <1>1, <2>4, <4>4 DEF FileSettled, Goto
        <5> QED
          BY <4>2, <4>4, <5>1 DEF LoopEnds
      <4> QED
        BY <4>3, <4>4
    <3>2. CASE o # "ok"
      BY <1>1, <2>4, <3>2 DEF FileSettled, LoopEnds, Goto
    <3> QED
      BY <3>1, <3>2
  <2>8. DOMAIN wire' = {}
    BY <2>2
  <2>9. /\ pc'[r] \notin {"idle", "readBody"}
        /\ pc'[r] \in {"queued", "sendDrop", "sendFile"} =>
              FilesOf(r)' = made'[r] /\ Cardinality(made'[r]) < Digests[r]
    <3>1. CASE pc'[r] = "done"
      BY <3>1
    <3>2. CASE pc'[r] = "queued" /\ made'[r] = FilesOf(r)' /\ Cardinality(made'[r]) # Digests[r]
      <4>1. PICK n : n = Cardinality(FilesOf(r)')
        OBVIOUS
      <4>2. n \in Nat /\ n <= Digests[r] /\ n # Digests[r] /\ n = Cardinality(made'[r])
        BY <2>1, <2>6, <3>2, <4>1
      <4>3. n < Digests[r]
        BY <2>5, <4>2
      <4> QED
        BY <3>2, <4>2, <4>3
    <3> QED
      BY <2>7, <3>1, <3>2
  <2> QED
    BY <2>6, <2>8, <2>9 DEF Counted
<1> QED
  BY <1>6, <1>7, <1>8

\* A request's files are counted right by every step.
LEMMA CountStep ==
    ASSUME TypeInv, FlowInv, CountInv, [Next]_vars
    PROVE  CountInv'
<1> SUFFICES ASSUME NEW r \in Req PROVE Counted(r)'
  BY DEF CountInv
<1>1. /\ Counted(r) /\ CallInv /\ TurnInv /\ pc \in [Actor -> Step] /\ made \in [Req -> SUBSET Made]
      /\ r \in Actor /\ r # None /\ WireType
  BY Apart DEF CountInv, FlowInv, TypeInv, ServiceType
<1>2. WireType'
  BY WireTypeStep
<1>3. ledger' = ledger => FilesOf(r)' = FilesOf(r)
  BY DEF FilesOf, Made, Kind
<1>4. \A n \in DOMAIN wire : n + 0 = n /\ n \in Nat
  BY <1>1, WireIs
<1>5. pc[r] \in {"idle", "readBody"} => made[r] = {}
  BY <1>1 DEF Counted
<1>6. pc[r] # "done" => \A n \in DOMAIN wire : FileAt(r, wire[n]) => wire[n].live /\ call = r
  BY <1>1 DEF Counted
<1>7. pc[r] \in {"idle", "done", "readBody", "queued", "sendDrop", "sendFile"}
      \/ pc[r] \in {"init", "reading", "storing"}
  BY <1>1 DEF Step
<1>8. ASSUME FilesOf(r)' = FilesOf(r), pc'[r] = pc[r], made'[r] = made[r], NEW k \in Nat,
             \A n \in DOMAIN wire' : FileAt(r, wire'[n]) => n + k \in DOMAIN wire /\ FileAt(r, wire[n + k]),
             pc[r] # "done" => \A n \in DOMAIN wire' : FileAt(r, wire'[n]) => wire'[n].live /\ call' = r
      PROVE  Counted(r)'
  <2>1. CASE pc[r] \in {"idle", "done", "readBody", "queued", "sendDrop", "sendFile"}
    BY <1>1, <1>2, <1>5, <1>8, <2>1, CountKept
  <2>2. CASE pc[r] \in {"init", "reading", "storing"}
    <3>1. DOMAIN wire' = 1..Len(wire') /\ Len(wire') \in Nat
      BY <1>2, LenProperties DEF WireType
    <3>2. \A m, n \in DOMAIN wire' : FileAt(r, wire'[m]) /\ FileAt(r, wire'[n]) => m = n
      <4> SUFFICES ASSUME NEW m \in DOMAIN wire', NEW n \in DOMAIN wire',
                          FileAt(r, wire'[m]), FileAt(r, wire'[n])
                   PROVE  m = n
        OBVIOUS
      <4>1. m + k = n + k
        BY <1>1, <1>8 DEF Counted
      <4> QED
        BY <3>1, <4>1
    <3>3. /\ Cardinality(FilesOf(r)') <= Digests[r]
          /\ (\E n \in DOMAIN wire' : FileAt(r, wire'[n])) => Cardinality(FilesOf(r)') < Digests[r]
      BY <1>1, <1>8 DEF Counted
    <3> QED
      BY <1>8, <2>2, <3>2, <3>3 DEF Counted, FileAt
  <2> QED
    BY <1>7, <2>1, <2>2
<1>9. CASE \/ UNCHANGED vars \/ (\E q \in Req \ {r} : Arrive(q) \/ Body(q) \/ StartJob(q))
           \/ (\E a \in {Boot, Reader, Genesis} : ReadBlock(a))
           \/ FirstStored \/ GiveUpFirst \/ (\E c \in BOOLEAN : Stop(c))
  <2>1. UNCHANGED <<ledger, wire, call, made>>
    BY <1>9 DEF vars, enclave, ReadBlock, FirstStored, GiveUpFirst, Stop, Arrive, Body, StartJob
  <2>2. pc'[r] = pc[r]
    BY <1>1, <1>9, Apart DEF vars, ReadBlock, FirstStored, GiveUpFirst, Stop, Goto, Arrive, Body, StartJob
  <2> QED
    BY <1>3, <1>4, <1>6, <1>8, <2>1, <2>2
<1>10. CASE Arrive(r) \/ Body(r) \/ StartJob(r)
  <2>1. UNCHANGED <<ledger, wire, call, made>>
    BY <1>10 DEF enclave, Arrive, Body, StartJob
  <2>2. \/ pc'[r] = "done"
        \/ pc[r] = "idle" /\ pc'[r] = "readBody"
        \/ pc[r] = "readBody" /\ pc'[r] = "queued"
        \/ pc[r] = "queued" /\ pc'[r] \in {"sendDrop", "sendFile"}
    BY <1>1, <1>10 DEF Arrive, Body, StartJob, Goto
  <2>3. pc[r] \in {"idle", "readBody", "queued"}
    BY <1>10 DEF Arrive, Body, StartJob
  <2> QED
    BY <1>1, <1>2, <1>3, <1>4, <1>5, <1>6, <2>1, <2>2, <2>3, CountKept
<1>11. CASE Gone
  <2>1. ledger' = ledger /\ made'[r] = {} /\ pc'[r] = IF pc[r] # "idle" THEN "done" ELSE "idle"
    BY <1>1, <1>11 DEF Gone, enclave
  <2>2. \A n \in DOMAIN wire' : n \in DOMAIN wire /\ wire'[n].bind = wire[n].bind
    BY <1>1, <1>11, ThinnedByGone DEF Thinned
  <2>3. \A n \in DOMAIN wire' : FileAt(r, wire'[n]) => n \in DOMAIN wire /\ FileAt(r, wire[n])
    BY <2>2 DEF FileAt
  <2>4. pc[r] = "idle" => \A n \in DOMAIN wire' : ~FileAt(r, wire'[n])
    <3>1. pc[r] = "idle" => call # r
      BY <1>1, NotCalling
    <3> QED
      BY <1>6, <2>3, <3>1
  <2> QED
    BY <1>1, <1>2, <1>3, <1>4, <2>1, <2>3, <2>4, CountKept
<1>12. CASE Reboot
  <2>1. wire' = <<>> /\ UNCHANGED <<ledger, pc, made, call>>
    BY <1>12 DEF Reboot, Sequence!NewEpoch
  <2>2. DOMAIN wire' = {}
    BY <2>1
  <2> QED
    BY <1>3, <1>8, <2>1, <2>2, 0 \in Nat
<1>13. CASE Listen
  <2> DEFINE w == [of |-> Boot, bind |-> <<>>, live |-> TRUE]
  <2>1. w \in CallType /\ wire' = Append(wire, w) /\ ~FileAt(r, w)
    BY <1>13, Apart DEF CallType, Listen, FileAt
  <2> HIDE DEF w
  <2>2. UNCHANGED <<ledger, made>> /\ call = None /\ pc'[r] = pc[r]
    BY <1>1, <1>13, Apart DEF Listen, Goto, CallInv, enclave
  <2>3. /\ wire'[Len(wire) + 1] = w
        /\ \A n \in DOMAIN wire' : n \in DOMAIN wire \/ n = Len(wire) + 1
        /\ \A n \in DOMAIN wire : wire'[n] = wire[n]
    BY <1>1, <2>1, WireSent
  <2>4. \A n \in DOMAIN wire' : FileAt(r, wire'[n]) => n \in DOMAIN wire /\ FileAt(r, wire[n])
    BY <2>1, <2>3
  <2>5. pc[r] # "done" => \A n \in DOMAIN wire' : ~FileAt(r, wire'[n])
    BY <1>1, <1>6, <2>2, <2>4
  <2> QED
    BY <1>3, <1>4, <1>8, <2>2, <2>4, <2>5
<1>14. ASSUME NEW a \in Actor, Send(a) PROVE Counted(r)'
  <2> DEFINE b == NextBind(a)
             w == [of |-> a, bind |-> <<b>>, live |-> TRUE]
  <2>1. /\ AtHead(a) /\ Sendable(a) /\ call = None /\ call' = a /\ wire' = Append(wire, w)
        /\ UNCHANGED <<ledger, pc, made>>
    BY <1>14 DEF Send, enclave
  <2>2. b \in Payload
    BY <2>1, NextBindType DEF TypeInv
  <2>3. b.kind = "file" /\ b.of = r => a = r /\ pc[r] = "sendFile"
    <3>1. CASE a \in Req
      BY <2>1, <3>1, NextBindIs
    <3>2. CASE a \in Notes
      BY <2>1, <3>2, NextBindIs, Apart
    <3> QED
      BY <3>1, <3>2, Apart
  <2> HIDE DEF b
  <2>4. w \in CallType /\ w.bind = <<b>> /\ w.bind # <<>> /\ w.bind[1] = b /\ w.live
    BY <2>2 DEF CallType
  <2> HIDE DEF w
  <2>5. /\ wire'[Len(wire) + 1] = w
        /\ \A n \in DOMAIN wire' : n \in DOMAIN wire \/ n = Len(wire) + 1
        /\ \A n \in DOMAIN wire : wire'[n] = wire[n]
    BY <1>1, <2>1, <2>4, WireSent
  <2>6. pc[r] # "done" => \A n \in DOMAIN wire : ~FileAt(r, wire[n])
    BY <1>1, <1>6, <2>1
  <2>7. CASE ~FileAt(r, w)
    <3>1. \A n \in DOMAIN wire' : FileAt(r, wire'[n]) => n \in DOMAIN wire /\ FileAt(r, wire[n])
      BY <2>5, <2>7
    <3> QED
      BY <1>3, <1>4, <1>8, <2>1, <2>6, <3>1
  <2>8. CASE FileAt(r, w)
    <3>1. a = r /\ pc[r] = "sendFile"
      BY <2>3, <2>4, <2>8 DEF FileAt
    <3>2. \A n \in DOMAIN wire' : FileAt(r, wire'[n]) => n = Len(wire) + 1
      BY <2>5, <2>6, <3>1
    <3>3. \A n \in DOMAIN wire' : FileAt(r, wire'[n]) => wire'[n].live /\ call' = r
      BY <2>1, <2>4, <2>5, <3>1, <3>2
    <3>4. FilesOf(r)' = FilesOf(r)
      BY <1>3, <2>1
    <3>5. FilesOf(r) = made[r] /\ Cardinality(made[r]) < Digests[r] /\ Cardinality(FilesOf(r)) <= Digests[r]
      BY <1>1, <3>1 DEF Counted
    <3>6. \A m, n \in DOMAIN wire' : FileAt(r, wire'[m]) /\ FileAt(r, wire'[n]) => m = n
      BY <3>2
    <3>7. Cardinality(FilesOf(r)) < Digests[r]
      BY <3>5
    <3> QED
      BY <2>1, <3>1, <3>3, <3>4, <3>5, <3>6, <3>7 DEF Counted, FileAt
  <2> QED
    BY <2>7, <2>8
<1>15. CASE LateServe
  <2>1. /\ wire # <<>> /\ wire' = Tail(wire) /\ UNCHANGED <<call, made, pc>> /\ ~Head(wire).live
    BY <1>15 DEF LateServe, ServeInit, ServeBind, RefuseBind, Unheard
  <2>2. /\ \A n \in DOMAIN wire' : n + 1 \in DOMAIN wire /\ n + 1 # 1 /\ wire'[n] = wire[n + 1]
        /\ Head(wire) = wire[1] /\ 1 \in DOMAIN wire
    BY <1>1, <2>1, WireServed, WireIs
  <2>3. \A n \in DOMAIN wire' : FileAt(r, wire'[n]) => n + 1 \in DOMAIN wire /\ FileAt(r, wire[n + 1])
    BY <2>2
  <2>4. CASE FilesOf(r)' = FilesOf(r)
    <3>1. pc[r] # "done" => \A n \in DOMAIN wire' : FileAt(r, wire'[n]) => wire'[n].live /\ call' = r
      BY <1>6, <2>1, <2>2
    <3> QED
      BY <1>8, <2>1, <2>3, <2>4, <3>1, 1 \in Nat
  <2>5. CASE FilesOf(r)' # FilesOf(r)
    <3>1. /\ FileAt(r, wire[1]) /\ FilesOf(r)' = FilesOf(r) \cup {Place}
          /\ Cardinality(FilesOf(r) \cup {Place}) = Cardinality(FilesOf(r)) + 1
          /\ Cardinality(FilesOf(r)) \in Nat
      BY <2>2, <2>5, FilesStep
    <3>2. pc[r] = "done"
      BY <1>6, <2>1, <2>2, <3>1
    <3>3. Cardinality(FilesOf(r)) < Digests[r] /\ Digests[r] \in Nat
      BY <1>1, <2>2, <3>1, DigestsAssumption DEF Counted
    <3>4. Cardinality(FilesOf(r)') <= Digests[r]
      BY <3>1, <3>3
    <3>5. \A n \in DOMAIN wire' : ~FileAt(r, wire'[n])
      BY <1>1, <2>2, <3>1 DEF Counted
    <3> QED
      BY <2>1, <3>2, <3>4, <3>5 DEF Counted, FileAt
  <2> QED
    BY <2>4, <2>5
<1>16. ASSUME NEW q \in Req, Arrive(q) \/ Body(q) \/ StartJob(q) PROVE Counted(r)'
  BY <1>9, <1>10, <1>16
<1> QED
  BY <1>2, <1>9, <1>11, <1>12, <1>13, <1>14, <1>15, <1>16, StepCases, CountSettled

\* A request never binds more records than it has digests, however its calls time out, are
\* reset or are served after it was answered 500.
THEOREM NothingBoundTwice == Spec => []NoDigestBoundTwice
<1>1. Init => CountInv
  <2> SUFFICES ASSUME Init, NEW r \in Req PROVE Counted(r)
    BY DEF CountInv
  <2>1. wire = <<>> /\ ledger = <<>> /\ pc[r] = "idle" /\ made[r] = {}
    BY Apart DEF Init, Sequence!SeqInit
  <2>2. DOMAIN wire = {} /\ FilesOf(r) = {}
    BY <2>1 DEF FilesOf, Made
  <2>3. Cardinality({}) = 0 /\ 0 <= Digests[r]
    BY FS_EmptySet, DigestsAssumption
  <2> QED
    BY <2>1, <2>2, <2>3 DEF Counted
<1>2. CountInv /\ TypeInv /\ FlowInv /\ [Next]_vars => CountInv'
  BY CountStep
<1>3. CountInv => NoDigestBoundTwice
  BY DEF CountInv, Counted, FilesOf, NoDigestBoundTwice
<1> QED
  BY <1>1, <1>2, <1>3, FlowHolds, PTL DEF Spec

=============================================================================
