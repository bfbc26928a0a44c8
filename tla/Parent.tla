------------------------------- MODULE Parent -------------------------------
(***************************************************************************)
(* The parent service beside the enclave (server/commit-service/src/parent:*)
(* server.ts, vsock-client.ts, epoch-end.ts, epoch-floor.ts, timeline.ts), *)
(* composed with the enclave through BoundSequence, which Enclave.tla      *)
(* implements.                                                             *)
(*                                                                         *)
(* Everything that binds runs in this one Node process: the /commit        *)
(* handlers, the epoch's opening record, the timeline's block reads and    *)
(* genesis record, and the closing note.  Each puts its binds through      *)
(* bindExclusive, a FIFO promise chain; each bind is a call of the vsock   *)
(* client, which has one call in flight and gives it up after 30 s while   *)
(* the enclave may still serve it.  The init call is queued before any     *)
(* connection is accepted, so besides it only the head of bindExclusive's  *)
(* chain has a call to make, and the client's own queue needs no variable. *)
(* The key call, which changes nothing, is left out; EPOCH_FLOOR is on, as *)
(* it is unless switched off, and CEILING_QUEUE_PATH is set.  No code      *)
(* reads the ceiling field of a request's body (server.ts:624).            *)
(***************************************************************************)
EXTENDS Integers, Sequences, FiniteSets

CONSTANTS Req,        \* POST /commit requests
          Digests,    \* how many digests each of them carries
          Anchors,    \* those of an anchor service, by the claim or the attribution they carry
          Boot,       \* the listen callback: init, then the epoch's first record
          Reader,     \* a timeline poller
          Genesis,    \* bindTimelineGenesis
          End,        \* bindEpochEnd
          None,       \* no call in flight
          TimelineOn, \* TIMELINE: the pollers and the genesis record, in place of the first record
          DropFloor,  \* DROP_FLOOR: a block read is bound before each file
          MaxBinds,   \* bound: records bound in all
          MaxReads,   \* bound: block reads of the poller
          MaxEpochs,  \* bound: boots of the enclave
          MaxStarts,  \* bound: starts of the parent
          MaxFaults   \* bound: calls refused, lost or timed out, and blocks not read

Notes == {Boot, Reader, Genesis, End}  \* the callers whose binds are no request's
Actor == Req \cup Notes

ASSUME DigestsAssumption == Digests \in [Req -> Nat \ {0}] /\ Anchors \subseteq Req
ASSUME ActorAssumption == /\ Notes \cap Req = {} /\ None \notin Actor
                          /\ Boot \notin {Reader, Genesis, End}
                          /\ Reader \notin {Genesis, End} /\ Genesis # End
ASSUME SwitchAssumption == {TimelineOn, DropFloor} \subseteq BOOLEAN
ASSUME BoundAssumption == /\ {MaxBinds, MaxReads, MaxStarts, MaxFaults} \subseteq Nat
                          /\ MaxEpochs \in Nat \ {0}

VARIABLES epoch, counter, last, open, ledger, \* the enclave (BoundSequence)
          up,           \* the process: down, serving, stopping
          openEpochId,  \* the epoch init answered with; 0 is null
          epochStarting,
          pc,           \* where each actor's asynchronous function stands
          made,         \* per request: the proofs of its `proofs` array (places in the ledger)
          floor,        \* per request: the drop floor just bound for its next digest; 0 is none
          bindChain,    \* bindExclusive: the head's function runs
          call,         \* the actor whose vsock call is in flight
          wire,         \* requests that reached the enclave and are not served
          asked,        \* genesis-requested-<epoch> files
          marked,       \* genesis-bound-<epoch> files
          kept,         \* history: proofs handed to keepMade or to the journal
          ceiling,      \* history: proofs whose line was handed to the ceiling queue's append
          queueFile,    \* the ceiling queue file: the proofs whose line it has
          starts, reads, faults

enclave == <<epoch, counter, last, open, ledger>>
history == <<kept, ceiling, queueFile>>
files == <<asked, marked>>
vars == <<epoch, counter, last, open, ledger, up, openEpochId, epochStarting, pc, made,
          floor, bindChain, call, wire, asked, marked, kept, ceiling, queueFile, starts, reads, faults>>

\* What a bound digest stands for: its kind, who bound it, the epoch its file names (0: a
\* caller's file names none), and for a caller's file the place of the floor bound for it.
Payload == [kind: {"file", "drop", "first", "read", "genesis", "end"}, of: Actor,
            note: 0..MaxEpochs, floor: 0..MaxBinds]

Sequence == INSTANCE BoundSequence WITH Digest <- Payload, Nonce <- 1..MaxBinds, NoProof <- 0

-----------------------------------------------------------------------------
(* The pieces the handlers share.                                          *)

Place == Len(ledger) + 1

Goto(a, step) == pc' = [pc EXCEPT ![a] = step]

Enqueue(a, chain) == Append(chain, a)

AtHead(a) == bindChain # <<>> /\ Head(bindChain) = a

Fault == faults < MaxFaults /\ faults' = faults + 1

\* ceilingItems: a line for each proof of a request, and none for an anchor service's.
CeilingItems(r, proofs) == IF r \in Anchors THEN {} ELSE proofs

\* enqueueCeiling appends without waiting: a line lands or does not, because the append
\* failed, the process ended first or the proof has no proofHash, and nobody hears of it.
EnqueueCeiling(items) ==
    /\ ceiling' = ceiling \cup items
    /\ \E landed \in SUBSET items : queueFile' = queueFile \cup landed

\* Bug: every kept proof is queued for Base.
KeepMadeUnsorted(proofs, items) == kept' = kept \cup proofs /\ EnqueueCeiling(proofs)

\* keepMade: the journal and the ledger get every proof, the ceiling queue its items.
KeepMade(proofs, items) == kept' = kept \cup proofs /\ EnqueueCeiling(items)

\* What the head of bindExclusive's chain sends next.
NextBind(a) ==
    CASE pc[a] = "sendFile"  -> [kind |-> "file", of |-> a, note |-> 0, floor |-> floor[a]]
      [] pc[a] = "sendDrop"  -> [kind |-> "drop", of |-> a, note |-> openEpochId, floor |-> 0]
      [] pc[a] = "queued" /\ a = Boot -> [kind |-> "first", of |-> a, note |-> openEpochId, floor |-> 0]
      [] pc[a] = "queued" /\ a = Reader -> [kind |-> "read", of |-> a, note |-> openEpochId, floor |-> 0]
      [] pc[a] = "queued" /\ a = Genesis -> [kind |-> "genesis", of |-> a, note |-> openEpochId, floor |-> 0]
      [] pc[a] = "queued" /\ a = End -> [kind |-> "end", of |-> a, note |-> openEpochId, floor |-> 0]

-----------------------------------------------------------------------------
Init ==
    /\ Sequence!SeqInit
    /\ up = "down"
    /\ openEpochId = 0
    /\ epochStarting = FALSE
    /\ pc = [a \in Actor |-> "idle"]
    /\ made = [r \in Req |-> {}]
    /\ floor = [r \in Req |-> 0]
    /\ bindChain = <<>>
    /\ call = None
    /\ wire = <<>>
    /\ asked = {} /\ marked = {}
    /\ kept = {} /\ ceiling = {} /\ queueFile = {}
    /\ starts = 0 /\ reads = 0 /\ faults = 0

\* The process starts and listens; the first thing its callback does is to send init.
Listen ==
    /\ up = "down"
    /\ starts < MaxStarts
    /\ starts' = starts + 1
    /\ up' = "serving"
    /\ call' = Boot
    /\ wire' = Append(wire, [of |-> Boot, bind |-> <<>>, live |-> TRUE])
    /\ Goto(Boot, "init")
    /\ UNCHANGED <<enclave, openEpochId, epochStarting, made, floor, bindChain, files,
                   history, reads, faults>>

\* handleCommit begins: the epochStarting gate, then the body is awaited.
Arrive(r) ==
    /\ up = "serving"
    /\ pc[r] = "idle"
    /\ Goto(r, IF epochStarting THEN "done" ELSE "readBody")
    /\ UNCHANGED <<enclave, up, openEpochId, epochStarting, made, floor, bindChain, call,
                   wire, files, history, starts, reads, faults>>

\* The body is in: refused (its form, its size, the rate limit), or its first digest queues.
Body(r) ==
    /\ pc[r] = "readBody"
    /\ \/ /\ Goto(r, "done")
          /\ Fault
          /\ UNCHANGED bindChain
       \/ /\ Goto(r, "queued")
          /\ bindChain' = Enqueue(r, bindChain)
          /\ UNCHANGED faults
    /\ UNCHANGED <<enclave, up, openEpochId, epochStarting, made, floor, call, wire,
                   files, history, starts, reads>>

\* The request's function runs at last: bindDropFloor reads the newest block, if it can.
StartJob(r) ==
    /\ AtHead(r)
    /\ pc[r] = "queued"
    /\ floor' = [floor EXCEPT ![r] = 0]
    /\ \/ /\ DropFloor /\ openEpochId # 0
          /\ Goto(r, "sendDrop")
          /\ UNCHANGED faults
       \/ /\ DropFloor /\ openEpochId # 0
          /\ Fault
          /\ Goto(r, "sendFile")
       \/ /\ ~DropFloor \/ openEpochId = 0
          /\ Goto(r, "sendFile")
          /\ UNCHANGED faults
    /\ UNCHANGED <<enclave, up, openEpochId, epochStarting, made, bindChain, call, wire,
                   files, history, starts, reads>>

\* VsockClient.send: the head's call goes out when no other one is in flight.
Sendable(a) ==
    IF a \in Req THEN pc[a] \in {"sendDrop", "sendFile"} ELSE pc[a] = "queued"

Send(a) ==
    /\ AtHead(a)
    /\ Sendable(a)
    /\ call = None
    /\ call' = a
    /\ wire' = Append(wire, [of |-> a, bind |-> <<NextBind(a)>>, live |-> TRUE])
    /\ UNCHANGED <<enclave, up, openEpochId, epochStarting, pc, made, floor, bindChain,
                   files, history, starts, reads, faults>>

-----------------------------------------------------------------------------
(* How each caller goes on, by the outcome of its call: "ok" with the proof *)
(* at place i, "refused" (an error reply), or "rejected" (a timeout, a reset*)
(* or an empty reply, which the promise rejects).                          *)

\* Bug: the genesis-bound marker is not looked for.
GenesisDueUnmarked == counter = 0 \/ epoch \in asked

\* bindTimelineGenesis: a fresh epoch, or one whose genesis was asked for before a restart,
\* unless its record is already bound.
GenesisDue == epoch \notin marked /\ (counter = 0 \/ epoch \in asked)

\* initEnclave: the epoch is known from its reply, and only a fresh one gets a first record.
InitSettled(outcome) ==
    /\ call = Boot /\ pc[Boot] = "init"
    /\ call' = None
    /\ openEpochId' = IF outcome = "ok" THEN epoch ELSE 0
    /\ LET timelineOn == outcome = "ok" /\ TimelineOn
           opensFloor == outcome = "ok" /\ ~TimelineOn /\ counter = 0
           genesis == timelineOn /\ GenesisDue
       IN  /\ epochStarting' = opensFloor
           /\ pc' = [pc EXCEPT ![Boot] = IF opensFloor THEN "reading" ELSE "done",
                               ![Reader] = IF timelineOn THEN "reading" ELSE @,
                               ![Genesis] = IF genesis THEN "reading" ELSE @]
           /\ asked' = IF genesis THEN asked \cup {epoch} ELSE asked
    /\ UNCHANGED <<made, floor, bindChain, marked, history>>

\* Bug: the chain does not catch, so a rejected function is never released.
ReleasedIfResolved(outcome) == IF outcome = "rejected" THEN bindChain ELSE Tail(bindChain)

\* bindExclusive: the function has settled, by a value or an exception, and the next one runs.
Released(outcome) == Tail(bindChain)

\* Bug: the reply is pushed before it is looked at.
PushedUnchecked(r, outcome, i) == made[r] \cup {i}

\* The request's proofs array after the call.
Pushed(r, outcome, i) == IF outcome = "ok" THEN made[r] \cup {i} ELSE made[r]

\* Bug: a call that timed out is sent again.
LoopEndsUnlessRejected(r, outcome, proofs) ==
    outcome = "refused" \/ Cardinality(proofs) = Digests[r]

\* The loop over the digests ends with the last one, and with the first that fails.
LoopEnds(r, outcome, proofs) == outcome # "ok" \/ Cardinality(proofs) = Digests[r]

\* An error reply keeps and returns what the request had made, and so does its last digest;
\* a rejection leaves handleCommit by an exception, and the outer catch answers 500.
FileSettled(r, outcome, i) ==
    /\ call = r /\ pc[r] = "sendFile"
    /\ call' = None
    /\ LET proofs == Pushed(r, outcome, i)
           ends == LoopEnds(r, outcome, proofs)
       IN  /\ Goto(r, IF ends THEN "done" ELSE "queued")
           /\ bindChain' = IF ends THEN Released(outcome) ELSE Enqueue(r, Released(outcome))
           /\ made' = [made EXCEPT ![r] = IF ends THEN {} ELSE proofs]
           /\ IF ends /\ outcome # "rejected" THEN KeepMade(proofs, CeilingItems(r, proofs))
                                              ELSE UNCHANGED history
    /\ UNCHANGED <<openEpochId, epochStarting, floor, files>>

\* Bug: the floor and its file are two turns of bindExclusive.
AfterDropRequeued(r, outcome) ==
    IF outcome = "rejected" THEN Released(outcome) ELSE Enqueue(r, Released(outcome))

\* The file is bound in the same turn of bindExclusive as its floor.
AfterDrop(r, outcome) == IF outcome = "rejected" THEN Released(outcome) ELSE bindChain

\* bindDropFloor: no floor is no reason to refuse the file, but a rejection is.
DropSettled(r, outcome, i) ==
    /\ call = r /\ pc[r] = "sendDrop"
    /\ call' = None
    /\ floor' = [floor EXCEPT ![r] = IF outcome = "ok" THEN i ELSE 0]
    /\ Goto(r, IF outcome = "rejected" THEN "done" ELSE "sendFile")
    /\ bindChain' = AfterDrop(r, outcome)
    /\ made' = IF outcome = "rejected" THEN [made EXCEPT ![r] = {}] ELSE made
    /\ IF outcome = "ok" THEN KeepMade({i}, {}) ELSE UNCHANGED history
    /\ UNCHANGED <<openEpochId, epochStarting, files>>

\* Bug: the exit follows the closing note only when that was bound (then for finally).
AfterNoteIfBound(a, outcome) ==
    CASE a = End /\ outcome # "ok" -> "idle"
      [] a \in {End, Genesis} /\ outcome = "ok" -> "done"
      [] a = Reader \/ (a # End /\ outcome # "ok") -> "reading"
      [] a = Boot /\ outcome = "ok" -> "storing"

\* A block read, a first record or a genesis record that was not made is tried again, the
\* closing note is not; a first record has its file still to store.
AfterNote(a, outcome) ==
    CASE a = End -> "done"
      [] a = Reader \/ (a # End /\ outcome # "ok") -> "reading"
      [] a = Boot /\ outcome = "ok" -> "storing"
      [] a = Genesis /\ outcome = "ok" -> "done"

\* The binds that are no request's: kept when made; a genesis record leaves its marker.
NoteSettled(a, outcome, i) ==
    /\ call = a /\ a \in Notes /\ pc[a] = "queued"
    /\ call' = None
    /\ bindChain' = Released(outcome)
    /\ Goto(a, AfterNote(a, outcome))
    /\ marked' = IF a = Genesis /\ outcome = "ok" THEN marked \cup {openEpochId} ELSE marked
    /\ IF outcome = "ok" THEN KeepMade({i}, {}) ELSE UNCHANGED history
    /\ UNCHANGED <<openEpochId, epochStarting, made, floor, asked>>

Settled(outcome, i) ==
    \/ InitSettled(outcome)
    \/ \E r \in Req : FileSettled(r, outcome, i) \/ DropSettled(r, outcome, i)
    \/ \E a \in Notes : NoteSettled(a, outcome, i)

\* Nobody waits for the reply: it goes to a closed socket.
Unheard ==
    UNCHANGED <<call, openEpochId, epochStarting, pc, made, floor, bindChain, files, history>>

-----------------------------------------------------------------------------
(* The enclave serves what reached it, in the order of arrival.            *)

ServeInit ==
    /\ wire # <<>> /\ Head(wire).bind = <<>>
    /\ Sequence!OpenEpoch
    /\ wire' = Tail(wire)
    /\ IF Head(wire).live THEN InitSettled("ok") ELSE Unheard
    /\ UNCHANGED <<up, starts, reads, faults>>

\* Bound and answered; or bound and the reply lost on the way back.
ServeBind ==
    /\ wire # <<>> /\ Head(wire).bind # <<>>
    /\ Place <= MaxBinds
    /\ Sequence!Bind(Head(wire).bind[1], Place)
    /\ wire' = Tail(wire)
    /\ \/ /\ Head(wire).live
          /\ Settled("ok", Place)
          /\ UNCHANGED faults
       \/ /\ Head(wire).live
          /\ Settled("rejected", 0)
          /\ Fault
       \/ /\ ~Head(wire).live
          /\ Unheard
          /\ UNCHANGED faults
    /\ UNCHANGED <<up, starts, reads>>

\* A bind before init is refused; any bind can fail inside the enclave.
RefuseBind ==
    /\ wire # <<>> /\ Head(wire).bind # <<>>
    /\ wire' = Tail(wire)
    /\ IF open THEN Fault ELSE UNCHANGED faults
    /\ IF Head(wire).live THEN Settled("refused", 0) ELSE Unheard
    /\ UNCHANGED <<enclave, up, starts, reads>>

\* 30 s without an answer, or the connection failed: the caller is rejected.  The request
\* never reached the enclave, or stays there and is served later for nobody.
Timeout ==
    /\ call # None
    /\ Fault
    /\ \E i \in DOMAIN wire :
          /\ wire[i].live
          /\ \/ wire' = [wire EXCEPT ![i].live = FALSE]
             \/ wire' = SubSeq(wire, 1, i - 1) \o SubSeq(wire, i + 1, Len(wire))
    /\ Settled("rejected", 0)
    /\ UNCHANGED <<enclave, up, starts, reads>>

\* After a reboot of the enclave the call's connection is gone, and the call is rejected.
CallReset ==
    /\ call # None
    /\ \A i \in DOMAIN wire : ~wire[i].live
    /\ Settled("rejected", 0)
    /\ UNCHANGED <<enclave, up, wire, starts, reads, faults>>

-----------------------------------------------------------------------------
(* The asynchronous loops: a block is read, or the genesis file is there.  *)

ReadBlock(a) ==
    /\ a \in {Boot, Reader, Genesis}
    /\ pc[a] = "reading"
    /\ a = Reader => reads < MaxReads
    /\ reads' = IF a = Reader THEN reads + 1 ELSE reads
    /\ Goto(a, "queued")
    /\ bindChain' = Enqueue(a, bindChain)
    /\ UNCHANGED <<enclave, up, openEpochId, epochStarting, made, floor, call, wire, files,
                   history, starts, faults>>

\* 90 s without a first record: the epoch serves without one.
GiveUpFirst ==
    /\ pc[Boot] = "reading"
    /\ Fault
    /\ epochStarting' = FALSE
    /\ Goto(Boot, "done")
    /\ UNCHANGED <<enclave, up, openEpochId, made, floor, bindChain, call, wire, files,
                   history, starts, reads>>

\* The first record's file is stored beside the proofs, or that failed: /commit opens.
FirstStored ==
    /\ pc[Boot] = "storing"
    /\ epochStarting' = FALSE
    /\ Goto(Boot, "done")
    /\ UNCHANGED <<enclave, up, openEpochId, made, floor, bindChain, call, wire, files,
                   history, starts, reads, faults>>

\* SIGTERM: no new connection; with a close request for the open epoch, the closing note
\* queues behind the binds under way.  The timeline's pollers go on.
Stop(closeAsked) ==
    /\ up = "serving"
    /\ up' = "stopping"
    /\ IF closeAsked /\ openEpochId # 0
       THEN Goto(End, "queued") /\ bindChain' = Enqueue(End, bindChain)
       ELSE Goto(End, "done") /\ UNCHANGED bindChain
    /\ UNCHANGED <<enclave, openEpochId, epochStarting, made, floor, call, wire, files,
                   history, starts, reads, faults>>

\* The process is gone, with everything in its memory; the enclave serves on.
Gone ==
    /\ up' = "down"
    /\ openEpochId' = 0
    /\ epochStarting' = FALSE
    /\ pc' = [a \in Actor |-> IF a \in Req /\ pc[a] # "idle" THEN "done" ELSE "idle"]
    /\ made' = [r \in Req |-> {}]
    /\ floor' = [r \in Req |-> 0]
    /\ bindChain' = <<>>
    /\ call' = None
    /\ wire' = [i \in DOMAIN wire |-> [wire[i] EXCEPT !.live = FALSE]]
    /\ UNCHANGED <<enclave, files, history, starts, reads, faults>>

\* process.exit, 1.5 s after the closing note is settled.
Exit == up = "stopping" /\ pc[End] = "done" /\ Gone

Crash == up # "down" /\ starts < MaxStarts /\ Gone

\* Bug: a restarted enclave binds without an init.
RebootOpen ==
    /\ epoch < MaxEpochs
    /\ epoch' = epoch + 1 /\ counter' = 0 /\ last' = 0
    /\ wire' = <<>>
    /\ UNCHANGED <<open, ledger, up, openEpochId, epochStarting, pc, made, floor, bindChain, call,
                   files, history, starts, reads, faults>>

\* The enclave restarts: a new epoch, and whatever had reached it is gone.
Reboot ==
    /\ epoch < MaxEpochs
    /\ Sequence!NewEpoch
    /\ wire' = <<>>
    /\ UNCHANGED <<up, openEpochId, epochStarting, pc, made, floor, bindChain, call, files,
                   history, starts, reads, faults>>

-----------------------------------------------------------------------------
\* What the enclave and the socket do with the calls that reached the enclave.
Serve == ServeInit \/ ServeBind \/ RefuseBind \/ CallReset

\* What the event loop runs for one actor once it can run.
Progress(a) ==
    \/ a \in Req /\ (Body(a) \/ StartJob(a))
    \/ Send(a)
    \/ ReadBlock(a)
    \/ a = Boot /\ FirstStored
    \/ a = End /\ Exit

Next ==
    \/ Listen
    \/ \E r \in Req : Arrive(r)
    \/ \E a \in Actor : Progress(a)
    \/ Serve
    \/ Timeout \/ GiveUpFirst
    \/ \E closeAsked \in BOOLEAN : Stop(closeAsked)
    \/ Crash \/ Reboot

Spec == Init /\ [][Next]_vars

\* Node's event loop starves no callback; a call is served, refused or reset in the end.
Fairness == WF_vars(Serve) /\ \A a \in Actor : WF_vars(Progress(a))

FairSpec == Spec /\ Fairness

-----------------------------------------------------------------------------
(* What the service guarantees.                                            *)

Step == {"idle", "done", "init", "reading", "storing", "readBody", "queued", "sendDrop",
         "sendFile"}

Made == DOMAIN ledger

TypeOK ==
    /\ ledger \in Seq(Sequence!Proof)
    /\ up \in {"down", "serving", "stopping"}
    /\ openEpochId \in 0..epoch /\ epochStarting \in BOOLEAN
    /\ pc \in [Actor -> Step]
    /\ made \in [Req -> SUBSET Made] /\ floor \in [Req -> {0} \cup Made]
    /\ bindChain \in Seq(Actor)
    /\ call \in Actor \cup {None}
    /\ wire \in Seq([of: Actor, bind: Seq(Payload), live: BOOLEAN])
    /\ marked \subseteq asked /\ asked \subseteq 1..epoch
    /\ queueFile \subseteq ceiling /\ ceiling \subseteq kept /\ kept \subseteq Made

Kind(i) == ledger[i].digest.kind

\* "bindExclusive keeps the pair back to back; nothing else is bound between them": a file
\* bound with a floor follows that floor directly, in the same epoch, and its signed prev
\* names it, whatever the pollers, other requests and late calls of a dead process bind.
FloorDirectlyBefore ==
    \A i \in Made :
        LET f == ledger[i].digest.floor
        IN  f # 0 => /\ f = i - 1
                     /\ Kind(f) = "drop"
                     /\ ledger[f].epoch = ledger[i].epoch
                     /\ ledger[i].prev = ledger[f].nonce

\* A record whose file names an epoch is bound in that epoch: the parent's openEpochId may
\* be stale after the enclave restarted, but nothing is bound while it is.
NotesNameTheirEpoch ==
    \A i \in Made : ledger[i].digest.note \in {0, ledger[i].epoch}

\* "Every file bound through /commit is written to Base, whatever the caller sends; block
\* reads and genesis records are not" (keepMade): of what is kept, a line is appended for
\* exactly the files that no anchor service sent, and the queue file has no other line.  It
\* may lack some: an append that fails "costs that record its ceiling, never the commit".
BaseGetsTheFiles ==
    /\ ceiling = {i \in kept : Kind(i) = "file" /\ ledger[i].digest.of \notin Anchors}
    /\ queueFile \subseteq ceiling

\* A request never binds more records than it has digests, however its calls time out and
\* are served late: no digest is bound again for a caller that was answered 500.
NoDigestBoundTwice ==
    \A r \in Req :
        Cardinality({i \in Made : Kind(i) = "file" /\ ledger[i].digest.of = r}) <= Digests[r]

GenesisOf(e) == {i \in Made : Kind(i) = "genesis" /\ ledger[i].epoch = e}

\* The genesis-bound marker is the end of it: once it is written no further genesis record is
\* bound in that epoch, not by a restarted parent, and not by an earlier attempt that timed
\* out and is served late.
GenesisSettled == [][\A e \in marked : GenesisOf(e)' = GenesisOf(e)]_vars

\* Every /commit that is let in is answered or ends with the process, also while the
\* enclave restarts under it and the first record and the pollers keep failing.
EveryCommitEnds == \A r \in Req : pc[r] = "readBody" ~> pc[r] = "done"

\* A stop ends the process, whatever is queued before the closing note.
EveryStopEnds == up = "stopping" ~> up = "down"

-----------------------------------------------------------------------------
(* What the comments of the source say of it, and the code does not keep.  *)

\* "the binds already under way finish, and the closing note is bound as the epoch's last
\* BitGraph" (server.ts:382): nothing follows an epoch's closing note.
EndIsLast ==
    \A i, j \in Made : Kind(i) = "end" /\ ledger[j].epoch = ledger[i].epoch => j <= i

\* "Proofs already made in this request are kept and returned" (server.ts:807): as long as
\* the process runs, a proof leaves its request's list only to be kept.
MadeProofsKept == [][up' # "down" => \A r \in Req : made[r] \subseteq made'[r] \cup kept']_vars
=============================================================================
