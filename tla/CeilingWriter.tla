--------------------------- MODULE CeilingWriter ---------------------------
(***************************************************************************)
(* The Base writer (server/commit-service/src/ceiling: writer.ts,          *)
(* genesis.ts, publish.ts, close.ts, main.ts), with the queue file of      *)
(* parent/ceiling-queue.ts in front of it and the Base chain behind it.    *)
(*                                                                         *)
(* One process runs one tick after another.  A tick reads the queue, sends *)
(* or watches a genesis and a publish transaction, advances the batch in   *)
(* flight or cuts a new one, answers close requests and polls the blocks   *)
(* of the batches that are not final.  Each write to disk is a step here,  *)
(* so that a crash can fall between any two of them; what is in memory     *)
(* only is lost, and the next start reads the files.  Meanwhile the parent *)
(* appends lines and leaves requests, and the chain mines, loses and       *)
(* reorganises.                                                            *)
(*                                                                         *)
(* Left out: floor headers, fees, costs, events, the S3 copies of the      *)
(* sidecars, and how long the writer waits before it replaces a            *)
(* transaction.  A replacement carries the same nonce and payload, so all  *)
(* the sends of a batch are one transaction here, broadcast again.         *)
(***************************************************************************)
EXTENDS Integers, Sequences, FiniteSets, SequencesExt

CONSTANTS Record,     \* the records that may be bound
          EpochOf,    \* the epoch of each; epochs are numbered in the order they run
          Epochs,     \* how many epochs run
          RollRoot,   \* CEILING_ROLL_ROOT
          Budgets,    \* bounds: what may go wrong, the publishes asked for, the steps of finality
          None        \* nothing yet

Epoch == 1..Epochs
Kind == {"genesis", "publish"}

ASSUME RecordAssumption == IsFiniteSet(Record) /\ EpochOf \in [Record -> Epoch]
ASSUME EpochsAssumption == Epochs \in Nat \ {0} /\ RollRoot \in BOOLEAN
ASSUME BudgetsAssumption ==
    Budgets \subseteq [crash: Nat, reorg: Nat, loss: Nat, publish: Nat, settle: Nat]
ASSUME NoneAssumption ==
    /\ None \notin Nat /\ None \notin {"pending", "included", "safe", "finalized"}
    /\ \A S \in SUBSET Record : S # None

VARIABLES budget,       \* how often each may still happen
          current,      \* the epoch the enclave runs
          committed,    \* records bound
          queue,        \* the lines of the queue file
          ask,          \* per kind of request and epoch: the records bound when it was left; None before
          closed,       \* close results written
          cursor, cursorFile,
          backlog, backlogFile,
          lastPayload, lastPayloadFile, \* lastPayloadHash; a payload is named by its batch, 0 is ZERO32
          batches,      \* the batch files, in the order they were made
          sent,         \* per kind and epoch: the nonce in its sent.json; None before
          done,         \* per kind and epoch: its result file is written
          sidecar,      \* per record: the status its sidecar file shows
          flying,       \* per kind: what its pass returned in this tick
          pc,           \* where the tick stands
          at,           \* the batch in hand
          blocks,       \* the canonical Base blocks: the writer's transaction in each, if any, and its fork
          mempool,      \* transactions broadcast and not mined
          safe, final   \* the heights Base calls safe and finalized

parent == <<current, committed, queue, ask>>
files == <<closed, cursorFile, backlogFile, lastPayloadFile, batches, sent, done, sidecar>>
memory == <<cursor, backlog, lastPayload, flying, pc, at>>
base == <<blocks, mempool, safe, final>>
vars == <<budget, parent, files, memory, base>>

\* What a transaction says: a batch's payload, or an epoch's genesis or publish.
Tx == [kind: Kind \cup {"batch"}, of: Nat, nonce: Nat]
NoTx == [kind |-> "empty", of |-> 0, nonce |-> 0]

\* unread is history: the batch was last promoted without its block's hash having been read.
Batch == [items: SUBSET Record, epoch: Epoch, prev: Nat, nonce: Nat,
          state: {"sending", "pending", "included", "safe", "finalized", "dropped"},
          height: Nat, fork: Nat, unread: BOOLEAN]

Spend(what) == budget[what] > 0 /\ budget' = [budget EXCEPT ![what] = @ - 1]

-----------------------------------------------------------------------------
(* The chain.                                                              *)

MinedCount == Cardinality({h \in DOMAIN blocks : blocks[h].tx # NoTx})

\* eth_getTransactionCount at "pending": past the mined ones and the unbroken run in the mempool.
NextNonce ==
    CHOOSE n \in MinedCount..(MinedCount + Cardinality(mempool)) :
        /\ \A t \in mempool : t.nonce # n
        /\ \A k \in MinedCount..(n - 1) : \E t \in mempool : t.nonce = k

Height(tx) == CHOOSE h \in DOMAIN blocks : blocks[h].tx = tx
Mined(tx) == \E h \in DOMAIN blocks : blocks[h].tx = tx

\* Broadcast: in the mempool, unless its nonce is spent ("nonce too low", which is swallowed)
\* or the call fails, which is logged and no more.
Broadcast(tx) ==
    \/ /\ mempool' = IF tx.nonce < MinedCount THEN mempool ELSE mempool \cup {tx}
       /\ UNCHANGED budget
    \/ mempool' = mempool /\ Spend("loss")

Mine ==
    \E tx \in mempool :
        /\ tx.nonce = MinedCount
        /\ blocks' = Append(blocks, [tx |-> tx, fork |-> 0])
        /\ mempool' = {t \in mempool : t.nonce # tx.nonce}
        /\ UNCHANGED <<budget, parent, files, memory, safe, final>>

\* The tip is replaced by a block without the transaction, which waits to be mined again.
Reorg ==
    /\ blocks # <<>> /\ Len(blocks) > safe
    /\ Last(blocks).tx # NoTx
    /\ Spend("reorg")
    /\ blocks' = [blocks EXCEPT ![Len(blocks)] = [tx |-> NoTx, fork |-> 1]]
    /\ mempool' = mempool \cup {Last(blocks).tx}
    /\ UNCHANGED <<parent, files, memory, safe, final>>

Settle ==
    /\ Spend("settle")
    /\ \/ safe < Len(blocks) /\ safe' = Len(blocks) /\ final' = final
       \/ final < safe /\ final' = safe /\ safe' = safe
    /\ UNCHANGED <<parent, files, memory, blocks, mempool>>

-----------------------------------------------------------------------------
(* The parent and the nightly rotation.                                    *)

\* A record is bound, and enqueueCeiling stamps it.
Commit(r) ==
    /\ EpochOf[r] = current
    /\ r \notin committed
    /\ committed' = committed \cup {r}
    /\ UNCHANGED <<budget, current, queue, ask, files, memory, base>>

\* The append is fire and forget: the line may come long after, or never.
Enqueue(r) ==
    /\ r \in committed \ Range(queue)
    /\ queue' = Append(queue, r)
    /\ UNCHANGED <<budget, current, committed, ask, files, memory, base>>

\* A request file's time is known by the records bound before it was left.
Left(kind, e) == ask' = [ask EXCEPT ![kind][e] = committed]

\* The rotation asks for the running epoch to be closed.
AskClose ==
    /\ ask["close"][current] = None
    /\ Left("close", current)
    /\ UNCHANGED <<budget, current, committed, queue, files, memory, base>>

\* The parent bound the closing note, which it does for an epoch with a close request.
AskPublish ==
    /\ ask["close"][current] # None /\ ask["publish"][current] = None
    /\ Spend("publish")
    /\ Left("publish", current)
    /\ UNCHANGED <<current, committed, queue, files, memory, base>>

\* The enclave restarts: the parent asks for the new epoch's genesis.
NextEpoch ==
    /\ current < Epochs
    /\ current' = current + 1
    /\ Left("genesis", current')
    /\ UNCHANGED <<budget, committed, queue, files, memory, base>>

-----------------------------------------------------------------------------
(* The writer.                                                             *)

Live(b) == batches[b].state # "dropped"
Active == {b \in DOMAIN batches : batches[b].state \in {"sending", "pending"}}
Anchored == UNION {batches[b].items : b \in {c \in DOMAIN batches : Live(c)}}
BatchTx(b) == [kind |-> "batch", of |-> b, nonce |-> batches[b].nonce]
AskTx(kind, e) == [kind |-> kind, of |-> e, nonce |-> sent[kind][e]]

Goto(step) == pc' = step

\* The elements of s that are not in S, in their order.
Without(s, S) ==
    LET kept[i \in 0..Len(s)] ==
            IF i = 0 THEN <<>>
            ELSE IF s[i] \in S THEN kept[i - 1] ELSE Append(kept[i - 1], s[i])
    IN  kept[Len(s)]

\* ingest: whole lines not read yet, without those queued or anchored already.
NewLines == Without(SubSeq(queue, cursor + 1, Len(queue)), Range(backlog) \cup Anchored)

\* Bug: the cursor moves past the partial line at the end of the file.
IngestTail ==
    /\ pc = "ingest"
    /\ cursor <= Len(queue)
    /\ backlog' = backlog \o NewLines
    /\ backlogFile' = backlog'
    /\ cursor' = Len(queue) + 1
    /\ Goto("saveCursor")
    /\ UNCHANGED <<budget, parent, closed, cursorFile, lastPayload, lastPayloadFile, batches, sent,
                   done, sidecar, flying, at, base>>

\* Bug: cursor first, backlog second.
IngestCursorFirst ==
    /\ pc = "ingest"
    /\ backlog' = backlog \o NewLines
    /\ cursor' = Len(queue)
    /\ cursorFile' = cursor'
    /\ Goto("saveCursor")
    /\ UNCHANGED <<budget, parent, closed, backlogFile, lastPayload, lastPayloadFile, batches, sent,
                   done, sidecar, flying, at, base>>

Ingest ==
    /\ pc = "ingest"
    /\ IF cursor < Len(queue)
       THEN /\ backlog' = backlog \o NewLines
            /\ backlogFile' = backlog'
            /\ cursor' = Len(queue)
            /\ Goto("saveCursor")
       ELSE Goto("genesis") /\ UNCHANGED <<backlog, backlogFile, cursor>>
    /\ UNCHANGED <<budget, parent, closed, cursorFile, lastPayload, lastPayloadFile, batches, sent,
                   done, sidecar, flying, at, base>>

SaveCursor ==
    /\ pc = "saveCursor"
    /\ cursorFile' = cursor
    /\ Goto("genesis")
    /\ UNCHANGED <<budget, parent, closed, cursor, backlog, backlogFile, lastPayload,
                   lastPayloadFile, batches, sent, done, sidecar, flying, at, base>>

Unanswered(kind) == {e \in Epoch : ask[kind][e] # None /\ ~done[kind][e]}

\* The request whose turn it is, if there is one: the oldest without a result.
Oldest(kind) == {e \in Unanswered(kind) : \A f \in Unanswered(kind) : e <= f}

\* Its transaction was sent, and is watched.
Watched(kind) == {e \in Oldest(kind) : sent[kind][e] # None}

\* Bug: a batch in flight is not looked at.
CanSendAlways(kind) == kind = "publish" => ~flying["genesis"] /\ Unanswered("genesis") = {}

\* GenesisWriter and PublishWriter may send while no batch flies; a publish also gives way to
\* every genesis that is not mined.
CanSend(kind) ==
    /\ Active = {}
    /\ kind = "publish" => ~flying["genesis"] /\ Unanswered("genesis") = {}

AfterPass(kind) == IF kind = "genesis" THEN "publish" ELSE "batch"

Returns(kind, inFlight) ==
    /\ flying' = [flying EXCEPT ![kind] = inFlight]
    /\ Goto(AfterPass(kind))

\* pass: nothing is asked for, or it cannot be sent now.
PassIdle(kind) ==
    /\ pc = kind
    /\ \A e \in Oldest(kind) : sent[kind][e] = None /\ ~CanSend(kind)
    /\ Returns(kind, FALSE)
    /\ UNCHANGED <<budget, parent, files, cursor, backlog, lastPayload, at, base>>

\* pass: the oldest request's transaction is signed, and its bytes are saved before they leave.
PassSign(kind) ==
    /\ pc = kind
    /\ CanSend(kind)
    /\ \E e \in Oldest(kind) \ Watched(kind) : sent' = [sent EXCEPT ![kind][e] = NextNonce]
    /\ Goto(IF kind = "genesis" THEN "sendGenesis" ELSE "sendPublish")
    /\ UNCHANGED <<budget, parent, closed, cursor, cursorFile, backlog, backlogFile, lastPayload,
                   lastPayloadFile, batches, done, sidecar, flying, at, base>>

PassSend(kind) ==
    /\ pc = IF kind = "genesis" THEN "sendGenesis" ELSE "sendPublish"
    /\ \E e \in Oldest(kind) : Broadcast(AskTx(kind, e))
    /\ Returns(kind, TRUE)
    /\ UNCHANGED <<parent, files, cursor, backlog, lastPayload, at, blocks, safe, final>>

\* pass: the transaction is mined, and the result is written, once.
PassMined(kind) ==
    /\ pc = kind
    /\ \E e \in Watched(kind) :
          /\ Mined(AskTx(kind, e))
          /\ done' = [done EXCEPT ![kind][e] = TRUE]
    /\ Returns(kind, FALSE)
    /\ UNCHANGED <<budget, parent, closed, cursor, cursorFile, backlog, backlogFile, lastPayload,
                   lastPayloadFile, batches, sent, sidecar, at, base>>

\* pass: it is waited for.
PassWait(kind) ==
    /\ pc = kind
    /\ \E e \in Watched(kind) : ~Mined(AskTx(kind, e))
    /\ Returns(kind, TRUE)
    /\ UNCHANGED <<budget, parent, files, cursor, backlog, lastPayload, at, base>>

\* Bug: the replacement is signed and saved, and never sent.
PassReplaceUnsent(kind) ==
    /\ pc = kind
    /\ \E e \in Watched(kind) : ~Mined(AskTx(kind, e))
    /\ Returns(kind, TRUE)
    /\ UNCHANGED <<budget, parent, files, cursor, backlog, lastPayload, at, base>>

\* pass: it has waited long enough, and is replaced at the same nonce.
PassReplace(kind) ==
    /\ pc = kind
    /\ \E e \in Watched(kind) : ~Mined(AskTx(kind, e)) /\ Broadcast(AskTx(kind, e))
    /\ Returns(kind, TRUE)
    /\ UNCHANGED <<parent, files, cursor, backlog, lastPayload, at, blocks, safe, final>>

\* closedGroup: the first group whose close was asked for after its newest queued record was
\* bound; else the first one with a later genesis mined that was asked for after it.
Group(e) == {r \in Range(backlog) : EpochOf[r] = e}
Groups == {EpochOf[r] : r \in Range(backlog)}
First(e) == CHOOSE i \in DOMAIN backlog :
                EpochOf[backlog[i]] = e /\ \A j \in 1..(i - 1) : EpochOf[backlog[j]] # e
AskedClosed(e) == ask["close"][e] # None /\ Group(e) \subseteq ask["close"][e]
Superseded(e) ==
    \E m \in Epoch \ {e} : done["genesis"][m] /\ Group(e) \subseteq ask["genesis"][m]
\* Bug: a roll is closed on request only.
ClosedGroupOnRequest == {e \in Groups : AskedClosed(e)}

ClosedGroup ==
    LET closing == {e \in Groups : AskedClosed(e)}
        over == {e \in Groups : Superseded(e)}
    IN  IF closing # {} THEN closing ELSE over

\* The group to cut: in roll mode a closed one, otherwise that of the first queued record.
Due == IF RollRoot THEN ClosedGroup ELSE Groups
CutNow ==
    /\ Active = {} /\ ~flying["genesis"] /\ ~flying["publish"]
    /\ Due # {}
NextGroup == CHOOSE e \in Due : \A f \in Due : First(e) <= First(f)

\* startBatch: the signed transaction is saved first.
Cut ==
    /\ pc = "batch"
    /\ CutNow
    /\ batches' = Append(batches,
          [items |-> Group(NextGroup), epoch |-> NextGroup, prev |-> lastPayload,
           nonce |-> NextNonce, state |-> "sending", height |-> 0, fork |-> 0, unread |-> FALSE])
    /\ at' = Len(batches')
    /\ Goto("takeItems")
    /\ UNCHANGED <<budget, parent, closed, cursor, cursorFile, backlog, backlogFile, lastPayload,
                   lastPayloadFile, sent, done, sidecar, flying, base>>

TakeItems ==
    /\ pc = "takeItems"
    /\ backlog' = Without(backlog, batches[at].items)
    /\ backlogFile' = backlog'
    /\ Goto("saveChain")
    /\ UNCHANGED <<budget, parent, closed, cursor, cursorFile, lastPayload, lastPayloadFile,
                   batches, sent, done, sidecar, flying, at, base>>

SaveChain ==
    /\ pc = "saveChain"
    /\ lastPayload' = at
    /\ lastPayloadFile' = at
    /\ Goto("sidecars")
    /\ UNCHANGED <<budget, parent, closed, cursor, cursorFile, backlog, backlogFile, batches, sent,
                   done, sidecar, flying, at, base>>

\* Bug: the sidecars of a batch that was dropped keep its block.
StatusKept(b) == IF batches[b].state \in {"sending", "pending"} THEN "pending"
                 ELSE IF batches[b].state = "dropped" THEN "included"
                 ELSE batches[b].state

\* What a batch's sidecars show: a batch that is not on the chain is pending.
Status(b) == IF batches[b].state \in {"sending", "pending", "dropped"} THEN "pending"
                                                                    ELSE batches[b].state

\* The sidecars of the batch in hand, and on with the tick: its broadcast, or the next part.
WriteSidecars ==
    /\ pc = "sidecars"
    /\ sidecar' = [r \in Record |-> IF r \in batches[at].items THEN Status(at) ELSE sidecar[r]]
    /\ Goto(CASE batches[at].state = "sending" -> "send"
              [] batches[at].state = "included" -> "closes"
              [] OTHER -> "poll")
    /\ UNCHANGED <<budget, parent, closed, cursor, cursorFile, backlog, backlogFile, lastPayload,
                   lastPayloadFile, batches, sent, done, flying, at, base>>

\* send, for a new batch or one found "sending" after a restart.
Send ==
    /\ \/ pc = "send"
       \/ pc = "batch" /\ \E b \in Active : batches[b].state = "sending"
    /\ at' = CHOOSE b \in Active : TRUE
    /\ Broadcast(BatchTx(at'))
    /\ Goto("markPending")
    /\ UNCHANGED <<parent, files, cursor, backlog, lastPayload, flying, blocks, safe, final>>

MarkPending ==
    /\ pc = "markPending"
    /\ batches' = [batches EXCEPT ![at].state = "pending"]
    /\ Goto("closes")
    /\ UNCHANGED <<budget, parent, closed, cursor, cursorFile, backlog, backlogFile, lastPayload,
                   lastPayloadFile, sent, done, sidecar, flying, at, base>>

Pending == {b \in DOMAIN batches : batches[b].state = "pending"}

\* advance and included: the batch's transaction is mined.
Include ==
    /\ pc = "batch"
    /\ \E b \in Pending :
          /\ Mined(BatchTx(b))
          /\ batches' = LET h == Height(BatchTx(b))
                        IN  [batches EXCEPT ![b].state = "included", ![b].height = h,
                                            ![b].fork = blocks[h].fork]
          /\ at' = b
    /\ Goto("sidecars")
    /\ UNCHANGED <<budget, parent, closed, cursor, cursorFile, backlog, backlogFile, lastPayload,
                   lastPayloadFile, sent, done, sidecar, flying, base>>

\* advance: it is waited for.
Wait ==
    /\ pc = "batch"
    /\ \E b \in Pending : ~Mined(BatchTx(b))
    /\ Goto("closes")
    /\ UNCHANGED <<budget, parent, files, cursor, backlog, lastPayload, flying, at, base>>

\* Bug: the replacement takes a nonce of its own.
ReplaceFreshNonce ==
    /\ pc = "batch"
    /\ \E b \in Pending : ~Mined(BatchTx(b)) /\ Broadcast([BatchTx(b) EXCEPT !.nonce = NextNonce])
    /\ Goto("closes")
    /\ UNCHANGED <<parent, files, cursor, backlog, lastPayload, flying, at, blocks, safe, final>>

\* advance: it has waited long enough, and is replaced at the same nonce.
Replace ==
    /\ pc = "batch"
    /\ \E b \in Pending : ~Mined(BatchTx(b)) /\ Broadcast(BatchTx(b))
    /\ Goto("closes")
    /\ UNCHANGED <<parent, files, cursor, backlog, lastPayload, flying, at, blocks, safe, final>>

\* No batch to advance and none to cut.
NoBatch ==
    /\ pc = "batch"
    /\ Active = {} /\ ~CutNow
    /\ Goto("closes")
    /\ UNCHANGED <<budget, parent, files, cursor, backlog, lastPayload, flying, at, base>>

\* Bug: a write that is still in flight counts.
AnswerableInFlight(e) == ask["close"][e] # None /\ Group(e) = {}

\* answerCloses: nothing of the epoch is queued, and all its writes are on the chain.
Answerable(e) ==
    /\ ask["close"][e] # None
    /\ Group(e) = {}
    /\ \A b \in DOMAIN batches :
          batches[b].epoch = e /\ Live(b) => batches[b].height # 0

AnswerCloses ==
    /\ pc = "closes"
    /\ closed' = closed \cup {e \in Epoch : Answerable(e)}
    /\ Goto("poll")
    /\ UNCHANGED <<budget, parent, cursor, cursorFile, backlog, backlogFile, lastPayload,
                   lastPayloadFile, batches, sent, done, sidecar, flying, at, base>>

Open == {b \in DOMAIN batches : batches[b].state \in {"included", "safe"}}
\* Bug: whatever hash is read, it is not compared with the batch's.
ComparedAssumed(b, seen) == seen = "ours" /\ UNCHANGED budget

\* blockHashAt, compared: the block at the batch's height is its own, or another; or the node
\* answered null, as one does that has no block there.  That is a lost call which throws nothing.
Compared(b, seen) ==
    \/ /\ seen = IF blocks[batches[b].height].fork = batches[b].fork THEN "ours" ELSE "other"
       /\ UNCHANGED budget
    \/ seen = "null" /\ Spend("loss")

Reached(b) == IF batches[b].height <= final THEN "finalized"
              ELSE IF batches[b].height <= safe THEN "safe"
              ELSE batches[b].state

\* pollStatus for one batch whose block was not seen to be another: its state follows the
\* chain's.  A null is not compared with anything, and promotes as well.
Promote ==
    /\ pc = "poll"
    /\ \E b \in Open, seen \in {"ours", "null"} :
          /\ Compared(b, seen)
          /\ Reached(b) # batches[b].state
          /\ batches' = [batches EXCEPT ![b].state = Reached(b), ![b].unread = (seen = "null")]
          /\ at' = b
    /\ Goto("sidecars")
    /\ UNCHANGED <<parent, closed, cursor, cursorFile, backlog, backlogFile, lastPayload,
                   lastPayloadFile, sent, done, sidecar, flying, base>>

\* reorged: the batch is dropped, and its records go back to the front of the queue.
Drop ==
    /\ pc = "poll"
    /\ \E b \in Open :
          /\ Compared(b, "other")
          /\ batches[b].state = "included"
          /\ batches' = [batches EXCEPT ![b].state = "dropped"]
          /\ at' = b
    /\ Goto("requeue")
    /\ UNCHANGED <<parent, closed, cursor, cursorFile, backlog, backlogFile, lastPayload,
                   lastPayloadFile, sent, done, sidecar, flying, base>>

Requeue ==
    /\ pc = "requeue"
    /\ backlog' = SetToSeq(batches[at].items) \o Without(backlog, batches[at].items)
    /\ backlogFile' = backlog'
    /\ Goto("sidecars")
    /\ UNCHANGED <<budget, parent, closed, cursor, cursorFile, lastPayload, lastPayloadFile,
                   batches, sent, done, sidecar, flying, at, base>>

\* The tick is over, and its local variables with it.
TickOver ==
    /\ flying' = [k \in Kind |-> FALSE]
    /\ at' = 0
    /\ Goto("ingest")

PollDone ==
    /\ pc = "poll"
    /\ TickOver
    /\ UNCHANGED <<budget, parent, files, cursor, backlog, lastPayload, base>>

\* An RPC call throws: the loop catches it, and the rest of the tick is skipped.
TickError ==
    /\ pc \in {"genesis", "publish", "batch", "poll"}
    /\ Spend("loss")
    /\ TickOver
    /\ UNCHANGED <<parent, files, cursor, backlog, lastPayload, base>>

\* The process ends anywhere, and the next one loads the files.
Restart ==
    /\ Spend("crash")
    /\ cursor' = cursorFile
    /\ backlog' = backlogFile
    /\ lastPayload' = lastPayloadFile
    /\ TickOver
    /\ UNCHANGED <<parent, files, base>>

-----------------------------------------------------------------------------
Init ==
    /\ budget \in Budgets
    /\ current = 1
    /\ committed = {}
    /\ queue = <<>>
    /\ ask = [k \in Kind \cup {"close"} |->
                 [e \in Epoch |-> IF k = "genesis" /\ e = 1 THEN {} ELSE None]]
    /\ closed = {}
    /\ cursor = 0 /\ cursorFile = 0
    /\ backlog = <<>> /\ backlogFile = <<>>
    /\ lastPayload = 0 /\ lastPayloadFile = 0
    /\ batches = <<>>
    /\ sent = [k \in Kind |-> [e \in Epoch |-> None]]
    /\ done = [k \in Kind |-> [e \in Epoch |-> FALSE]]
    /\ sidecar = [r \in Record |-> None]
    /\ flying = [k \in Kind |-> FALSE]
    /\ pc = "ingest"
    /\ at = 0
    /\ blocks = <<>>
    /\ mempool = {}
    /\ safe = 0 /\ final = 0

TickStep ==
    \/ Ingest \/ SaveCursor
    \/ \E k \in Kind : PassIdle(k) \/ PassSign(k) \/ PassSend(k)
    \/ \E k \in Kind : PassMined(k) \/ PassWait(k) \/ PassReplace(k)
    \/ Cut \/ TakeItems \/ SaveChain \/ WriteSidecars \/ Send \/ MarkPending
    \/ Include \/ Wait \/ Replace \/ NoBatch
    \/ AnswerCloses
    \/ Promote \/ Drop \/ Requeue \/ PollDone

ParentStep ==
    \/ \E r \in Record : Commit(r) \/ Enqueue(r)
    \/ AskClose \/ AskPublish \/ NextEpoch

Next == TickStep \/ TickError \/ Restart \/ ParentStep \/ Mine \/ Reorg \/ Settle

Spec == Init /\ [][Next]_vars

\* The loop of main.ts goes on and Base mines what it can.  A transaction that stays unmined
\* is replaced once replaceAfterBlocks blocks have passed, and the status poll comes round.
Fairness ==
    /\ WF_vars(TickStep) /\ WF_vars(Mine)
    /\ SF_vars(Replace) /\ \A k \in Kind : SF_vars(PassReplace(k))
    /\ SF_vars(Drop)

FairSpec == Spec /\ Fairness

-----------------------------------------------------------------------------
(* What the writer guarantees.                                             *)

TypeOK ==
    /\ budget \in [crash: Nat, reorg: Nat, loss: Nat, publish: Nat, settle: Nat]
    /\ current \in Epoch
    /\ committed \subseteq Record /\ queue \in Seq(committed)
    /\ ask \in [Kind \cup {"close"} -> [Epoch -> {None} \cup SUBSET Record]]
    /\ closed \subseteq Epoch
    /\ {cursor, cursorFile} \subseteq 0..Len(queue)
    /\ {backlog, backlogFile} \subseteq Seq(committed)
    /\ {lastPayload, lastPayloadFile, at} \subseteq 0..Len(batches)
    /\ batches \in Seq(Batch)
    /\ sent \in [Kind -> [Epoch -> {None} \cup Nat]] /\ done \in [Kind -> [Epoch -> BOOLEAN]]
    /\ sidecar \in [Record -> {None, "pending", "included", "safe", "finalized"}]
    /\ flying \in [Kind -> BOOLEAN]
    /\ blocks \in Seq([tx: Tx \cup {NoTx}, fork: {0, 1}]) /\ mempool \in SUBSET Tx
    /\ final <= safe /\ safe <= Len(blocks)

\* "so no record is left without a root" (writer.ts, header): whatever the on-disk cursor has
\* passed is on disk in the backlog, or in a batch that stands, at every point where the
\* process may end except between the two writes of reorged().
NoRecordLost ==
    pc # "requeue" =>
        \A i \in 1..cursorFile : queue[i] \in Range(backlogFile) \cup Anchored

\* "a batch file holds its signed transaction BEFORE broadcast, so a restart rebroadcasts the
\* same bytes instead of minting a second nonce": every transaction that ever left, mined or
\* not, is the one its batch file or sent.json holds.
SignedBytesKept ==
    \A tx \in mempool \cup ({blocks[h].tx : h \in DOMAIN blocks} \ {NoTx}) :
        IF tx.kind = "batch" THEN tx.of \in DOMAIN batches /\ tx.nonce = batches[tx.of].nonce
                             ELSE tx.nonce = sent[tx.kind][tx.of]

\* "A genesis transaction and a ceiling batch never fly together": while a batch is in flight
\* no genesis and no publish is, also across restarts between signing and sending.
BatchFliesAlone ==
    Active # {} => Cardinality(Active) = 1 /\ \A k \in Kind : Watched(k) = {}

\* A batch the writer calls safe or finalized is in the canonical chain at the height it was
\* found at, if the poll that promoted it read the hash of its block.  A null answer promotes
\* without a comparison (writer.ts:571), and a batch promoted so (unread) may be in a block
\* that was replaced; such a batch is never queued again.
FinalIsCanonical ==
    \A b \in DOMAIN batches :
        batches[b].state \in {"safe", "finalized"} /\ ~batches[b].unread =>
            blocks[batches[b].height] = [tx |-> BatchTx(b), fork |-> batches[b].fork]

\* r is in a batch that stands and was found in a block.
Found(r) == \E b \in DOMAIN batches : r \in batches[b].items /\ Live(b) /\ batches[b].height # 0

\* A sidecar shows a block only while a batch that stands has one for its record: "their
\* sidecars say pending again" after a reorg, provided the process did not end inside
\* reorged(), whose writes nobody finishes after a restart.
SidecarBacked ==
    pc \notin {"requeue", "sidecars"} =>
        \A r \in Record : sidecar[r] \in {"included", "safe", "finalized"} => Found(r)

\* A transaction anybody can see: in a block, or waiting for one.
Public(tx) == Mined(tx) \/ tx \in mempool

\* When a close is answered, every record of its epoch that was read from the queue is in a
\* batch that was found in a block and stands, and that batch's transaction is in a block
\* still; or the block was replaced since the last poll, and the transaction waits to be mined
\* again, never pushed out by another one of its nonce: "should Base later replace that
\* block, the root is written again".  A crash inside reorged(), which loses records
\* (NoRecordLost), is excepted.
ClosedIsWritten ==
    [][\A e \in closed' \ closed : \A i \in 1..cursor :
          EpochOf[queue[i]] = e =>
              \E b \in DOMAIN batches :
                  /\ queue[i] \in batches[b].items /\ Live(b) /\ batches[b].height # 0
                  /\ Public(BatchTx(b))]_vars

\* A genesis or a publish that waits for ever: a transaction of the same nonce was mined in
\* its place (NonceSingleFile), and what replaces it has that nonce too.
Outrun == \E k \in Kind : \E e \in Watched(k) : sent[k][e] < MinedCount /\ ~Mined(AskTx(k, e))

\* A genesis that was asked for is mined and reported, though the writer ends between saving
\* and sending it, or the chain drops its block; unless for good some transaction is outrun.
GenesisLands == \A e \in Epoch : ask["genesis"][e] # None ~> done["genesis"][e] \/ []Outrun

\* No more is needed for r's root: not in roll mode, or a later epoch's genesis is mined.
Writable(r) == ~RollRoot \/ \E e \in Epoch : e > EpochOf[r] /\ done["genesis"][e]

\* r is in a batch that stands and whose transaction is in a block.
OnChain(r) ==
    \E b \in DOMAIN batches :
        r \in batches[b].items /\ Live(b) /\ batches[b].height # 0 /\ Mined(BatchTx(b))

\* r was read and is nowhere any more: the process ended inside reorged() (NoRecordLost).
Lost(r) == r \in {queue[i] : i \in 1..cursorFile} \ (Range(backlogFile) \cup Anchored)

\* "A roll nobody asked to close is closed once the genesis transaction of a later epoch is
\* mined, so no record is left without a root": every record that reached the queue comes to
\* have a root on the chain for good, through crashes, lost broadcasts and reorgs; unless a
\* crash inside reorged() lost it, or an outrun genesis or publish keeps every batch waiting.
RecordLands ==
    \A r \in Record :
        r \in Range(queue) /\ Writable(r) ~> [](OnChain(r) \/ Lost(r) \/ Outrun)

-----------------------------------------------------------------------------
(* What a comment of the source says, and the code does not keep.          *)

\* Transactions signed, not mined and still wanted.
InFlight == {BatchTx(b) : b \in Active}
                \cup UNION {{AskTx(k, e) : e \in Watched(k)} : k \in Kind}

\* "One publish is in flight at a time, never alongside a genesis or a ceiling batch, so the
\* writer's nonce sequence stays single-file" (publish.ts:19): no two of them share a nonce.
NonceSingleFile == \A t, u \in InFlight : t.nonce = u.nonce => t = u
=============================================================================
