------------------------------ MODULE Timeline ------------------------------
(***************************************************************************)
(* The block timeline of the parent: the poller of one chain               *)
(* (timeline-poller.ts) over two cross-checked providers                   *)
(* (chain-sources.ts), the journal every record goes into and its upload   *)
(* (timeline-journal.ts), and the reading back of records                  *)
(* (timeline-records.ts).                                                  *)
(*                                                                         *)
(* A block is its whole ancestry: the sequence of branches taken from the  *)
(* genesis, so Len is its number and Front its parent.  The process is     *)
(* single-threaded: what runs between two awaits is one step here, and a   *)
(* crash in the middle of such a run is a step of its own (CrashInBind).   *)
(***************************************************************************)
EXTENDS Naturals, FiniteSets, Sequences, SequencesExt

CONSTANTS KeepRecent,   \* bound hashes remembered, and the depth of a reorg
          Span,         \* counts on each side that a bundle reads
          Slack,        \* how far before the window the listing starts
          MaxHeight,    \* bound: blocks of the chain
          MaxReorgs,    \* bound: reorgs
          MaxFaults,    \* bound: crashes, failed binds and puts, lagging answers
          Worlds        \* which bounds a behaviour runs under, and whether
                        \* LEDGER_BUCKET is set (World)

World == [height : 1..MaxHeight, reorgs : 0..MaxReorgs, faults : 0..MaxFaults,
          files : Nat, reads : 0..1, bucket : BOOLEAN]

ASSUME TimelineAssumption ==
    /\ {MaxHeight, MaxReorgs, MaxFaults, Span, Slack} \subseteq Nat
    /\ KeepRecent \in Nat \ {0}
    /\ Worlds \subseteq World

VARIABLES world,        \* the bounds of this behaviour; never changes
          chain,        \* the newest block of the chain
          views,        \* per provider, the newest block it knows
          reorgs,       \* reorgs so far
          cursor,       \* the cursor file
          poll,         \* the poller: where it is, the pass's head, the block at hand
          enclave,      \* its epoch and the counts taken in it
          pending,      \* pending.jsonl, a sequence of lines
          batches,      \* the batch files, oldest first
          upload,       \* the flush under way: the epochs of the first batch put
          bucket,       \* the uploaded objects
          reader,       \* a bundle being read
          appended,     \* history: the records whose append returned
          glued,        \* history: those of them appended behind a torn line
          start,        \* history: the number of the first block the cursor held, or 0
          files, faults \* files and faults so far

chainVars == <<chain, views, reorgs, world>>
journalVars == <<pending, batches, upload, bucket>>
vars == <<chainVars, cursor, poll, enclave, journalVars, reader, appended, glued, start, files, faults>>

-----------------------------------------------------------------------------
Blocks == UNION {[1..n -> 0..MaxReorgs] : n \in 0..MaxHeight}
NoBlock == <<MaxReorgs + 1>>   \* no block: no branch has this number
NoCursor == [block |-> NoBlock, recent |-> <<>>]
Idle == [pc |-> "idle", head |-> NoBlock, block |-> NoBlock, i |-> 0]
Resting == [on |-> FALSE, put |-> {}]
NoReader == [pc |-> "idle"]

\* A record: its position, and the block it binds (NoBlock for a file).
Records == [epoch : Nat, count : Nat, block : Blocks \cup {NoBlock}]
\* A line of the journal: a record; a line cut short; an unreadable whole line.
Torn == [line |-> "torn"]
Junk == [line |-> "junk"]
Lines == Records \cup {Torn, Junk}

TypeOK ==
    /\ chain \in Blocks /\ views \in [1..2 -> Blocks] /\ reorgs \in 0..MaxReorgs
    /\ world \in Worlds
    /\ cursor.block \in Blocks \cup {NoBlock}
    /\ cursor.recent \in Seq(Blocks) /\ Len(cursor.recent) <= KeepRecent
    /\ poll.pc \in {"idle", "next", "bind", "rewind"}
    /\ poll.head \in Blocks \cup {NoBlock} /\ poll.block \in Blocks \cup {NoBlock}
    /\ poll.i \in 0..KeepRecent
    /\ pending \in Seq(Lines) /\ batches \in Seq(Seq(Lines))
    /\ upload.on \in BOOLEAN
    /\ \A o \in bucket : o.lines \subseteq Records
    /\ appended \subseteq Records /\ glued \subseteq appended
    /\ start \in 0..MaxHeight /\ files \in 0..world.files /\ faults \in 0..world.faults

Init ==
    /\ world \in Worlds
    /\ chain = <<0>> /\ views = [p \in 1..2 |-> <<0>>] /\ reorgs = 0
    /\ cursor = NoCursor
    /\ poll = Idle
    /\ enclave = [epoch |-> 1, count |-> 0]
    /\ pending = <<>> /\ batches = <<>> /\ upload = Resting /\ bucket = {}
    /\ reader = NoReader
    /\ appended = {} /\ glued = {} /\ start = 0
    /\ files = 0 /\ faults = 0

Fault == faults < world.faults /\ faults' = faults + 1

(***************************************************************************)
(* The chain, and what the providers answer.                               *)
(***************************************************************************)
Prefix(b, n) == SubSeq(b, 1, n)

Extend ==
    /\ Len(chain) < world.height
    /\ chain' = Append(chain, reorgs)
    /\ UNCHANGED <<views, reorgs, world>>

\* The newest blocks after number n are replaced by at least as many.
Reorg(n) ==
    /\ reorgs < world.reorgs /\ n < Len(chain) /\ n + KeepRecent >= Len(chain)
    /\ reorgs' = reorgs + 1
    /\ \E len \in Len(chain)..world.height :
         /\ len <= Len(chain) + 1
         /\ chain' = Prefix(chain, n) \o [k \in 1..(len - n) |-> reorgs + 1]
    /\ UNCHANGED <<views, world>>

\* A provider catches up.
Answer(p) ==
    /\ views[p] # chain
    /\ views' = [views EXCEPT ![p] = chain]
    /\ UNCHANGED <<chain, reorgs, world>>

\* A provider answers from a node that is a block behind.
AnswerBehind(p) ==
    /\ Len(chain) > 1
    /\ views' = [views EXCEPT ![p] = Front(chain)]
    /\ UNCHANGED <<chain, reorgs, world>>

\* CrossChecked.at: both providers have a block n, and it is the same.
Agreed(n) == \A p \in 1..2 : n <= Len(views[p]) /\ Prefix(views[p], n) = Prefix(views[1], n)
BlockAt(n) == Prefix(views[1], n)

(***************************************************************************)
(* The journal.                                                            *)
(***************************************************************************)

\* append: a line cut short by a crash has no end, so the next one joins it.
AppendLine(file, rec) ==
    IF file # <<>> /\ Last(file) = Torn THEN Front(file) \o <<Junk>> ELSE Append(file, rec)

Journal(rec) ==
    /\ pending' = AppendLine(pending, rec)
    /\ appended' = appended \cup {rec}
    /\ glued' = IF pending # <<>> /\ Last(pending) = Torn THEN glued \cup {rec} ELSE glued

\* What JSON.parse takes of a file; the other lines are passed over.
Parsed(file) == {file[i] : i \in DOMAIN file} \ {Torn, Junk}

NextRecord(block) == [epoch |-> enclave.epoch, count |-> enclave.count + 1, block |-> block]
TakeCount == enclave' = [enclave EXCEPT !.count = @ + 1]

\* A file bound by a request; the parent records its proof.
RecordFile ==
    /\ files < world.files /\ files' = files + 1
    /\ TakeCount
    /\ Journal(NextRecord(NoBlock))
    /\ UNCHANGED <<chainVars, cursor, poll, batches, upload, bucket, reader, start, faults>>

(***************************************************************************)
(* The poller.  A provider or an agreement that fails ends the pass.       *)
(***************************************************************************)

\* pass, up to the head's answer.
PassStart ==
    LET head == views[1] IN
    /\ poll.pc = "idle" /\ Agreed(Len(head))
    /\ \/ /\ cursor = NoCursor
          /\ poll' = [Idle EXCEPT !.pc = "bind", !.head = head, !.block = head]
       \/ /\ cursor # NoCursor /\ Len(head) = Len(cursor.block) /\ head # cursor.block
          /\ poll' = [Idle EXCEPT !.pc = "rewind", !.i = Len(cursor.recent)]
       \/ /\ cursor # NoCursor /\ Len(head) > Len(cursor.block)
          /\ poll' = [Idle EXCEPT !.pc = "next", !.head = head]
    /\ UNCHANGED <<chainVars, cursor, enclave, journalVars, reader, appended, glued, start, files, faults>>

\* Bug: the next block is bound whatever its parent is.
NextBlockUnchecked ==
    LET n == Len(cursor.block) + 1 IN
    /\ poll.pc = "next" /\ n <= Len(poll.head)
    /\ n = Len(poll.head) \/ Agreed(n)
    /\ poll' = [poll EXCEPT !.pc = "bind", !.block = IF n = Len(poll.head) THEN poll.head ELSE BlockAt(n)]
    /\ UNCHANGED <<chainVars, cursor, enclave, journalVars, reader, appended, glued, start, files, faults>>

\* pass, the loop: the next block follows the cursor's, or blocks were replaced.
NextBlock ==
    LET n == Len(cursor.block) + 1
        b == IF n = Len(poll.head) THEN poll.head ELSE BlockAt(n) IN
    /\ poll.pc = "next"
    /\ \/ n > Len(poll.head) /\ poll' = Idle
       \/ /\ n <= Len(poll.head) /\ (n = Len(poll.head) \/ Agreed(n))
          /\ poll' = IF Front(b) # cursor.block
                     THEN [Idle EXCEPT !.pc = "rewind", !.i = Len(cursor.recent)]
                     ELSE [poll EXCEPT !.pc = "bind", !.block = b]
    /\ UNCHANGED <<chainVars, cursor, enclave, journalVars, reader, appended, glued, start, files, faults>>

\* A read that fails, inside the loop or while walking back.
ReadFails ==
    /\ poll.pc \in {"next", "rewind"} /\ Fault
    /\ poll' = Idle
    /\ UNCHANGED <<chainVars, cursor, enclave, journalVars, reader, appended, glued, start, files>>

\* Bug: every block is remembered.
RememberAll(recent, b) == Append(recent, b)

Remember(recent, b) ==
    LET all == Append(recent, b) IN
    IF Len(all) <= KeepRecent THEN all ELSE Tail(all)

\* bindRead: bind, journal, then the cursor file.
BindRead ==
    /\ poll.pc = "bind"
    /\ TakeCount
    /\ Journal(NextRecord(poll.block))
    /\ cursor' = [block |-> poll.block, recent |-> Remember(cursor.recent, poll.block)]
    /\ start' = IF cursor = NoCursor THEN Len(poll.block) ELSE start
    /\ poll' = IF poll.block = poll.head THEN Idle ELSE [poll EXCEPT !.pc = "next"]
    /\ UNCHANGED <<chainVars, batches, upload, bucket, reader, files, faults>>

\* The bind is rejected or times out; a timed-out one may have taken its count.
BindFails ==
    /\ poll.pc = "bind" /\ Fault
    /\ TakeCount \/ UNCHANGED enclave
    /\ poll' = Idle
    /\ UNCHANGED <<chainVars, cursor, journalVars, reader, appended, glued, start, files>>

\* Bug: the block found is logged, and the cursor stays.
RewindForgets ==
    LET r == cursor.recent[poll.i] IN
    /\ poll.pc = "rewind" /\ poll.i > 0 /\ Agreed(Len(r))
    /\ poll' = IF BlockAt(Len(r)) = r THEN Idle ELSE [poll EXCEPT !.i = @ - 1]
    /\ UNCHANGED <<chainVars, cursor, enclave, journalVars, reader, appended, glued, start, files, faults>>

\* rewind, one remembered block: the newest one the chain still has.
Rewind ==
    LET r == cursor.recent[poll.i] IN
    /\ poll.pc = "rewind" /\ poll.i > 0 /\ Agreed(Len(r))
    /\ IF BlockAt(Len(r)) = r
       THEN /\ cursor' = [block |-> r, recent |-> Prefix(cursor.recent, poll.i)]
            /\ poll' = Idle
       ELSE poll' = [poll EXCEPT !.i = @ - 1] /\ UNCHANGED cursor
    /\ UNCHANGED <<chainVars, enclave, journalVars, reader, appended, glued, start, files, faults>>

\* rewind, none is left: from the block before the oldest one remembered.
RewindDeep ==
    LET n == Len(cursor.recent[1]) - 1 IN
    /\ poll.pc = "rewind" /\ poll.i = 0 /\ Agreed(n)
    /\ cursor' = [block |-> BlockAt(n), recent |-> <<BlockAt(n)>>]
    /\ poll' = Idle
    /\ UNCHANGED <<chainVars, enclave, journalVars, reader, appended, glued, start, files, faults>>

(***************************************************************************)
(* The upload.                                                             *)
(***************************************************************************)
Epochs(file) == {r.epoch : r \in Parsed(file)}
\* The lines of one epoch; no two records have the same position.
Part(file, e) == {r \in Parsed(file) : r.epoch = e}

\* flush, its start: the pending file becomes the newest batch.  Without a
\* bucket the journal is never flushed.
FlushStart ==
    /\ world.bucket /\ ~upload.on /\ (pending # <<>> \/ batches # <<>>)
    /\ batches' = IF pending = <<>> THEN batches ELSE Append(batches, pending)
    /\ pending' = <<>>
    /\ upload' = [on |-> TRUE, put |-> {}]
    /\ UNCHANGED <<chainVars, cursor, poll, enclave, bucket, reader, appended, glued, start, files, faults>>

ObjectOf(file, e) ==
    LET lines == Part(file, e) IN
    [epoch |-> e, lines |-> lines, n |-> Cardinality(lines),
     first |-> Min({l.count : l \in lines}), last |-> Max({l.count : l \in lines})]
Key(o) == <<o.epoch, o.first, o.last, o.n>>

\* uploadBatch, one epoch's part: create-only.
UploadPart(e) ==
    /\ upload.on /\ batches # <<>> /\ e \in Epochs(batches[1]) \ upload.put
    /\ LET o == ObjectOf(batches[1], e) IN
       bucket' = IF \E old \in bucket : Key(old) = Key(o) THEN bucket ELSE bucket \cup {o}
    /\ upload' = [upload EXCEPT !.put = @ \cup {e}]
    /\ UNCHANGED <<chainVars, cursor, poll, enclave, pending, batches, reader, appended, glued, start, files, faults>>

\* A put fails: the flush ends; the put may have been stored.
PutFails(e) ==
    /\ upload.on /\ batches # <<>> /\ e \in Epochs(batches[1]) \ upload.put /\ Fault
    /\ \/ UNCHANGED bucket
       \/ LET o == ObjectOf(batches[1], e) IN
          bucket' = IF \E old \in bucket : Key(old) = Key(o) THEN bucket ELSE bucket \cup {o}
    /\ upload' = Resting
    /\ UNCHANGED <<chainVars, cursor, poll, enclave, pending, batches, reader, appended, glued, start, files>>

\* Bug: the batch is deleted once one part of it is up.
UnlinkEarly ==
    /\ upload.on /\ batches # <<>> /\ upload.put # {}
    /\ batches' = Tail(batches)
    /\ upload' = [on |-> TRUE, put |-> {}]
    /\ UNCHANGED <<chainVars, cursor, poll, enclave, pending, bucket, reader, appended, glued, start, files, faults>>

\* flush: every part is up, the batch is deleted; then the next one.
Unlink ==
    /\ upload.on /\ batches # <<>> /\ Epochs(batches[1]) \subseteq upload.put
    /\ batches' = Tail(batches)
    /\ upload' = [on |-> TRUE, put |-> {}]
    /\ UNCHANGED <<chainVars, cursor, poll, enclave, pending, bucket, reader, appended, glued, start, files, faults>>

FlushEnd ==
    /\ upload.on /\ batches = <<>>
    /\ upload' = Resting
    /\ UNCHANGED <<chainVars, cursor, poll, enclave, pending, batches, bucket, reader, appended, glued, start, files, faults>>

(***************************************************************************)
(* Reading back (TimelineRecords.around).                                  *)
(***************************************************************************)
Local == Parsed(pending) \cup UNION {Parsed(batches[i]) : i \in DOMAIN batches}
InRange(r, e, c) == r.epoch = e /\ r.count + Span >= c /\ r.count <= c + Span

\* Bug: the listing starts at the window.
ListedAtWindow(e, c) ==
    {o \in bucket : o.epoch = e /\ o.first + Span >= c /\ o.first <= c + Span /\ o.last + Span >= c}

\* The keys after the window's start less the slack, up to the window's end.
Listed(e, c) ==
    {o \in bucket : o.epoch = e /\ o.first + Span + Slack >= c /\ o.first <= c + Span /\ o.last + Span >= c}

\* Every record that can be read at this moment.
Readable == Local \cup UNION {o.lines : o \in bucket}

\* around, its start: the lines on this machine, around the position of a record.
ReadLocal(r) ==
    /\ world.reads > 0 /\ reader.pc = "idle"
    /\ reader' = [pc |-> "listing", epoch |-> r.epoch, count |-> r.count,
                  due |-> {x \in appended \ glued : InRange(x, r.epoch, r.count)},
                  got |-> {x \in Local : InRange(x, r.epoch, r.count)}]
    /\ UNCHANGED <<chainVars, cursor, poll, enclave, journalVars, appended, glued, start, files, faults>>

\* around, its end: the bucket's objects.  Objects never change, so the list
\* and the reads of what it names are one step.
ReadBucket ==
    LET e == reader.epoch
        c == reader.count IN
    /\ reader.pc = "listing"
    /\ reader' = [reader EXCEPT !.pc = "done",
                    !.got = @ \cup {x \in UNION {o.lines : o \in Listed(e, c)} : InRange(x, e, c)}]
    /\ UNCHANGED <<chainVars, cursor, poll, enclave, journalVars, appended, glued, start, files, faults>>

(***************************************************************************)
(* The process ends and starts again; the enclave may have restarted too.  *)
(***************************************************************************)
Restarted ==
    /\ Fault
    /\ poll' = Idle /\ upload' = Resting /\ reader' = NoReader
    /\ UNCHANGED <<chainVars, batches, bucket, start, files>>

Crash ==
    /\ Restarted
    /\ \/ UNCHANGED enclave
       \/ enclave' = [epoch |-> enclave.epoch + 1, count |-> 0]
    /\ UNCHANGED <<cursor, pending, appended, glued>>

\* The process ends inside bindRead: bound and not journaled, half a line
\* journaled, or journaled with the cursor where it was.
CrashInBind ==
    /\ poll.pc = "bind"
    /\ Restarted
    /\ TakeCount
    /\ \/ UNCHANGED <<pending, appended, glued>>
       \/ /\ pending' = IF pending # <<>> /\ Last(pending) = Torn THEN pending ELSE Append(pending, Torn)
          /\ UNCHANGED <<appended, glued>>
       \/ Journal(NextRecord(poll.block))
    /\ UNCHANGED cursor

-----------------------------------------------------------------------------
Chain ==
    /\ \/ Extend
       \/ \E n \in 0..MaxHeight : Reorg(n)
       \/ \E p \in 1..2 : Answer(p)
    /\ UNCHANGED <<cursor, poll, enclave, journalVars, reader, appended, glued, start, files, faults>>

Behind ==
    /\ Fault
    /\ \E p \in 1..2 : AnswerBehind(p)
    /\ UNCHANGED <<cursor, poll, enclave, journalVars, reader, appended, glued, start, files>>

Poller == PassStart \/ NextBlock \/ BindRead \/ Rewind \/ RewindDeep
Flush == FlushStart \/ (\E e \in 1..enclave.epoch : UploadPart(e)) \/ Unlink \/ FlushEnd

Next ==
    \/ Chain \/ Behind
    \/ Poller \/ ReadFails \/ BindFails
    \/ RecordFile
    \/ Flush
    \/ \E e \in 1..enclave.epoch : PutFails(e)
    \/ (\E r \in appended : ReadLocal(r)) \/ ReadBucket
    \/ Crash \/ CrashInBind

(***************************************************************************)
(* The poller's timer and the journal's interval go on for as long as the  *)
(* process runs, and providers catch up.  Nothing makes a fault happen.    *)
(***************************************************************************)
Fairness ==
    /\ WF_vars(Poller)
    /\ WF_vars(Flush)
    /\ \A p \in 1..2 : WF_vars(Answer(p) /\ UNCHANGED <<cursor, poll, enclave, journalVars, reader, appended, glued, start, files, faults>>)

Spec == Init /\ [][Next]_vars /\ Fairness

-----------------------------------------------------------------------------
BoundBlocks == {r.block : r \in appended}
Uploaded == UNION {o.lines : o \in bucket}

\* "No block is skipped": every block between the timeline's first one and the
\* cursor, on the cursor's own branch, is in the journal, whatever reorgs,
\* crashes and failed binds happened on the way.
NoBlockSkipped ==
    cursor # NoCursor => \A k \in start..Len(cursor.block) : Prefix(cursor.block, k) \in BoundBlocks

\* A record whose append returned can be read back ever after: from the
\* pending file, a batch or the bucket; renames, crashes, failed puts and the
\* deleting of batches never leave it in none of them.  The exception is a
\* record glued to the torn line of a crash: its append returned too ("so a
\* record the caller goes on to use is on disk"), but no reader can parse it.
JournalKeeps == appended \ glued \subseteq Readable

\* A bundle misses no record around its file: the local lines are read before
\* the bucket is listed, so a batch that goes up in between is seen.
AroundFindsAll == reader.pc = "done" => reader.due \subseteq reader.got

\* The blocks whose record is behind a torn line: no reader, and no upload, can parse it.
Unreadable == {r.block : r \in glued}

\* Once the chain rests, its blocks from the timeline's first one on are all
\* in the bucket, or on disk when there is no bucket.  The exception is a block
\* whose record is the first one appended after a crash in the middle of an
\* append: it goes behind the torn line, the cursor moves past it, and no pass
\* binds it again.  A crash costs one record at most.
EveryBlockKept ==
    <>[](/\ start > 0
         /\ LET kept == {r.block : r \in IF world.bucket THEN Uploaded ELSE Local}
            IN  \A k \in start..Len(chain) : Prefix(chain, k) \in kept \cup Unreadable
         /\ Cardinality(glued) <= faults)

=============================================================================
