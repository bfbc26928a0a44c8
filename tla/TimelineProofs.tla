--------------------------- MODULE TimelineProofs ---------------------------
(***************************************************************************)
(* Proofs about Timeline.tla for chains of any length, any number of       *)
(* reorgs and faults, any number of remembered hashes and any worlds: no   *)
(* block is skipped, no record whose append returned is lost, and a bundle *)
(* misses none around its file.                                            *)
(*                                                                         *)
(* Neither property is inductive.  NoBlockSkipped rests on PollInv: a      *)
(* block below the oldest remembered one is too deep for a reorg, so the   *)
(* walk back can only land on a block that is bound.  JournalKeeps rests   *)
(* on KeepInv: a position is in one file only, and an object of the bucket *)
(* that meets a file is a part of the oldest batch, whole.                 *)
(***************************************************************************)
EXTENDS Timeline, SequenceTheorems, WellFoundedInduction, NaturalsInduction, TLAPS

-----------------------------------------------------------------------------
(* The inductive invariants.                                               *)

ChainType ==
    /\ world \in Worlds /\ chain \in Blocks /\ views \in [1..2 -> Blocks]
    /\ reorgs \in 0..MaxReorgs

CursorType ==
    \/ cursor = NoCursor
    \/ /\ cursor.block \in Blocks /\ cursor.recent \in Seq(Blocks)
       /\ cursor.recent # <<>> /\ Len(cursor.recent) <= KeepRecent

PollType ==
    /\ poll \in [pc : {"idle", "next", "bind", "rewind"}, head : Blocks \cup {NoBlock},
                 block : Blocks \cup {NoBlock}, i : 0..KeepRecent]
    /\ poll.pc \in {"next", "bind"} => poll.head \in Blocks
    /\ poll.pc = "bind" => poll.block \in Blocks
    /\ poll.pc \in {"next", "rewind"} => cursor # NoCursor
    /\ poll.pc = "rewind" => poll.i <= Len(cursor.recent)

JournalType ==
    /\ pending \in Seq(Lines) /\ batches \in Seq(Seq(Lines))
    /\ upload \in [on : BOOLEAN, put : SUBSET Nat]
    /\ \A o \in bucket : o.lines \subseteq Records

RecordType ==
    /\ enclave \in [epoch : Nat, count : Nat]
    /\ appended \subseteq Records /\ glued \subseteq appended

CountType ==
    /\ start \in 0..MaxHeight /\ files \in 0..world.files /\ faults \in 0..world.faults

TypeInv ==
    ChainType /\ CursorType /\ PollType /\ JournalType /\ RecordType /\ CountType

\* Two blocks have the same ancestors up to number k.
Alike(a, b, k) == \A j \in 1..k : a[j] = b[j]

\* b was on the chain once: what lies KeepRecent below it can never be replaced,
\* neither in the chain c nor in what the providers' views v show from then on.
Fits(b, c, v) ==
    /\ Len(b) <= Len(c)
    /\ \A k \in 0..Len(b) : k + KeepRecent <= Len(b) =>
         /\ Alike(b, c, k)
         /\ \A p \in 1..2 : k <= Len(v[p]) => Alike(b, v[p], k)

\* A view is of the chain, as it was.
ViewFits(b, c) ==
    /\ Len(b) <= Len(c)
    /\ \A k \in 0..Len(b) : k + KeepRecent <= Len(b) => Alike(b, c, k)

\* The first n branches of b are too deep for a reorg.
Settled(b, n, c, v) ==
    /\ n + KeepRecent <= Len(c)
    /\ Alike(b, c, n)
    /\ \A p \in 1..2 : n <= Len(v[p]) => Alike(b, v[p], n)

\* What the poller remembers of block b: r is the last of its ancestors, newest last.
Trail(r, b) ==
    \A i \in 1..Len(r) : Len(r[i]) + Len(r) = Len(b) + i /\ Alike(r[i], b, Len(r[i]))

\* The poller: what it is about to bind was on the chain and follows the cursor, every
\* block on the cursor's branch from the timeline's first on is bound, and what is below
\* the oldest one remembered is settled or before the timeline.
PollInv ==
    /\ \A p \in 1..2 : ViewFits(views[p], chain)
    /\ poll.pc \in {"next", "bind"} => Fits(poll.head, chain, views)
    /\ poll.pc = "bind" => /\ Fits(poll.block, chain, views)
                           /\ cursor # NoCursor => /\ Len(poll.block) > 0
                                                   /\ Front(poll.block) = cursor.block
    /\ cursor # NoCursor =>
         /\ Trail(cursor.recent, cursor.block)
         /\ \/ Len(cursor.recent[1]) <= start
            \/ Settled(cursor.recent[1], Len(cursor.recent[1]) - 1, chain, views)
    /\ NoBlockSkipped

\* The record is of a position that was taken.
Taken(r, en) ==
    /\ r.epoch \in Nat /\ r.count \in Nat
    /\ r.epoch < en.epoch \/ (r.epoch = en.epoch /\ r.count <= en.count)

\* No record of S has the position of one of T.
Apart(S, T) == \A r \in S, t \in T : r.epoch # t.epoch \/ r.count # t.count

\* The objects of the bucket: whole parts; one that meets a file is of the oldest batch.
ObjectInv(o, bt, pe, en) ==
    /\ o.lines # {} /\ \A r \in o.lines : Taken(r, en) /\ r.epoch = o.epoch
    /\ \E r \in o.lines : r.count = o.first
    /\ Apart(o.lines, Parsed(pe))
    /\ \A i \in DOMAIN bt :
         Apart(o.lines, Parsed(bt[i])) \/ (i = 1 /\ o = ObjectOf(bt[1], o.epoch))

KeepInv ==
    /\ \A r \in Parsed(pending) : Taken(r, enclave)
    /\ \A i \in DOMAIN batches : \A r \in Parsed(batches[i]) : Taken(r, enclave)
    /\ \A i \in DOMAIN batches : Apart(Parsed(batches[i]), Parsed(pending))
    /\ \A i, j \in DOMAIN batches : i # j => Apart(Parsed(batches[i]), Parsed(batches[j]))
    /\ \A o \in bucket : ObjectInv(o, batches, pending, enclave)
    /\ batches # <<>> => \A e \in upload.put : ObjectOf(batches[1], e) \in bucket
    /\ JournalKeeps

-----------------------------------------------------------------------------
(* Blocks and lines.                                                       *)

\* A block is a sequence of branches, no longer than the chain may get.
LEMMA BlockIsSeq ==
    ASSUME NEW b \in Blocks
    PROVE  /\ b \in Seq(0..MaxReorgs) /\ Len(b) \in Nat /\ Len(b) <= MaxHeight
           /\ DOMAIN b = 1..Len(b)
<1>1. PICK n \in 0..MaxHeight : b \in [1..n -> 0..MaxReorgs]
  BY DEF Blocks
<1>2. n \in Nat /\ n <= MaxHeight
  BY TimelineAssumption
<1>3. b \in Seq(0..MaxReorgs)
  BY <1>1, <1>2, SeqDef
<1>4. Len(b) \in Nat /\ DOMAIN b = 1..Len(b) /\ DOMAIN b = 1..n
  BY <1>1, <1>3, LenProperties
<1>5. Len(b) = n
  <2>1. \A x \in 1..n : x <= Len(b)
    BY <1>4
  <2>2. \A x \in 1..Len(b) : x <= n
    BY <1>4
  <2>3. n > 0 => n <= Len(b)
    BY <1>2, <2>1
  <2>4. Len(b) > 0 => Len(b) <= n
    BY <1>4, <2>2
  <2>5. Len(b) \in Nat
    BY <1>4
  <2> QED
    BY <1>2, <2>3, <2>4, <2>5
<1> QED
  BY <1>2, <1>3, <1>4, <1>5

\* An ancestry short enough is a block.
LEMMA SeqIsBlock ==
    ASSUME NEW b \in Seq(0..MaxReorgs), Len(b) <= MaxHeight
    PROVE  b \in Blocks
<1>1. Len(b) \in Nat /\ b \in [1..Len(b) -> 0..MaxReorgs]
  BY LenProperties
<1>2. Len(b) \in 0..MaxHeight
  BY <1>1, TimelineAssumption
<1> QED
  BY <1>1, <1>2 DEF Blocks

\* A block's ancestors are blocks.
LEMMA PrefixBlock ==
    ASSUME NEW b \in Blocks, NEW k \in Int, k <= Len(b)
    PROVE  /\ Prefix(b, k) \in Blocks
           /\ k >= 0 => Len(Prefix(b, k)) = k
           /\ \A j \in 1..k : Prefix(b, k)[j] = b[j]
<1>1. b \in Seq(0..MaxReorgs) /\ Len(b) <= MaxHeight /\ Len(b) \in Nat /\ MaxHeight \in Nat
  BY BlockIsSeq, TimelineAssumption
<1>2. ASSUME NEW j \in 1..k PROVE b[j] \in 0..MaxReorgs
  <2>1. j \in 1..Len(b)
    BY <1>1
  <2> QED
    BY <1>1, <2>1, ElementOfSeq
<1>3. /\ SubSeq(b, 1, k) \in Seq(0..MaxReorgs)
      /\ Len(SubSeq(b, 1, k)) = IF 1 <= k THEN k - 1 + 1 ELSE 0
      /\ \A j \in 1..(k - 1 + 1) : SubSeq(b, 1, k)[j] = b[1 + j - 1]
  BY <1>2, SubSeqProperties
<1>4. Len(SubSeq(b, 1, k)) <= MaxHeight
  BY <1>1, <1>3
<1>5. SubSeq(b, 1, k) \in Blocks
  BY <1>3, <1>4, SeqIsBlock
<1> QED
  BY <1>3, <1>5 DEF Prefix

\* A record is neither a torn line nor a joint.
LEMMA LinesApart == \A r \in Records : r # Torn /\ r # Junk
BY DEF Records, Torn, Junk

\* Journaling changes nothing that a reader can parse but to add the record, unless a
\* line cut short by a crash is there to swallow it.
LEMMA Journaled ==
    ASSUME NEW file \in Seq(Lines), NEW rec \in Records
    PROVE  /\ AppendLine(file, rec) \in Seq(Lines)
           /\ IF file # <<>> /\ Last(file) = Torn
              THEN Parsed(AppendLine(file, rec)) = Parsed(file)
              ELSE Parsed(AppendLine(file, rec)) = Parsed(file) \cup {rec}
<1>1. rec \in Lines /\ Junk \in Lines /\ rec \notin {Torn, Junk}
  BY LinesApart DEF Lines
<1>2. CASE file # <<>> /\ Last(file) = Torn
  <2> DEFINE n == Len(file)
             t == Front(file) \o <<Junk>>
  <2>1. n \in Nat /\ n > 0 /\ DOMAIN file = 1..n /\ file[n] = Torn
    BY <1>2 DEF Last
  <2>2. /\ t \in Seq(Lines) /\ DOMAIN t = 1..n /\ t[n] = Junk
        /\ \A i \in 1..(n - 1) : t[i] = file[i]
    BY <1>1, <2>1 DEF Front
  <2>3. AppendLine(file, rec) = t
    BY <1>2 DEF AppendLine
  <2> HIDE DEF t, n
  <2>4. Parsed(t) = Parsed(file)
    BY <2>1, <2>2 DEF Parsed
  <2> QED
    BY <1>2, <2>2, <2>3, <2>4
<1>3. CASE ~(file # <<>> /\ Last(file) = Torn)
  <2> DEFINE n == Len(file)
             t == Append(file, rec)
  <2>1. /\ n \in Nat /\ DOMAIN file = 1..n /\ t \in Seq(Lines) /\ DOMAIN t = 1..(n + 1)
        /\ t[n + 1] = rec /\ \A i \in 1..n : t[i] = file[i]
    BY <1>1
  <2>2. AppendLine(file, rec) = t
    BY <1>3 DEF AppendLine
  <2> HIDE DEF t, n
  <2>3. Parsed(t) = Parsed(file) \cup {rec}
    BY <1>1, <2>1 DEF Parsed
  <2> QED
    BY <1>3, <2>1, <2>2, <2>3
<1> QED
  BY <1>2, <1>3

-----------------------------------------------------------------------------
(* Types.                                                                  *)

\* The poller starts well typed.
LEMMA InitTypes == Init => TypeInv
<1> SUFFICES ASSUME Init PROVE TypeInv
  OBVIOUS
<1>1. world \in World
  BY TimelineAssumption DEF Init
<1>2. <<0>> \in Blocks
  <2>1. <<0>> \in Seq(0..MaxReorgs) /\ Len(<<0>>) = 1
    BY TimelineAssumption
  <2>2. 1 <= MaxHeight
    BY <1>1, TimelineAssumption DEF World
  <2> QED
    BY <2>1, <2>2, SeqIsBlock
<1>3. ChainType /\ CountType
  BY <1>1, <1>2, TimelineAssumption DEF Init, ChainType, CountType, World
<1>4. CursorType /\ PollType
  BY TimelineAssumption DEF Init, CursorType, PollType, Idle
<1>5. JournalType /\ RecordType
  BY DEF Init, JournalType, RecordType, Resting
<1> QED
  BY <1>3, <1>4, <1>5 DEF TypeInv

\* The parts of the type invariant give the one that the run checks.
LEMMA TypesGiven == TypeInv => TypeOK
<1> SUFFICES ASSUME TypeInv PROVE TypeOK
  OBVIOUS
<1>1. cursor.recent \in Seq(Blocks) /\ Len(cursor.recent) <= KeepRecent
      /\ cursor.block \in Blocks \cup {NoBlock}
  <2>1. CASE cursor = NoCursor
    <3>1. cursor.recent = <<>> /\ cursor.block = NoBlock
      BY <2>1 DEF NoCursor
    <3>2. <<>> \in Seq(Blocks) /\ Len(<<>>) = 0
      BY EmptySeq
    <3>3. 0 <= KeepRecent
      BY TimelineAssumption
    <3> QED
      BY <3>1, <3>2, <3>3
  <2>2. CASE cursor # NoCursor
    BY <2>2 DEF TypeInv, CursorType
  <2> QED
    BY <2>1, <2>2
<1> QED
  BY <1>1 DEF TypeInv, TypeOK, ChainType, PollType, JournalType, RecordType, CountType

\* The types of the world's bounds.
LEMMA WorldTypes ==
    ASSUME TypeInv
    PROVE  /\ world.height \in Nat /\ world.height <= MaxHeight
           /\ world.reorgs \in Nat /\ world.reorgs <= MaxReorgs
           /\ world.faults \in Nat /\ world.files \in Nat
           /\ MaxHeight \in Nat /\ MaxReorgs \in Nat /\ KeepRecent \in Nat /\ KeepRecent > 0
<1>1. world \in World
  BY TimelineAssumption DEF TypeInv, ChainType
<1> QED
  BY <1>1, TimelineAssumption DEF World

\* The chain is a block after it grows or is reorganised, and never gets shorter.
LEMMA ExtendChain ==
    ASSUME TypeInv, Extend
    PROVE  /\ chain' \in Blocks /\ Len(chain') = Len(chain) + 1
           /\ \A j \in 1..Len(chain) : chain'[j] = chain[j]
<1>1. chain \in Seq(0..MaxReorgs) /\ Len(chain) \in Nat
  BY BlockIsSeq DEF TypeInv, ChainType
<1>2. reorgs \in 0..MaxReorgs /\ Len(chain) < world.height /\ chain' = Append(chain, reorgs)
  BY DEF Extend, TypeInv, ChainType
<1>3. /\ chain' \in Seq(0..MaxReorgs) /\ Len(chain') = Len(chain) + 1
      /\ \A j \in 1..Len(chain) : chain'[j] = chain[j]
  BY <1>1, <1>2, AppendProperties
<1>4. Len(chain') <= MaxHeight
  BY <1>1, <1>2, <1>3, WorldTypes
<1> QED
  BY <1>3, <1>4, SeqIsBlock

\* A reorg leaves a chain of blocks.
LEMMA ReorgChain ==
    ASSUME TypeInv, NEW n \in 0..MaxHeight, Reorg(n)
    PROVE  /\ chain' \in Blocks /\ Len(chain') >= Len(chain)
           /\ \A j \in 1..n : chain'[j] = chain[j]
           /\ n < Len(chain) /\ n + KeepRecent >= Len(chain)
<1>1. /\ chain \in Blocks /\ Len(chain) \in Nat /\ n < Len(chain) /\ n + KeepRecent >= Len(chain)
      /\ n \in Nat
  BY BlockIsSeq, WorldTypes DEF TypeInv, ChainType, Reorg
<1>2. PICK len \in Len(chain)..world.height :
         chain' = Prefix(chain, n) \o [k \in 1..(len - n) |-> reorgs + 1]
  BY DEF Reorg
<1>3. len \in Nat /\ len >= Len(chain) /\ len <= MaxHeight /\ len - n \in Nat
  BY <1>1, WorldTypes
<1>4. reorgs + 1 \in 0..MaxReorgs
  <2>1. reorgs \in 0..MaxReorgs
    BY DEF TypeInv, ChainType
  <2>2. reorgs < world.reorgs
    BY DEF Reorg
  <2> QED
    BY <2>1, <2>2, WorldTypes
<1> DEFINE s == Prefix(chain, n)
           t == [k \in 1..(len - n) |-> reorgs + 1]
<1>5. s \in Blocks /\ Len(s) = n /\ \A j \in 1..n : s[j] = chain[j]
  BY <1>1, PrefixBlock
<1>6. s \in Seq(0..MaxReorgs)
  BY <1>5, BlockIsSeq
<1>7. t \in Seq(0..MaxReorgs) /\ Len(t) = len - n
  BY <1>3, <1>4
<1> HIDE DEF s, t
<1>8. /\ s \o t \in Seq(0..MaxReorgs)
      /\ Len(s \o t) = Len(s) + Len(t)
      /\ \A i \in 1..(Len(s) + Len(t)) : (s \o t)[i] = IF i <= Len(s) THEN s[i] ELSE t[i - Len(s)]
  BY <1>6, <1>7, ConcatProperties
<1>9. Len(s \o t) = len /\ \A j \in 1..n : (s \o t)[j] = chain[j]
  BY <1>1, <1>3, <1>5, <1>7, <1>8
<1>10. s \o t \in Blocks
  BY <1>3, <1>8, <1>9, SeqIsBlock
<1> QED
  BY <1>1, <1>2, <1>3, <1>9, <1>10 DEF s, t

\* The block before the newest one is a block.
LEMMA FrontBlock ==
    ASSUME NEW b \in Blocks, Len(b) > 0
    PROVE  /\ Front(b) \in Blocks /\ Len(Front(b)) = Len(b) - 1
           /\ \A j \in 1..(Len(b) - 1) : Front(b)[j] = b[j]
<1>1. Len(b) \in Nat
  BY BlockIsSeq
<1>2. Len(b) - 1 \in Int /\ Len(b) - 1 <= Len(b) /\ Len(b) - 1 >= 0
  BY <1>1
<1>3. Front(b) = Prefix(b, Len(b) - 1)
  BY DEF Front, Prefix
<1> QED
  BY <1>2, <1>3, PrefixBlock

\* The chain and the providers.
LEMMA ChainTypes ==
    ASSUME TypeInv, Chain \/ Behind
    PROVE  /\ chain' \in Blocks /\ views' \in [1..2 -> Blocks] /\ reorgs' \in 0..MaxReorgs
           /\ world' = world
<1>1. chain \in Blocks /\ views \in [1..2 -> Blocks] /\ reorgs \in 0..MaxReorgs
  BY DEF TypeInv, ChainType
<1>2. CASE Extend
  BY <1>1, <1>2, ExtendChain DEF Extend
<1>3. ASSUME NEW n \in 0..MaxHeight, Reorg(n)
      PROVE  /\ chain' \in Blocks /\ views' \in [1..2 -> Blocks] /\ reorgs' \in 0..MaxReorgs
             /\ world' = world
  <2>1. chain' \in Blocks
    BY <1>3, ReorgChain
  <2>2. reorgs < world.reorgs /\ reorgs' = reorgs + 1 /\ views' = views /\ world' = world
    BY <1>3 DEF Reorg
  <2> QED
    BY <1>1, <2>1, <2>2, WorldTypes
<1>4. ASSUME NEW p \in 1..2, Answer(p)
      PROVE  /\ chain' \in Blocks /\ views' \in [1..2 -> Blocks] /\ reorgs' \in 0..MaxReorgs
             /\ world' = world
  BY <1>1, <1>4 DEF Answer
<1>5. ASSUME NEW p \in 1..2, AnswerBehind(p)
      PROVE  /\ chain' \in Blocks /\ views' \in [1..2 -> Blocks] /\ reorgs' \in 0..MaxReorgs
             /\ world' = world
  <2>1. Len(chain) > 0
    BY <1>1, <1>5, BlockIsSeq DEF AnswerBehind
  <2> QED
    BY <1>1, <1>5, <2>1, FrontBlock DEF AnswerBehind
<1> QED
  BY <1>2, <1>3, <1>4, <1>5 DEF Chain, Behind

\* What a pass reads from the providers.
LEMMA AgreedBlock ==
    ASSUME TypeInv, NEW n \in Int, Agreed(n)
    PROVE  /\ BlockAt(n) \in Blocks
           /\ n >= 0 => Len(BlockAt(n)) = n
           /\ \A p \in 1..2 : n <= Len(views[p]) /\ \A j \in 1..n : BlockAt(n)[j] = views[p][j]
<1>1. \A p \in 1..2 : views[p] \in Blocks /\ Len(views[p]) \in Nat /\ n <= Len(views[p])
  BY BlockIsSeq DEF TypeInv, ChainType, Agreed
<1>2. /\ BlockAt(n) \in Blocks
      /\ n >= 0 => Len(BlockAt(n)) = n
  BY <1>1, PrefixBlock DEF BlockAt
<1>3. ASSUME NEW p \in 1..2 PROVE \A j \in 1..n : BlockAt(n)[j] = views[p][j]
  <2>1. Prefix(views[p], n) = BlockAt(n)
    BY DEF Agreed, BlockAt
  <2>2. \A j \in 1..n : Prefix(views[p], n)[j] = views[p][j]
    BY <1>1, PrefixBlock
  <2> QED
    BY <2>1, <2>2
<1> QED
  BY <1>1, <1>2, <1>3

\* The remembered blocks after one more.
LEMMA RememberOne ==
    ASSUME NEW recent \in Seq(Blocks), Len(recent) <= KeepRecent, NEW b \in Blocks
    PROVE  /\ Remember(recent, b) \in Seq(Blocks)
           /\ Remember(recent, b) # <<>> /\ Len(Remember(recent, b)) <= KeepRecent
           /\ IF Len(recent) < KeepRecent
              THEN Remember(recent, b) = Append(recent, b)
              ELSE /\ Len(Remember(recent, b)) = KeepRecent
                   /\ \A i \in 1..(KeepRecent - 1) : Remember(recent, b)[i] = recent[i + 1]
                   /\ Remember(recent, b)[KeepRecent] = b
<1> DEFINE all == Append(recent, b)
<1>1. /\ all \in Seq(Blocks) /\ all # <<>> /\ Len(all) = Len(recent) + 1
      /\ \A i \in 1..Len(recent) : all[i] = recent[i]
      /\ all[Len(recent) + 1] = b
  BY AppendProperties
<1>2. Len(recent) \in Nat /\ KeepRecent \in Nat /\ KeepRecent > 0
  BY TimelineAssumption
<1> HIDE DEF all
<1>3. CASE Len(recent) < KeepRecent
  <2>1. Remember(recent, b) = all
    BY <1>1, <1>2, <1>3 DEF Remember, all
  <2> QED
    BY <1>1, <1>2, <1>3, <2>1 DEF all
<1>4. CASE Len(recent) = KeepRecent
  <2>1. Remember(recent, b) = Tail(all)
    BY <1>1, <1>2, <1>4 DEF Remember, all
  <2>2. /\ Tail(all) \in Seq(Blocks) /\ Len(Tail(all)) = Len(all) - 1
        /\ \A i \in 1..Len(Tail(all)) : Tail(all)[i] = all[i + 1]
    BY <1>1, HeadTailProperties
  <2>3. Len(Tail(all)) = KeepRecent /\ Tail(all) # <<>>
    BY <1>1, <1>2, <1>4, <2>2
  <2>4. \A i \in 1..(KeepRecent - 1) : Tail(all)[i] = recent[i + 1]
    BY <1>1, <1>2, <1>4, <2>2, <2>3
  <2>5. Tail(all)[KeepRecent] = b
    BY <1>1, <1>2, <1>4, <2>2, <2>3
  <2>6. ~(Len(recent) < KeepRecent) /\ KeepRecent <= KeepRecent
    BY <1>2, <1>4
  <2>7. Len(Remember(recent, b)) = KeepRecent /\ Remember(recent, b) \in Seq(Blocks)
        /\ Remember(recent, b) # <<>>
    BY <2>1, <2>2, <2>3
  <2> QED
    BY <2>1, <2>4, <2>5, <2>6, <2>7
<1> QED
  BY <1>2, <1>3, <1>4

\* A record the enclave makes at its next position.
LEMMA NextRecordType ==
    ASSUME RecordType, NEW b \in Blocks \cup {NoBlock}
    PROVE  NextRecord(b) \in Records
BY DEF RecordType, NextRecord, Records

\* The journal keeps its types when a line is appended.
LEMMA JournalTypes ==
    ASSUME TypeInv, NEW rec \in Records, Journal(rec)
    PROVE  pending' \in Seq(Lines) /\ appended' \subseteq Records /\ glued' \subseteq appended'
BY Journaled DEF TypeInv, JournalType, RecordType, Journal

\* The steps that leave the poller alone, but for the chain, the journal and the counts.
LEMMA SameCursor == CursorType /\ UNCHANGED cursor => CursorType'
BY DEF CursorType

\* What a step leaves alone keeps its type: the poller.
LEMMA SamePoll == PollType /\ UNCHANGED <<poll, cursor>> => PollType'
BY DEF PollType

\* The chain and what the providers know of it.
LEMMA SameChain == ChainType /\ UNCHANGED chainVars => ChainType'
BY DEF ChainType, chainVars

\* The journal's files.
LEMMA SameJournal == JournalType /\ UNCHANGED journalVars => JournalType'
BY DEF JournalType, journalVars

\* The enclave's records and what was appended.
LEMMA SameRecord == RecordType /\ UNCHANGED <<enclave, appended, glued>> => RecordType'
BY DEF RecordType

\* The bounds.
LEMMA SameCount == CountType /\ UNCHANGED <<world, start, files, faults>> => CountType'
BY DEF CountType

\* Between two passes.
LEMMA IdlePoll == poll' = Idle => PollType'
BY TimelineAssumption DEF PollType, Idle

\* A fault is counted.
LEMMA FaultCount ==
    ASSUME TypeInv, Fault, UNCHANGED <<world, start, files>>
    PROVE  CountType'
BY WorldTypes DEF TypeInv, CountType, Fault

\* What the poller's steps leave alone.
LEMMA PollerTypes ==
    ASSUME TypeInv, UNCHANGED <<chainVars, enclave, journalVars, appended, glued, start, files, faults>>,
           CursorType', PollType'
    PROVE  TypeInv'
BY SameChain, SameJournal, SameRecord, SameCount DEF TypeInv, chainVars

\* A pass that starts keeps the types.
LEMMA PassStartTypes == ASSUME TypeInv, PassStart PROVE TypeInv'
<1>1. UNCHANGED <<chainVars, cursor, enclave, journalVars, appended, glued, start, files, faults>>
  BY DEF PassStart
<1>2. CursorType'
  BY <1>1, SameCursor DEF TypeInv
<1>3. views[1] \in Blocks /\ KeepRecent \in Nat
  BY TimelineAssumption DEF TypeInv, ChainType
<1>4. PollType'
  <2>1. CASE poll' = [Idle EXCEPT !.pc = "bind", !.head = views[1], !.block = views[1]]
    <3>1. poll' = [pc |-> "bind", head |-> views[1], block |-> views[1], i |-> 0]
      BY <2>1 DEF Idle
    <3>2. 0 \in 0..KeepRecent
      BY <1>3
    <3> QED
      BY <1>3, <3>1, <3>2 DEF PollType
  <2>2. CASE /\ cursor # NoCursor
             /\ poll' = [Idle EXCEPT !.pc = "rewind", !.i = Len(cursor.recent)]
    <3>1. Len(cursor.recent) \in 0..KeepRecent
      BY <1>3, <2>2 DEF TypeInv, CursorType
    <3>2. /\ poll' = [pc |-> "rewind", head |-> NoBlock, block |-> NoBlock, i |-> Len(cursor.recent)]
          /\ cursor' = cursor /\ cursor # NoCursor
      BY <1>1, <2>2 DEF Idle
    <3> QED
      BY <3>1, <3>2 DEF PollType
  <2>3. CASE cursor # NoCursor /\ poll' = [Idle EXCEPT !.pc = "next", !.head = views[1]]
    <3>1. /\ poll' = [pc |-> "next", head |-> views[1], block |-> NoBlock, i |-> 0]
          /\ cursor' = cursor /\ cursor # NoCursor
      BY <1>1, <2>3 DEF Idle
    <3>2. 0 \in 0..KeepRecent
      BY <1>3
    <3> QED
      BY <1>3, <3>1, <3>2 DEF PollType
  <2> QED
    BY <2>1, <2>2, <2>3 DEF PassStart
<1> QED
  BY <1>1, <1>2, <1>4, PollerTypes

\* The next block of a pass keeps the types.
LEMMA NextBlockTypes == ASSUME TypeInv, NextBlock PROVE TypeInv'
<1> DEFINE n == Len(cursor.block) + 1
           b == IF n = Len(poll.head) THEN poll.head ELSE BlockAt(n)
<1>1. UNCHANGED <<chainVars, cursor, enclave, journalVars, appended, glued, start, files, faults>>
  BY DEF NextBlock
<1>2. CursorType'
  BY <1>1, SameCursor DEF TypeInv
<1>3. /\ poll.pc = "next" /\ cursor # NoCursor /\ cursor.block \in Blocks /\ poll.head \in Blocks
      /\ KeepRecent \in Nat
  BY TimelineAssumption DEF TypeInv, CursorType, PollType, NextBlock
<1>4. n \in Int
  BY <1>3, BlockIsSeq
<1>5. n = Len(poll.head) \/ Agreed(n) => b \in Blocks
  BY <1>3, <1>4, AgreedBlock
<1>6. PollType'
  <2>1. CASE poll' = Idle
    BY <2>1, IdlePoll
  <2>2. CASE poll' = [Idle EXCEPT !.pc = "rewind", !.i = Len(cursor.recent)]
    <3>1. Len(cursor.recent) \in 0..KeepRecent
      BY <1>3 DEF TypeInv, CursorType
    <3>2. /\ poll' = [pc |-> "rewind", head |-> NoBlock, block |-> NoBlock, i |-> Len(cursor.recent)]
          /\ cursor' = cursor
      BY <1>1, <2>2 DEF Idle
    <3> QED
      BY <1>3, <3>1, <3>2 DEF PollType
  <2>3. CASE poll' = [poll EXCEPT !.pc = "bind", !.block = b] /\ (n = Len(poll.head) \/ Agreed(n))
    <3>1. b \in Blocks
      BY <1>5, <2>3
    <3> HIDE DEF b
    <3> QED
      BY <1>1, <1>3, <2>3, <3>1 DEF TypeInv, PollType
  <2> QED
    BY <2>1, <2>2, <2>3 DEF NextBlock
<1> QED
  BY <1>1, <1>2, <1>6, PollerTypes

\* A bound block read keeps the types.
LEMMA BindReadTypes == ASSUME TypeInv, BindRead PROVE TypeInv'
<1>1. poll.pc = "bind" /\ poll.block \in Blocks /\ poll.head \in Blocks
  BY DEF BindRead, TypeInv, PollType
<1>2. cursor.recent \in Seq(Blocks) /\ Len(cursor.recent) <= KeepRecent
  BY TypesGiven DEF TypeOK
<1>3. CursorType' /\ cursor' # NoCursor
  <2>1. cursor' = [block |-> poll.block, recent |-> Remember(cursor.recent, poll.block)]
    BY DEF BindRead
  <2>2. /\ cursor'.block = poll.block /\ cursor'.recent = Remember(cursor.recent, poll.block)
    BY <2>1
  <2>3. /\ Remember(cursor.recent, poll.block) \in Seq(Blocks)
        /\ Remember(cursor.recent, poll.block) # <<>>
        /\ Len(Remember(cursor.recent, poll.block)) <= KeepRecent
    BY <1>1, <1>2, RememberOne
  <2>4. cursor' # NoCursor
    BY <2>2, <2>3 DEF NoCursor
  <2> QED
    BY <1>1, <2>2, <2>3, <2>4 DEF CursorType
<1>4. PollType'
  <2>1. CASE poll' = Idle
    BY <2>1, IdlePoll
  <2>2. CASE poll' = [poll EXCEPT !.pc = "next"]
    BY <1>1, <1>3, <2>2 DEF TypeInv, PollType
  <2> QED
    BY <2>1, <2>2 DEF BindRead
<1>5. NextRecord(poll.block) \in Records
  BY <1>1, NextRecordType DEF TypeInv
<1>6. pending' \in Seq(Lines) /\ appended' \subseteq Records /\ glued' \subseteq appended'
  BY <1>5, JournalTypes DEF BindRead
<1>7. JournalType'
  BY <1>6 DEF TypeInv, JournalType, BindRead
<1>8. RecordType'
  BY <1>6 DEF TypeInv, RecordType, BindRead, TakeCount
<1>9. CountType'
  <2>1. Len(poll.block) \in 0..MaxHeight
    BY <1>1, BlockIsSeq, TimelineAssumption
  <2>2. UNCHANGED <<chainVars, files, faults>>
    BY DEF BindRead
  <2>3. start' \in 0..MaxHeight
    BY <2>1 DEF TypeInv, CountType, BindRead
  <2> QED
    BY <2>2, <2>3 DEF TypeInv, CountType, chainVars
<1>10. ChainType'
  BY SameChain DEF TypeInv, BindRead
<1> QED
  BY <1>3, <1>4, <1>7, <1>8, <1>9, <1>10 DEF TypeInv

\* A rewind to a remembered block keeps the types.
LEMMA RewindTypes == ASSUME TypeInv, Rewind PROVE TypeInv'
<1> DEFINE r == cursor.recent[poll.i]
<1>1. UNCHANGED <<chainVars, enclave, journalVars, appended, glued, start, files, faults>>
  BY DEF Rewind
<1>2. /\ poll.pc = "rewind" /\ cursor # NoCursor /\ poll.i \in 1..Len(cursor.recent)
      /\ poll.i \in Nat /\ poll.i <= KeepRecent
      /\ cursor.recent \in Seq(Blocks) /\ Len(cursor.recent) <= KeepRecent
      /\ KeepRecent \in Nat /\ Len(cursor.recent) \in Nat
  BY TimelineAssumption DEF Rewind, TypeInv, PollType, CursorType
<1>3. r \in Blocks
  BY <1>2, ElementOfSeq
<1>4. CASE cursor' = [block |-> r, recent |-> Prefix(cursor.recent, poll.i)] /\ poll' = Idle
  <2>1. cursor'.block = r /\ cursor'.recent = SubSeq(cursor.recent, 1, poll.i)
    BY <1>4 DEF Prefix
  <2>2. /\ SubSeq(cursor.recent, 1, poll.i) \in Seq(Blocks)
        /\ Len(SubSeq(cursor.recent, 1, poll.i)) = poll.i
    <3>1. \A j \in 1..poll.i : cursor.recent[j] \in Blocks
      BY <1>2, ElementOfSeq
    <3> QED
      BY <1>2, <3>1, SubSeqProperties
  <2>3. SubSeq(cursor.recent, 1, poll.i) # <<>>
    BY <1>2, <2>2
  <2>4. CursorType'
    BY <1>2, <1>3, <2>1, <2>2, <2>3 DEF CursorType
  <2> QED
    BY <1>1, <1>4, <2>4, IdlePoll, PollerTypes
<1>5. CASE poll' = [poll EXCEPT !.i = @ - 1] /\ UNCHANGED cursor
  <2>1. poll.i - 1 \in 0..KeepRecent /\ poll.i - 1 <= Len(cursor.recent)
    BY <1>2
  <2>2. PollType'
    BY <1>2, <1>5, <2>1 DEF TypeInv, PollType
  <2> QED
    BY <1>1, <1>5, <2>2, SameCursor, PollerTypes DEF TypeInv
<1> QED
  BY <1>4, <1>5 DEF Rewind

\* A rewind past the remembered blocks keeps the types.
LEMMA RewindDeepTypes == ASSUME TypeInv, RewindDeep PROVE TypeInv'
<1> DEFINE n == Len(cursor.recent[1]) - 1
<1>1. UNCHANGED <<chainVars, enclave, journalVars, appended, glued, start, files, faults>>
  BY DEF RewindDeep
<1>2. /\ cursor # NoCursor /\ cursor.recent \in Seq(Blocks) /\ cursor.recent # <<>>
      /\ KeepRecent \in Nat /\ KeepRecent > 0
  BY TimelineAssumption DEF RewindDeep, TypeInv, PollType, CursorType
<1>3. cursor.recent[1] \in Blocks
  BY <1>2, EmptySeq, ElementOfSeq
<1>4. n \in Int
  BY <1>3, BlockIsSeq
<1>5. BlockAt(n) \in Blocks
  BY <1>4, AgreedBlock DEF RewindDeep
<1>6. cursor' = [block |-> BlockAt(n), recent |-> <<BlockAt(n)>>] /\ poll' = Idle
  BY DEF RewindDeep
<1> HIDE DEF n
<1>7. CursorType'
  BY <1>2, <1>5, <1>6 DEF CursorType
<1> QED
  BY <1>1, <1>6, <1>7, IdlePoll, PollerTypes

\* The upload: batches and objects stay sequences of lines and sets of records.
LEMMA FlushTypes ==
    ASSUME TypeInv,
           \/ Flush
           \/ \E e \in 1..enclave.epoch : PutFails(e)
    PROVE  TypeInv'
<1>1. /\ pending \in Seq(Lines) /\ batches \in Seq(Seq(Lines))
      /\ upload \in [on : BOOLEAN, put : SUBSET Nat]
      /\ \A o \in bucket : o.lines \subseteq Records
      /\ enclave.epoch \in Nat
  BY DEF TypeInv, JournalType, RecordType
<1>2. UNCHANGED <<chainVars, cursor, poll, enclave, appended, glued, start, files>>
  BY DEF Flush, FlushStart, UploadPart, Unlink, FlushEnd, PutFails
<1>3. ChainType' /\ CursorType' /\ PollType' /\ RecordType'
  BY <1>2, SameChain, SameCursor, SamePoll, SameRecord DEF TypeInv
<1>4. CountType'
  <2>1. CASE Flush
    <3>1. UNCHANGED faults
      BY <2>1 DEF Flush, FlushStart, UploadPart, Unlink, FlushEnd
    <3> QED
      BY <1>2, <3>1, SameCount DEF TypeInv, chainVars
  <2>2. CASE \E e \in 1..enclave.epoch : PutFails(e)
    <3>1. Fault
      BY <2>2 DEF PutFails
    <3> QED
      BY <1>2, <3>1, FaultCount DEF chainVars
  <2> QED
    BY <2>1, <2>2
<1>5. JournalType'
  <2>1. CASE FlushStart
    <3>1. batches' \in Seq(Seq(Lines))
      BY <1>1, <2>1, AppendProperties DEF FlushStart
    <3>2. pending' = <<>> /\ upload' = [on |-> TRUE, put |-> {}] /\ bucket' = bucket
      BY <2>1 DEF FlushStart
    <3> QED
      BY <1>1, <3>1, <3>2 DEF JournalType
  <2>2. ASSUME NEW e \in 1..enclave.epoch, batches # <<>>
        PROVE  ObjectOf(batches[1], e).lines \subseteq Records
    <3>1. batches[1] \in Seq(Lines)
      BY <1>1, <2>2, EmptySeq, ElementOfSeq
    <3>2. Part(batches[1], e) \subseteq Records
      BY <3>1 DEF Part, Parsed, Lines
    <3> QED
      BY <3>2 DEF ObjectOf
  <2>3. ASSUME NEW e \in 1..enclave.epoch, UploadPart(e) PROVE JournalType'
    <3>1. \A o \in bucket' : o.lines \subseteq Records
      BY <1>1, <2>2, <2>3 DEF UploadPart
    <3>2. upload' \in [on : BOOLEAN, put : SUBSET Nat]
      <4>1. upload.put \cup {e} \in SUBSET Nat
        BY <1>1
      <4>2. upload' = [upload EXCEPT !.put = upload.put \cup {e}]
        BY <2>3 DEF UploadPart
      <4> QED
        BY <1>1, <4>1, <4>2
    <3> QED
      BY <1>1, <2>3, <3>1, <3>2 DEF UploadPart, JournalType
  <2>4. ASSUME NEW e \in 1..enclave.epoch, PutFails(e) PROVE JournalType'
    <3>1. \A o \in bucket' : o.lines \subseteq Records
      BY <1>1, <2>2, <2>4 DEF PutFails
    <3>2. upload' \in [on : BOOLEAN, put : SUBSET Nat]
      BY <2>4 DEF PutFails, Resting
    <3> QED
      BY <1>1, <2>4, <3>1, <3>2 DEF PutFails, JournalType
  <2>5. CASE Unlink
    <3>1. Tail(batches) \in Seq(Seq(Lines))
      BY <1>1, <2>5, HeadTailProperties DEF Unlink
    <3>2. upload' = [on |-> TRUE, put |-> {}]
      BY <2>5 DEF Unlink
    <3> QED
      BY <1>1, <2>5, <3>1, <3>2 DEF Unlink, JournalType
  <2>6. CASE FlushEnd
    BY <1>1, <2>6 DEF FlushEnd, JournalType, Resting
  <2> QED
    BY <2>1, <2>3, <2>4, <2>5, <2>6 DEF Flush
<1> QED
  BY <1>3, <1>4, <1>5 DEF TypeInv

\* A process that ends, with or without the enclave, or in the middle of a bind.
LEMMA CrashTypes ==
    ASSUME TypeInv, Crash \/ CrashInBind
    PROVE  TypeInv'
<1>1. /\ Fault /\ poll' = Idle /\ upload' = Resting
      /\ UNCHANGED <<chainVars, batches, bucket, start, files>> /\ UNCHANGED cursor
  BY DEF Crash, CrashInBind, Restarted
<1>2. ChainType' /\ CursorType' /\ PollType' /\ CountType'
  BY <1>1, SameChain, SameCursor, IdlePoll, FaultCount DEF TypeInv, chainVars
<1>3. /\ pending \in Seq(Lines) /\ batches \in Seq(Seq(Lines))
      /\ \A o \in bucket : o.lines \subseteq Records
      /\ enclave \in [epoch : Nat, count : Nat]
  BY DEF TypeInv, JournalType, RecordType
<1>4. pending' \in Seq(Lines)
  <2>1. Torn \in Lines
    BY DEF Lines
  <2>2. CASE Crash
    BY <1>3, <2>2 DEF Crash
  <2>3. CASE CrashInBind
    <3>1. poll.block \in Blocks
      BY <2>3 DEF CrashInBind, TypeInv, PollType
    <3>2. Journal(NextRecord(poll.block)) => pending' \in Seq(Lines)
      BY <3>1, NextRecordType, JournalTypes DEF TypeInv
    <3> QED
      BY <1>3, <2>1, <2>3, <3>2, AppendProperties DEF CrashInBind
  <2> QED
    BY <2>2, <2>3
<1>5. JournalType'
  BY <1>1, <1>3, <1>4 DEF JournalType, Resting
<1>6. RecordType'
  <2>1. enclave' \in [epoch : Nat, count : Nat]
    BY <1>3 DEF Crash, CrashInBind, TakeCount
  <2>2. CASE Crash
    BY <2>1, <2>2 DEF Crash, TypeInv, RecordType
  <2>3. CASE CrashInBind
    <3>1. poll.block \in Blocks
      BY <2>3 DEF CrashInBind, TypeInv, PollType
    <3>2. Journal(NextRecord(poll.block)) => appended' \subseteq Records /\ glued' \subseteq appended'
      BY <3>1, NextRecordType, JournalTypes DEF TypeInv
    <3> QED
      BY <2>1, <2>3, <3>2 DEF CrashInBind, TypeInv, RecordType
  <2> QED
    BY <2>2, <2>3
<1> QED
  BY <1>2, <1>5, <1>6 DEF TypeInv

\* Every step keeps the types.
LEMMA NextTypes == ASSUME TypeInv, [Next]_vars PROVE TypeInv'
<1>1. CASE Chain \/ Behind
  <2>1. ChainType'
    BY <1>1, ChainTypes DEF TypeInv, ChainType
  <2>2. UNCHANGED <<cursor, poll, enclave, journalVars, reader, appended, glued, start, files>>
    BY <1>1 DEF Chain, Behind
  <2>3. CountType'
    <3>1. world' = world
      BY <1>1, ChainTypes
    <3> QED
      BY <1>1, <2>2, <3>1, SameCount, FaultCount DEF TypeInv, Chain, Behind
  <2> QED
    BY <2>1, <2>2, <2>3, SameCursor, SamePoll, SameJournal, SameRecord DEF TypeInv
<1>2. CASE Poller
  BY <1>2, PassStartTypes, NextBlockTypes, BindReadTypes, RewindTypes, RewindDeepTypes DEF Poller
<1>3. CASE ReadFails \/ BindFails
  <2>1. /\ poll' = Idle /\ Fault
        /\ UNCHANGED <<chainVars, cursor, journalVars, appended, glued, start, files>>
    BY <1>3 DEF ReadFails, BindFails
  <2>2. RecordType'
    <3>1. enclave' \in [epoch : Nat, count : Nat]
      BY <1>3 DEF ReadFails, BindFails, TakeCount, TypeInv, RecordType
    <3> QED
      BY <2>1, <3>1 DEF TypeInv, RecordType
  <2> QED
    BY <2>1, <2>2, SameChain, SameCursor, SameJournal, IdlePoll, FaultCount DEF TypeInv, chainVars
<1>4. CASE RecordFile
  <2>1. NextRecord(NoBlock) \in Records
    BY NextRecordType DEF TypeInv
  <2>2. pending' \in Seq(Lines) /\ appended' \subseteq Records /\ glued' \subseteq appended'
    BY <1>4, <2>1, JournalTypes DEF RecordFile
  <2>3. UNCHANGED <<chainVars, cursor, poll, batches, upload, bucket, start, faults>>
    BY <1>4 DEF RecordFile
  <2>4. RecordType'
    BY <1>4, <2>2 DEF RecordFile, TakeCount, TypeInv, RecordType
  <2>5. JournalType'
    BY <2>2, <2>3 DEF TypeInv, JournalType
  <2>6. CountType'
    BY <1>4, <2>3, WorldTypes DEF TypeInv, CountType, RecordFile, chainVars
  <2> QED
    BY <2>3, <2>4, <2>5, <2>6, SameChain, SameCursor, SamePoll DEF TypeInv
<1>5. CASE Flush \/ \E e \in 1..enclave.epoch : PutFails(e)
  BY <1>5, FlushTypes
<1>6. CASE (\E r \in appended : ReadLocal(r)) \/ ReadBucket \/ UNCHANGED vars
  <2>1. UNCHANGED <<chainVars, cursor, poll, enclave, journalVars, appended, glued, start, files, faults>>
    BY <1>6 DEF ReadLocal, ReadBucket, vars
  <2> QED
    BY <2>1, SameCursor, SamePoll, PollerTypes DEF TypeInv
<1>7. CASE Crash \/ CrashInBind
  BY <1>7, CrashTypes
<1> QED
  BY <1>1, <1>2, <1>3, <1>4, <1>5, <1>6, <1>7 DEF Next

\* TimelineTypes: every reachable state of the timeline is well typed: a cursor never
\* remembers more than KeepRecent blocks, and what it holds are blocks of a chain.
THEOREM TimelineTypes == Spec => []TypeOK
<1>1. Spec => []TypeInv
  BY InitTypes, NextTypes, PTL DEF Spec
<1> QED
  BY <1>1, TypesGiven, PTL

-----------------------------------------------------------------------------
(* The journal.                                                            *)

\* A nonempty set of naturals has a least member.
LEMMA LeastMember ==
    ASSUME NEW S \in SUBSET Nat, S # {}
    PROVE  \E m \in S : \A j \in S : m <= j
<1> DEFINE R == {ss \in Nat \X Nat : ss[1] < ss[2]}
<1>1. IsWellFoundedOn(R, Nat)
  BY NatLessThanWellFounded DEF OpToRel
<1> HIDE DEF R
<1>2. PICK m \in S : \A y \in S : ~ (<<y, m>> \in R)
  BY <1>1, WFMin
<1>3. \A y \in S : y < m => <<y, m>> \in R
  BY DEF R
<1>4. \A y \in S : y \in Nat /\ m \in Nat
  OBVIOUS
<1>5. \A y \in S : ~(y < m)
  BY <1>2, <1>3
<1>6. \A y \in S : m <= y
  BY <1>4, <1>5
<1> QED
  BY <1>6


\* The object made of one epoch's lines: its first count is one of theirs.
LEMMA ObjectMade ==
    ASSUME NEW file, NEW en, \A r \in Parsed(file) : Taken(r, en), NEW e \in Epochs(file)
    PROVE  /\ ObjectOf(file, e).epoch = e
           /\ ObjectOf(file, e).lines = {r \in Parsed(file) : r.epoch = e}
           /\ ObjectOf(file, e).lines # {}
           /\ \E r \in ObjectOf(file, e).lines : r.count = ObjectOf(file, e).first
<1> DEFINE L == {r \in Parsed(file) : r.epoch = e}
           C == {l.count : l \in L}
<1>1. /\ ObjectOf(file, e).epoch = e /\ ObjectOf(file, e).lines = L
      /\ ObjectOf(file, e).first = Min(C)
  BY DEF ObjectOf, Part
<1>2. L # {}
  BY DEF Epochs
<1>3. C \in SUBSET Nat /\ C # {}
  BY <1>2 DEF Taken
<1>4. PICK m \in C : \A j \in C : m <= j
  <2> HIDE DEF C
  <2> QED
    BY <1>3, LeastMember
<1>5. Min(C) \in C
  BY <1>4 DEF Min
<1>6. PICK l \in L : l.count = Min(C)
  BY <1>5
<1> QED
  BY <1>1, <1>2, <1>6

\* StoredObject: a part of the oldest batch is put create-only.  An object that has its
\* key already is that part, put before; otherwise it is new, and meets no other file.
LEMMA StoredObject ==
    ASSUME KeepInv, batches # <<>>, batches \in Seq(Seq(Lines)),
           NEW e \in Epochs(batches[1]), NEW o, o = ObjectOf(batches[1], e)
    PROVE  /\ (\E old \in bucket : Key(old) = Key(o)) => o \in bucket
           /\ ObjectInv(o, batches, pending, enclave)
<1>1. 1 \in DOMAIN batches
  BY EmptySeq, LenProperties
<1>2. \A r \in Parsed(batches[1]) : Taken(r, enclave)
  BY <1>1 DEF KeepInv
<1>3. /\ o.epoch = e /\ o.lines = {r \in Parsed(batches[1]) : r.epoch = e} /\ o.lines # {}
      /\ \E r \in o.lines : r.count = o.first
  <2>1. PICK f, en : f = batches[1] /\ en = enclave
    OBVIOUS
  <2>2. (\A r \in Parsed(f) : Taken(r, en)) /\ e \in Epochs(f)
    BY <1>2, <2>1
  <2>3. /\ ObjectOf(f, e).epoch = e
        /\ ObjectOf(f, e).lines = {r \in Parsed(f) : r.epoch = e}
        /\ ObjectOf(f, e).lines # {}
        /\ \E r \in ObjectOf(f, e).lines : r.count = ObjectOf(f, e).first
    BY ONLY <2>2, ObjectMade
  <2> QED
    BY <2>1, <2>3
<1>4. ASSUME NEW old \in bucket, Key(old) = Key(o) PROVE old = o
  <2>1. old.epoch = o.epoch /\ old.first = o.first
    BY <1>4 DEF Key
  <2>2. ObjectInv(old, batches, pending, enclave)
    BY DEF KeepInv
  <2>3. PICK r \in old.lines : r.count = old.first /\ r.epoch = old.epoch
    BY <2>2 DEF ObjectInv
  <2>4. PICK t \in Parsed(batches[1]) : t.count = o.first /\ t.epoch = o.epoch
    BY <1>3
  <2>5. ~Apart(old.lines, Parsed(batches[1]))
    BY <2>1, <2>3, <2>4 DEF Apart
  <2> QED
    BY <1>1, <1>3, <2>1, <2>2, <2>5 DEF ObjectInv
<1>5. Apart(o.lines, Parsed(pending))
  BY <1>1, <1>3 DEF KeepInv, Apart
<1>6. ASSUME NEW i \in DOMAIN batches
      PROVE  Apart(o.lines, Parsed(batches[i])) \/ (i = 1 /\ o = ObjectOf(batches[1], o.epoch))
  <2>1. CASE i = 1
    BY <1>3, <2>1
  <2>2. CASE i # 1
    <3>1. Apart(Parsed(batches[1]), Parsed(batches[i]))
      BY <1>1, <2>2 DEF KeepInv
    <3> QED
      BY <1>3, <3>1 DEF Apart
  <2> QED
    BY <2>1, <2>2
<1>7. \A r \in o.lines : Taken(r, enclave) /\ r.epoch = o.epoch
  BY <1>2, <1>3
<1> QED
  BY <1>3, <1>4, <1>5, <1>6, <1>7 DEF ObjectInv

\* Positions stay taken.
LEMMA TakenGrows ==
    ASSUME RecordType, \/ UNCHANGED enclave
                       \/ TakeCount
                       \/ enclave' = [epoch |-> enclave.epoch + 1, count |-> 0]
    PROVE  \A r : Taken(r, enclave) => Taken(r, enclave')
<1>1. enclave.epoch \in Nat /\ enclave.count \in Nat
  BY DEF RecordType
<1>2. \/ enclave'.epoch = enclave.epoch /\ enclave'.count = enclave.count
      \/ enclave'.epoch = enclave.epoch /\ enclave'.count = enclave.count + 1
      \/ enclave'.epoch = enclave.epoch + 1
  BY DEF RecordType, TakeCount
<1> QED
  BY <1>1, <1>2 DEF Taken

\* The steps that change nothing a reader can parse.
LEMMA KeepSame ==
    ASSUME KeepInv, \A r : Taken(r, enclave) => Taken(r, enclave'),
           Parsed(pending') = Parsed(pending), UNCHANGED <<batches, bucket>>,
           upload'.put \subseteq upload.put, appended' \ glued' \subseteq appended \ glued
    PROVE  KeepInv'
<1>1. \A o \in bucket : ObjectInv(o, batches, pending', enclave')
  BY DEF KeepInv, ObjectInv
<1>2. Readable' = Readable
  BY DEF Readable, Local
<1> QED
  BY <1>1, <1>2 DEF KeepInv, JournalKeeps

\* A record is journaled at a position that no file and no object has.
LEMMA KeepNew ==
    ASSUME TypeInv, KeepInv, NEW b \in Blocks \cup {NoBlock}, Journal(NextRecord(b)), TakeCount,
           UNCHANGED <<batches, bucket>>, upload'.put \subseteq upload.put
    PROVE  KeepInv'
<1> DEFINE rec == NextRecord(b)
<1>1. rec \in Records /\ rec.epoch = enclave.epoch /\ rec.count = enclave.count + 1
  BY NextRecordType DEF TypeInv, NextRecord
<1>2. enclave.epoch \in Nat /\ enclave.count \in Nat /\ pending \in Seq(Lines)
  BY DEF TypeInv, RecordType, JournalType
<1> HIDE DEF rec
<1>3. \A r : Taken(r, enclave) => Taken(r, enclave') /\ Apart({r}, {rec})
  BY <1>1, <1>2, TakenGrows DEF TypeInv, Taken, Apart
<1>4. pending' = AppendLine(pending, rec) /\ appended' = appended \cup {rec}
  BY DEF Journal, rec
<1>5. CASE pending # <<>> /\ Last(pending) = Torn
  <2>1. Parsed(pending') = Parsed(pending)
    BY <1>1, <1>2, <1>4, <1>5, Journaled
  <2>2. glued' = glued \cup {rec}
    BY <1>5 DEF Journal, rec
  <2> QED
    BY <1>3, <1>4, <2>1, <2>2, KeepSame
<1>6. CASE ~(pending # <<>> /\ Last(pending) = Torn)
  <2>1. Parsed(pending') = Parsed(pending) \cup {rec}
    BY <1>1, <1>2, <1>4, <1>6, Journaled
  <2>2. glued' = glued
    BY <1>6 DEF Journal
  <2>3. Taken(rec, enclave')
    BY <1>1, <1>2 DEF Taken, TakeCount, TypeInv, RecordType
  <2>4. \A r \in Parsed(pending') : Taken(r, enclave')
    BY <1>3, <2>1, <2>3 DEF KeepInv
  <2>5. \A i \in DOMAIN batches :
           (\A r \in Parsed(batches[i]) : Taken(r, enclave'))
           /\ Apart(Parsed(batches[i]), Parsed(pending'))
    BY <1>3, <2>1 DEF KeepInv, Apart
  <2>6. \A o \in bucket : ObjectInv(o, batches, pending', enclave')
    <3> SUFFICES ASSUME NEW o \in bucket PROVE ObjectInv(o, batches, pending', enclave')
      OBVIOUS
    <3>1. ObjectInv(o, batches, pending, enclave)
      BY DEF KeepInv
    <3>2. Apart(o.lines, Parsed(pending'))
      BY <1>3, <2>1, <3>1 DEF ObjectInv, Apart
    <3> QED
      BY <1>3, <3>1, <3>2 DEF ObjectInv
  <2>7. JournalKeeps'
    <3>1. Readable' = Readable \cup {rec}
      BY <2>1 DEF Readable, Local
    <3> QED
      BY <1>4, <2>2, <3>1 DEF KeepInv, JournalKeeps
  <2> QED
    BY <2>4, <2>5, <2>6, <2>7 DEF KeepInv
<1> QED
  BY <1>5, <1>6

\* flush renames the pending file: what it held is in the newest batch.
LEMMA FlushStartKeeps == ASSUME TypeInv, KeepInv, FlushStart PROVE KeepInv'
<1> DEFINE n == Len(batches)
<1>1. /\ batches \in Seq(Seq(Lines)) /\ pending \in Seq(Lines) /\ n \in Nat
      /\ DOMAIN batches = 1..n
  BY LenProperties DEF TypeInv, JournalType
<1>2. /\ pending' = <<>> /\ upload' = [on |-> TRUE, put |-> {}]
      /\ UNCHANGED <<enclave, bucket, appended, glued>>
  BY DEF FlushStart
<1>3. Parsed(pending') = {} /\ upload'.put = {}
  BY <1>2 DEF Parsed
<1>4. CASE pending = <<>>
  <2>1. batches' = batches /\ Parsed(pending') = Parsed(pending)
    BY <1>2, <1>4 DEF FlushStart
  <2> QED
    BY <1>2, <1>3, <2>1, KeepSame
<1>5. CASE pending # <<>>
  <2>1. /\ DOMAIN batches' = 1..(n + 1) /\ batches'[n + 1] = pending
        /\ \A i \in 1..n : batches'[i] = batches[i]
    BY <1>1, <1>5, AppendProperties DEF FlushStart
  <2> HIDE DEF n
  <2>2. \A i \in 1..(n + 1) : i \in 1..n \/ i = n + 1
    BY <1>1
  <2>3. \A i \in DOMAIN batches' : \A r \in Parsed(batches'[i]) : Taken(r, enclave')
    BY <1>1, <1>2, <2>1, <2>2 DEF KeepInv
  <2>4. ASSUME NEW i \in DOMAIN batches', NEW j \in DOMAIN batches', i # j
        PROVE  Apart(Parsed(batches'[i]), Parsed(batches'[j]))
    <3>1. CASE i \in 1..n /\ j \in 1..n
      BY <1>1, <2>1, <2>4, <3>1 DEF KeepInv
    <3>2. CASE i = n + 1 /\ j \in 1..n
      BY <1>1, <2>1, <3>2 DEF KeepInv, Apart
    <3>3. CASE i \in 1..n /\ j = n + 1
      BY <1>1, <2>1, <3>3 DEF KeepInv
    <3> QED
      BY <2>1, <2>2, <2>4, <3>1, <3>2, <3>3
  <2>5. ASSUME NEW o \in bucket PROVE ObjectInv(o, batches', pending', enclave')
    <3>1. ObjectInv(o, batches, pending, enclave)
      BY DEF KeepInv
    <3>2. ASSUME NEW i \in DOMAIN batches'
          PROVE  Apart(o.lines, Parsed(batches'[i])) \/ (i = 1 /\ o = ObjectOf(batches'[1], o.epoch))
      <4>1. CASE i \in 1..n
        BY <1>1, <2>1, <3>1, <4>1 DEF ObjectInv
      <4>2. CASE i = n + 1
        BY <2>1, <3>1, <4>2 DEF ObjectInv
      <4> QED
        BY <2>1, <2>2, <4>1, <4>2
    <3>3. Apart(o.lines, Parsed(pending'))
      BY <1>3 DEF Apart
    <3> QED
      BY <1>2, <3>1, <3>2, <3>3 DEF ObjectInv
  <2>6. Local' = Local
    <3>1. \A r : (\E i \in DOMAIN batches' : r \in Parsed(batches'[i]))
                   <=> r \in Parsed(pending) \/ \E i \in DOMAIN batches : r \in Parsed(batches[i])
      BY <1>1, <2>1, <2>2
    <3>2. UNION {Parsed(batches'[i]) : i \in DOMAIN batches'}
            = Parsed(pending) \cup UNION {Parsed(batches[i]) : i \in DOMAIN batches}
      BY <3>1
    <3> QED
      BY <1>3, <3>2 DEF Local
  <2>7. JournalKeeps'
    BY <1>2, <2>6 DEF KeepInv, JournalKeeps, Readable
  <2> QED
    BY <1>2, <1>3, <2>3, <2>4, <2>5, <2>7 DEF KeepInv, Apart
<1> QED
  BY <1>4, <1>5

\* uploadBatch: a part is put, or its put fails with or without being stored.
LEMMA UploadKeeps ==
    ASSUME TypeInv, KeepInv, NEW e \in Nat, UploadPart(e) \/ PutFails(e)
    PROVE  KeepInv'
<1> DEFINE o == ObjectOf(batches[1], e)
<1>1. /\ batches # <<>> /\ e \in Epochs(batches[1]) /\ batches \in Seq(Seq(Lines))
      /\ UNCHANGED <<batches, pending, enclave, appended, glued>>
  BY DEF UploadPart, PutFails, TypeInv, JournalType
<1>2. /\ (\E old \in bucket : Key(old) = Key(o)) => o \in bucket
      /\ ObjectInv(o, batches, pending, enclave)
  BY <1>1, StoredObject
<1>3. \/ bucket' = bucket /\ upload'.put = {}
      \/ bucket' = bucket \cup {o} /\ upload'.put \subseteq upload.put \cup {e}
  <2>1. UploadPart(e) => upload'.put = upload.put \cup {e}
    BY DEF UploadPart, TypeInv, JournalType
  <2>2. PutFails(e) => upload'.put = {}
    BY DEF PutFails, Resting
  <2>3. o \in bucket => bucket \cup {o} = bucket
    OBVIOUS
  <2> HIDE DEF o
  <2>4. bucket' = bucket \/ bucket' = bucket \cup {o}
    BY <1>2, <2>3 DEF UploadPart, PutFails, o
  <2>5. UploadPart(e) => bucket' = bucket \cup {o}
    BY <1>2, <2>3 DEF UploadPart, o
  <2> QED
    BY <2>1, <2>2, <2>4, <2>5
<1> HIDE DEF o
<1>4. bucket \subseteq bucket' /\ \A x \in bucket' : ObjectInv(x, batches, pending, enclave)
  BY <1>2, <1>3 DEF KeepInv
<1>5. \A x \in upload'.put : ObjectOf(batches[1], x) \in bucket'
  BY <1>1, <1>3 DEF KeepInv, o
<1>6. JournalKeeps'
  BY <1>1, <1>4 DEF KeepInv, JournalKeeps, Readable, Local
<1> QED
  BY <1>1, <1>4, <1>5, <1>6 DEF KeepInv

\* flush deletes the oldest batch once every part of it is up: its records are in the
\* bucket, and no object meets the next batch.
LEMMA UnlinkKeeps == ASSUME TypeInv, KeepInv, Unlink PROVE KeepInv'
<1> DEFINE n == Len(batches)
<1>1. /\ batches \in Seq(Seq(Lines)) /\ batches # <<>> /\ Epochs(batches[1]) \subseteq upload.put
      /\ UNCHANGED <<pending, bucket, enclave, appended, glued>> /\ batches' = Tail(batches)
      /\ upload'.put = {}
  BY DEF Unlink, TypeInv, JournalType
<1>2. n \in Nat /\ n > 0 /\ DOMAIN batches = 1..n
  BY <1>1, LenProperties, EmptySeq
<1>3. DOMAIN batches' = 1..(n - 1) /\ \A i \in 1..(n - 1) : batches'[i] = batches[i + 1]
  BY <1>1, <1>2, HeadTailProperties, LenProperties
<1> HIDE DEF n
<1>4. \A i \in 1..(n - 1) : i + 1 \in DOMAIN batches /\ i + 1 # 1
  BY <1>2
<1>5. \A i \in DOMAIN batches' :
         /\ \A r \in Parsed(batches'[i]) : Taken(r, enclave')
         /\ Apart(Parsed(batches'[i]), Parsed(pending'))
  BY <1>1, <1>3, <1>4 DEF KeepInv
<1>6. ASSUME NEW i \in DOMAIN batches', NEW j \in DOMAIN batches', i # j
      PROVE  Apart(Parsed(batches'[i]), Parsed(batches'[j]))
  <2>1. i + 1 \in DOMAIN batches /\ j + 1 \in DOMAIN batches /\ i + 1 # j + 1
    BY <1>2, <1>3, <1>4, <1>6
  <2> QED
    BY <1>3, <2>1 DEF KeepInv
<1>7. ASSUME NEW o \in bucket PROVE ObjectInv(o, batches', pending', enclave')
  <2>1. ObjectInv(o, batches, pending, enclave)
    BY DEF KeepInv
  <2>2. \A i \in DOMAIN batches' : Apart(o.lines, Parsed(batches'[i]))
    BY <1>3, <1>4, <2>1 DEF ObjectInv
  <2> QED
    BY <1>1, <2>1, <2>2 DEF ObjectInv
<1>8. Readable \subseteq Readable'
  <2> SUFFICES ASSUME NEW r \in Readable PROVE r \in Readable'
    OBVIOUS
  <2>1. CASE r \in Parsed(pending) \/ \E o \in bucket : r \in o.lines
    BY <1>1, <2>1 DEF Readable, Local
  <2>2. CASE r \in Parsed(batches[1])
    <3>1. r.epoch \in Epochs(batches[1])
      BY <2>2 DEF Epochs
    <3>2. ObjectOf(batches[1], r.epoch) \in bucket
      BY <1>1, <3>1 DEF KeepInv
    <3>3. r \in ObjectOf(batches[1], r.epoch).lines
      BY <2>2 DEF ObjectOf, Part
    <3> QED
      BY <1>1, <3>2, <3>3 DEF Readable
  <2>3. ASSUME NEW i \in DOMAIN batches, i # 1, r \in Parsed(batches[i]) PROVE r \in Readable'
    <3>1. i - 1 \in DOMAIN batches' /\ batches'[i - 1] = batches[i]
      BY <1>2, <1>3, <2>3
    <3>2. r \in Parsed(batches'[i - 1])
      BY <2>3, <3>1
    <3> QED
      BY <3>1, <3>2 DEF Readable, Local
  <2> QED
    BY <2>1, <2>2, <2>3 DEF Readable, Local
<1>9. JournalKeeps'
  BY <1>1, <1>8 DEF KeepInv, JournalKeeps
<1> QED
  BY <1>1, <1>5, <1>6, <1>7, <1>9 DEF KeepInv

\* Nothing is journaled and nothing is in the bucket at first.
LEMMA InitKeeps == Init => KeepInv
<1> SUFFICES ASSUME Init PROVE KeepInv
  OBVIOUS
<1>1. /\ pending = <<>> /\ batches = <<>> /\ bucket = {} /\ appended = {}
      /\ DOMAIN batches = {} /\ Parsed(pending) = {}
  BY DEF Init, Parsed
<1> QED
  BY <1>1 DEF KeepInv, JournalKeeps

\* Every step of the timeline keeps what was journaled.
LEMMA NextKeeps == ASSUME TypeInv, KeepInv, [Next]_vars PROVE KeepInv'
<1>1. RecordType
  BY DEF TypeInv
<1>2. ASSUME UNCHANGED <<pending, batches, bucket, appended, glued>>,
             upload'.put \subseteq upload.put,
             UNCHANGED enclave \/ TakeCount \/ enclave' = [epoch |-> enclave.epoch + 1, count |-> 0]
      PROVE  KeepInv'
  BY <1>1, <1>2, TakenGrows, KeepSame
<1>3. CASE \/ Chain \/ Behind \/ PassStart \/ NextBlock \/ Rewind \/ RewindDeep \/ ReadFails
           \/ (\E r \in appended : ReadLocal(r)) \/ ReadBucket \/ UNCHANGED vars
  <2>1. UNCHANGED <<enclave, journalVars, appended, glued>>
    BY <1>3 DEF Chain, Behind, PassStart, NextBlock, Rewind, RewindDeep, ReadFails, ReadLocal,
                ReadBucket, vars
  <2> QED
    BY <1>2, <2>1 DEF journalVars
<1>4. CASE BindFails
  <2>1. UNCHANGED <<journalVars, appended, glued>> /\ (TakeCount \/ UNCHANGED enclave)
    BY <1>4 DEF BindFails
  <2> QED
    BY <1>2, <2>1 DEF journalVars
<1>5. CASE BindRead
  <2>1. poll.block \in Blocks
    BY <1>5 DEF BindRead, TypeInv, PollType
  <2> QED
    BY <1>5, <2>1, KeepNew DEF BindRead
<1>6. CASE RecordFile
  BY <1>6, KeepNew DEF RecordFile
<1>7. CASE Flush
  <2>1. CASE FlushEnd
    BY <1>2, <2>1 DEF FlushEnd, Resting
  <2>2. \A e \in 1..enclave.epoch : e \in Nat
    BY <1>1 DEF RecordType
  <2> QED
    BY <1>7, <2>1, <2>2, FlushStartKeeps, UploadKeeps, UnlinkKeeps DEF Flush
<1>8. CASE \E e \in 1..enclave.epoch : PutFails(e)
  <2>1. \A e \in 1..enclave.epoch : e \in Nat
    BY <1>1 DEF RecordType
  <2> QED
    BY <1>8, <2>1, UploadKeeps
<1>9. CASE Crash
  <2>1. /\ UNCHANGED <<pending, batches, bucket, appended, glued>> /\ upload'.put = {}
        /\ UNCHANGED enclave \/ enclave' = [epoch |-> enclave.epoch + 1, count |-> 0]
    BY <1>9 DEF Crash, Restarted, Resting
  <2> QED
    BY <1>2, <2>1
<1>10. CASE CrashInBind
  <2>1. /\ UNCHANGED <<batches, bucket>> /\ upload'.put = {} /\ TakeCount
        /\ poll.block \in Blocks /\ pending \in Seq(Lines)
    BY <1>10 DEF CrashInBind, Restarted, Resting, TypeInv, PollType, JournalType
  <2>2. CASE Journal(NextRecord(poll.block))
    BY <2>1, <2>2, KeepNew
  <2>3. CASE UNCHANGED <<pending, appended, glued>>
    BY <1>2, <2>1, <2>3
  <2>4. CASE /\ pending' = IF pending # <<>> /\ Last(pending) = Torn THEN pending ELSE Append(pending, Torn)
             /\ UNCHANGED <<appended, glued>>
    <3>1. Parsed(Append(pending, Torn)) = Parsed(pending)
      <4>1. Torn \in Lines
        BY DEF Lines
      <4>2. /\ DOMAIN pending = 1..Len(pending) /\ Len(pending) \in Nat
            /\ DOMAIN Append(pending, Torn) = 1..(Len(pending) + 1)
            /\ Append(pending, Torn)[Len(pending) + 1] = Torn
            /\ \A i \in 1..Len(pending) : Append(pending, Torn)[i] = pending[i]
        BY <2>1, <4>1, AppendProperties, LenProperties
      <4> QED
        BY <4>2 DEF Parsed
    <3>2. Parsed(pending') = Parsed(pending)
      BY <2>4, <3>1
    <3> QED
      BY <1>1, <2>1, <2>4, <3>2, TakenGrows, KeepSame
  <2> QED
    BY <1>10, <2>2, <2>3, <2>4 DEF CrashInBind
<1> QED
  BY <1>3, <1>4, <1>5, <1>6, <1>7, <1>8, <1>9, <1>10 DEF Next, Poller

\* JournalIsKept: a record whose append returned is in the pending file, in a batch or in
\* the bucket ever after, unless a torn line swallowed it: the rename, the create-only
\* puts (one that fails after it was stored too) and the deleting of a batch never lose it.
THEOREM JournalIsKept == Spec => []JournalKeeps
<1>1. Init => TypeInv /\ KeepInv
  BY InitTypes, InitKeeps
<1>2. TypeInv /\ KeepInv /\ [Next]_vars => (TypeInv /\ KeepInv)'
  BY NextTypes, NextKeeps
<1>3. TypeInv /\ KeepInv => JournalKeeps
  BY DEF KeepInv
<1> QED
  BY <1>1, <1>2, <1>3, PTL DEF Spec

-----------------------------------------------------------------------------
(* Reading back.                                                           *)

\* "A batch holds about a minute of records": no object spans more counts than
\* the listing starts before the window.
BatchesAreShort == \A o \in bucket : o.last <= o.first + Slack

\* An object's first and last count are the least and the greatest of its lines.
RangeInv ==
    \A o \in bucket :
        /\ o.first \in Nat /\ o.last \in Nat
        /\ \A r \in o.lines : o.first <= r.count /\ r.count <= o.last

Reading == [pc : {"listing", "done"}, epoch : Nat, count : Nat,
            due : SUBSET Records, got : SUBSET Records]

\* What a reader has to find and did not find on the machine is in the bucket.
ReaderInv ==
    /\ reader \in Reading \cup {NoReader}
    /\ reader.pc \in {"listing", "done"} =>
         \A x \in reader.due : InRange(x, reader.epoch, reader.count)
    /\ reader.pc = "listing" => reader.due \subseteq reader.got \cup Uploaded
    /\ reader.pc = "done" => reader.due \subseteq reader.got

\* The numbers of a list are bounded.
LEMMA ListBounded ==
    ASSUME NEW n \in Nat, NEW f, \A i \in 1..n : f[i] \in Nat
    PROVE  \E u \in Nat : \A i \in 1..n : f[i] <= u
<1> DEFINE Bound(k) == \E u \in Nat : \A i \in 1..k : f[i] <= u
           Open == {k \in Nat : k <= n /\ ~Bound(k)}
<1>1. CASE Open = {}
  <2>1. ~(n \in {k \in Nat : k <= n /\ ~Bound(k)})
    BY <1>1
  <2>2. Bound(n)
    <3> HIDE DEF Bound
    <3> QED
      BY <2>1
  <2> QED
    BY <2>2
<1>2. CASE Open # {}
  <2>1. Open \in SUBSET Nat
    OBVIOUS
  <2> HIDE DEF Open
  <2>2. PICK m \in Open : \A j \in Open : m <= j
    BY <1>2, <2>1, LeastMember
  <2>3. m \in Nat /\ m <= n /\ ~Bound(m)
    BY <2>2 DEF Open
  <2>4. m # 0
    BY <2>3
  <2>5. m - 1 \in Nat /\ m - 1 <= n /\ ~(m - 1 \in Open)
    BY <2>1, <2>2, <2>3, <2>4
  <2>6. PICK u \in Nat : \A i \in 1..(m - 1) : f[i] <= u
    BY <2>5 DEF Open
  <2>7. m \in 1..n /\ f[m] \in Nat
    BY <2>3, <2>4
  <2>8. \A i \in 1..m : i \in 1..(m - 1) \/ i = m
    BY <2>3
  <2>9. PICK v \in Nat : u <= v /\ f[m] <= v
    BY <2>6, <2>7
  <2>10. \A i \in 1..m : f[i] <= v
    <3> SUFFICES ASSUME NEW i \in 1..m PROVE f[i] <= v
      OBVIOUS
    <3>1. f[i] \in Nat
      BY <2>3
    <3> QED
      BY <2>6, <2>7, <2>8, <2>9, <3>1
  <2> QED
    BY <2>3, <2>10
<1> QED
  BY <1>1, <1>2

\* A nonempty bounded set of numbers has a greatest member.
LEMMA GreatestMember ==
    ASSUME NEW S \in SUBSET Nat, S # {}, NEW u \in Nat, \A j \in S : j <= u
    PROVE  \E m \in S : \A j \in S : j <= m
<1> DEFINE Above == {v \in Nat : \A j \in S : j <= v}
<1>1. Above \in SUBSET Nat /\ Above # {}
  OBVIOUS
<1> HIDE DEF Above
<1>2. PICK m \in Above : \A v \in Above : m <= v
  BY <1>1, LeastMember
<1>3. m \in Nat /\ \A j \in S : j <= m
  BY <1>2 DEF Above
<1>4. ASSUME m \notin S PROVE FALSE
  <2>1. PICK j0 \in S : TRUE
    OBVIOUS
  <2>2. \A j \in S : j \in Nat /\ j <= m /\ j # m
    BY <1>3, <1>4
  <2>3. m - 1 \in Nat /\ \A j \in S : j <= m - 1
    BY <1>3, <2>1, <2>2
  <2>4. m - 1 \in Above
    BY <2>3 DEF Above
  <2> QED
    BY <1>2, <1>3, <2>4
<1> QED
  BY <1>3, <1>4

\* The counts of a file's records are bounded.
LEMMA CountsBounded ==
    ASSUME NEW file \in Seq(Lines), NEW en, \A r \in Parsed(file) : Taken(r, en)
    PROVE  \E u \in Nat : \A r \in Parsed(file) : r.count <= u
<1> DEFINE f == [i \in 1..Len(file) |-> IF file[i] \in Parsed(file) THEN file[i].count ELSE 0]
<1>1. Len(file) \in Nat /\ DOMAIN file = 1..Len(file)
  BY LenProperties
<1>2. \A i \in 1..Len(file) : f[i] \in Nat
  BY DEF Taken
<1>3. \A i \in 1..Len(file) : file[i] \in Parsed(file) => f[i] = file[i].count
  OBVIOUS
<1> HIDE DEF f
<1>4. PICK u \in Nat : \A i \in 1..Len(file) : f[i] <= u
  BY <1>1, <1>2, ListBounded
<1>5. \A r \in Parsed(file) : \E i \in 1..Len(file) : file[i] = r
  BY <1>1 DEF Parsed
<1> QED
  BY <1>3, <1>4, <1>5

\* The object made of one epoch's lines spans from their least count to their greatest.
LEMMA ObjectSpans ==
    ASSUME NEW file \in Seq(Lines), NEW en, \A r \in Parsed(file) : Taken(r, en), NEW e \in Epochs(file)
    PROVE  LET o == ObjectOf(file, e) IN
           /\ o.first \in Nat /\ o.last \in Nat
           /\ \A r \in o.lines : o.first <= r.count /\ r.count <= o.last
<1> DEFINE L == {r \in Parsed(file) : r.epoch = e}
           C == {l.count : l \in L}
<1>1. /\ ObjectOf(file, e).lines = L
      /\ ObjectOf(file, e).first = Min(C) /\ ObjectOf(file, e).last = Max(C)
  BY DEF ObjectOf, Part
<1>2. C \in SUBSET Nat /\ C # {}
  BY DEF Epochs, Taken
<1>3. PICK u \in Nat : \A r \in Parsed(file) : r.count <= u
  BY CountsBounded
<1>4. \A j \in C : j <= u
  BY <1>3
<1>5. \A r \in L : r.count \in C
  OBVIOUS
<1> HIDE DEF C, L
<1>6. \E m \in C : \A j \in C : m <= j
  BY <1>2, LeastMember
<1>7. \E m \in C : \A j \in C : m >= j
  <2>1. PICK m \in C : \A j \in C : j <= m
    BY <1>2, <1>4, GreatestMember
  <2> QED
    BY <1>2, <2>1
<1>8. Min(C) \in C /\ \A j \in C : Min(C) <= j
  BY <1>6 DEF Min
<1>9. Max(C) \in C /\ \A j \in C : Max(C) >= j
  BY <1>7 DEF Max
<1> QED
  BY <1>1, <1>2, <1>5, <1>8, <1>9

\* What a step may do to the bucket: nothing, or put a part of the oldest batch.
LEMMA BucketGrows ==
    ASSUME TypeInv, [Next]_vars
    PROVE  \/ UNCHANGED bucket
           \/ /\ batches # <<>>
              /\ \E e \in Epochs(batches[1]) : bucket' = bucket \cup {ObjectOf(batches[1], e)}
<1>1. ASSUME NEW e \in 1..enclave.epoch, UploadPart(e) \/ PutFails(e)
      PROVE  \/ UNCHANGED bucket
             \/ /\ batches # <<>>
                /\ \E d \in Epochs(batches[1]) : bucket' = bucket \cup {ObjectOf(batches[1], d)}
  BY <1>1 DEF UploadPart, PutFails
<1>2. CASE FlushStart \/ Unlink \/ FlushEnd
  BY <1>2 DEF FlushStart, Unlink, FlushEnd
<1>3. CASE Poller \/ ReadFails \/ BindFails \/ RecordFile
  BY <1>3 DEF Poller, PassStart, NextBlock, BindRead, Rewind, RewindDeep, ReadFails, BindFails,
              RecordFile, journalVars
<1>4. CASE \/ Chain \/ Behind \/ (\E r \in appended : ReadLocal(r)) \/ ReadBucket
           \/ Crash \/ CrashInBind \/ UNCHANGED vars
  BY <1>4 DEF Chain, Behind, ReadLocal, ReadBucket, Crash, CrashInBind, Restarted, vars, journalVars
<1> QED
  BY <1>1, <1>2, <1>3, <1>4 DEF Next, Flush

\* Objects keep their range, and new ones have one.
LEMMA NextRanges ==
    ASSUME TypeInv, KeepInv, RangeInv, [Next]_vars
    PROVE  RangeInv' /\ bucket \subseteq bucket'
<1>1. CASE UNCHANGED bucket
  BY <1>1 DEF RangeInv
<1>2. ASSUME batches # <<>>, NEW e \in Epochs(batches[1]), bucket' = bucket \cup {ObjectOf(batches[1], e)}
      PROVE  RangeInv' /\ bucket \subseteq bucket'
  <2>1. batches \in Seq(Seq(Lines))
    BY DEF TypeInv, JournalType
  <2>2. 1 \in DOMAIN batches /\ batches[1] \in Seq(Lines)
    BY <1>2, <2>1, EmptySeq, LenProperties, ElementOfSeq
  <2>3. \A r \in Parsed(batches[1]) : Taken(r, enclave)
    BY <2>2 DEF KeepInv
  <2>4. PICK file : file = batches[1]
    OBVIOUS
  <2>5. file \in Seq(Lines) /\ (\A r \in Parsed(file) : Taken(r, enclave)) /\ e \in Epochs(file)
    BY <1>2, <2>2, <2>3, <2>4
  <2>6. PICK o : o = ObjectOf(file, e)
    OBVIOUS
  <2>7. /\ o.first \in Nat /\ o.last \in Nat
        /\ \A r \in o.lines : o.first <= r.count /\ r.count <= o.last
    BY <2>5, <2>6, ObjectSpans
  <2>8. bucket' = bucket \cup {o}
    BY <1>2, <2>4, <2>6
  <2> QED
    BY <2>7, <2>8 DEF RangeInv
<1> QED
  BY <1>1, <1>2, BucketGrows

\* The lines on the machine are records.
LEMMA LocalRecords == ASSUME TypeInv PROVE Local \subseteq Records
<1>1. pending \in Seq(Lines) /\ batches \in Seq(Seq(Lines))
  BY DEF TypeInv, JournalType
<1>2. ASSUME NEW file \in Seq(Lines) PROVE Parsed(file) \subseteq Records
  <2>1. \A i \in DOMAIN file : file[i] \in Lines
    BY LenProperties, ElementOfSeq
  <2> QED
    BY <2>1 DEF Parsed, Lines
<1>3. \A i \in DOMAIN batches : batches[i] \in Seq(Lines)
  BY <1>1, LenProperties, ElementOfSeq
<1> QED
  BY <1>1, <1>2, <1>3 DEF Local

\* The local read: a record that is not on the machine is in the bucket.
LEMMA ReadLocalReads ==
    ASSUME TypeInv, KeepInv, NEW r \in appended, ReadLocal(r)
    PROVE  ReaderInv'
<1>1. r \in Records /\ appended \subseteq Records /\ Local \subseteq Records
  BY LocalRecords DEF TypeInv, RecordType
<1>2. reader' = [pc |-> "listing", epoch |-> r.epoch, count |-> r.count,
                 due |-> {x \in appended \ glued : InRange(x, r.epoch, r.count)},
                 got |-> {x \in Local : InRange(x, r.epoch, r.count)}]
  BY DEF ReadLocal
<1>3. r.epoch \in Nat /\ r.count \in Nat
  BY <1>1 DEF Records
<1>4. reader' \in Reading
  BY <1>1, <1>2, <1>3 DEF Reading
<1>5. bucket' = bucket
  BY DEF ReadLocal, journalVars
<1>6. appended \ glued \subseteq Local \cup Uploaded
  BY DEF KeepInv, JournalKeeps, Readable, Uploaded
<1>7. reader'.due \subseteq reader'.got \cup Uploaded'
  BY <1>2, <1>5, <1>6 DEF Uploaded
<1> QED
  BY <1>2, <1>4, <1>7 DEF ReaderInv

\* The bucket read: what went up before the listing is listed, if batches are short.
LEMMA ReadBucketReads ==
    ASSUME TypeInv, KeepInv, RangeInv, ReaderInv, BatchesAreShort, ReadBucket
    PROVE  ReaderInv'
<1> DEFINE e == reader.epoch
           c == reader.count
           found == {x \in UNION {o.lines : o \in Listed(e, c)} : InRange(x, e, c)}
<1>1. reader \in Reading /\ reader.pc = "listing"
  BY DEF ReaderInv, ReadBucket, NoReader
<1>2. e \in Nat /\ c \in Nat /\ reader.due \subseteq Records
  BY <1>1 DEF Reading
<1>3. found \subseteq Records
  BY DEF Listed, TypeInv, JournalType
<1>4. reader' = [reader EXCEPT !.pc = "done", !.got = @ \cup found]
  BY DEF ReadBucket
<1>5. ASSUME NEW x \in reader.due, NEW o \in bucket, x \in o.lines
      PROVE  x \in found
  <2>1. InRange(x, e, c)
    BY <1>1, <1>5 DEF ReaderInv
  <2>2. o.epoch = x.epoch
    BY <1>5 DEF KeepInv, ObjectInv
  <2>3. /\ o.first \in Nat /\ o.last \in Nat /\ o.first <= x.count /\ x.count <= o.last
        /\ o.last <= o.first + Slack
    BY <1>5 DEF RangeInv, BatchesAreShort
  <2>4. x.count \in Nat /\ Span \in Nat /\ Slack \in Nat
    BY <1>2, TimelineAssumption DEF Records
  <2>5. x.epoch = e /\ x.count + Span >= c /\ x.count <= c + Span
    BY <2>1 DEF InRange
  <2>6. o.first + Span + Slack >= c /\ o.first <= c + Span /\ o.last + Span >= c
    <3> HIDE DEF e, c
    <3> QED
      BY <1>2, <2>3, <2>4, <2>5
  <2>7. o \in Listed(e, c)
    BY <2>2, <2>5, <2>6 DEF Listed
  <2> QED
    BY <1>5, <2>1, <2>7
<1>6. reader.due \subseteq reader.got \cup found
  <2>1. reader.due \subseteq reader.got \cup Uploaded
    BY <1>1 DEF ReaderInv
  <2> HIDE DEF found
  <2> QED
    BY <1>5, <2>1 DEF Uploaded
<1> HIDE DEF found
<1>7. /\ reader' \in Reading /\ reader'.pc = "done"
      /\ reader'.due = reader.due /\ reader'.got = reader.got \cup found
      /\ reader'.epoch = reader.epoch /\ reader'.count = reader.count
  BY <1>1, <1>3, <1>4 DEF Reading
<1>8. \A x \in reader.due : InRange(x, reader.epoch, reader.count)
  BY <1>1 DEF ReaderInv
<1> QED
  BY <1>6, <1>7, <1>8 DEF ReaderInv, InRange

\* Every step keeps what a reader knows.
LEMMA NextReads ==
    ASSUME TypeInv, KeepInv, RangeInv, ReaderInv, BatchesAreShort, [Next]_vars
    PROVE  ReaderInv'
<1>1. bucket \subseteq bucket'
  BY NextRanges
<1>2. ASSUME UNCHANGED reader PROVE ReaderInv'
  <2>1. Uploaded \subseteq Uploaded'
    BY <1>1 DEF Uploaded
  <2> QED
    BY <1>2, <2>1 DEF ReaderInv, InRange
<1>3. ASSUME reader' = NoReader PROVE ReaderInv'
  BY <1>3 DEF ReaderInv, NoReader
<1>4. CASE Chain \/ Behind \/ Poller \/ ReadFails \/ BindFails \/ RecordFile \/ UNCHANGED vars
  <2>1. UNCHANGED reader
    BY <1>4 DEF Chain, Behind, Poller, PassStart, NextBlock, BindRead, Rewind, RewindDeep, ReadFails,
                BindFails, RecordFile, vars
  <2> QED
    BY <1>2, <2>1
<1>5. CASE Flush \/ \E e \in 1..enclave.epoch : PutFails(e)
  <2>1. UNCHANGED reader
    BY <1>5 DEF Flush, FlushStart, UploadPart, PutFails, Unlink, FlushEnd
  <2> QED
    BY <1>2, <2>1
<1>6. CASE Crash \/ CrashInBind
  BY <1>3, <1>6 DEF Crash, CrashInBind, Restarted
<1> QED
  BY <1>4, <1>5, <1>6, ReadLocalReads, ReadBucketReads DEF Next

\* AroundIsComplete: a bundle misses no record around its file, although batches go up and
\* are deleted between the reader's two reads: a record is on the machine when the local
\* lines are read, or in the bucket by then, and nothing leaves the bucket.  That the
\* listing, which starts a fixed number of counts before the window, names the object is
\* the assumption: "A batch holds about a minute of records".
THEOREM AroundIsComplete == Spec /\ []BatchesAreShort => []AroundFindsAll
<1>1. Init => TypeInv /\ KeepInv /\ RangeInv /\ ReaderInv
  <2>1. Init => RangeInv /\ ReaderInv
    BY DEF Init, RangeInv, ReaderInv, NoReader
  <2> QED
    BY <2>1, InitTypes, InitKeeps
<1>2. TypeInv /\ KeepInv /\ RangeInv /\ ReaderInv /\ BatchesAreShort /\ [Next]_vars
        => (TypeInv /\ KeepInv /\ RangeInv /\ ReaderInv)'
  BY NextTypes, NextKeeps, NextRanges, NextReads
<1>3. ReaderInv => AroundFindsAll
  BY DEF ReaderInv, AroundFindsAll
<1> QED
  BY <1>1, <1>2, <1>3, PTL DEF Spec

-----------------------------------------------------------------------------
(* The poller.                                                             *)

\* Blocks that have the same ancestors up to a number have the same ancestor there.
LEMMA AlikePrefix ==
    ASSUME NEW a \in Blocks, NEW b \in Blocks, NEW k \in Nat, k <= Len(a), k <= Len(b),
           Alike(a, b, k)
    PROVE  Prefix(a, k) = Prefix(b, k)
<1>1. /\ Prefix(a, k) \in Blocks /\ Len(Prefix(a, k)) = k /\ \A j \in 1..k : Prefix(a, k)[j] = a[j]
      /\ Prefix(b, k) \in Blocks /\ Len(Prefix(b, k)) = k /\ \A j \in 1..k : Prefix(b, k)[j] = b[j]
  BY PrefixBlock
<1>2. Prefix(a, k) \in Seq(0..MaxReorgs) /\ Prefix(b, k) \in Seq(0..MaxReorgs)
  BY <1>1, BlockIsSeq
<1>3. \A j \in 1..k : Prefix(a, k)[j] = Prefix(b, k)[j]
  BY <1>1 DEF Alike
<1> QED
  BY <1>1, <1>2, <1>3, SeqEqual

\* A block is its own last ancestor.
LEMMA WholePrefix == ASSUME NEW b \in Blocks PROVE Prefix(b, Len(b)) = b
<1>1. b \in Seq(0..MaxReorgs) /\ Len(b) \in Nat
  BY BlockIsSeq
<1>2. /\ Prefix(b, Len(b)) \in Blocks /\ Len(Prefix(b, Len(b))) = Len(b)
      /\ \A j \in 1..Len(b) : Prefix(b, Len(b))[j] = b[j]
  BY <1>1, PrefixBlock
<1>3. Prefix(b, Len(b)) \in Seq(0..MaxReorgs)
  BY <1>2, BlockIsSeq
<1> QED
  BY <1>1, <1>2, <1>3, SeqEqual

\* ChainMoves: the chain never gets shorter, replaces no block that is KeepRecent deep,
\* and a provider shows what it showed, the chain, or the block before its newest.
LEMMA ChainMoves ==
    ASSUME TypeInv, Chain \/ Behind
    PROVE  /\ Len(chain) \in Nat /\ Len(chain') \in Nat /\ Len(chain) <= Len(chain')
           /\ \A k \in Nat : k + KeepRecent <= Len(chain) => Alike(chain, chain', k)
           /\ \A p \in 1..2 : /\ Len(views'[p]) \in Nat
                              /\ \/ views'[p] = views[p]
                                 \/ /\ Len(views'[p]) <= Len(chain)
                                    /\ Alike(chain, views'[p], Len(views'[p]))
<1>1. chain \in Blocks /\ views \in [1..2 -> Blocks] /\ Len(chain) \in Nat /\ KeepRecent \in Nat
  BY BlockIsSeq, TimelineAssumption DEF TypeInv, ChainType
<1>2. chain' \in Blocks /\ Len(chain') \in Nat /\ views' \in [1..2 -> Blocks]
  BY ChainTypes, BlockIsSeq
<1>3. \A p \in 1..2 : Len(views'[p]) \in Nat
  BY <1>2, BlockIsSeq
<1>4. CASE Extend
  <2>1. views' = views
    BY <1>4 DEF Extend
  <2>2. Len(chain') = Len(chain) + 1 /\ \A j \in 1..Len(chain) : chain'[j] = chain[j]
    BY <1>4, ExtendChain
  <2> QED
    BY <1>1, <1>2, <1>3, <2>1, <2>2 DEF Alike
<1>5. ASSUME NEW n \in 0..MaxHeight, Reorg(n)
      PROVE  /\ views' = views /\ Len(chain) <= Len(chain')
             /\ \A k \in Nat : k + KeepRecent <= Len(chain) => Alike(chain, chain', k)
  <2>1. /\ Len(chain') >= Len(chain) /\ \A j \in 1..n : chain'[j] = chain[j]
        /\ n + KeepRecent >= Len(chain)
    BY <1>5, ReorgChain
  <2>2. views' = views /\ n \in Nat
    BY <1>5, TimelineAssumption DEF Reorg
  <2> QED
    BY <1>1, <1>2, <2>1, <2>2 DEF Alike
<1>6. ASSUME NEW q \in 1..2, Answer(q) \/ (AnswerBehind(q))
      PROVE  /\ chain' = chain
             /\ \A p \in 1..2 : \/ views'[p] = views[p]
                                \/ /\ Len(views'[p]) <= Len(chain)
                                   /\ Alike(chain, views'[p], Len(views'[p]))
  <2>1. CASE Answer(q)
    BY <1>1, <2>1 DEF Answer, Alike
  <2>2. CASE AnswerBehind(q)
    <3>1. Len(chain) > 0
      BY <1>1, <2>2 DEF AnswerBehind
    <3>2. Len(Front(chain)) = Len(chain) - 1 /\ \A j \in 1..(Len(chain) - 1) : Front(chain)[j] = chain[j]
      BY <1>1, <3>1, FrontBlock
    <3>3. Len(Front(chain)) <= Len(chain) /\ Alike(chain, Front(chain), Len(Front(chain)))
      BY <1>1, <3>2 DEF Alike
    <3>4. chain' = chain /\ \A p \in 1..2 : views'[p] = views[p] \/ views'[p] = Front(chain)
      BY <1>1, <2>2 DEF AnswerBehind
    <3> QED
      BY <3>3, <3>4
  <2> QED
    BY <1>6, <2>1, <2>2
<1>7. chain' = chain => \A k \in Nat : Alike(chain, chain', k)
  BY DEF Alike
<1> QED
  BY <1>1, <1>2, <1>3, <1>4, <1>5, <1>6, <1>7 DEF Chain, Behind

\* What was on the chain stays so, whatever the chain and the providers do.
LEMMA StaysOnChain ==
    ASSUME TypeInv, Chain \/ Behind
    PROVE  /\ \A p \in 1..2 : ViewFits(views[p], chain) => ViewFits(views'[p], chain')
           /\ \A b \in Blocks : Fits(b, chain, views) => Fits(b, chain', views')
           /\ \A b : \A n \in Nat : Settled(b, n, chain, views) => Settled(b, n, chain', views')
<1>1. /\ Len(chain) \in Nat /\ Len(chain') \in Nat /\ Len(chain) <= Len(chain')
      /\ \A k \in Nat : k + KeepRecent <= Len(chain) => Alike(chain, chain', k)
      /\ \A p \in 1..2 : /\ Len(views'[p]) \in Nat
                         /\ \/ views'[p] = views[p]
                            \/ /\ Len(views'[p]) <= Len(chain)
                               /\ Alike(chain, views'[p], Len(views'[p]))
  BY ChainMoves
<1>2. KeepRecent \in Nat /\ \A p \in 1..2 : Len(views[p]) \in Nat
  BY TimelineAssumption, BlockIsSeq DEF TypeInv, ChainType
<1>3. ASSUME NEW b, NEW k \in Nat, k + KeepRecent <= Len(chain), Alike(b, chain, k)
      PROVE  /\ Alike(b, chain', k)
             /\ \A p \in 1..2 : k <= Len(views'[p]) => \/ views'[p] = views[p]
                                                        \/ Alike(b, views'[p], k)
  <2>1. Alike(chain, chain', k)
    BY <1>1, <1>3
  <2>2. ASSUME NEW p \in 1..2, k <= Len(views'[p]), Alike(chain, views'[p], Len(views'[p]))
        PROVE  Alike(b, views'[p], k)
    <3>1. \A j \in 1..k : j \in 1..Len(views'[p])
      BY <1>1, <2>2
    <3> QED
      BY <1>3, <2>2, <3>1 DEF Alike
  <2> QED
    BY <1>1, <1>3, <2>1, <2>2 DEF Alike
<1>4. ASSUME NEW p \in 1..2, ViewFits(views[p], chain) PROVE ViewFits(views'[p], chain')
  <2>1. CASE views'[p] = views[p]
    <3>1. ASSUME NEW k \in 0..Len(views[p]), k + KeepRecent <= Len(views[p])
          PROVE  Alike(views[p], chain', k)
      <4>1. k \in Nat /\ k + KeepRecent <= Len(chain) /\ Alike(views[p], chain, k)
        BY <1>1, <1>2, <1>4, <3>1 DEF ViewFits
      <4> QED
        BY <1>3, <4>1
    <3>2. Len(views[p]) <= Len(chain')
      BY <1>1, <1>2, <1>4 DEF ViewFits
    <3> QED
      BY <2>1, <3>1, <3>2 DEF ViewFits
  <2>2. CASE Len(views'[p]) <= Len(chain) /\ Alike(chain, views'[p], Len(views'[p]))
    <3>1. ASSUME NEW k \in 0..Len(views'[p]), k + KeepRecent <= Len(views'[p])
          PROVE  Alike(views'[p], chain', k)
      <4>1. k \in Nat /\ k + KeepRecent <= Len(chain) /\ k <= Len(views'[p])
        BY <1>1, <1>2, <2>2, <3>1
      <4>2. Alike(chain, chain', k) /\ \A j \in 1..k : j \in 1..Len(views'[p])
        BY <1>1, <4>1
      <4> QED
        BY <2>2, <4>2 DEF Alike
    <3>2. Len(views'[p]) <= Len(chain')
      BY <1>1, <2>2
    <3> QED
      BY <3>1, <3>2 DEF ViewFits
  <2> QED
    BY <1>1, <2>1, <2>2
<1>5. ASSUME NEW b \in Blocks, Fits(b, chain, views) PROVE Fits(b, chain', views')
  <2>1. Len(b) \in Nat /\ Len(b) <= Len(chain)
    BY <1>5, BlockIsSeq DEF Fits
  <2>2. ASSUME NEW k \in 0..Len(b), k + KeepRecent <= Len(b)
        PROVE  /\ Alike(b, chain', k)
               /\ \A p \in 1..2 : k <= Len(views'[p]) => Alike(b, views'[p], k)
    <3>1. /\ k \in Nat /\ k + KeepRecent <= Len(chain) /\ Alike(b, chain, k)
          /\ \A p \in 1..2 : k <= Len(views[p]) => Alike(b, views[p], k)
      BY <1>1, <1>2, <1>5, <2>1, <2>2 DEF Fits
    <3> QED
      BY <1>3, <3>1
  <2>3. Len(b) <= Len(chain')
    BY <1>1, <2>1
  <2> QED
    BY <2>2, <2>3 DEF Fits
<1>6. ASSUME NEW b, NEW n \in Nat, Settled(b, n, chain, views) PROVE Settled(b, n, chain', views')
  <2>1. /\ n + KeepRecent <= Len(chain) /\ Alike(b, chain, n)
        /\ \A p \in 1..2 : n <= Len(views[p]) => Alike(b, views[p], n)
    BY <1>6 DEF Settled
  <2>2. n + KeepRecent <= Len(chain')
    BY <1>1, <1>2, <2>1
  <2> QED
    BY <1>3, <2>1, <2>2 DEF Settled
<1> QED
  BY <1>4, <1>5, <1>6

\* A block that both providers have is on the chain, or was.
LEMMA AgreedFits ==
    ASSUME TypeInv, PollInv, NEW n \in Nat, Agreed(n)
    PROVE  Fits(BlockAt(n), chain, views)
<1>1. /\ BlockAt(n) \in Blocks /\ Len(BlockAt(n)) = n
      /\ \A p \in 1..2 : n <= Len(views[p]) /\ \A j \in 1..n : BlockAt(n)[j] = views[p][j]
  BY AgreedBlock
<1>2. ViewFits(views[1], chain) /\ Len(chain) \in Nat /\ Len(views[1]) \in Nat /\ KeepRecent \in Nat
  BY TimelineAssumption, BlockIsSeq DEF PollInv, TypeInv, ChainType
<1>3. n <= Len(views[1]) /\ Len(views[1]) <= Len(chain)
  BY <1>1, <1>2 DEF ViewFits
<1>4. ASSUME NEW k \in 0..n, k + KeepRecent <= n
      PROVE  /\ Alike(BlockAt(n), chain, k)
             /\ \A p \in 1..2 : Alike(BlockAt(n), views[p], k)
  <2>1. k \in 0..Len(views[1]) /\ k + KeepRecent <= Len(views[1]) /\ \A j \in 1..k : j \in 1..n
    BY <1>2, <1>3, <1>4
  <2>2. Alike(views[1], chain, k)
    BY <1>2, <2>1 DEF ViewFits
  <2>3. \A p \in 1..2 : \A j \in 1..k : BlockAt(n)[j] = views[p][j]
    BY <1>1, <2>1
  <2> QED
    BY <2>2, <2>3 DEF Alike
<1>5. n <= Len(chain)
  BY <1>2, <1>3
<1> QED
  BY <1>1, <1>4, <1>5 DEF Fits

\* What is bound stays bound.
LEMMA SkippedSame ==
    ASSUME NoBlockSkipped, UNCHANGED <<cursor, start>>, appended \subseteq appended'
    PROVE  NoBlockSkipped'
<1>1. BoundBlocks \subseteq BoundBlocks'
  BY DEF BoundBlocks
<1> QED
  BY <1>1 DEF NoBlockSkipped

\* The steps that leave the poller alone, or end its pass or begin a walk back.
LEMMA PollSame ==
    ASSUME PollInv, UNCHANGED <<chain, views, cursor, start>>, appended \subseteq appended',
           poll' = poll \/ poll'.pc \in {"idle", "rewind"}
    PROVE  PollInv'
<1>1. NoBlockSkipped'
  BY SkippedSame DEF PollInv
<1> QED
  BY <1>1 DEF PollInv

\* The chain and the providers move on.
LEMMA ChainPolls == ASSUME TypeInv, PollInv, Chain \/ Behind PROVE PollInv'
<1>1. UNCHANGED <<cursor, poll, start, appended>>
  BY DEF Chain, Behind
<1>2. \A p \in 1..2 : ViewFits(views'[p], chain')
  BY StaysOnChain DEF PollInv
<1>3. poll.pc \in {"next", "bind"} => Fits(poll.head, chain', views')
  BY StaysOnChain DEF PollInv, TypeInv, PollType
<1>4. poll.pc = "bind" => Fits(poll.block, chain', views')
  BY StaysOnChain DEF PollInv, TypeInv, PollType
<1>5. ASSUME cursor # NoCursor, ~(Len(cursor.recent[1]) <= start)
      PROVE  Settled(cursor.recent[1], Len(cursor.recent[1]) - 1, chain', views')
  <2>1. cursor.recent \in Seq(Blocks) /\ cursor.recent # <<>>
    BY <1>5 DEF TypeInv, CursorType
  <2>2. cursor.recent[1] \in Blocks
    BY <2>1, EmptySeq, ElementOfSeq, LenProperties
  <2>3. Len(cursor.recent[1]) \in Nat /\ start \in Nat
    BY <2>2, BlockIsSeq, TimelineAssumption DEF TypeInv, CountType
  <2>4. Len(cursor.recent[1]) - 1 \in Nat
    BY <1>5, <2>3
  <2>5. Settled(cursor.recent[1], Len(cursor.recent[1]) - 1, chain, views)
    BY <1>5 DEF PollInv
  <2> QED
    BY <2>4, <2>5, StaysOnChain
<1>6. NoBlockSkipped'
  BY <1>1, SkippedSame DEF PollInv
<1> QED
  BY <1>1, <1>2, <1>3, <1>4, <1>5, <1>6 DEF PollInv

\* pass: the head of a new pass.
LEMMA PassStartPolls == ASSUME TypeInv, PollInv, PassStart PROVE PollInv'
<1>1. /\ UNCHANGED <<chain, views, cursor, start, appended>>
      /\ Agreed(Len(views[1])) /\ views[1] \in Blocks
  BY DEF PassStart, chainVars, TypeInv, ChainType
<1>2. Len(views[1]) \in Nat /\ BlockAt(Len(views[1])) = views[1]
  BY <1>1, BlockIsSeq, WholePrefix DEF BlockAt
<1>3. Fits(views[1], chain, views)
  BY <1>1, <1>2, AgreedFits
<1>4. NoBlockSkipped'
  BY <1>1, SkippedSame DEF PollInv
<1>5. CASE poll'.pc = "rewind"
  BY <1>1, <1>5, PollSame
<1>6. CASE /\ poll'.pc \in {"next", "bind"} /\ poll'.head = views[1]
           /\ poll'.pc = "bind" => cursor = NoCursor /\ poll'.block = views[1]
  BY <1>1, <1>3, <1>4, <1>6 DEF PollInv
<1> QED
  BY <1>5, <1>6 DEF PassStart, Idle

\* pass, the loop: the block to bind follows the cursor's.
LEMMA NextBlockPolls == ASSUME TypeInv, PollInv, NextBlock PROVE PollInv'
<1> DEFINE n == Len(cursor.block) + 1
           b == IF n = Len(poll.head) THEN poll.head ELSE BlockAt(n)
<1>1. UNCHANGED <<chain, views, cursor, start, appended>> /\ poll.pc = "next"
  BY DEF NextBlock, chainVars
<1>2. cursor # NoCursor /\ cursor.block \in Blocks /\ poll.head \in Blocks
  BY <1>1 DEF TypeInv, CursorType, PollType
<1>3. n \in Nat /\ n > 0
  BY <1>2, BlockIsSeq
<1>4. CASE poll'.pc \in {"idle", "rewind"}
  BY <1>1, <1>4, PollSame
<1>5. CASE /\ n = Len(poll.head) \/ Agreed(n)
           /\ Front(b) = cursor.block /\ poll' = [poll EXCEPT !.pc = "bind", !.block = b]
  <2>1. Fits(poll.head, chain, views)
    BY <1>1 DEF PollInv
  <2> HIDE DEF n
  <2>2. Fits(b, chain, views) /\ Len(b) > 0
    <3>1. CASE n = Len(poll.head)
      BY <1>3, <2>1, <3>1
    <3>2. CASE n # Len(poll.head)
      BY <1>3, <1>5, <3>2, AgreedFits, AgreedBlock
    <3> QED
      BY <3>1, <3>2
  <2> HIDE DEF b
  <2>3. poll'.pc = "bind" /\ poll'.head = poll.head /\ poll'.block = b
    BY <1>5 DEF TypeInv, PollType
  <2>4. NoBlockSkipped'
    BY <1>1, SkippedSame DEF PollInv
  <2> QED
    BY <1>1, <1>5, <2>1, <2>2, <2>3, <2>4 DEF PollInv
<1>6. \/ poll' = Idle
      \/ poll' = [Idle EXCEPT !.pc = "rewind", !.i = Len(cursor.recent)]
      \/ /\ n = Len(poll.head) \/ Agreed(n)
         /\ Front(b) = cursor.block /\ poll' = [poll EXCEPT !.pc = "bind", !.block = b]
  BY DEF NextBlock
<1>7. Idle.pc = "idle" /\ [Idle EXCEPT !.pc = "rewind", !.i = Len(cursor.recent)].pc = "rewind"
  BY DEF Idle
<1> QED
  BY <1>4, <1>5, <1>6, <1>7

\* The trail of what is remembered: its types.
LEMMA TrailTypes ==
    ASSUME TypeInv, cursor # NoCursor
    PROVE  /\ cursor.block \in Blocks /\ Len(cursor.block) \in Nat
           /\ cursor.recent \in Seq(Blocks) /\ Len(cursor.recent) \in Nat
           /\ Len(cursor.recent) > 0 /\ Len(cursor.recent) <= KeepRecent /\ KeepRecent \in Nat
           /\ \A i \in 1..Len(cursor.recent) : cursor.recent[i] \in Blocks /\ Len(cursor.recent[i]) \in Nat
           /\ start \in Nat
<1>1. /\ cursor.block \in Blocks /\ cursor.recent \in Seq(Blocks) /\ cursor.recent # <<>>
      /\ Len(cursor.recent) <= KeepRecent /\ start \in Nat
  BY TimelineAssumption DEF TypeInv, CursorType, CountType
<1>2. Len(cursor.recent) \in Nat /\ Len(cursor.recent) > 0
  BY <1>1, EmptySeq, LenProperties
<1>3. \A i \in 1..Len(cursor.recent) : cursor.recent[i] \in Blocks
  BY <1>1, ElementOfSeq
<1> QED
  BY <1>1, <1>2, <1>3, BlockIsSeq, TimelineAssumption

\* rewind: the cursor goes back to one of the remembered blocks.
LEMMA RewindPolls == ASSUME TypeInv, PollInv, Rewind PROVE PollInv'
<1> DEFINE m == Len(cursor.recent)
           i == poll.i
           r == cursor.recent[i]
           new == Prefix(cursor.recent, i)
<1>1. UNCHANGED <<chain, views, start, appended>> /\ poll.pc = "rewind" /\ poll.i > 0
  BY DEF Rewind, chainVars
<1>2. CASE cursor' = cursor
  <2>1. poll'.pc \in {"idle", "rewind"}
    BY <1>1 DEF Rewind, Idle, TypeInv, PollType
  <2> QED
    BY <1>1, <1>2, <2>1, PollSame
<1>3. CASE cursor' = [block |-> r, recent |-> new] /\ poll' = Idle
  <2>1. cursor # NoCursor /\ i \in 1..m
    BY <1>1, TimelineAssumption DEF TypeInv, PollType
  <2>2. /\ cursor.block \in Blocks /\ Len(cursor.block) \in Nat
        /\ cursor.recent \in Seq(Blocks) /\ m \in Nat
        /\ \A j \in 1..m : cursor.recent[j] \in Blocks /\ Len(cursor.recent[j]) \in Nat
        /\ start \in Nat
    BY <2>1, TrailTypes
  <2>3. /\ \A j \in 1..m : /\ Len(cursor.recent[j]) + m = Len(cursor.block) + j
                           /\ Alike(cursor.recent[j], cursor.block, Len(cursor.recent[j]))
        /\ \/ Len(cursor.recent[1]) <= start
           \/ Settled(cursor.recent[1], Len(cursor.recent[1]) - 1, chain, views)
        /\ \A k \in start..Len(cursor.block) : Prefix(cursor.block, k) \in BoundBlocks
    BY <2>1 DEF PollInv, Trail, NoBlockSkipped
  <2>4. i \in Nat /\ \A j \in 1..i : j \in 1..m
    BY <2>1, <2>2
  <2>5. Len(new) = i /\ \A j \in 1..i : new[j] = cursor.recent[j]
    <3>1. \A j \in 1..i : cursor.recent[j] \in Blocks
      BY <2>2, <2>4
    <3>2. /\ Len(SubSeq(cursor.recent, 1, i)) = IF 1 <= i THEN i - 1 + 1 ELSE 0
          /\ \A j \in 1..(i - 1 + 1) : SubSeq(cursor.recent, 1, i)[j] = cursor.recent[1 + j - 1]
      BY <2>4, <3>1, SubSeqProperties
    <3> QED
      BY <2>1, <2>4, <3>2 DEF Prefix
  <2> HIDE DEF i, m, new
  <2>6. r \in Blocks /\ Len(r) \in Nat /\ Len(r) + m = Len(cursor.block) + i /\ Len(r) <= Len(cursor.block)
        /\ Alike(r, cursor.block, Len(r))
    BY <2>1, <2>2, <2>3, <2>4
  <2> HIDE DEF r
  <2>7. Trail(new, r)
    <3> SUFFICES ASSUME NEW j \in 1..i
                 PROVE  /\ Len(new[j]) + i = Len(r) + j /\ Alike(new[j], r, Len(new[j]))
      BY <2>5 DEF Trail
    <3>1. /\ Len(new[j]) \in Nat /\ Len(new[j]) + m = Len(cursor.block) + j
          /\ Alike(new[j], cursor.block, Len(new[j]))
      BY <2>2, <2>3, <2>4, <2>5
    <3>2. Len(new[j]) + i = Len(r) + j /\ Len(new[j]) <= Len(r)
      <4>1. m \in Nat /\ i \in Nat /\ j \in Nat /\ j <= i /\ Len(cursor.block) \in Nat
        BY <2>2, <2>4
      <4>2. Len(r) \in Nat /\ Len(r) + m = Len(cursor.block) + i
        BY <2>6
      <4> QED
        BY <3>1, <4>1, <4>2
    <3>3. \A k \in 1..Len(new[j]) : k \in 1..Len(r)
      BY <2>6, <3>1, <3>2
    <3> QED
      BY <2>6, <3>1, <3>2, <3>3 DEF Alike
  <2>8. new[1] = cursor.recent[1]
    BY <2>1, <2>2, <2>5
  <2>9. ASSUME NEW k \in start..Len(r) PROVE Prefix(r, k) \in BoundBlocks
    <3>1. k \in Nat /\ k \in start..Len(cursor.block) /\ k <= Len(r) /\ k <= Len(cursor.block)
      BY <2>2, <2>6
    <3>2. Alike(r, cursor.block, k)
      BY <2>6, <3>1 DEF Alike
    <3>3. Prefix(r, k) = Prefix(cursor.block, k)
      BY <2>2, <2>6, <3>1, <3>2, AlikePrefix
    <3> QED
      BY <2>3, <3>1, <3>3
  <2>10. NoBlockSkipped'
    BY <1>1, <1>3, <2>9 DEF NoBlockSkipped, BoundBlocks
  <2>11. cursor'.block = r /\ cursor'.recent = new /\ poll'.pc = "idle"
    BY <1>3 DEF Idle
  <2> QED
    BY <1>1, <2>3, <2>7, <2>8, <2>10, <2>11 DEF PollInv
<1> QED
  BY <1>2, <1>3 DEF Rewind

\* bindRead: the block is journaled before the cursor names it, and the oldest hash is
\* forgotten only when the block below the next one is KeepRecent deep.
LEMMA BindReadPolls == ASSUME TypeInv, PollInv, BindRead PROVE PollInv'
<1> DEFINE b == poll.block
           new == Remember(cursor.recent, b)
           q == Len(new)
<1>1. /\ UNCHANGED <<chain, views>> /\ poll.pc = "bind"
      /\ cursor' = [block |-> b, recent |-> new]
      /\ start' = IF cursor = NoCursor THEN Len(b) ELSE start
      /\ poll' = IF poll.block = poll.head THEN Idle ELSE [poll EXCEPT !.pc = "next"]
  BY DEF BindRead, chainVars
<1>2. /\ b \in Blocks /\ Len(b) \in Nat /\ Fits(b, chain, views) /\ Fits(poll.head, chain, views)
      /\ KeepRecent \in Nat /\ KeepRecent > 0
  BY <1>1, BlockIsSeq, TimelineAssumption DEF PollInv, TypeInv, PollType
<1>3. BoundBlocks \subseteq BoundBlocks' /\ b \in BoundBlocks'
  <2>1. appended' = appended \cup {NextRecord(b)} /\ NextRecord(b).block = b
    BY DEF BindRead, Journal, NextRecord
  <2> QED
    BY <2>1 DEF BoundBlocks
<1>4. Prefix(b, Len(b)) = b
  BY <1>2, WholePrefix
<1>5. /\ poll'.pc # "bind"
      /\ poll'.pc \in {"next", "bind"} => Fits(poll'.head, chain', views')
      /\ cursor'.block = b /\ cursor'.recent = new
  <2>1. poll' = Idle \/ (poll'.pc = "next" /\ poll'.head = poll.head)
    BY <1>1 DEF TypeInv, PollType
  <2> QED
    BY <1>1, <1>2, <2>1 DEF Idle
<1>6. ASSUME Trail(new, b), Len(new[1]) <= start' \/ Settled(new[1], Len(new[1]) - 1, chain, views),
             \A k \in start'..Len(b) : Prefix(b, k) \in BoundBlocks'
      PROVE  PollInv'
  <2> HIDE DEF b, new
  <2>1. NoBlockSkipped'
    BY <1>5, <1>6 DEF NoBlockSkipped
  <2> QED
    BY <1>1, <1>5, <1>6, <2>1 DEF PollInv
<1>7. CASE cursor = NoCursor
  <2>1. cursor.recent = <<>> /\ <<>> \in Seq(Blocks) /\ Len(<<>>) = 0
    BY <1>7, EmptySeq DEF NoCursor
  <2>2. new = Append(<<>>, b)
    <3> HIDE DEF b
    <3>1. Len(<<>>) <= KeepRecent /\ Len(<<>>) < KeepRecent
      BY <1>2, <2>1
    <3>2. Remember(<<>>, b) = Append(<<>>, b)
      BY <1>2, <2>1, <3>1, RememberOne
    <3> QED
      BY <2>1, <3>2
  <2>3. q = 1 /\ new[1] = b
    BY <1>2, <2>1, <2>2, AppendProperties
  <2>4. start' = Len(b)
    BY <1>1, <1>7
  <2> HIDE DEF b, new, q
  <2>5. Trail(new, b)
    BY <1>2, <2>3 DEF Trail, Alike, q
  <2>6. \A k \in start'..Len(b) : Prefix(b, k) \in BoundBlocks'
    <3>1. \A k \in start'..Len(b) : k = Len(b)
      BY <1>2, <2>4
    <3> QED
      BY <1>3, <1>4, <3>1
  <2>7. Len(new[1]) <= start'
    BY <1>2, <2>3, <2>4
  <2> QED
    BY <1>6, <2>5, <2>6, <2>7
<1>8. CASE cursor # NoCursor
  <2> DEFINE m == Len(cursor.recent)
             cb == cursor.block
             d == m + 1 - q
  <2>1. /\ cb \in Blocks /\ Len(cb) \in Nat /\ cursor.recent \in Seq(Blocks) /\ m \in Nat
        /\ m > 0 /\ m <= KeepRecent
        /\ \A i \in 1..m : cursor.recent[i] \in Blocks /\ Len(cursor.recent[i]) \in Nat
        /\ start \in Nat /\ start' = start
    BY <1>1, <1>8, TrailTypes
  <2>2. /\ \A i \in 1..m : /\ Len(cursor.recent[i]) + m = Len(cb) + i
                           /\ Alike(cursor.recent[i], cb, Len(cursor.recent[i]))
        /\ \/ Len(cursor.recent[1]) <= start
           \/ Settled(cursor.recent[1], Len(cursor.recent[1]) - 1, chain, views)
        /\ \A k \in start..Len(cb) : Prefix(cb, k) \in BoundBlocks
    BY <1>8 DEF PollInv, Trail, NoBlockSkipped
  <2>3. Len(b) = Len(cb) + 1 /\ Alike(cb, b, Len(cb))
    <3>1. Len(b) > 0 /\ Front(b) = cb
      BY <1>1, <1>8 DEF PollInv
    <3>2. Len(cb) = Len(b) - 1 /\ \A j \in 1..(Len(b) - 1) : cb[j] = b[j]
      BY <1>2, <3>1, FrontBlock
    <3> QED
      BY <1>2, <3>2 DEF Alike
  <2>4. /\ q \in Nat /\ q > 0 /\ new[q] = b
        /\ (m < KeepRecent /\ q = m + 1) \/ (m = KeepRecent /\ q = KeepRecent)
        /\ \A j \in 1..(q - 1) : j + d \in 1..m /\ new[j] = cursor.recent[j + d]
    <3>1. CASE m < KeepRecent
      <4>1. new = Append(cursor.recent, b)
        BY <1>2, <2>1, <3>1, RememberOne
      <4>2. q = m + 1 /\ new[m + 1] = b /\ \A j \in 1..m : new[j] = cursor.recent[j]
        BY <1>2, <2>1, <4>1, AppendProperties
      <4> HIDE DEF new, q, m, b
      <4> QED
        BY <1>2, <2>1, <3>1, <4>2
    <3>2. CASE ~(m < KeepRecent)
      <4>1. /\ q = KeepRecent /\ new[KeepRecent] = b
            /\ \A j \in 1..(KeepRecent - 1) : new[j] = cursor.recent[j + 1]
        BY <1>2, <2>1, <3>2, RememberOne
      <4> HIDE DEF new, q, m, b
      <4> QED
        BY <1>2, <2>1, <3>2, <4>1
    <3> QED
      BY <3>1, <3>2
  <2> HIDE DEF b, new, q, m, cb
  <2>5. ASSUME NEW i \in 1..q
        PROVE  Len(new[i]) \in Nat /\ Len(new[i]) + q = Len(b) + i /\ Alike(new[i], b, Len(new[i]))
    <3>1. CASE i = q
      BY <1>2, <2>4, <3>1 DEF Alike
    <3>2. CASE i # q
      <4>1. i \in 1..(q - 1)
        BY <2>4, <3>2
      <4>2. i + d \in 1..m /\ new[i] = cursor.recent[i + d]
        BY <2>4, <4>1
      <4>3. Len(new[i]) \in Nat /\ Len(new[i]) + m = Len(cb) + (i + d) /\ Alike(new[i], cb, Len(new[i]))
        BY <2>1, <2>2, <4>2
      <4>4. i \in Nat /\ i + d <= m /\ d + q = m + 1 /\ d \in Int
        BY <2>1, <2>4, <4>1, <4>2
      <4> HIDE DEF d
      <4>5. Len(new[i]) + q = Len(b) + i /\ Len(new[i]) <= Len(cb)
        <5>1. q \in Nat /\ m \in Nat /\ Len(cb) \in Nat /\ Len(b) = Len(cb) + 1
          BY <2>1, <2>3, <2>4
        <5> QED
          BY <4>3, <4>4, <5>1
      <4>6. \A j \in 1..Len(new[i]) : j \in 1..Len(cb)
        BY <2>1, <4>3, <4>5
      <4> QED
        BY <2>3, <4>3, <4>5, <4>6 DEF Alike
    <3> QED
      BY <3>1, <3>2
  <2>6. Trail(new, b)
    BY <2>5 DEF Trail, q
  <2>7. Len(new[1]) <= start' \/ Settled(new[1], Len(new[1]) - 1, chain, views)
    <3>1. CASE m < KeepRecent
      <4>1. 1 \in 1..(q - 1) /\ d = 0 /\ 1 + d = 1
        BY <2>1, <2>4, <3>1
      <4>2. new[1] = cursor.recent[1]
        BY <2>4, <4>1
      <4> QED
        BY <2>1, <2>2, <4>2
    <3>2. CASE m = KeepRecent /\ q = KeepRecent
      <4> DEFINE k == Len(b) - KeepRecent
      <4>1. Len(cursor.recent[1]) \in Nat /\ Len(cursor.recent[1]) + KeepRecent = Len(b)
        BY <1>2, <2>1, <2>2, <2>3, <3>2
      <4>2. k \in 0..Len(b) /\ k + KeepRecent <= Len(b)
        BY <1>2, <4>1
      <4>3. Len(new[1]) \in Nat /\ Len(new[1]) - 1 = k /\ Alike(new[1], b, Len(new[1]))
        <5>1. 1 \in 1..q
          BY <1>2, <3>2
        <5>2. Len(new[1]) \in Nat /\ Len(new[1]) + q = Len(b) + 1 /\ Alike(new[1], b, Len(new[1]))
          BY <2>5, <5>1
        <5> QED
          BY <1>2, <3>2, <5>2
      <4>4. /\ Alike(b, chain, k) /\ Len(b) <= Len(chain)
            /\ \A p \in 1..2 : k <= Len(views[p]) => Alike(b, views[p], k)
        BY <1>2, <4>2 DEF Fits
      <4>5. Alike(new[1], b, k)
        BY <4>2, <4>3 DEF Alike
      <4>6. k + KeepRecent <= Len(chain)
        BY <1>2, <4>4
      <4>7. Settled(new[1], k, chain, views)
        <5> HIDE DEF k
        <5> QED
          BY <4>4, <4>5, <4>6 DEF Settled, Alike
      <4> QED
        BY <4>3, <4>7
    <3> QED
      BY <2>4, <3>1, <3>2
  <2>8. ASSUME NEW k \in start'..Len(b) PROVE Prefix(b, k) \in BoundBlocks'
    <3>1. CASE k = Len(b)
      BY <1>3, <1>4, <3>1
    <3>2. CASE k # Len(b)
      <4>1. k \in Nat /\ k \in start..Len(cb) /\ k <= Len(cb) /\ k <= Len(b)
        BY <1>2, <2>1, <2>3, <3>2
      <4>2. Alike(cb, b, k)
        BY <2>1, <2>3, <4>1 DEF Alike
      <4>3. b \in Blocks /\ cb \in Blocks
        BY <1>2, <2>1
      <4>4. Prefix(cb, k) = Prefix(b, k)
        BY <4>1, <4>2, <4>3, AlikePrefix
      <4> QED
        BY <1>3, <2>2, <4>1, <4>4
    <3> QED
      BY <3>1, <3>2
  <2> QED
    BY <1>6, <2>6, <2>7, <2>8
<1> QED
  BY <1>7, <1>8

\* rewind, none is left: the block before the oldest one remembered is settled, so what
\* the providers show there is the cursor's own ancestor; or it is before the timeline.
LEMMA RewindDeepPolls == ASSUME TypeInv, PollInv, RewindDeep PROVE PollInv'
<1> DEFINE r == cursor.recent[1]
           n == Len(r) - 1
           x == BlockAt(n)
<1>1. /\ UNCHANGED <<chain, views, start, appended>> /\ poll.pc = "rewind" /\ Agreed(n)
      /\ cursor' = [block |-> x, recent |-> <<x>>] /\ poll' = Idle
  BY DEF RewindDeep, chainVars
<1>2. cursor # NoCursor
  BY <1>1 DEF TypeInv, PollType
<1>3. /\ cursor.block \in Blocks /\ Len(cursor.block) \in Nat /\ start \in Nat
      /\ r \in Blocks /\ Len(r) \in Nat /\ KeepRecent \in Nat
  <2>1. /\ Len(cursor.recent) \in Nat /\ Len(cursor.recent) > 0
        /\ \A i \in 1..Len(cursor.recent) : cursor.recent[i] \in Blocks /\ Len(cursor.recent[i]) \in Nat
    BY <1>2, TrailTypes
  <2> QED
    BY <1>2, <2>1, TrailTypes
<1>4. /\ Len(r) <= Len(cursor.block) /\ Alike(r, cursor.block, Len(r))
      /\ Len(r) <= start \/ Settled(r, n, chain, views)
      /\ \A k \in start..Len(cursor.block) : Prefix(cursor.block, k) \in BoundBlocks
  <2> DEFINE m == Len(cursor.recent)
  <2>1. m \in Nat /\ m > 0
    BY <1>2, TrailTypes
  <2>2. Len(r) + m = Len(cursor.block) + 1 /\ Alike(r, cursor.block, Len(r))
    BY <1>2, <2>1 DEF PollInv, Trail
  <2> HIDE DEF m, r
  <2>3. Len(r) <= Len(cursor.block)
    BY <1>3, <2>1, <2>2
  <2> QED
    BY <1>2, <2>2, <2>3 DEF PollInv, NoBlockSkipped, r
<1> HIDE DEF r
<1>5. n \in Int
  BY <1>3
<1>6. /\ x \in Blocks /\ Len(x) \in Nat
      /\ n >= 0 => Len(x) = n
      /\ \A p \in 1..2 : n <= Len(views[p]) /\ \A j \in 1..n : x[j] = views[p][j]
  BY <1>1, <1>5, AgreedBlock, BlockIsSeq
<1>7. n < 0 => Len(x) = 0
  <2>1. views[1] \in Blocks /\ Len(views[1]) \in Nat
    BY BlockIsSeq DEF TypeInv, ChainType
  <2>2. n < 0 => Len(SubSeq(views[1], 1, n)) = 0
    BY <1>5, <2>1, SubSeqProperties
  <2> QED
    BY <2>2 DEF BlockAt, Prefix
<1> HIDE DEF x, n
<1>8. Trail(<<x>>, x)
  BY <1>6 DEF Trail, Alike
<1>9. Settled(r, n, chain, views) /\ n >= 0 => Alike(r, x, n)
  BY <1>6 DEF Settled, Alike
<1>10. Len(x) <= start \/ Settled(x, Len(x) - 1, chain, views)
  <2>1. CASE n <= 0
    BY <1>3, <1>5, <1>6, <1>7, <2>1
  <2>2. CASE n > 0 /\ Len(r) <= start
    BY <1>3, <1>5, <1>6, <2>2 DEF n
  <2>3. CASE n > 0 /\ Settled(r, n, chain, views)
    <3>1. Len(x) = n /\ n - 1 \in Nat /\ Alike(r, x, n)
      BY <1>5, <1>6, <1>9, <2>3
    <3>2. /\ n + KeepRecent <= Len(chain) /\ Alike(r, chain, n)
          /\ \A p \in 1..2 : Alike(r, views[p], n)
      BY <1>6, <2>3 DEF Settled
    <3>3. Len(chain) \in Nat /\ \A j \in 1..(n - 1) : j \in 1..n
      BY <1>5, BlockIsSeq DEF TypeInv, ChainType
    <3>4. n - 1 + KeepRecent <= Len(chain)
      BY <1>3, <1>5, <3>2, <3>3
    <3> QED
      BY <3>1, <3>2, <3>3, <3>4 DEF Settled, Alike
  <2> QED
    BY <1>4, <1>5, <2>1, <2>2, <2>3
<1>11. ASSUME NEW k \in start..Len(x) PROVE Prefix(x, k) \in BoundBlocks
  <2>1. k \in Nat /\ k <= Len(x) /\ k <= Len(cursor.block) /\ Alike(x, cursor.block, k)
    <3>1. k \in Nat /\ k <= Len(x) /\ start <= k
      BY <1>3, <1>6
    <3>2. CASE n <= 0
      <4>1. k = 0
        BY <1>5, <1>6, <1>7, <3>1, <3>2
      <4> QED
        BY <1>3, <3>1, <4>1 DEF Alike
    <3>3. CASE n > 0
      <4>1. k <= n /\ ~(Len(r) <= start)
        BY <1>3, <1>5, <1>6, <3>1, <3>3 DEF n
      <4>2. Alike(r, x, n)
        BY <1>4, <1>5, <1>9, <3>3, <4>1
      <4>3. k <= Len(r) /\ \A j \in 1..k : j \in 1..n /\ j \in 1..Len(r)
        BY <1>3, <3>1, <4>1 DEF n
      <4>4. k <= Len(cursor.block)
        BY <1>3, <1>4, <3>1, <4>3
      <4> QED
        BY <1>4, <3>1, <4>2, <4>3, <4>4 DEF Alike
    <3> QED
      BY <1>5, <3>2, <3>3
  <2>2. k \in start..Len(cursor.block)
    BY <1>3, <2>1
  <2>3. Prefix(x, k) = Prefix(cursor.block, k)
    BY <1>3, <1>6, <2>1, AlikePrefix
  <2> QED
    BY <1>4, <2>2, <2>3
<1>12. /\ cursor'.block = x /\ cursor'.recent = <<x>> /\ cursor'.recent[1] = x
       /\ poll'.pc = "idle"
  BY <1>1 DEF Idle
<1>13. NoBlockSkipped'
  BY <1>1, <1>11, <1>12 DEF NoBlockSkipped, BoundBlocks
<1> QED
  BY <1>1, <1>8, <1>10, <1>12, <1>13 DEF PollInv

\* At first there is one block, and both providers show it.
LEMMA InitPolls == Init => PollInv
<1> SUFFICES ASSUME Init PROVE PollInv
  OBVIOUS
<1>1. /\ cursor = NoCursor /\ poll.pc = "idle" /\ chain = <<0>>
      /\ \A p \in 1..2 : views[p] = chain
  BY DEF Init, Idle
<1>2. Len(chain) = 1
  BY <1>1
<1>3. ViewFits(chain, chain)
  BY <1>2 DEF ViewFits, Alike
<1>4. \A p \in 1..2 : ViewFits(views[p], chain)
  BY <1>1, <1>3
<1> QED
  BY <1>1, <1>4 DEF PollInv, NoBlockSkipped

\* Every step of the timeline keeps the poller's invariant.
LEMMA NextPolls == ASSUME TypeInv, PollInv, [Next]_vars PROVE PollInv'
<1>1. CASE Chain \/ Behind
  BY <1>1, ChainPolls
<1>2. CASE Poller
  BY <1>2, PassStartPolls, NextBlockPolls, BindReadPolls, RewindPolls, RewindDeepPolls DEF Poller
<1>3. CASE ReadFails \/ BindFails \/ Crash
  <2>1. UNCHANGED <<chain, views, cursor, start, appended>> /\ poll' = Idle /\ Idle.pc = "idle"
    BY <1>3 DEF ReadFails, BindFails, Crash, Restarted, chainVars, Idle
  <2> QED
    BY <2>1, PollSame
<1>4. CASE RecordFile
  BY <1>4, PollSame DEF RecordFile, chainVars, Journal
<1>5. CASE \/ Flush \/ (\E e \in 1..enclave.epoch : PutFails(e))
           \/ (\E r \in appended : ReadLocal(r)) \/ ReadBucket \/ UNCHANGED vars
  <2>1. UNCHANGED <<chain, views, cursor, poll, start, appended>>
    BY <1>5 DEF Flush, FlushStart, UploadPart, Unlink, FlushEnd, PutFails, ReadLocal, ReadBucket,
                vars, chainVars
  <2> QED
    BY <2>1, PollSame
<1>6. CASE CrashInBind
  <2>1. /\ UNCHANGED <<chain, views, cursor, start>> /\ poll' = Idle /\ Idle.pc = "idle"
        /\ appended \subseteq appended'
    BY <1>6 DEF CrashInBind, Restarted, chainVars, Idle, Journal
  <2> QED
    BY <2>1, PollSame
<1> QED
  BY <1>1, <1>2, <1>3, <1>4, <1>5, <1>6 DEF Next

\* NoBlockIsSkipped: every block from the timeline's first one to the cursor, on the
\* cursor's own branch, is in the journal, for any number of remembered hashes, reorgs
\* no deeper than that, lagging providers, crashes inside a bind and failed binds.
THEOREM NoBlockIsSkipped == Spec => []NoBlockSkipped
<1>1. Init => TypeInv /\ PollInv
  BY InitTypes, InitPolls
<1>2. TypeInv /\ PollInv /\ [Next]_vars => (TypeInv /\ PollInv)'
  BY NextTypes, NextPolls
<1>3. TypeInv /\ PollInv => NoBlockSkipped
  BY DEF PollInv
<1> QED
  BY <1>1, <1>2, <1>3, PTL DEF Spec

=============================================================================
