--------------------------- MODULE RecoveryProofs ---------------------------
(***************************************************************************)
(* Proofs about Recovery.tla, for any tree, any tabs or processes, any     *)
(* names held by others and any number of faults: what is believed kept is *)
(* on the server, and the list of a tree is dropped only when no entry     *)
(* needs it any more.                                                      *)
(***************************************************************************)
EXTENDS Recovery, FiniteSetTheorems, SequenceTheorems, WellFoundedInduction, NaturalsInduction, TLAPS

-----------------------------------------------------------------------------
(* The type invariant, with the shape of the functions made explicit.      *)

\* The functions from some of the entries to R: requests and their answers.
Partial(R) == UNION {[S -> R] : S \in SUBSET Entries}
Request == [name : Partial(Names), res : Partial(Answers)]

StoreInv ==
    /\ objects \in [Entries -> [Names -> {"free", "mine", "other"}]]
    /\ req \in [Writers -> Request]
    /\ \A w \in Writers : DOMAIN req[w].res \subseteq DOMAIN req[w].name
    /\ late \subseteq Entries \X Names
    /\ drawn \in 0..MaxSalt
    /\ faults \in 0..MaxFaults

TabStates == {"closed", "loading", "idle", "run", "next", "posting", "lookup", "salting", "after",
              "finish", "closing", "marking", "passEnd", "nap"}
Locals == [start : 1..(Len(Tree) + 1), toSalt : SUBSET Entries, chosen : [Entries -> Names]]

\* A tab that runs has the job in memory; a tab that saved it finds it in the database.
QueueInv ==
    /\ job \in Record \cup {NoJob}
    /\ progress \in Progress
    /\ minted \in BOOLEAN
    /\ pc \in [Tabs -> TabStates]
    /\ live \in [Tabs -> LiveJob \cup {NoJob}]
    /\ loc \in [Tabs -> Locals]
    /\ \A t \in Tabs : pc[t] \notin {"closed", "idle"} => live[t] # NoJob
    /\ \A t \in Tabs : live[t] # NoJob /\ live[t].persisted => job # NoJob

ProcStates == {"new", "registering", "lock", "stale", "relock", "restale", "load", "round",
               "posting", "lookup", "held", "save", "end", "ending", "release", "releasing", "out"}
Todo == [next : {"none", "round", "salted", "exit"}, held : SUBSET Entries, fresh : SUBSET Entries]

JobsInv ==
    /\ file \in State \cup {NoFile}
    /\ lock = NoLock \/ lock \in [token : Procs, stale : BOOLEAN]
    /\ ppc \in [Procs -> ProcStates]
    /\ mem \in [Procs -> State]
    /\ todo \in [Procs -> Todo]

TypeInv ==
    /\ StoreInv /\ QueueInv /\ JobsInv
    /\ active \in {Tabs, Procs} /\ raced \in BOOLEAN

-----------------------------------------------------------------------------
(* Requests and the store.                                                 *)

\* The writers are writers.
LEMMA WritersAre == Tabs \subseteq Writers /\ Procs \subseteq Writers
BY RecoveryQueueAssumption, RecoveryJobsAssumption

\* The bounds are numbers, so names are.
LEMMA NamesAre == MaxSalt \in Nat \ {0} /\ MaxFaults \in Nat /\ Names \subseteq Nat /\ NoSalt \in Names
BY RecoveryStoreAssumption DEF Names, NoSalt

\* A function on some entries.
LEMMA PartialIs ==
    ASSUME NEW R, NEW S \in SUBSET Entries, NEW f \in [S -> R]
    PROVE  f \in Partial(R)
BY DEF Partial

\* What a partial function is.
LEMMA PartialHas ==
    ASSUME NEW R, NEW f \in Partial(R)
    PROVE  /\ DOMAIN f \subseteq Entries /\ f \in [DOMAIN f -> R]
           /\ \A e \in DOMAIN f : f[e] \in R
BY DEF Partial

\* No request is one.
LEMMA NoReqIs == NoReq \in Request /\ DOMAIN NoReq.name = {} /\ DOMAIN NoReq.res = {}
<1>1. ASSUME NEW R PROVE <<>> \in Partial(R)
  <2>1. DOMAIN << >> = {} /\ << >> = [x \in {} |-> 0]
    OBVIOUS
  <2>2. [x \in {} |-> 0] \in [{} -> R]
    OBVIOUS
  <2> QED
    BY <2>1, <2>2, PartialIs
<1>2. <<>> \in Partial(Names) /\ <<>> \in Partial(Answers)
  BY <1>1
<1> QED
  BY <1>2 DEF NoReq, Request

\* An answer more is a partial function.
LEMMA AnswerIs ==
    ASSUME NEW R, NEW f \in Partial(R), NEW e \in Entries, NEW a \in R
    PROVE  WithAnswer(f, e, a) \in Partial(R)
<1>1. DOMAIN f \subseteq Entries /\ f \in [DOMAIN f -> R]
  BY PartialHas
<1>2. DOMAIN f \cup {e} \in SUBSET Entries /\ WithAnswer(f, e, a) \in [DOMAIN f \cup {e} -> R]
  BY <1>1 DEF WithAnswer
<1> QED
  BY <1>2, PartialIs

\* A fault is one more.
LEMMA FaultTypes ==
    ASSUME faults \in 0..MaxFaults, Fault
    PROVE  faults' \in 0..MaxFaults
BY NamesAre DEF Fault

\* A post.
LEMMA PostTypes ==
    ASSUME StoreInv, NEW w \in Writers, NEW name \in Partial(Names), Post(w, name),
           UNCHANGED <<objects, late, drawn>>, faults' \in 0..MaxFaults
    PROVE  StoreInv'
<1>1. <<>> \in Partial(Answers) /\ DOMAIN <<>> = {}
  BY NoReqIs DEF NoReq, Request
<1>2. [name |-> name, res |-> <<>>] \in Request
  BY <1>1 DEF Request
<1>3. req' \in [Writers -> Request]
  BY <1>2 DEF StoreInv, Post
<1>4. \A v \in Writers : DOMAIN req'[v].res \subseteq DOMAIN req'[v].name
  BY <1>1 DEF StoreInv, Post
<1> QED
  BY <1>3, <1>4 DEF StoreInv

\* The end of a post.
LEMMA ResetTypes ==
    ASSUME StoreInv, NEW w \in Writers, req' = [req EXCEPT ![w] = NoReq],
           late' \subseteq Entries \X Names, UNCHANGED <<objects, drawn>>, faults' \in 0..MaxFaults
    PROVE  StoreInv'
BY NoReqIs DEF StoreInv

\* Giving one up.
LEMMA AbandonTypes ==
    ASSUME StoreInv, NEW w \in Writers, Abandon(w), UNCHANGED <<objects, drawn>>, faults' \in 0..MaxFaults
    PROVE  StoreInv'
<1>1. /\ DOMAIN req[w].name \subseteq Entries
      /\ \A e \in DOMAIN req[w].name : req[w].name[e] \in Names
  BY PartialHas DEF StoreInv, Request
<1>2. \A e \in Unserved(w) : <<e, req[w].name[e]>> \in Entries \X Names
  BY <1>1 DEF Unserved
<1>3. late' \subseteq Entries \X Names
  BY <1>2 DEF Abandon, StoreInv
<1> QED
  BY <1>3, ResetTypes DEF Abandon

\* A put keeps the types, and only makes a free name this member's.
LEMMA CreatedTypes ==
    ASSUME StoreInv, NEW e \in Entries, NEW n \in Names, Created(e, n)
    PROVE  /\ objects' \in [Entries -> [Names -> {"free", "mine", "other"}]]
           /\ \A d \in Entries, m \in Names : objects[d][m] # "free" => objects'[d][m] = objects[d][m]
           /\ objects[e][n] = "free" => objects'[e][n] = "mine"
BY DEF StoreInv, Created

\* What is stored under a name stays there.
Lasting == \A d \in Entries, m \in Names : objects[d][m] # "free" => objects'[d][m] = objects[d][m]

\* The server keeps the types.
LEMMA ServerTypes ==
    ASSUME StoreInv, ServerNext
    PROVE  StoreInv' /\ Lasting
<1>1. ASSUME NEW w \in Writers, NEW e \in DOMAIN req[w].name, PutIfAbsent(w, e)
      PROVE  StoreInv' /\ Lasting
  <2>1. req[w] \in Request /\ req[w].name \in Partial(Names) /\ req[w].res \in Partial(Answers)
    BY DEF StoreInv, Request
  <2>2. e \in Entries /\ req[w].name[e] \in Names
    BY <2>1, PartialHas
  <2>3. objects[e][req[w].name[e]] \in {"free", "mine", "other"}
    BY <2>2 DEF StoreInv
  <2>4. \E a \in Answers : Answer(w, e, a)
    BY <1>1, <2>3 DEF PutIfAbsent, Answers
  <2>5. PICK a \in Answers : Answer(w, e, a)
    BY <2>4
  <2>6. WithAnswer(req[w].res, e, a) \in Partial(Answers)
    BY <2>1, <2>2, AnswerIs
  <2>7. DOMAIN WithAnswer(req[w].res, e, a) \subseteq DOMAIN req[w].name
    BY DEF WithAnswer, StoreInv
  <2>8. /\ req' \in [Writers -> Request]
        /\ \A v \in Writers : DOMAIN req'[v].res \subseteq DOMAIN req'[v].name
    <3>1. [req[w] EXCEPT !.res = WithAnswer(@, e, a)]
             = [name |-> req[w].name, res |-> WithAnswer(req[w].res, e, a)]
      BY <2>1 DEF Request
    <3>2. req' = [req EXCEPT ![w] = [name |-> req[w].name, res |-> WithAnswer(req[w].res, e, a)]]
      BY <2>5, <3>1 DEF Answer, StoreInv
    <3>3. [name |-> req[w].name, res |-> WithAnswer(req[w].res, e, a)] \in Request
      BY <2>1, <2>6 DEF Request
    <3> QED
      BY <2>7, <3>2, <3>3 DEF StoreInv
  <2>9. UNCHANGED objects \/ Created(e, req[w].name[e])
    BY <1>1 DEF PutIfAbsent
  <2>10. objects' \in [Entries -> [Names -> {"free", "mine", "other"}]] /\ Lasting
    BY <2>2, <2>9, CreatedTypes DEF StoreInv, Lasting
  <2>11. faults' \in 0..MaxFaults
    BY <1>1, FaultTypes DEF PutIfAbsent, StoreInv
  <2>12. UNCHANGED <<late, drawn>>
    BY <1>1 DEF PutIfAbsent
  <2> QED
    BY <2>8, <2>10, <2>11, <2>12 DEF StoreInv
<1>2. ASSUME NEW p \in late, LatePut(p[1], p[2]) \/ LateLost(p[1], p[2])
      PROVE  StoreInv' /\ Lasting
  <2>1. p[1] \in Entries /\ p[2] \in Names
    BY DEF StoreInv
  <2>2. UNCHANGED objects \/ Created(p[1], p[2])
    BY <1>2 DEF LatePut, LateLost
  <2>3. objects' \in [Entries -> [Names -> {"free", "mine", "other"}]] /\ Lasting
    BY <2>1, <2>2, CreatedTypes DEF StoreInv, Lasting
  <2>4. late' \subseteq late /\ UNCHANGED <<req, drawn, faults>>
    BY <1>2 DEF LatePut, LateLost
  <2> QED
    BY <2>3, <2>4 DEF StoreInv
<1> QED
  BY <1>1, <1>2 DEF ServerNext

-----------------------------------------------------------------------------
(* The tabs: the batch of a pass.                                          *)

\* The greatest of some whole numbers from a to b is one of them.
LEMMA GreatestIs ==
    ASSUME NEW a \in Nat, NEW b \in Nat, NEW S \in SUBSET (a..b), S # {}
    PROVE  Max(S) \in S
<1> DEFINE T == {k \in Nat : \E x \in S : x = b - k}
           R == {ss \in Nat \X Nat : ss[1] < ss[2]}
<1>1. T # {}
  <2>1. PICK x \in S : TRUE
    OBVIOUS
  <2>2. b - x \in Nat /\ x = b - (b - x)
    BY <2>1
  <2> QED
    BY <2>1, <2>2
<1>2. IsWellFoundedOn(R, Nat)
  BY NatLessThanWellFounded DEF OpToRel
<1>3. PICK m \in T : \A y \in T : ~(<<y, m>> \in R)
  <2> HIDE DEF R
  <2>1. T \subseteq Nat
    OBVIOUS
  <2> QED
    BY <1>1, <1>2, <2>1, WFMin
<1>4. PICK x \in S : x = b - m
  BY <1>3
<1>5. \A y \in S : b - y \in T
  BY DEF T
<1>6. \A y \in S : ~(b - y < m)
  BY <1>3, <1>5
<1>7. \A y \in S : x >= y
  BY <1>3, <1>4, <1>6
<1> QED
  BY <1>7 DEF Max

\* The tree has some number of members.
LEMMA TreeIs == Len(Tree) \in Nat /\ MaxBatch \in Nat
BY RecoveryQueueAssumption, LenProperties

\* A batch ends within the tree and holds entries.
LEMMA BatchIs ==
    ASSUME NEW l \in LiveJob
    PROVE  /\ BatchEnd(l) \in (l.cursor - 1)..Len(Tree)
           /\ Pending(l, l.cursor, BatchEnd(l)) \subseteq Entries
<1>1. l.cursor \in 1..(Len(Tree) + 1) /\ l.cursor - 1 \in Nat /\ Len(Tree) \in Nat
  BY TreeIs DEF LiveJob
<1>2. Pending(l, l.cursor, l.cursor - 1) = {}
  <2>1. l.cursor..(l.cursor - 1) = {}
    BY <1>1
  <2> QED
    BY <2>1 DEF Pending
<1>3. Cardinality(Pending(l, l.cursor, l.cursor - 1)) <= MaxBatch
  BY <1>2, TreeIs, FS_EmptySet
<1> DEFINE S == {i \in (l.cursor - 1)..Len(Tree) : Cardinality(Pending(l, l.cursor, i)) <= MaxBatch}
<1>4. l.cursor - 1 \in S /\ S \in SUBSET ((l.cursor - 1)..Len(Tree))
  BY <1>1, <1>3
<1>5. Max(S) \in S
  <2> HIDE DEF S
  <2> QED
    BY <1>1, <1>4, GreatestIs
<1>6. BatchEnd(l) \in S
  BY <1>5 DEF BatchEnd
<1>7. BatchEnd(l) \in (l.cursor - 1)..Len(Tree)
  BY <1>6
<1>8. Unresolved(l) \subseteq Entries
  BY DEF Unresolved
<1>9. Pending(l, l.cursor, BatchEnd(l)) \subseteq Entries
  BY <1>8 DEF Pending
<1> QED
  BY <1>7, <1>9

-----------------------------------------------------------------------------
(* The tabs keep the types.                                                *)

\* No job is none.
LEMMA NoJobIs == NoJob \notin LiveJob /\ NoJob \notin Record
BY DEF LiveJob, Record, NoJob

\* The job in a tab's memory is replaced by another.
LEMMA LiveTypes ==
    ASSUME QueueInv, NEW t \in Tabs, NEW l \in LiveJob, live' = [live EXCEPT ![t] = l],
           job' \in Record \cup {NoJob}, job # NoJob => job' # NoJob, l.persisted => job' # NoJob,
           NEW s \in TabStates, Goto(t, s)
    PROVE  /\ pc' \in [Tabs -> TabStates]
           /\ live' \in [Tabs -> LiveJob \cup {NoJob}]
           /\ \A u \in Tabs : pc'[u] \notin {"closed", "idle"} => live'[u] # NoJob
           /\ \A u \in Tabs : live'[u] # NoJob /\ live'[u].persisted => job' # NoJob
<1>1. l # NoJob
  BY DEF LiveJob, NoJob
<1> QED
  BY <1>1 DEF QueueInv, Goto

\* Merging gives salts, and progress.
LEMMA MergeTypes ==
    /\ \A s \in [Entries -> Names], u \in [Entries -> Names] : MergeSalts(s, u) \in [Entries -> Names]
    /\ \A p \in Progress, q \in Progress : MergeProgress(p, q) \in Progress
BY DEF MergeSalts, MergeProgress, Progress

\* A part of a tab's job is replaced by another.
LEMMA LiveParts ==
    ASSUME NEW l \in LiveJob
    PROVE  /\ \A s \in [Entries -> Names] :
                /\ [l EXCEPT !.rec.salts = s] \in LiveJob
                /\ [l EXCEPT !.rec.salts = s].persisted = l.persisted
           /\ \A p \in Progress, d \in BOOLEAN :
                /\ [l EXCEPT !.progress = p, !.dirty = d] \in LiveJob
                /\ [l EXCEPT !.progress = p, !.dirty = d].persisted = l.persisted
           /\ \A c \in 1..(Len(Tree) + 1) :
                /\ [l EXCEPT !.cursor = c] \in LiveJob
                /\ [l EXCEPT !.cursor = c].persisted = l.persisted
BY DEF LiveJob, Record

\* A tab that runs has a job.
LEMMA RunsWithJob ==
    ASSUME QueueInv, NEW t \in Tabs, pc[t] \notin {"closed", "idle"}
    PROVE  live[t] \in LiveJob
BY DEF QueueInv

\* Loading and enqueueing.
LEMMA LoadTypes ==
    ASSUME TypeInv, NEW t \in Tabs, LoadJobs(t) \/ LoadProgress(t) \/ RefreshUnknown(t)
    PROVE  StoreInv' /\ QueueInv' /\ UNCHANGED objects
<1>1. StoreInv /\ QueueInv
  BY DEF TypeInv
<1>2. faults' \in 0..MaxFaults /\ UNCHANGED <<objects, req, late, drawn>>
  BY <1>1, FaultTypes DEF StoreInv, LoadJobs, LoadProgress, RefreshUnknown, storeVars
<1>3. StoreInv'
  BY <1>1, <1>2 DEF StoreInv
<1>4. UNCHANGED <<job, progress, minted, loc>>
  BY DEF LoadJobs, LoadProgress, RefreshUnknown
<1>5. job # NoJob => Adopted(job, NoProgress, TRUE) \in LiveJob
  BY <1>1, TreeIs DEF QueueInv, Adopted, NoProgress, LiveJob, Progress
<1>6. CASE LoadJobs(t)
  <2>1. CASE live' = live /\ Goto(t, "idle")
    BY <1>1, <1>3, <1>4, <1>2, <2>1 DEF QueueInv, Goto, TabStates
  <2>2. CASE job # NoJob /\ live' = [live EXCEPT ![t] = Adopted(job, NoProgress, TRUE)] /\ Goto(t, "loading")
    <3>1. "loading" \in TabStates
      BY DEF TabStates
    <3> QED
      BY <1>1, <1>2, <1>3, <1>4, <1>5, <2>2, <3>1, LiveTypes DEF QueueInv
  <2>3. CASE job = NoJob /\ live' = [live EXCEPT ![t] = NoJob] /\ Goto(t, "idle")
    BY <1>1, <1>3, <1>4, <1>2, <2>3 DEF QueueInv, Goto, TabStates
  <2> QED
    BY <1>6, <2>1, <2>2, <2>3 DEF LoadJobs
<1>7. CASE LoadProgress(t)
  <2>1. live[t] \in LiveJob
    BY <1>1, <1>7, RunsWithJob DEF LoadProgress
  <2>2. "run" \in TabStates /\ Goto(t, "run")
    BY <1>7 DEF TabStates, LoadProgress
  <2>3. \E l \in LiveJob : live' = [live EXCEPT ![t] = l] /\ l.persisted = live[t].persisted
    <3>1. CASE live' = live
      BY <1>1, <2>1, <3>1 DEF QueueInv
    <3>2. CASE live' = [live EXCEPT ![t].progress = progress]
      <4>1. [live[t] EXCEPT !.progress = progress] \in LiveJob
        BY <1>1, <2>1 DEF LiveJob, QueueInv
      <4>2. [live[t] EXCEPT !.progress = progress].persisted = live[t].persisted
        BY <1>1, <2>1 DEF LiveJob, QueueInv
      <4> QED
        BY <3>2, <4>1, <4>2
    <3> QED
      BY <1>7, <3>1, <3>2 DEF LoadProgress
  <2>4. PICK l \in LiveJob : live' = [live EXCEPT ![t] = l] /\ l.persisted = live[t].persisted
    BY <2>3
  <2>5. l.persisted => job # NoJob
    BY <1>1, <2>1, <2>4, NoJobIs DEF QueueInv
  <2> QED
    BY <1>1, <1>2, <1>3, <1>4, <2>2, <2>4, <2>5, LiveTypes DEF QueueInv
<1>8. CASE RefreshUnknown(t)
  <2>1. "loading" \in TabStates /\ Goto(t, "loading") /\ job # NoJob
    BY <1>8 DEF TabStates, RefreshUnknown
  <2>2. live' = [live EXCEPT ![t] = Adopted(job, NoProgress, TRUE)]
    BY <1>8 DEF RefreshUnknown
  <2> QED
    BY <1>1, <1>2, <1>3, <1>4, <1>5, <2>1, <2>2, LiveTypes DEF QueueInv
<1> QED
  BY <1>6, <1>7, <1>8

\* A running tab goes on with another state of its job.
LEMMA TabTypes ==
    ASSUME QueueInv, NEW t \in Tabs, pc[t] \notin {"closed", "idle"},
           NEW l \in LiveJob, l.persisted = live[t].persisted, live' = [live EXCEPT ![t] = l],
           job' \in Record \cup {NoJob}, job # NoJob => job' # NoJob,
           progress' \in Progress, minted' = minted, loc' \in [Tabs -> Locals],
           NEW s \in TabStates, Goto(t, s)
    PROVE  QueueInv'
<1>1. l.persisted => job' # NoJob
  BY RunsWithJob, NoJobIs DEF QueueInv
<1>2. /\ pc' \in [Tabs -> TabStates]
      /\ live' \in [Tabs -> LiveJob \cup {NoJob}]
      /\ \A u \in Tabs : pc'[u] \notin {"closed", "idle"} => live'[u] # NoJob
      /\ \A u \in Tabs : live'[u] # NoJob /\ live'[u].persisted => job' # NoJob
  BY <1>1, LiveTypes
<1> QED
  BY <1>2 DEF QueueInv

\* A tab's locals, fresh.
LEMMA NoLocIs == NoLoc \in Locals /\ \A c \in 1..(Len(Tree) + 1) : [NoLoc EXCEPT !.start = c] \in Locals
BY TreeIs, NamesAre DEF NoLoc, Locals

\* Enqueueing.
LEMMA EnqueueTypes ==
    ASSUME TypeInv, NEW t \in Tabs, NEW keep \in BOOLEAN, EnqueueTree(t, keep)
    PROVE  StoreInv' /\ QueueInv' /\ UNCHANGED objects
<1>1. StoreInv /\ QueueInv
  BY DEF TypeInv
<1>2. faults' \in 0..MaxFaults /\ UNCHANGED <<objects, req, late, drawn>>
  BY <1>1, FaultTypes DEF StoreInv, EnqueueTree
<1>3. StoreInv'
  BY <1>1, <1>2 DEF StoreInv
<1> DEFINE rec == [made |-> TRUE, keep |-> keep, list |-> keep, done |-> ~keep,
                   salts |-> [e \in Entries |-> NoSalt]]
<1>4. rec \in Record
  BY NamesAre DEF Record
<1>5. \A b \in BOOLEAN : Adopted(rec, NoProgress, b) \in LiveJob /\ Adopted(rec, NoProgress, b).persisted = b
  <2>1. NoProgress \in Progress
    BY DEF NoProgress, Progress
  <2> HIDE DEF rec
  <2> QED
    BY <1>4, <2>1, TreeIs DEF Adopted, LiveJob
<1>6. /\ \/ job' = rec /\ live' = [live EXCEPT ![t] = Adopted(rec, NoProgress, TRUE)]
         \/ job' = job /\ live' = [live EXCEPT ![t] = Adopted(rec, NoProgress, FALSE)]
      /\ Goto(t, "run") /\ minted' = TRUE /\ UNCHANGED <<progress, loc>>
  BY DEF EnqueueTree
<1> HIDE DEF rec
<1>7. "run" \in TabStates
  BY DEF TabStates
<1>8. PICK b \in BOOLEAN : /\ live' = [live EXCEPT ![t] = Adopted(rec, NoProgress, b)]
                           /\ b => job' = rec
                           /\ ~b => job' = job
  BY <1>6
<1>9. /\ job' \in Record \cup {NoJob}
      /\ b => job' # NoJob
      /\ job # NoJob => job' # NoJob
  BY <1>1, <1>4, <1>8, NoJobIs DEF QueueInv
<1>10. /\ pc' \in [Tabs -> TabStates]
       /\ live' \in [Tabs -> LiveJob \cup {NoJob}]
       /\ \A u \in Tabs : pc'[u] \notin {"closed", "idle"} => live'[u] # NoJob
       /\ \A u \in Tabs : live'[u] # NoJob /\ live'[u].persisted => job' # NoJob
  BY <1>1, <1>5, <1>6, <1>7, <1>8, <1>9, LiveTypes
<1> QED
  BY <1>1, <1>2, <1>3, <1>6, <1>9, <1>10 DEF QueueInv

\* The pump: steps that change nothing but where the tab is, or where its pass is.
LEMMA PumpTypes ==
    ASSUME TypeInv, NEW t \in Tabs, Kick(t) \/ RunStart(t) \/ Nap(t) \/ RefreshKnown(t)
    PROVE  StoreInv' /\ QueueInv' /\ UNCHANGED objects
<1>1. StoreInv /\ QueueInv
  BY DEF TypeInv
<1>2. StoreInv' /\ UNCHANGED <<objects, job, progress, minted, loc>>
  BY <1>1 DEF StoreInv, Kick, RunStart, Nap, RefreshKnown, storeVars
<1>3. CASE Kick(t)
  <2>1. live[t] # NoJob /\ live' = live /\ pc' = [pc EXCEPT ![t] = "run"]
    BY <1>3 DEF Kick, Working, Goto
  <2> QED
    BY <1>1, <1>2, <2>1 DEF QueueInv, TabStates
<1>4. CASE RunStart(t)
  <2>1. live' = live /\ pc[t] = "run" /\ pc' \in {[pc EXCEPT ![t] = "finish"], [pc EXCEPT ![t] = "next"]}
    BY <1>4 DEF RunStart, Goto
  <2> QED
    BY <1>1, <1>2, <2>1 DEF QueueInv, TabStates
<1>5. CASE Nap(t)
  <2>1. pc[t] = "nap" /\ Goto(t, "next") /\ "next" \in TabStates
    BY <1>5 DEF Nap, TabStates
  <2>2. live[t] \in LiveJob
    BY <1>1, <2>1, RunsWithJob
  <2>3. 1 \in 1..(Len(Tree) + 1)
    BY TreeIs
  <2>4. live' = [live EXCEPT ![t] = [live[t] EXCEPT !.cursor = 1]]
    BY <1>5 DEF Nap
  <2>5. [live[t] EXCEPT !.cursor = 1] \in LiveJob /\ [live[t] EXCEPT !.cursor = 1].persisted = live[t].persisted
    BY <2>2, <2>3, LiveParts
  <2> QED
    BY <1>1, <1>2, <2>1, <2>4, <2>5, TabTypes DEF QueueInv
<1>6. CASE RefreshKnown(t)
  <2>1. live[t] \in LiveJob /\ job \in Record
    BY <1>1, <1>6 DEF RefreshKnown, QueueInv
  <2>2. MergeSalts(job.salts, live[t].rec.salts) \in [Entries -> Names]
    BY <2>1, MergeTypes DEF LiveJob, Record
  <2>3. PICK l \in LiveJob : live' = [live EXCEPT ![t] = l] /\ l.persisted = live[t].persisted
    <3>1. live' = [live EXCEPT ![t] = [live[t] EXCEPT !.rec.salts = MergeSalts(job.salts, live[t].rec.salts)]]
      BY <1>6 DEF RefreshKnown
    <3> QED
      BY <2>1, <2>2, <3>1, LiveParts
  <2>4. /\ live' \in [Tabs -> LiveJob \cup {NoJob}]
        /\ \A u \in Tabs : u # t => live'[u] = live[u]
        /\ live'[t] = l /\ pc' = pc
    BY <1>1, <1>6, <2>3 DEF QueueInv, RefreshKnown
  <2>5. job' = job /\ job # NoJob /\ live'[t] # NoJob
    BY <1>2, <1>6, <2>4, NoJobIs DEF RefreshKnown
  <2> QED
    BY <1>1, <1>2, <2>4, <2>5 DEF QueueInv
<1> QED
  BY <1>3, <1>4, <1>5, <1>6

\* nextBatch and the post.
LEMMA NextBatchTypes ==
    ASSUME TypeInv, NEW t \in Tabs, NextBatch(t)
    PROVE  StoreInv' /\ QueueInv' /\ UNCHANGED objects
<1>1. StoreInv /\ QueueInv /\ t \in Writers
  BY WritersAre DEF TypeInv
<1>2. live[t] \in LiveJob /\ pc[t] = "next"
  BY <1>1, RunsWithJob DEF NextBatch
<1> DEFINE l == live[t]
           batch == Pending(l, l.cursor, BatchEnd(l))
<1>3. BatchEnd(l) \in (l.cursor - 1)..Len(Tree) /\ batch \subseteq Entries
  BY <1>2, BatchIs
<1>4. l.cursor \in 1..(Len(Tree) + 1) /\ BatchEnd(l) + 1 \in 1..(Len(Tree) + 1)
  BY <1>2, <1>3, TreeIs DEF LiveJob
<1>5. UNCHANGED <<objects, late, drawn, faults, job, progress, minted>>
  BY DEF NextBatch
<1>6. StoreInv'
  <2>1. CASE UNCHANGED req
    BY <1>1, <1>5, <2>1 DEF StoreInv
  <2>2. CASE Post(t, [e \in batch |-> l.rec.salts[e]])
    <3>1. l.rec.salts \in [Entries -> Names]
      BY <1>2 DEF LiveJob, Record
    <3>2. [e \in batch |-> l.rec.salts[e]] \in [batch -> Names]
      BY <1>3, <3>1
    <3>3. [e \in batch |-> l.rec.salts[e]] \in Partial(Names)
      BY <1>3, <3>2, PartialIs
    <3>4. faults' \in 0..MaxFaults
      BY <1>1, <1>5 DEF StoreInv
    <3> QED
      BY <1>1, <1>5, <2>2, <3>3, <3>4, PostTypes
  <2> QED
    BY <2>1, <2>2 DEF NextBatch
<1>7. PICK c \in 1..(Len(Tree) + 1) : live' = [live EXCEPT ![t] = [live[t] EXCEPT !.cursor = c]]
  BY <1>4 DEF NextBatch
<1>8. [l EXCEPT !.cursor = c] \in LiveJob /\ [l EXCEPT !.cursor = c].persisted = l.persisted
  BY <1>2, LiveParts
<1>9. loc' \in [Tabs -> Locals]
  <2>1. [NoLoc EXCEPT !.start = l.cursor] \in Locals
    BY <1>4, NoLocIs
  <2>2. loc' = loc \/ loc' = [loc EXCEPT ![t] = [NoLoc EXCEPT !.start = l.cursor]]
    BY DEF NextBatch
  <2> QED
    BY <1>1, <2>1, <2>2 DEF QueueInv
<1>10. PICK s \in TabStates : Goto(t, s)
  BY DEF NextBatch, TabStates
<1> QED
  BY <1>1, <1>2, <1>5, <1>6, <1>7, <1>8, <1>9, <1>10, TabTypes DEF QueueInv

\* The request fails, or the page goes.
LEMMA GiveUpTypes ==
    ASSUME TypeInv, NEW t \in Tabs, PostFails(t) \/ CloseTab(t)
    PROVE  StoreInv' /\ QueueInv' /\ UNCHANGED objects
<1>1. StoreInv /\ QueueInv /\ t \in Writers
  BY WritersAre DEF TypeInv
<1>2. UNCHANGED <<objects, drawn, job, progress, minted>> /\ Abandon(t)
  BY DEF PostFails, CloseTab
<1>3. faults' \in 0..MaxFaults
  BY <1>1, FaultTypes DEF StoreInv, PostFails, CloseTab
<1>4. StoreInv'
  BY <1>1, <1>2, <1>3, AbandonTypes
<1>5. loc' \in [Tabs -> Locals]
  <2>1. loc' = [loc EXCEPT ![t] = NoLoc]
    BY DEF PostFails, CloseTab
  <2> QED
    BY <1>1, <2>1, NoLocIs DEF QueueInv
<1>6. CASE PostFails(t)
  <2>1. pc[t] = "posting" /\ Goto(t, "next") /\ "next" \in TabStates
    BY <1>6 DEF PostFails, TabStates
  <2>2. live[t] \in LiveJob
    BY <1>1, <2>1, RunsWithJob
  <2>3. loc[t].start \in 1..(Len(Tree) + 1)
    BY <1>1 DEF QueueInv, Locals
  <2>4. live' = [live EXCEPT ![t] = [live[t] EXCEPT !.cursor = loc[t].start]]
    BY <1>6 DEF PostFails
  <2>5. /\ [live[t] EXCEPT !.cursor = loc[t].start] \in LiveJob
        /\ [live[t] EXCEPT !.cursor = loc[t].start].persisted = live[t].persisted
    BY <2>2, <2>3, LiveParts
  <2> QED
    BY <1>1, <1>2, <1>4, <1>5, <2>1, <2>4, <2>5, TabTypes DEF QueueInv
<1>7. CASE CloseTab(t)
  <2>1. live' = [live EXCEPT ![t] = NoJob] /\ pc' = [pc EXCEPT ![t] = "closed"]
    BY <1>7 DEF CloseTab, Goto
  <2> QED
    BY <1>1, <1>2, <1>4, <1>5, <2>1 DEF QueueInv, TabStates
<1> QED
  BY <1>6, <1>7

\* A running tab replaces the progress of its job.
LEMMA ProgressTypes ==
    ASSUME QueueInv, NEW t \in Tabs, pc[t] \notin {"closed", "idle"},
           NEW p \in Progress, NEW d \in BOOLEAN,
           live' = [live EXCEPT ![t] = [live[t] EXCEPT !.progress = p, !.dirty = d]],
           job' \in Record \cup {NoJob}, job # NoJob => job' # NoJob,
           progress' \in Progress, minted' = minted, loc' \in [Tabs -> Locals],
           NEW s \in TabStates, Goto(t, s)
    PROVE  QueueInv'
<1>1. live[t] \in LiveJob
  BY RunsWithJob
<1>2. /\ [live[t] EXCEPT !.progress = p, !.dirty = d] \in LiveJob
      /\ [live[t] EXCEPT !.progress = p, !.dirty = d].persisted = live[t].persisted
  BY <1>1, LiveParts
<1> QED
  BY <1>2, TabTypes

\* apply.
LEMMA ApplyTypes ==
    ASSUME TypeInv, NEW t \in Tabs, Apply(t)
    PROVE  StoreInv' /\ QueueInv' /\ UNCHANGED objects
<1>1. StoreInv /\ QueueInv /\ t \in Writers
  BY WritersAre DEF TypeInv
<1>2. live[t] \in LiveJob /\ pc[t] = "posting"
  BY <1>1, RunsWithJob DEF Apply
<1>3. UNCHANGED <<objects, late, drawn, faults, job, progress, minted>> /\ req' = [req EXCEPT ![t] = NoReq]
  BY DEF Apply
<1>4. StoreInv'
  BY <1>1, <1>3, ResetTypes DEF StoreInv
<1> DEFINE r == req[t]
           held == {e \in DOMAIN r.res : r.res[e] = "other"} \ KeptBy(r.res)
           blocked == {e \in held : r.name[e] # Det}
           news == [kept |-> KeptBy(r.res), blocked |-> blocked]
<1>5. DOMAIN r.res \subseteq Entries
  BY <1>1, PartialHas DEF StoreInv, Request
<1>6. held \subseteq Entries /\ blocked \subseteq Entries /\ news \in Progress
  BY <1>5 DEF KeptBy, Progress
<1>7. MergeProgress(live[t].progress, news) \in Progress
  BY <1>2, <1>6, MergeTypes DEF LiveJob
<1>8. /\ live' = [live EXCEPT ![t] = [live[t] EXCEPT !.progress = MergeProgress(live[t].progress, news),
                                                     !.dirty = live[t].dirty \/ Resolved(news) # {}]]
      /\ loc' = [loc EXCEPT ![t].toSalt = held \ blocked]
  BY DEF Apply
<1>9. loc' \in [Tabs -> Locals]
  BY <1>1, <1>6, <1>8 DEF QueueInv, Locals
<1>10. PICK s \in TabStates : Goto(t, s)
  BY DEF Apply, TabStates
<1>11. PICK d \in BOOLEAN : d = (live[t].dirty \/ Resolved(news) # {})
  BY <1>2 DEF LiveJob
<1> HIDE DEF news, blocked, held
<1> QED
  BY <1>1, <1>2, <1>3, <1>4, <1>7, <1>8, <1>9, <1>10, <1>11, ProgressTypes DEF QueueInv

\* saltFor, entry by entry.
LEMMA LookupTypes ==
    ASSUME TypeInv, NEW t \in Tabs, NEW e \in Entries, Lookup(t, e)
    PROVE  StoreInv' /\ QueueInv' /\ UNCHANGED objects
<1>1. StoreInv /\ QueueInv
  BY DEF TypeInv
<1>2. live[t] \in LiveJob /\ pc[t] = "lookup"
  BY <1>1, RunsWithJob DEF Lookup
<1>3. UNCHANGED <<objects, req, late, job, progress, minted, pc>>
  BY DEF Lookup
<1>4. faults' \in 0..MaxFaults
  BY <1>1, FaultTypes DEF StoreInv, Lookup
<1>5. drawn' \in 0..MaxSalt
  <2>1. drawn' = drawn \/ (drawn < MaxSalt /\ drawn' = drawn + 1)
    BY DEF Lookup
  <2> QED
    BY <1>1, <2>1, NamesAre DEF StoreInv
<1>6. StoreInv'
  BY <1>1, <1>3, <1>4, <1>5 DEF StoreInv
<1> DEFINE Settle(salt, kept) ==
             /\ loc' = [loc EXCEPT ![t].chosen[e] = salt, ![t].toSalt = @ \ {e}]
             /\ live' = [live EXCEPT ![t].progress.kept = @ \cup kept, ![t].dirty = @ \/ kept # {}]
<1>7. PICK n \in Names, kept \in SUBSET Entries : Settle(n, kept)
  <2>1. drawn < MaxSalt => drawn + 1 \in Names
    BY <1>1, NamesAre DEF StoreInv, Names
  <2>2. Kept(e) \subseteq Names
    BY DEF Kept
  <2>3. \/ Settle(NoSalt, {})
        \/ \E n \in Kept(e) : Settle(n, {e})
        \/ drawn < MaxSalt /\ Settle(drawn + 1, {})
    BY DEF Lookup
  <2> HIDE DEF Settle
  <2> QED
    BY <2>1, <2>2, <2>3, NamesAre
<1>8. loc' \in [Tabs -> Locals]
  <2>1. loc[t] \in Locals
    BY <1>1 DEF QueueInv
  <2>2. PICK c \in [Entries -> Names] : c = [loc[t].chosen EXCEPT ![e] = n]
    BY <2>1 DEF Locals
  <2>3. loc' = [loc EXCEPT ![t] = [loc[t] EXCEPT !.chosen = c, !.toSalt = loc[t].toSalt \ {e}]]
    BY <1>7, <2>2
  <2>4. [loc[t] EXCEPT !.chosen = c, !.toSalt = loc[t].toSalt \ {e}] \in Locals
    BY <2>1 DEF Locals
  <2> QED
    BY <1>1, <2>3, <2>4 DEF QueueInv
<1>9. PICK p \in Progress : p = [live[t].progress EXCEPT !.kept = live[t].progress.kept \cup kept]
  BY <1>2 DEF LiveJob, Progress
<1>10. PICK d \in BOOLEAN : d = (live[t].dirty \/ kept # {})
  BY <1>2 DEF LiveJob
<1>11. live' = [live EXCEPT ![t] = [live[t] EXCEPT !.progress = p, !.dirty = d]]
  BY <1>1, <1>2, <1>7, <1>9, <1>10 DEF LiveJob, QueueInv
<1>12. "lookup" \in TabStates /\ Goto(t, "lookup")
  BY <1>1, <1>2, <1>3 DEF TabStates, Goto, QueueInv
<1> QED
  BY <1>1, <1>2, <1>3, <1>6, <1>8, <1>11, <1>12, ProgressTypes DEF QueueInv

\* The salts of a running tab's job are replaced, in memory and perhaps in the database.
LEMMA SaltTypes ==
    ASSUME QueueInv, NEW t \in Tabs, pc[t] \notin {"closed", "idle"},
           NEW salts \in [Entries -> Names], live' = [live EXCEPT ![t].rec.salts = salts],
           \/ job' = job
           \/ live[t].persisted /\ job' = [job EXCEPT !.salts = salts],
           progress' = progress, minted' = minted, loc' \in [Tabs -> Locals],
           NEW s \in TabStates, Goto(t, s)
    PROVE  QueueInv'
<1>1. live[t] \in LiveJob
  BY RunsWithJob
<1>2. /\ [live[t] EXCEPT !.rec.salts = salts] \in LiveJob
      /\ [live[t] EXCEPT !.rec.salts = salts].persisted = live[t].persisted
  BY <1>1, LiveParts
<1>3. live' = [live EXCEPT ![t] = [live[t] EXCEPT !.rec.salts = salts]]
  OBVIOUS
<1>4. job' \in Record \cup {NoJob} /\ (job # NoJob => job' # NoJob)
  <2>1. CASE job' = job
    BY <2>1 DEF QueueInv
  <2>2. CASE live[t].persisted /\ job' = [job EXCEPT !.salts = salts]
    <3>1. job \in Record
      BY <1>1, <2>2, NoJobIs DEF QueueInv
    <3>2. job' \in Record
      BY <2>2, <3>1 DEF Record
    <3> QED
      BY <3>2, NoJobIs
  <2> QED
    BY <2>1, <2>2
<1> QED
  BY <1>2, <1>3, <1>4, TabTypes DEF QueueInv

\* saltFor, its end.
LEMMA SaveSaltsTypes ==
    ASSUME TypeInv, NEW t \in Tabs, SaveSalts(t)
    PROVE  StoreInv' /\ QueueInv' /\ UNCHANGED objects
<1>1. StoreInv /\ QueueInv
  BY DEF TypeInv
<1>2. live[t] \in LiveJob /\ pc[t] = "lookup" /\ Goto(t, "after") /\ "after" \in TabStates
  BY <1>1, RunsWithJob DEF SaveSalts, TabStates
<1>3. UNCHANGED <<objects, req, late, drawn, progress, minted>>
  BY DEF SaveSalts
<1>4. faults' \in 0..MaxFaults
  BY <1>1, FaultTypes DEF StoreInv, SaveSalts
<1>5. StoreInv'
  BY <1>1, <1>3, <1>4 DEF StoreInv
<1>6. loc' \in [Tabs -> Locals] /\ loc[t].chosen \in [Entries -> Names]
  BY <1>1, NoLocIs DEF SaveSalts, QueueInv, Locals
<1>7. CASE UNCHANGED <<job, live>>
  <2>1. live' = [live EXCEPT ![t] = live[t]]
    BY <1>1, <1>7 DEF QueueInv
  <2> QED
    BY <1>1, <1>2, <1>3, <1>5, <1>6, <1>7, <2>1, TabTypes DEF QueueInv
<1>8. CASE /\ live' = [live EXCEPT ![t].rec.salts = MergeSalts(@, loc[t].chosen)]
           /\ UNCHANGED job
  <2>1. MergeSalts(live[t].rec.salts, loc[t].chosen) \in [Entries -> Names]
    BY <1>2, <1>6, MergeTypes DEF LiveJob, Record
  <2> QED
    BY <1>1, <1>2, <1>3, <1>5, <1>6, <1>8, <2>1, SaltTypes
<1>9. CASE /\ live[t].persisted
           /\ job' = [job EXCEPT !.salts = MergeSalts(@, loc[t].chosen)]
           /\ live' = [live EXCEPT ![t].rec.salts = job'.salts]
  <2>1. job \in Record
    BY <1>1, <1>2, <1>9, NoJobIs DEF QueueInv
  <2>2. PICK m \in [Entries -> Names] : m = MergeSalts(job.salts, loc[t].chosen)
    BY <1>6, <2>1, MergeTypes DEF Record
  <2>3. job' = [job EXCEPT !.salts = m] /\ job'.salts = m
    BY <1>9, <2>1, <2>2 DEF Record
  <2>4. live' = [live EXCEPT ![t].rec.salts = m]
    BY <1>9, <2>3
  <2> QED
    BY <1>1, <1>2, <1>3, <1>5, <1>6, <1>9, <2>3, <2>4, SaltTypes
<1> QED
  BY <1>7, <1>8, <1>9 DEF SaveSalts

\* persist.
LEMMA PersistTypes ==
    ASSUME QueueInv, StoreInv, NEW t \in Tabs, pc[t] \notin {"closed", "idle"}, Persist(t)
    PROVE  /\ faults' \in 0..MaxFaults /\ progress' \in Progress
           /\ \E p \in Progress, d \in BOOLEAN :
                live' = [live EXCEPT ![t] = [live[t] EXCEPT !.progress = p, !.dirty = d]]
<1>1. live[t] \in LiveJob /\ progress \in Progress
  BY RunsWithJob DEF QueueInv
<1>2. faults' \in 0..MaxFaults
  BY FaultTypes DEF Persist, StoreInv
<1>3. CASE UNCHANGED <<progress, live>>
  <2>1. live' = [live EXCEPT ![t] = [live[t] EXCEPT !.progress = live[t].progress, !.dirty = live[t].dirty]]
    BY <1>1, <1>3 DEF QueueInv, LiveJob
  <2>2. live[t].progress \in Progress /\ live[t].dirty \in BOOLEAN
    BY <1>1 DEF LiveJob
  <2> QED
    BY <1>1, <1>2, <1>3, <2>1, <2>2
<1>4. CASE /\ progress' = MergeProgress(progress, live[t].progress)
           /\ live' = [live EXCEPT ![t].progress = MergeProgress(progress', @), ![t].dirty = FALSE]
  <2>1. progress' \in Progress /\ MergeProgress(progress', live[t].progress) \in Progress
    BY <1>1, <1>4, MergeTypes DEF LiveJob
  <2>2. live' = [live EXCEPT ![t] = [live[t] EXCEPT !.progress = MergeProgress(progress', live[t].progress),
                                                    !.dirty = FALSE]]
    BY <1>4
  <2> QED
    BY <1>2, <2>1, <2>2
<1> QED
  BY <1>3, <1>4 DEF Persist

\* afterBatch and the end of a pass.
LEMMA PassTypes ==
    ASSUME TypeInv, NEW t \in Tabs, AfterBatch(t) \/ PassEnd(t)
    PROVE  StoreInv' /\ QueueInv' /\ UNCHANGED objects
<1>1. StoreInv /\ QueueInv
  BY DEF TypeInv
<1>2. live[t] \in LiveJob /\ pc[t] \in {"after", "passEnd"}
  BY <1>1, RunsWithJob DEF AfterBatch, PassEnd
<1>3. UNCHANGED <<objects, req, late, drawn, job, minted, loc>>
  BY DEF AfterBatch, PassEnd
<1>4. PICK s \in TabStates : Goto(t, s)
  BY DEF AfterBatch, PassEnd, TabStates
<1>5. Persist(t) \/ UNCHANGED <<progress, live, faults>>
  BY DEF AfterBatch, PassEnd
<1>6. CASE Persist(t)
  <2>1. /\ faults' \in 0..MaxFaults /\ progress' \in Progress
        /\ \E p \in Progress, d \in BOOLEAN :
             live' = [live EXCEPT ![t] = [live[t] EXCEPT !.progress = p, !.dirty = d]]
    BY <1>1, <1>2, <1>6, PersistTypes
  <2>2. StoreInv'
    BY <1>1, <1>3, <2>1 DEF StoreInv
  <2>3. QueueInv'
    BY <1>1, <1>2, <1>3, <1>4, <2>1, ProgressTypes DEF QueueInv
  <2> QED
    BY <1>3, <2>2, <2>3
<1>7. CASE UNCHANGED <<progress, live, faults>>
  <2>1. live' = [live EXCEPT ![t] = live[t]]
    BY <1>1, <1>7 DEF QueueInv
  <2>2. StoreInv'
    BY <1>1, <1>3, <1>7 DEF StoreInv
  <2> QED
    BY <1>1, <1>2, <1>3, <1>4, <1>7, <2>1, <2>2, TabTypes DEF QueueInv
<1> QED
  BY <1>5, <1>6, <1>7

\* finish.
LEMMA FinishTypes ==
    ASSUME TypeInv, NEW t \in Tabs, FinishProgress(t) \/ FinishSalts(t) \/ SaveJob(t)
    PROVE  StoreInv' /\ QueueInv' /\ UNCHANGED objects
<1>1. StoreInv /\ QueueInv
  BY DEF TypeInv
<1>2. live[t] \in LiveJob /\ pc[t] \in {"finish", "closing", "marking"}
  BY <1>1, RunsWithJob DEF FinishProgress, FinishSalts, SaveJob
<1>3. UNCHANGED <<objects, req, late, drawn, minted, loc>>
  BY DEF FinishProgress, FinishSalts, SaveJob
<1>4. faults' \in 0..MaxFaults
  BY <1>1, FaultTypes DEF FinishProgress, FinishSalts, SaveJob, StoreInv
<1>5. StoreInv'
  BY <1>1, <1>3, <1>4 DEF StoreInv
<1>6. CASE FinishProgress(t)
  <2>1. Goto(t, "closing") /\ "closing" \in TabStates /\ job' = job
    BY <1>6 DEF FinishProgress, TabStates
  <2>2. MergeProgress(progress, live[t].progress) \in Progress /\ live[t].progress \in Progress
    BY <1>1, <1>2, MergeTypes DEF LiveJob, QueueInv
  <2>3. progress' \in Progress
    BY <1>1, <1>6, <2>2 DEF FinishProgress, QueueInv
  <2>4. \E p \in Progress, d \in BOOLEAN :
          live' = [live EXCEPT ![t] = [live[t] EXCEPT !.progress = p, !.dirty = d,
                                                      !.rec.done = TRUE, !.rec.list = FALSE]]
    BY <1>6, <2>2 DEF FinishProgress
  <2>5. PICK p \in Progress, d \in BOOLEAN :
          live' = [live EXCEPT ![t] = [live[t] EXCEPT !.progress = p, !.dirty = d,
                                                      !.rec.done = TRUE, !.rec.list = FALSE]]
    BY <2>4
  <2>6. /\ [live[t] EXCEPT !.progress = p, !.dirty = d, !.rec.done = TRUE, !.rec.list = FALSE] \in LiveJob
        /\ [live[t] EXCEPT !.progress = p, !.dirty = d, !.rec.done = TRUE, !.rec.list = FALSE].persisted
             = live[t].persisted
    BY <1>2 DEF LiveJob, Record
  <2> QED
    BY <1>1, <1>2, <1>3, <1>5, <2>1, <2>3, <2>5, <2>6, TabTypes DEF QueueInv
<1>7. CASE FinishSalts(t)
  <2>1. PICK s \in TabStates : Goto(t, s)
    BY <1>7 DEF FinishSalts, TabStates
  <2>2. CASE UNCHANGED <<job, live>>
    <3>1. live' = [live EXCEPT ![t] = live[t]]
      BY <1>1, <2>2 DEF QueueInv
    <3>2. progress' = progress
      BY <1>7 DEF FinishSalts
    <3> QED
      BY <1>1, <1>2, <1>3, <1>5, <2>1, <2>2, <3>1, <3>2, TabTypes DEF QueueInv
  <2>3. CASE /\ live[t].persisted
             /\ job' = [job EXCEPT !.salts = MergeSalts(@, live[t].rec.salts)]
             /\ live' = [live EXCEPT ![t].rec.salts = job'.salts]
    <3>1. job \in Record /\ progress' = progress
      BY <1>1, <1>2, <1>7, <2>3, NoJobIs DEF QueueInv, FinishSalts
    <3>2. PICK m \in [Entries -> Names] : m = MergeSalts(job.salts, live[t].rec.salts)
      BY <1>2, <3>1, MergeTypes DEF Record, LiveJob
    <3>3. job' = [job EXCEPT !.salts = m] /\ job'.salts = m
      BY <2>3, <3>1, <3>2 DEF Record
    <3>4. live' = [live EXCEPT ![t].rec.salts = m]
      BY <2>3, <3>3
    <3> QED
      BY <1>1, <1>2, <1>3, <1>5, <2>1, <2>3, <3>1, <3>3, <3>4, SaltTypes DEF QueueInv
  <2> QED
    BY <1>7, <2>2, <2>3 DEF FinishSalts
<1>8. CASE SaveJob(t)
  <2>1. Goto(t, "next") /\ "next" \in TabStates /\ progress' = progress
    BY <1>8 DEF SaveJob, TabStates
  <2>2. job' \in Record \cup {NoJob} /\ (job # NoJob => job' # NoJob)
    BY <1>1, <1>2, <1>8, NoJobIs DEF SaveJob, QueueInv, LiveJob
  <2>3. live' = [live EXCEPT ![t] = live[t]]
    BY <1>1, <1>8 DEF QueueInv, SaveJob
  <2> QED
    BY <1>1, <1>2, <1>3, <1>5, <2>1, <2>2, <2>3, TabTypes DEF QueueInv
<1> QED
  BY <1>6, <1>7, <1>8

\* A tab keeps the types, and puts nothing itself.
LEMMA TabNextTypes ==
    ASSUME TypeInv, NEW t \in Tabs, TabNext(t)
    PROVE  StoreInv' /\ QueueInv' /\ UNCHANGED objects
BY LoadTypes, EnqueueTypes, PumpTypes, NextBatchTypes, GiveUpTypes, ApplyTypes, LookupTypes,
   SaveSaltsTypes, PassTypes, FinishTypes DEF TabNext, TabStep

-----------------------------------------------------------------------------
(* The processes keep the types.                                           *)

\* The states a process starts from.
LEMMA FreshIs == Fresh \in State /\ NoTodo \in Todo /\ NoFile \notin State
BY NamesAre DEF Fresh, State, NoTodo, Todo, NoFile

\* The lock is taken, refreshed, removed, or goes stale.
LEMMA LockTypes ==
    ASSUME JobsInv, NEW p \in Procs,
           \/ lock' = lock \/ lock' = NoLock \/ lock' = [token |-> p, stale |-> FALSE]
           \/ lock # NoLock /\ \E b \in BOOLEAN : lock' = [lock EXCEPT !.stale = b]
    PROVE  lock' = NoLock \/ lock' \in [token : Procs, stale : BOOLEAN]
<1>1. CASE lock' = lock \/ lock' = NoLock
  BY <1>1 DEF JobsInv
<1>2. CASE lock' = [token |-> p, stale |-> FALSE]
  BY <1>2
<1>3. CASE lock # NoLock /\ \E b \in BOOLEAN : lock' = [lock EXCEPT !.stale = b]
  <2>1. lock \in [token : Procs, stale : BOOLEAN]
    BY <1>3 DEF JobsInv
  <2> QED
    BY <1>3, <2>1
<1> QED
  BY <1>1, <1>2, <1>3

\* Registering, the lock, looking at it and letting it go: no request is made.
LEMMA LockStepTypes ==
    ASSUME TypeInv, NEW p \in Procs,
           \/ Register(p) \/ RegisterSave(p) \/ TakeLock(p) \/ RemoveStale(p) \/ LoadJob(p)
           \/ LookedUp(p) \/ CheckHeld(p) \/ Finished(p) \/ RemoveJob(p) \/ CheckRelease(p) \/ Release(p)
    PROVE  StoreInv' /\ JobsInv' /\ UNCHANGED objects
<1>1. StoreInv /\ JobsInv
  BY DEF TypeInv
<1>2. UNCHANGED storeVars
  BY DEF Register, RegisterSave, TakeLock, RemoveStale, LoadJob, LookedUp, CheckHeld, Finished,
         RemoveJob, CheckRelease, Release
<1>3. StoreInv' /\ UNCHANGED objects
  BY <1>1, <1>2 DEF StoreInv, storeVars
<1>4. file' \in State \cup {NoFile}
  BY <1>1, FreshIs DEF Register, RegisterSave, TakeLock, RemoveStale, LoadJob, LookedUp, CheckHeld,
         Finished, RemoveJob, CheckRelease, Release, JobsInv
<1>5. lock' = NoLock \/ lock' \in [token : Procs, stale : BOOLEAN]
  <2>1. lock' = lock \/ lock' = NoLock \/ lock' = [token |-> p, stale |-> FALSE]
    BY DEF Register, RegisterSave, TakeLock, RemoveStale, LoadJob, LookedUp, CheckHeld, Finished,
           RemoveJob, CheckRelease, Release
  <2> QED
    BY <1>1, <2>1, LockTypes
<1>6. ppc' \in [Procs -> ProcStates]
  <2>1. \E s \in ProcStates : At(p, s)
    BY DEF Register, RegisterSave, TakeLock, RemoveStale, LoadJob, LookedUp, CheckHeld, Finished,
           RemoveJob, CheckRelease, Release, ProcStates
  <2> QED
    BY <1>1, <2>1 DEF At, JobsInv
<1>7. mem' \in [Procs -> State]
  <2>1. mem' = mem \/ (file \in State /\ mem' = [mem EXCEPT ![p] = file])
    BY <1>1 DEF Register, RegisterSave, TakeLock, RemoveStale, LoadJob, LookedUp, CheckHeld,
                Finished, RemoveJob, CheckRelease, Release, JobsInv
  <2> QED
    BY <1>1, <2>1 DEF JobsInv
<1>8. todo' \in [Procs -> Todo]
  <2>1. todo' = todo \/ \E n \in {"round", "salted", "exit"} : todo' = [todo EXCEPT ![p].next = n]
    BY DEF Register, RegisterSave, TakeLock, RemoveStale, LoadJob, LookedUp, CheckHeld, Finished,
           RemoveJob, CheckRelease, Release
  <2> QED
    BY <1>1, <2>1 DEF JobsInv, Todo
<1> QED
  BY <1>3, <1>4, <1>5, <1>6, <1>7, <1>8 DEF JobsInv

\* Posting, what fails and what is killed.
LEMMA SendTypes ==
    ASSUME TypeInv, NEW p \in Procs, Round(p) \/ ProcPostFails(p) \/ Kill(p) \/ SaveState(p)
    PROVE  StoreInv' /\ JobsInv' /\ UNCHANGED objects
<1>1. StoreInv /\ JobsInv /\ p \in Writers /\ mem[p] \in State /\ todo[p] \in Todo
  BY WritersAre DEF TypeInv, JobsInv
<1>2. UNCHANGED <<objects, drawn, mem>>
  BY DEF Round, ProcPostFails, Kill, SaveState
<1>3. faults' \in 0..MaxFaults
  BY <1>1, FaultTypes DEF Round, ProcPostFails, Kill, SaveState, StoreInv
<1>4. StoreInv'
  <2>1. \A S \in SUBSET Entries : [e \in S |-> mem[p].salts[e]] \in Partial(Names)
    <3> TAKE S \in SUBSET Entries
    <3>1. [e \in S |-> mem[p].salts[e]] \in [S -> Names]
      BY <1>1 DEF State
    <3> QED
      BY <3>1, PartialIs
  <2>2. \/ UNCHANGED <<req, late>>
        \/ Abandon(p)
        \/ (\E S \in SUBSET Entries : Post(p, [e \in S |-> mem[p].salts[e]])) /\ UNCHANGED late
    BY <1>1 DEF Round, ProcPostFails, Kill, SaveState, PendingOf, Todo
  <2>3. CASE UNCHANGED <<req, late>>
    BY <1>1, <1>2, <1>3, <2>3 DEF StoreInv
  <2>4. CASE Abandon(p)
    BY <1>1, <1>2, <1>3, <2>4, AbandonTypes
  <2>5. CASE (\E S \in SUBSET Entries : Post(p, [e \in S |-> mem[p].salts[e]])) /\ UNCHANGED late
    BY <1>1, <1>2, <1>3, <2>1, <2>5, PostTypes
  <2> QED
    BY <2>2, <2>3, <2>4, <2>5
<1>5. file' \in State \cup {NoFile}
  BY <1>1 DEF Round, ProcPostFails, Kill, SaveState, JobsInv
<1>6. lock' = NoLock \/ lock' \in [token : Procs, stale : BOOLEAN]
  <2>1. lock' = lock \/ (lock # NoLock /\ lock' = [lock EXCEPT !.stale = FALSE])
    BY DEF Round, ProcPostFails, Kill, SaveState, Held
  <2> QED
    BY <1>1, <2>1, LockTypes
<1>7. ppc' \in [Procs -> ProcStates]
  <2>1. \E s \in ProcStates : At(p, s)
    BY DEF Round, ProcPostFails, Kill, SaveState, ProcStates
  <2> QED
    BY <1>1, <2>1 DEF At, JobsInv
<1>8. todo' \in [Procs -> Todo]
  <2>1. [NoTodo EXCEPT !.next = "round"] \in Todo
    BY FreshIs DEF Todo
  <2>2. \/ todo' = todo
        \/ todo' = [todo EXCEPT ![p] = NoTodo]
        \/ todo' = [todo EXCEPT ![p] = [NoTodo EXCEPT !.next = "round"]]
        \/ todo' = [todo EXCEPT ![p].fresh = {}, ![p].next = "round"]
    BY DEF Round, ProcPostFails, Kill, SaveState
  <2>3. [todo[p] EXCEPT !.fresh = {}, !.next = "round"] \in Todo
    BY <1>1 DEF Todo
  <2>4. CASE todo' = [todo EXCEPT ![p].fresh = {}, ![p].next = "round"]
    <3>1. todo' = [todo EXCEPT ![p] = [todo[p] EXCEPT !.fresh = {}, !.next = "round"]]
      BY <2>4
    <3> QED
      BY <1>1, <2>3, <3>1 DEF JobsInv
  <2>5. CASE todo' # [todo EXCEPT ![p].fresh = {}, ![p].next = "round"]
    BY <1>1, <2>1, <2>2, <2>5, FreshIs DEF JobsInv
  <2> QED
    BY <2>4, <2>5
<1> QED
  BY <1>1, <1>2, <1>4, <1>5, <1>6, <1>7, <1>8 DEF JobsInv

\* The answers, and reading the address.
LEMMA HearTypes ==
    ASSUME TypeInv, NEW p \in Procs, ProcApply(p) \/ \E e \in Entries : ProcLookup(p, e)
    PROVE  StoreInv' /\ JobsInv' /\ UNCHANGED objects
<1>1. StoreInv /\ JobsInv /\ p \in Writers /\ mem[p] \in State /\ todo[p] \in Todo
  BY WritersAre DEF TypeInv, JobsInv
<1>2. CASE ProcApply(p)
  <2> DEFINE r == req[p]
             held == {e \in DOMAIN r.res : r.res[e] = "other"}
             blocked == {e \in held : r.name[e] # Det}
  <2>1. DOMAIN r.res \subseteq Entries
    BY <1>1, PartialHas DEF StoreInv, Request
  <2>2. held \subseteq Entries /\ blocked \subseteq Entries /\ Answered(r.res) \subseteq Entries
    BY <2>1 DEF Answered
  <2>3. /\ mem' = [mem EXCEPT ![p].kept = @ \cup Answered(r.res), ![p].blocked = @ \cup blocked]
        /\ req' = [req EXCEPT ![p] = NoReq]
        /\ todo' = [todo EXCEPT ![p] = [next |-> "round", held |-> held \ blocked, fresh |-> {}]]
        /\ UNCHANGED <<file, lock, objects, late, drawn, faults>>
    BY <1>2 DEF ProcApply
  <2>4. \E s \in ProcStates : At(p, s)
    BY <1>2 DEF ProcApply, ProcStates
  <2> HIDE DEF held, blocked
  <2>5. StoreInv'
    BY <1>1, <2>3, ResetTypes DEF StoreInv
  <2>6. [mem[p] EXCEPT !.kept = mem[p].kept \cup Answered(r.res), !.blocked = mem[p].blocked \cup blocked] \in State
    BY <1>1, <2>2 DEF State
  <2>7. mem' \in [Procs -> State]
    <3>1. mem' = [mem EXCEPT ![p] = [mem[p] EXCEPT !.kept = mem[p].kept \cup Answered(r.res),
                                                   !.blocked = mem[p].blocked \cup blocked]]
      BY <2>3
    <3> QED
      BY <1>1, <2>6, <3>1 DEF JobsInv
  <2>8. todo' \in [Procs -> Todo]
    BY <1>1, <2>2, <2>3 DEF JobsInv, Todo
  <2> QED
    BY <1>1, <2>3, <2>4, <2>5, <2>7, <2>8 DEF JobsInv, At
<1>3. ASSUME NEW e \in Entries, ProcLookup(p, e) PROVE StoreInv' /\ JobsInv' /\ UNCHANGED objects
  <2>1. UNCHANGED <<file, lock, ppc, objects, req, late>>
    BY <1>3 DEF ProcLookup
  <2>2. faults' \in 0..MaxFaults
    BY <1>1, <1>3, FaultTypes DEF ProcLookup, StoreInv
  <2>3. drawn' \in 0..MaxSalt
    <3>1. drawn' = drawn \/ (drawn < MaxSalt /\ drawn' = drawn + 1)
      BY <1>3 DEF ProcLookup
    <3> QED
      BY <1>1, <3>1, NamesAre DEF StoreInv
  <2>4. StoreInv'
    BY <1>1, <2>1, <2>2, <2>3 DEF StoreInv
  <2>5. \/ mem' = mem
        \/ \E n \in Names : mem' = [mem EXCEPT ![p].kept = @ \cup {e}, ![p].salts[e] = n]
        \/ \E n \in Names : mem' = [mem EXCEPT ![p].salts[e] = n]
    <3>1. drawn < MaxSalt => drawn + 1 \in Names
      BY <1>1, NamesAre DEF StoreInv, Names
    <3>2. Kept(e) \subseteq Names
      BY DEF Kept
    <3>3. \/ mem' = mem
          \/ \E n \in Kept(e) : mem' = [mem EXCEPT ![p].kept = @ \cup {e}, ![p].salts[e] = n]
          \/ drawn < MaxSalt /\ mem' = [mem EXCEPT ![p].salts[e] = drawn + 1]
      BY <1>3 DEF ProcLookup
    <3> QED
      BY <3>1, <3>2, <3>3
  <2>6. mem' \in [Procs -> State]
    <3>1. CASE mem' = mem
      BY <1>1, <3>1 DEF JobsInv
    <3>2. ASSUME NEW n \in Names, mem' = [mem EXCEPT ![p].kept = @ \cup {e}, ![p].salts[e] = n]
          PROVE  mem' \in [Procs -> State]
      <4>1. PICK c \in [Entries -> Names] : c = [mem[p].salts EXCEPT ![e] = n]
        BY <1>1 DEF State
      <4>2. mem' = [mem EXCEPT ![p] = [mem[p] EXCEPT !.kept = mem[p].kept \cup {e}, !.salts = c]]
        BY <3>2, <4>1
      <4>3. [mem[p] EXCEPT !.kept = mem[p].kept \cup {e}, !.salts = c] \in State
        BY <1>1 DEF State
      <4> QED
        BY <1>1, <4>2, <4>3 DEF JobsInv
    <3>3. ASSUME NEW n \in Names, mem' = [mem EXCEPT ![p].salts[e] = n]
          PROVE  mem' \in [Procs -> State]
      <4>1. PICK c \in [Entries -> Names] : c = [mem[p].salts EXCEPT ![e] = n]
        BY <1>1 DEF State
      <4>2. mem' = [mem EXCEPT ![p] = [mem[p] EXCEPT !.salts = c]]
        BY <3>3, <4>1
      <4>3. [mem[p] EXCEPT !.salts = c] \in State
        BY <1>1 DEF State
      <4> QED
        BY <1>1, <4>2, <4>3 DEF JobsInv
    <3> QED
      BY <2>5, <3>1, <3>2, <3>3
  <2>7. todo' \in [Procs -> Todo]
    <3> DEFINE drop == [todo[p] EXCEPT !.held = todo[p].held \ {e}]
    <3>1. drop \in Todo /\ [drop EXCEPT !.fresh = drop.fresh \cup {e}] \in Todo
      BY <1>1 DEF Todo
    <3>2. \/ todo' = [todo EXCEPT ![p].held = @ \ {e}]
          \/ todo' = [[todo EXCEPT ![p].held = @ \ {e}] EXCEPT ![p].fresh = @ \cup {e}]
      BY <1>3 DEF ProcLookup
    <3>3. [todo EXCEPT ![p].held = @ \ {e}] = [todo EXCEPT ![p] = drop]
      OBVIOUS
    <3> HIDE DEF drop
    <3>4. [todo EXCEPT ![p] = drop] \in [Procs -> Todo]
      BY <1>1, <3>1 DEF JobsInv
    <3>5. PICK g \in [Procs -> Todo] : g = [todo EXCEPT ![p] = drop] /\ g[p] = drop
      BY <1>1, <3>4 DEF JobsInv
    <3>6. todo' = g \/ todo' = [g EXCEPT ![p] = [drop EXCEPT !.fresh = drop.fresh \cup {e}]]
      BY <3>2, <3>3, <3>5
    <3> QED
      BY <3>1, <3>5, <3>6
  <2> QED
    BY <1>1, <2>1, <2>4, <2>6, <2>7 DEF JobsInv
<1> QED
  BY <1>2, <1>3

\* A process keeps the types, and puts nothing itself.
LEMMA ProcNextTypes ==
    ASSUME TypeInv, NEW p \in Procs, ProcNext(p)
    PROVE  StoreInv' /\ JobsInv' /\ UNCHANGED objects
BY LockStepTypes, SendTypes, HearTypes DEF ProcNext

\* The lock of a process that is frozen or gone goes stale.
LEMMA StaleTypes ==
    ASSUME TypeInv, GoesStale
    PROVE  StoreInv' /\ JobsInv' /\ UNCHANGED objects
<1>1. StoreInv /\ JobsInv /\ lock # NoLock /\ lock \in [token : Procs, stale : BOOLEAN]
  BY DEF TypeInv, GoesStale, JobsInv
<1>2. UNCHANGED <<file, ppc, mem, todo, objects, req, late, drawn>>
  BY DEF GoesStale
<1>3. faults' \in 0..MaxFaults
  BY <1>1, FaultTypes DEF GoesStale, StoreInv
<1>4. lock' \in [token : Procs, stale : BOOLEAN]
  BY <1>1 DEF GoesStale
<1> QED
  BY <1>1, <1>2, <1>3, <1>4 DEF StoreInv, JobsInv

-----------------------------------------------------------------------------
(* Types.                                                                  *)

\* The types at the start.
LEMMA InitTypes == Init => TypeInv
<1> SUFFICES ASSUME Init PROVE TypeInv
  OBVIOUS
<1>1. StoreInv
  <2>1. objects \in [Entries -> [Names -> {"free", "mine", "other"}]]
    BY DEF Init, StoreInit
  <2> QED
    BY <2>1, NoReqIs, NamesAre DEF Init, StoreInit, StoreInv
<1>2. QueueInv
  BY NoLocIs DEF Init, QueueInit, QueueInv, Progress, TabStates
<1>3. JobsInv
  BY FreshIs DEF Init, JobsInit, JobsInv, ProcStates
<1> QED
  BY <1>1, <1>2, <1>3 DEF Init, TypeInv

\* Every step keeps the types, takes nothing back and drops no hold.
LEMMA NextTypes ==
    ASSUME TypeInv, [Next]_vars
    PROVE  TypeInv' /\ Lasting
<1>0. StoreInv /\ QueueInv /\ JobsInv /\ active \in {Tabs, Procs} /\ raced \in BOOLEAN
  BY DEF TypeInv
<1>1. CASE Server
  <2>1. StoreInv' /\ Lasting
    BY <1>0, <1>1, ServerTypes DEF Server
  <2>2. UNCHANGED <<queueVars, jobsVars, active, raced>>
    BY <1>1 DEF Server
  <2>3. QueueInv' /\ JobsInv'
    BY <1>0, <2>2 DEF QueueInv, JobsInv, queueVars, jobsVars
  <2> QED
    BY <1>0, <2>1, <2>2, <2>3 DEF TypeInv
<1>2. ASSUME NEW t \in Tabs, Tab(t) PROVE TypeInv' /\ Lasting
  <2>1. StoreInv' /\ QueueInv' /\ UNCHANGED objects
    BY <1>2, TabNextTypes DEF Tab
  <2>2. UNCHANGED <<jobsVars, active, raced>>
    BY <1>2 DEF Tab
  <2>3. JobsInv'
    BY <1>0, <2>2 DEF JobsInv, jobsVars
  <2> QED
    BY <1>0, <2>1, <2>2, <2>3 DEF TypeInv, Lasting
<1>3. ASSUME NEW p \in Procs, Proc(p) PROVE TypeInv' /\ Lasting
  <2>1. StoreInv' /\ JobsInv' /\ UNCHANGED objects
    BY <1>3, ProcNextTypes DEF Proc
  <2>2. UNCHANGED <<queueVars, active>> /\ raced' \in BOOLEAN
    BY <1>0, <1>3 DEF Proc
  <2>3. QueueInv'
    BY <1>0, <2>2 DEF QueueInv, queueVars
  <2> QED
    BY <1>0, <2>1, <2>2, <2>3 DEF TypeInv, Lasting
<1>4. CASE Stale
  <2>1. StoreInv' /\ JobsInv' /\ UNCHANGED objects
    BY <1>4, StaleTypes DEF Stale
  <2>2. UNCHANGED <<queueVars, active>> /\ raced' \in BOOLEAN
    BY <1>0, <1>4 DEF Stale
  <2>3. QueueInv'
    BY <1>0, <2>2 DEF QueueInv, queueVars
  <2> QED
    BY <1>0, <2>1, <2>2, <2>3 DEF TypeInv, Lasting
<1>5. CASE UNCHANGED vars
  BY <1>0, <1>5 DEF vars, storeVars, queueVars, jobsVars, TypeInv, StoreInv, QueueInv, JobsInv, Lasting
<1> QED
  BY <1>1, <1>2, <1>3, <1>4, <1>5 DEF Next

\* Every state has the types of the model, however writers, faults and the
\* server are interleaved.
THEOREM RecoveryTypes == Spec => []TypeOK
<1>1. TypeInv => TypeOK
  <2> SUFFICES ASSUME TypeInv PROVE TypeOK
    OBVIOUS
  <2>1. ASSUME NEW w \in Writers
        PROVE  /\ DOMAIN req[w].name \subseteq Entries
               /\ \A e \in DOMAIN req[w].name : req[w].name[e] \in Names
               /\ DOMAIN req[w].res \subseteq DOMAIN req[w].name
               /\ \A e \in DOMAIN req[w].res : req[w].res[e] \in Answers
    BY PartialHas DEF TypeInv, StoreInv, Request
  <2>2. StoreTypeOK
    BY <2>1 DEF TypeInv, StoreInv, StoreTypeOK
  <2>3. QueueTypeOK
    BY DEF TypeInv, QueueInv, QueueTypeOK, TabStates, Locals
  <2>4. JobsTypeOK
    BY DEF TypeInv, JobsInv, JobsTypeOK, ProcStates, Todo
  <2> QED
    BY <2>2, <2>3, <2>4 DEF TypeInv, TypeOK
<1> QED
  BY <1>1, InitTypes, NextTypes, PTL DEF Spec

-----------------------------------------------------------------------------
(* Beliefs.  A name once taken keeps what it holds, so what an answer says *)
(* of it stays true: kept entries are there, and a salt is only chosen for *)
(* an entry whose own name another holds.                                  *)

\* No entry needs the list any more.
AllDone == \A e \in Entries : Kept(e) # {} \/ GivenUp(e)

\* p counts as kept what is there, and as blocked what is held twice.
Sound(p) == /\ \A e \in p.kept : Kept(e) # {}
            /\ \A e \in p.blocked : GivenUp(e)

\* The entry's own name is held by another.
Held0(e) == objects[e][Det] = "other"
SaltsSound(s) == \A e \in Entries : s[e] # NoSalt => Held0(e)

AnswerInv ==
    \A w \in Writers : \A e \in DOMAIN req[w].name :
        /\ req[w].name[e] # Det => Held0(e)
        /\ e \in DOMAIN req[w].res =>
             /\ req[w].res[e] \in {"created", "mine"} => objects[e][req[w].name[e]] = "mine"
             /\ req[w].res[e] = "other" => objects[e][req[w].name[e]] = "other"

JobSound(j) == j # NoJob => /\ SaltsSound(j.salts)
                            /\ j.keep /\ j.done => AllDone
LiveSound(l) == l # NoJob => /\ Sound(l.progress) /\ SaltsSound(l.rec.salts)
                             /\ l.rec.keep /\ l.rec.done => AllDone
LocSound(c) == SaltsSound(c.chosen) /\ \A e \in c.toSalt : Held0(e)

QueueBelief ==
    /\ Sound(progress) /\ JobSound(job)
    /\ \A t \in Tabs : LiveSound(live[t])
    /\ \A t \in Tabs : LocSound(loc[t])
    /\ \A t \in Tabs : pc[t] = "finish" => AllDone

StateSound(s) == s # NoFile => Sound(s) /\ SaltsSound(s.salts)
TodoSound(d) == \A e \in d.held \cup d.fresh : Held0(e)

JobsBelief ==
    /\ StateSound(file)
    /\ \A p \in Procs : StateSound(mem[p])
    /\ \A p \in Procs : TodoSound(todo[p])
    /\ \A p \in Procs : ppc[p] = "ending" => AllDone

BeliefInv == AnswerInv /\ QueueBelief /\ JobsBelief

\* What is there stays there, and what is held stays held.
LEMMA FactsLast ==
    ASSUME StoreInv, Lasting
    PROVE  /\ \A e \in Entries : Kept(e) # {} => Kept(e)' # {}
           /\ \A e \in Entries : Held0(e) => Held0(e)'
           /\ \A e \in Entries : GivenUp(e) => GivenUp(e)'
           /\ AllDone => AllDone'
<1>0. Det \in Names
  BY NamesAre DEF Det, NoSalt
<1>1. ASSUME NEW e \in Entries, Kept(e) # {} PROVE Kept(e)' # {}
  <2>1. PICK n \in Names : objects[e][n] = "mine"
    BY <1>1 DEF Kept
  <2>2. objects'[e][n] = "mine"
    BY <2>1 DEF Lasting
  <2> QED
    BY <2>2 DEF Kept
<1>2. ASSUME NEW e \in Entries, Held0(e) PROVE Held0(e)'
  BY <1>0, <1>2 DEF Held0, Lasting
<1>3. ASSUME NEW e \in Entries, GivenUp(e) PROVE GivenUp(e)'
  <2>1. PICK n \in Names \ {Det} : objects[e][n] = "other"
    BY <1>3 DEF GivenUp
  <2>2. objects'[e][n] = "other" /\ objects'[e][Det] = "other"
    BY <1>0, <1>3, <2>1 DEF Lasting, GivenUp
  <2> QED
    BY <2>2 DEF GivenUp
<1> QED
  BY <1>1, <1>2, <1>3 DEF AllDone

\* So every belief that was sound is.
LEMMA SoundLast ==
    ASSUME StoreInv, Lasting
    PROVE  /\ \A p \in Progress \cup State : Sound(p) => Sound(p)'
           /\ \A s : SaltsSound(s) => SaltsSound(s)'
           /\ \A j \in Record \cup {NoJob} : JobSound(j) => JobSound(j)'
           /\ \A l \in LiveJob \cup {NoJob} : LiveSound(l) => LiveSound(l)'
           /\ \A c \in Locals : LocSound(c) => LocSound(c)'
           /\ \A s \in State \cup {NoFile} : StateSound(s) => StateSound(s)'
           /\ \A d \in Todo : TodoSound(d) => TodoSound(d)'
<1>1. ASSUME NEW p \in Progress \cup State, Sound(p) PROVE Sound(p)'
  <2>1. p.kept \subseteq Entries /\ p.blocked \subseteq Entries
    BY DEF Progress, State
  <2> QED
    BY <1>1, <2>1, FactsLast DEF Sound
<1>2. ASSUME NEW s, SaltsSound(s) PROVE SaltsSound(s)'
  BY <1>2, FactsLast DEF SaltsSound
<1>3. ASSUME NEW j \in Record \cup {NoJob}, JobSound(j) PROVE JobSound(j)'
  BY <1>2, <1>3, FactsLast DEF JobSound
<1>4. ASSUME NEW l \in LiveJob \cup {NoJob}, LiveSound(l) PROVE LiveSound(l)'
  <2>1. l # NoJob => l.progress \in Progress
    BY DEF LiveJob
  <2> QED
    BY <1>1, <1>2, <1>4, <2>1, FactsLast DEF LiveSound
<1>5. ASSUME NEW c \in Locals, LocSound(c) PROVE LocSound(c)'
  <2>1. c.toSalt \subseteq Entries
    BY DEF Locals
  <2> QED
    BY <1>2, <1>5, <2>1, FactsLast DEF LocSound
<1>6. ASSUME NEW s \in State \cup {NoFile}, StateSound(s) PROVE StateSound(s)'
  <2>1. s # NoFile => s \in State
    OBVIOUS
  <2> QED
    BY <1>1, <1>2, <1>6, <2>1 DEF StateSound
<1>7. ASSUME NEW d \in Todo, TodoSound(d) PROVE TodoSound(d)'
  <2>1. d.held \cup d.fresh \subseteq Entries
    BY DEF Todo
  <2> QED
    BY <1>7, <2>1, FactsLast DEF TodoSound
<1> QED
  BY <1>1, <1>2, <1>3, <1>4, <1>5, <1>6, <1>7

\* What the tabs believe is not touched by others' steps.
LEMMA QueueKeeps ==
    ASSUME TypeInv, Lasting, QueueBelief, UNCHANGED queueVars
    PROVE  QueueBelief'
<1>1. StoreInv /\ QueueInv
  BY DEF TypeInv
<1>2. /\ progress \in Progress /\ job \in Record \cup {NoJob}
      /\ \A t \in Tabs : live[t] \in LiveJob \cup {NoJob} /\ loc[t] \in Locals
  BY <1>1 DEF QueueInv
<1>3. /\ progress' = progress /\ job' = job /\ live' = live /\ loc' = loc /\ pc' = pc
  BY DEF queueVars
<1>4. Sound(progress)' /\ JobSound(job)'
  <2>1. PICK p, j : p = progress /\ j = job
    OBVIOUS
  <2>2. Sound(p)' /\ JobSound(j)'
    BY <1>1, <1>2, <2>1, SoundLast DEF QueueBelief
  <2> QED
    BY <1>3, <2>1, <2>2
<1>5. ASSUME NEW t \in Tabs PROVE LiveSound(live[t])' /\ LocSound(loc[t])'
  <2>1. PICK l, c : l = live[t] /\ c = loc[t]
    OBVIOUS
  <2>2. LiveSound(l)' /\ LocSound(c)'
    BY <1>1, <1>2, <2>1, SoundLast DEF QueueBelief
  <2> QED
    BY <1>3, <2>1, <2>2
<1>6. \A t \in Tabs : pc'[t] = "finish" => AllDone'
  BY <1>1, <1>3, FactsLast DEF QueueBelief
<1> QED
  BY <1>4, <1>5, <1>6 DEF QueueBelief

\* The same of the processes.
LEMMA JobsKeep ==
    ASSUME TypeInv, Lasting, JobsBelief, UNCHANGED <<file, ppc, mem, todo>>
    PROVE  JobsBelief'
<1>1. StoreInv /\ JobsInv
  BY DEF TypeInv
<1>2. /\ file \in State \cup {NoFile}
      /\ \A p \in Procs : mem[p] \in State /\ todo[p] \in Todo
  BY <1>1 DEF JobsInv
<1>3. StateSound(file)'
  <2>1. PICK s : s = file
    OBVIOUS
  <2>2. StateSound(s)'
    BY <1>1, <1>2, <2>1, SoundLast DEF JobsBelief
  <2> QED
    BY <2>1, <2>2
<1>4. ASSUME NEW p \in Procs PROVE StateSound(mem[p])' /\ TodoSound(todo[p])'
  <2>1. PICK s, d : s = mem[p] /\ d = todo[p]
    OBVIOUS
  <2>2. StateSound(s)' /\ TodoSound(d)'
    BY <1>1, <1>2, <2>1, SoundLast DEF JobsBelief
  <2> QED
    BY <2>1, <2>2
<1>5. \A p \in Procs : ppc'[p] = "ending" => AllDone'
  BY <1>1, FactsLast DEF JobsBelief
<1> QED
  BY <1>3, <1>4, <1>5 DEF JobsBelief

-----------------------------------------------------------------------------
(* Answers are right.                                                      *)

\* One request's answers are right.
RightFor(q) ==
    \A e \in DOMAIN q.name :
        /\ q.name[e] # Det => Held0(e)
        /\ e \in DOMAIN q.res =>
             /\ q.res[e] \in {"created", "mine"} => objects[e][q.name[e]] = "mine"
             /\ q.res[e] = "other" => objects[e][q.name[e]] = "other"

\* The answers are right when each request's are.
LEMMA AnswersAre == AnswerInv <=> \A w \in Writers : RightFor(req[w])
BY DEF AnswerInv, RightFor

\* A right answer stays right.
LEMMA RightLasts ==
    ASSUME StoreInv, Lasting, NEW q \in Request, RightFor(q)
    PROVE  RightFor(q)'
<1>1. \A e \in DOMAIN q.name : e \in Entries /\ q.name[e] \in Names
  BY PartialHas DEF Request
<1> QED
  BY <1>1, FactsLast DEF RightFor, Lasting

\* No answer is right.
LEMMA NothingRight == RightFor(NoReq)
BY NoReqIs DEF RightFor

\* A step that makes, drops or leaves requests keeps the answers right.
LEMMA RequestsRight ==
    ASSUME TypeInv, AnswerInv, UNCHANGED objects, NEW w \in Writers, NEW q,
           req' = [req EXCEPT ![w] = q], RightFor(q)
    PROVE  AnswerInv'
<1>1. StoreInv /\ req \in [Writers -> Request]
  BY DEF TypeInv, StoreInv
<1>2. ASSUME NEW v \in Writers PROVE RightFor(req[v])'
  <2>1. PICK r : r = req'[v]
    OBVIOUS
  <2>2. RightFor(r)
    BY <1>1, <2>1, AnswersAre
  <2>3. RightFor(r)'
    BY <2>2 DEF RightFor, Held0
  <2> QED
    BY <2>1, <2>3
<1> QED
  BY <1>2 DEF AnswerInv, RightFor

\* Requests that are not touched.
LEMMA RequestsKept ==
    ASSUME TypeInv, AnswerInv, UNCHANGED <<objects, req>>
    PROVE  AnswerInv'
BY DEF AnswerInv, Held0

\* A new request is right when it uses salts for held names only.
LEMMA PostRight ==
    ASSUME TypeInv, AnswerInv, UNCHANGED objects, NEW w \in Writers, NEW name,
           Post(w, name), \A e \in DOMAIN name : name[e] # Det => Held0(e)
    PROVE  AnswerInv'
<1>1. RightFor([name |-> name, res |-> <<>>])
  <2>1. DOMAIN <<>> = {}
    OBVIOUS
  <2> QED
    BY <2>1 DEF RightFor
<1> QED
  BY <1>1, RequestsRight DEF Post

\* A request that is given up leaves no answer.
LEMMA AbandonRight ==
    ASSUME TypeInv, AnswerInv, UNCHANGED objects, NEW w \in Writers, Abandon(w)
    PROVE  AnswerInv'
BY NothingRight, RequestsRight DEF Abandon

\* The server answers what is so.
LEMMA ServerRight ==
    ASSUME TypeInv, AnswerInv, ServerNext
    PROVE  AnswerInv'
<1>1. StoreInv /\ StoreInv' /\ Lasting /\ req \in [Writers -> Request]
  BY ServerTypes DEF TypeInv, StoreInv
<1>2. ASSUME NEW w \in Writers, NEW e \in DOMAIN req[w].name, PutIfAbsent(w, e)
      PROVE  AnswerInv'
  <2>1. req[w] \in Request /\ req[w].name \in Partial(Names) /\ req[w].res \in Partial(Answers)
    BY <1>1 DEF Request
  <2>2. PICK n \in Names : n = req[w].name[e]
    BY <2>1, PartialHas
  <2>3. e \in Entries /\ objects[e][n] \in {"free", "mine", "other"}
    BY <1>1, <2>1, <2>2, PartialHas DEF StoreInv
  <2>4. PICK a : /\ Answer(w, e, a)
                 /\ a \in {"created", "mine"} => objects'[e][n] = "mine"
                 /\ a = "other" => objects'[e][n] = "other"
    <3>1. CASE /\ Answer(w, e, IF objects[e][n] = "free" THEN "created" ELSE objects[e][n])
               /\ Created(e, n)
      <4>1. CASE objects[e][n] = "free"
        BY <1>1, <2>3, <3>1, <4>1, CreatedTypes
      <4>2. CASE objects[e][n] # "free"
        <5>1. objects'[e][n] = objects[e][n]
          BY <1>1, <2>3, <4>2 DEF Lasting
        <5> QED
          BY <2>3, <3>1, <4>2, <5>1
      <4> QED
        BY <4>1, <4>2
    <3>2. CASE Answer(w, e, "failed")
      BY <3>2
    <3> QED
      BY <1>2, <2>2, <3>1, <3>2 DEF PutIfAbsent
  <2>5. PICK q : q = req[w]
    OBVIOUS
  <2>6. req'[w].name = q.name /\ req'[w].res = WithAnswer(q.res, e, a)
    BY <1>1, <2>1, <2>4, <2>5 DEF Answer, Request
  <2>7. \A v \in Writers : v # w => req'[v] = req[v]
    BY <1>1, <2>4 DEF Answer
  <2>8. RightFor(q)'
    BY <1>1, <2>1, <2>5, RightLasts, AnswersAre
  <2>9. RightFor(req[w])'
    <3>1. ASSUME NEW d \in DOMAIN q.name
          PROVE  /\ q.name[d] # Det => Held0(d)'
                 /\ d \in DOMAIN WithAnswer(q.res, e, a) =>
                      /\ WithAnswer(q.res, e, a)[d] \in {"created", "mine"} => objects'[d][q.name[d]] = "mine"
                      /\ WithAnswer(q.res, e, a)[d] = "other" => objects'[d][q.name[d]] = "other"
      <4>1. CASE d = e
        BY <2>2, <2>4, <2>5, <2>8, <4>1 DEF RightFor, WithAnswer
      <4>2. CASE d # e
        BY <2>8, <4>2 DEF RightFor, WithAnswer
      <4> QED
        BY <4>1, <4>2
    <3> QED
      BY <2>6, <3>1 DEF RightFor
  <2>10. ASSUME NEW v \in Writers PROVE RightFor(req[v])'
    <3>1. CASE v = w
      BY <2>9, <3>1
    <3>2. CASE v # w
      <4>1. PICK u \in Request : u = req[v] /\ u = req'[v]
        BY <1>1, <2>7, <3>2
      <4>2. RightFor(u)'
        BY <1>1, <4>1, RightLasts, AnswersAre
      <4> QED
        BY <4>1, <4>2
    <3> QED
      BY <3>1, <3>2
  <2> QED
    BY <2>10 DEF AnswerInv, RightFor
<1>3. ASSUME NEW p \in late, LatePut(p[1], p[2]) \/ LateLost(p[1], p[2])
      PROVE  AnswerInv'
  <2>1. req' = req
    BY <1>3 DEF LatePut, LateLost
  <2>2. ASSUME NEW v \in Writers PROVE RightFor(req[v])'
    <3>1. PICK u \in Request : u = req[v] /\ u = req'[v]
      BY <1>1, <2>1
    <3>2. RightFor(u)'
      BY <1>1, <3>1, RightLasts, AnswersAre
    <3> QED
      BY <3>1, <3>2
  <2> QED
    BY <2>2 DEF AnswerInv, RightFor
<1> QED
  BY <1>2, <1>3 DEF ServerNext

-----------------------------------------------------------------------------
(* The tabs believe what is so.                                            *)

\* What is sound where the objects are the same.
LEMMA SoundSame ==
    ASSUME UNCHANGED objects
    PROVE  /\ \A p : Sound(p)' <=> Sound(p)
           /\ \A s : SaltsSound(s)' <=> SaltsSound(s)
           /\ \A j : JobSound(j)' <=> JobSound(j)
           /\ \A l : LiveSound(l)' <=> LiveSound(l)
           /\ \A c : LocSound(c)' <=> LocSound(c)
           /\ \A s : StateSound(s)' <=> StateSound(s)
           /\ \A d : TodoSound(d)' <=> TodoSound(d)
           /\ AllDone' <=> AllDone
<1>1. /\ \A e : Kept(e)' = Kept(e)
      /\ \A e : GivenUp(e)' <=> GivenUp(e)
      /\ \A e : Held0(e)' <=> Held0(e)
  BY DEF Kept, GivenUp, Held0
<1>2. AllDone' <=> AllDone
  BY <1>1 DEF AllDone
<1>3. \A p : Sound(p)' <=> Sound(p)
  BY <1>1 DEF Sound
<1>4. \A s : SaltsSound(s)' <=> SaltsSound(s)
  BY <1>1 DEF SaltsSound
<1> QED
  BY <1>1, <1>2, <1>3, <1>4 DEF JobSound, LiveSound, LocSound, StateSound, TodoSound

\* A tab goes on from sound beliefs to sound beliefs.
LEMMA TabSound ==
    ASSUME TypeInv, QueueBelief, UNCHANGED objects, NEW t \in Tabs,
           NEW l, LiveSound(l), live' = [live EXCEPT ![t] = l],
           NEW c, LocSound(c), loc' = [loc EXCEPT ![t] = c],
           NEW j, JobSound(j), job' = j,
           NEW p, Sound(p), progress' = p,
           NEW s, Goto(t, s), s = "finish" => AllDone
    PROVE  QueueBelief'
<1>1. live \in [Tabs -> LiveJob \cup {NoJob}] /\ loc \in [Tabs -> Locals] /\ pc \in [Tabs -> TabStates]
  BY DEF TypeInv, QueueInv
<1>2. Sound(progress)' /\ JobSound(job)'
  <2>1. Sound(p)' /\ JobSound(j)'
    BY SoundSame
  <2> QED
    BY <2>1
<1>3. ASSUME NEW u \in Tabs PROVE LiveSound(live[u])' /\ LocSound(loc[u])'
  <2>1. PICK m, d : m = live'[u] /\ d = loc'[u]
    OBVIOUS
  <2>2. LiveSound(m) /\ LocSound(d)
    BY <1>1, <2>1 DEF QueueBelief
  <2>3. LiveSound(m)' /\ LocSound(d)'
    BY <2>2, SoundSame
  <2> QED
    BY <2>1, <2>3
<1>4. ASSUME NEW u \in Tabs, pc'[u] = "finish" PROVE AllDone'
  <2>1. AllDone
    BY <1>1, <1>4 DEF Goto, QueueBelief
  <2> QED
    BY <2>1, SoundSame
<1> QED
  BY <1>2, <1>3, <1>4 DEF QueueBelief

\* A tab's own part of the invariant.
LEMMA TabHas ==
    ASSUME TypeInv, QueueBelief, NEW t \in Tabs
    PROVE  /\ LiveSound(live[t]) /\ LocSound(loc[t]) /\ JobSound(job) /\ Sound(progress)
           /\ live = [live EXCEPT ![t] = live[t]] /\ loc = [loc EXCEPT ![t] = loc[t]]
           /\ pc = [pc EXCEPT ![t] = pc[t]] /\ Goto(t, pc[t]) = (pc' = pc)
BY DEF TypeInv, QueueInv, QueueBelief, Goto

\* Merging sound beliefs gives sound beliefs.
LEMMA MergeSound ==
    /\ \A p, q : Sound(p) /\ Sound(q) => Sound(MergeProgress(p, q))
    /\ \A s, u : SaltsSound(s) /\ SaltsSound(u) => SaltsSound(MergeSalts(s, u))
    /\ Sound(NoProgress) /\ LocSound(NoLoc)
    /\ \A n : LocSound([NoLoc EXCEPT !.start = n])
BY DEF Sound, MergeProgress, SaltsSound, MergeSalts, NoProgress, LocSound, NoLoc

\* An adopted job has sound salts and no progress.
LEMMA AdoptedSound ==
    ASSUME NEW rec \in Record, JobSound(rec), NEW b
    PROVE  LiveSound(Adopted(rec, NoProgress, b))
BY MergeSound, NoJobIs DEF JobSound, LiveSound, Adopted

\* A job that a tab works off and that has nothing left is done.
LEMMA NothingLeft ==
    ASSUME NEW l, LiveSound(l), Working(l), Unresolved(l) = {}
    PROVE  AllDone
<1>1. Entries \subseteq l.progress.kept \cup l.progress.blocked /\ Sound(l.progress)
  BY DEF Working, Unresolved, Resolved, LiveSound
<1> QED
  BY <1>1 DEF Sound, AllDone

\* Loading, enqueueing and the pump.
LEMMA PumpSound ==
    ASSUME TypeInv, AnswerInv, QueueBelief, NEW t \in Tabs,
           \/ LoadJobs(t) \/ LoadProgress(t) \/ RefreshUnknown(t) \/ (\E keep \in BOOLEAN : EnqueueTree(t, keep))
           \/ Kick(t) \/ RunStart(t) \/ Nap(t) \/ RefreshKnown(t)
    PROVE  AnswerInv' /\ QueueBelief'
<1>1. UNCHANGED <<objects, req>>
  BY DEF LoadJobs, LoadProgress, RefreshUnknown, EnqueueTree, Kick, RunStart, Nap, RefreshKnown, storeVars
<1>2. SUFFICES QueueBelief'
  BY <1>1, RequestsKept
<1>3. /\ UNCHANGED objects /\ loc' = loc /\ progress' = progress
      /\ live \in [Tabs -> LiveJob \cup {NoJob}] /\ job \in Record \cup {NoJob}
  BY <1>1 DEF LoadJobs, LoadProgress, RefreshUnknown, EnqueueTree, Kick, RunStart, Nap, RefreshKnown,
              TypeInv, QueueInv
<1>4. /\ LiveSound(live[t]) /\ LocSound(loc[t]) /\ JobSound(job) /\ Sound(progress)
      /\ live = [live EXCEPT ![t] = live[t]] /\ loc' = [loc EXCEPT ![t] = loc[t]]
  BY <1>3, TabHas
<1>5. ASSUME NEW l, LiveSound(l), live' = [live EXCEPT ![t] = l],
             NEW j, JobSound(j), job' = j, NEW s, Goto(t, s), s = "finish" => AllDone
      PROVE  QueueBelief'
  BY <1>3, <1>4, <1>5, TabSound
<1>6. LiveSound(NoJob)
  BY DEF LiveSound
<1>7. job # NoJob => LiveSound(Adopted(job, NoProgress, TRUE))
  BY <1>3, <1>4, AdoptedSound
<1>8. CASE LoadJobs(t)
  <2>1. /\ job' = job
        /\ \/ live' = live
           \/ live' = [live EXCEPT ![t] = NoJob]
           \/ job # NoJob /\ live' = [live EXCEPT ![t] = Adopted(job, NoProgress, TRUE)]
        /\ Goto(t, "idle") \/ Goto(t, "loading")
    BY <1>8 DEF LoadJobs
  <2> QED
    BY <1>4, <1>5, <1>6, <1>7, <2>1
<1>9. CASE RefreshUnknown(t)
  <2>1. /\ job' = job /\ Goto(t, "loading") /\ job # NoJob
        /\ live' = [live EXCEPT ![t] = Adopted(job, NoProgress, TRUE)]
    BY <1>9 DEF RefreshUnknown
  <2> QED
    BY <1>4, <1>5, <1>7, <2>1
<1>10. CASE LoadProgress(t)
  <2>1. job' = job /\ Goto(t, "run") /\ live[t] \in LiveJob
    BY <1>10, RunsWithJob DEF LoadProgress, TypeInv
  <2>2. PICK p \in Progress : p = progress
    BY DEF TypeInv, QueueInv
  <2>3. LiveSound([live[t] EXCEPT !.progress = p])
    BY <1>4, <2>1, <2>2, NoJobIs DEF LiveSound, LiveJob
  <2>4. live' = live \/ live' = [live EXCEPT ![t] = [live[t] EXCEPT !.progress = p]]
    BY <1>10, <2>2 DEF LoadProgress
  <2> QED
    BY <1>4, <1>5, <2>1, <2>3, <2>4
<1>11. ASSUME NEW keep \in BOOLEAN, EnqueueTree(t, keep) PROVE QueueBelief'
  <2> DEFINE rec == [made |-> TRUE, keep |-> keep, list |-> keep, done |-> ~keep,
                     salts |-> [e \in Entries |-> NoSalt]]
  <2>1. rec \in Record /\ JobSound(rec)
    BY NamesAre DEF Record, JobSound, SaltsSound
  <2>2. /\ \/ job' = rec /\ live' = [live EXCEPT ![t] = Adopted(rec, NoProgress, TRUE)]
           \/ job' = job /\ live' = [live EXCEPT ![t] = Adopted(rec, NoProgress, FALSE)]
        /\ Goto(t, "run")
    BY <1>11 DEF EnqueueTree
  <2> HIDE DEF rec
  <2>3. LiveSound(Adopted(rec, NoProgress, TRUE)) /\ LiveSound(Adopted(rec, NoProgress, FALSE))
    BY <2>1, AdoptedSound
  <2> QED
    BY <1>4, <1>5, <2>1, <2>2, <2>3
<1>12. CASE Kick(t)
  <2>1. job' = job /\ live' = live /\ Goto(t, "run")
    BY <1>12 DEF Kick
  <2> QED
    BY <1>4, <1>5, <2>1
<1>13. CASE RunStart(t)
  <2>1. PICK s : /\ Goto(t, s)
                 /\ s = "finish" => Working(live[t]) /\ Unresolved(live[t]) = {}
    BY <1>13 DEF RunStart
  <2>2. s = "finish" => AllDone
    BY <1>4, <2>1, NothingLeft
  <2>3. job' = job /\ live' = live
    BY <1>13 DEF RunStart
  <2> QED
    BY <1>4, <1>5, <2>1, <2>2, <2>3
<1>14. CASE Nap(t)
  <2>1. job' = job /\ Goto(t, "next") /\ live[t] \in LiveJob /\ live' = [live EXCEPT ![t] = [live[t] EXCEPT !.cursor = 1]]
    BY <1>14, RunsWithJob DEF Nap, TypeInv
  <2>2. LiveSound([live[t] EXCEPT !.cursor = 1])
    BY <1>4, <2>1, NoJobIs DEF LiveSound, LiveJob
  <2> QED
    BY <1>4, <1>5, <2>1, <2>2
<1>15. CASE RefreshKnown(t)
  <2>1. live[t] \in LiveJob /\ job \in Record /\ job' = job /\ pc' = pc
    BY <1>3, <1>15 DEF RefreshKnown
  <2>2. PICK m \in [Entries -> Names] : m = MergeSalts(job.salts, live[t].rec.salts) /\ SaltsSound(m)
    <3>1. MergeSalts(job.salts, live[t].rec.salts) \in [Entries -> Names]
      BY <2>1, MergeTypes DEF LiveJob, Record
    <3>2. SaltsSound(job.salts) /\ SaltsSound(live[t].rec.salts)
      BY <1>4, <2>1, NoJobIs DEF JobSound, LiveSound
    <3>3. SaltsSound(MergeSalts(job.salts, live[t].rec.salts))
      BY <3>2, MergeSound
    <3> QED
      BY <3>1, <3>3
  <2>3. live' = [live EXCEPT ![t] = [live[t] EXCEPT !.rec.salts = m]]
    BY <1>15, <2>2 DEF RefreshKnown
  <2>4. LiveSound([live[t] EXCEPT !.rec.salts = m])
    BY <1>4, <2>1, <2>2, NoJobIs DEF LiveSound, LiveJob, Record
  <2>5. Goto(t, pc[t]) /\ (pc[t] = "finish" => AllDone)
    BY <2>1, TabHas DEF QueueBelief, Goto
  <2> QED
    BY <1>4, <1>5, <2>1, <2>3, <2>4, <2>5
<1> QED
  BY <1>8, <1>9, <1>10, <1>11, <1>12, <1>13, <1>14, <1>15

\* The batch, and a request or a page that goes.
LEMMA BatchSound ==
    ASSUME TypeInv, AnswerInv, QueueBelief, NEW t \in Tabs,
           NextBatch(t) \/ PostFails(t) \/ CloseTab(t)
    PROVE  AnswerInv' /\ QueueBelief'
<1>1. /\ UNCHANGED objects /\ job' = job /\ progress' = progress /\ t \in Writers
  BY WritersAre DEF NextBatch, PostFails, CloseTab
<1>2. /\ LiveSound(live[t]) /\ LocSound(loc[t]) /\ JobSound(job) /\ Sound(progress)
      /\ live = [live EXCEPT ![t] = live[t]] /\ loc = [loc EXCEPT ![t] = loc[t]]
  BY TabHas
<1>3. ASSUME NEW l, LiveSound(l), live' = [live EXCEPT ![t] = l],
             NEW c, LocSound(c), loc' = [loc EXCEPT ![t] = c],
             NEW s, Goto(t, s), s # "finish"
      PROVE  QueueBelief'
  BY <1>1, <1>2, <1>3, TabSound
<1>4. ASSUME live[t] \in LiveJob, NEW n PROVE LiveSound([live[t] EXCEPT !.cursor = n])
  BY <1>2, <1>4, NoJobIs DEF LiveSound, LiveJob
<1>5. CASE NextBatch(t)
  <2>1. live[t] \in LiveJob
    BY <1>5, RunsWithJob DEF NextBatch, TypeInv
  <2>2. AnswerInv'
    <3>1. CASE UNCHANGED req
      BY <1>1, <3>1, RequestsKept
    <3>2. CASE \E S : Post(t, [e \in S |-> live[t].rec.salts[e]]) /\ S \subseteq Entries
      <4>1. PICK S : Post(t, [e \in S |-> live[t].rec.salts[e]]) /\ S \subseteq Entries
        BY <3>2
      <4>2. SaltsSound(live[t].rec.salts)
        BY <1>2, <2>1, NoJobIs DEF LiveSound
      <4>3. \A e \in S : live[t].rec.salts[e] # Det => Held0(e)
        BY <4>1, <4>2 DEF SaltsSound, Det, NoSalt
      <4>4. PICK name : name = [e \in S |-> live[t].rec.salts[e]]
        OBVIOUS
      <4>5. \A e \in DOMAIN name : name[e] # Det => Held0(e)
        BY <4>3, <4>4
      <4> QED
        BY <1>1, <4>1, <4>4, <4>5, PostRight
    <3>3. Pending(live[t], live[t].cursor, BatchEnd(live[t])) \subseteq Entries
      BY <2>1, BatchIs
    <3> QED
      BY <1>5, <3>1, <3>2, <3>3 DEF NextBatch
  <2>3. PICK n : live' = [live EXCEPT ![t] = [live[t] EXCEPT !.cursor = n]]
    BY <1>5 DEF NextBatch
  <2>4. PICK s : Goto(t, s) /\ s # "finish"
    BY <1>5 DEF NextBatch
  <2>5. loc' = loc \/ loc' = [loc EXCEPT ![t] = [NoLoc EXCEPT !.start = live[t].cursor]]
    BY <1>5 DEF NextBatch
  <2>6. QueueBelief'
    BY <1>2, <1>3, <1>4, <2>1, <2>3, <2>4, <2>5, MergeSound
  <2> QED
    BY <2>2, <2>6
<1>6. CASE PostFails(t)
  <2>1. live[t] \in LiveJob /\ Abandon(t) /\ Goto(t, "next")
    BY <1>6, RunsWithJob DEF PostFails, TypeInv
  <2>2. /\ live' = [live EXCEPT ![t] = [live[t] EXCEPT !.cursor = loc[t].start]]
        /\ loc' = [loc EXCEPT ![t] = NoLoc]
    BY <1>6 DEF PostFails
  <2>3. QueueBelief'
    BY <1>3, <1>4, <2>1, <2>2, MergeSound
  <2> QED
    BY <1>1, <2>1, <2>3, AbandonRight
<1>7. CASE CloseTab(t)
  <2>1. Abandon(t) /\ Goto(t, "closed") /\ LiveSound(NoJob)
    BY <1>7 DEF CloseTab, LiveSound
  <2>2. live' = [live EXCEPT ![t] = NoJob] /\ loc' = [loc EXCEPT ![t] = NoLoc]
    BY <1>7 DEF CloseTab
  <2>3. QueueBelief'
    BY <1>3, <2>1, <2>2, MergeSound
  <2> QED
    BY <1>1, <2>1, <2>3, AbandonRight
<1> QED
  BY <1>5, <1>6, <1>7

\* What a right answer gives: kept entries, held ones and blocked ones.
LEMMA AnswerGives ==
    ASSUME StoreInv, NEW q \in Request, RightFor(q), NEW e \in DOMAIN q.res, DOMAIN q.res \subseteq DOMAIN q.name
    PROVE  /\ q.res[e] \in {"created", "mine"} => Kept(e) # {}
           /\ q.res[e] = "other" => Held0(e)
           /\ q.res[e] = "other" /\ q.name[e] # Det => GivenUp(e)
<1>1. e \in Entries /\ q.name[e] \in Names
  BY PartialHas DEF Request
<1>2. q.res[e] \in {"created", "mine"} => Kept(e) # {}
  BY <1>1 DEF RightFor, Kept
<1>3. q.res[e] = "other" => Held0(e)
  BY <1>1 DEF RightFor, Held0
<1>4. q.res[e] = "other" /\ q.name[e] # Det => GivenUp(e)
  BY <1>1, <1>3 DEF RightFor, GivenUp, Held0
<1> QED
  BY <1>2, <1>3, <1>4

\* apply.
LEMMA ApplySound ==
    ASSUME TypeInv, AnswerInv, QueueBelief, NEW t \in Tabs, Apply(t)
    PROVE  AnswerInv' /\ QueueBelief'
<1>1. UNCHANGED objects /\ job' = job /\ progress' = progress /\ t \in Writers /\ StoreInv
  BY WritersAre DEF Apply, TypeInv
<1>2. LiveSound(live[t]) /\ LocSound(loc[t]) /\ JobSound(job) /\ Sound(progress)
  BY TabHas
<1>3. live[t] \in LiveJob /\ loc[t] \in Locals
  BY RunsWithJob DEF Apply, TypeInv, QueueInv
<1>4. AnswerInv'
  BY <1>1, NothingRight, RequestsRight DEF Apply
<1> DEFINE r == req[t]
           held == {e \in DOMAIN r.res : r.res[e] = "other"} \ KeptBy(r.res)
           blocked == {e \in held : r.name[e] # Det}
           news == [kept |-> KeptBy(r.res), blocked |-> blocked]
<1>5. /\ \A e \in KeptBy(r.res) : Kept(e) # {}
      /\ \A e \in held : Held0(e)
      /\ \A e \in blocked : GivenUp(e)
  <2>1. r \in Request /\ DOMAIN r.res \subseteq DOMAIN r.name /\ RightFor(r)
    BY <1>1, AnswersAre DEF StoreInv
  <2> HIDE DEF r
  <2> QED
    BY <1>1, <2>1, AnswerGives DEF KeptBy
<1>6. Sound(news)
  BY <1>5 DEF Sound
<1>7. Sound(MergeProgress(live[t].progress, news))
  BY <1>2, <1>3, <1>6, MergeSound, NoJobIs DEF LiveSound
<1>8. PICK p : p = MergeProgress(live[t].progress, news) /\ Sound(p)
  BY <1>7
<1>9. PICK d : d = (live[t].dirty \/ Resolved(news) # {})
  OBVIOUS
<1>10. live' = [live EXCEPT ![t] = [live[t] EXCEPT !.progress = p, !.dirty = d]]
  BY <1>8, <1>9 DEF Apply
<1>11. LiveSound([live[t] EXCEPT !.progress = p, !.dirty = d])
  BY <1>2, <1>3, <1>8, NoJobIs DEF LiveSound, LiveJob
<1>12. PICK S : S = held \ blocked /\ \A e \in S : Held0(e)
  BY <1>5
<1>13. loc' = [loc EXCEPT ![t] = [loc[t] EXCEPT !.toSalt = S]]
  BY <1>12 DEF Apply
<1>14. LocSound([loc[t] EXCEPT !.toSalt = S])
  BY <1>2, <1>3, <1>12 DEF LocSound, Locals
<1>15. PICK s : Goto(t, s) /\ s # "finish"
  BY DEF Apply
<1> HIDE DEF news, blocked, held
<1>16. QueueBelief'
  BY <1>1, <1>2, <1>10, <1>11, <1>13, <1>14, <1>15, TabSound
<1> QED
  BY <1>4, <1>16

\* saltFor: a salt is chosen for an entry whose own name is held.
LEMMA LookupSound ==
    ASSUME TypeInv, AnswerInv, QueueBelief, NEW t \in Tabs, NEW e \in Entries, Lookup(t, e)
    PROVE  AnswerInv' /\ QueueBelief'
<1>1. UNCHANGED <<objects, req>> /\ job' = job /\ progress' = progress /\ pc' = pc /\ pc[t] = "lookup"
  BY DEF Lookup
<1>2. LiveSound(live[t]) /\ LocSound(loc[t]) /\ JobSound(job) /\ Sound(progress)
  BY TabHas
<1>3. live[t] \in LiveJob /\ loc[t] \in Locals /\ e \in loc[t].toSalt
  BY RunsWithJob DEF Lookup, TypeInv, QueueInv
<1> DEFINE Settle(salt, kept) ==
             /\ loc' = [loc EXCEPT ![t].chosen[e] = salt, ![t].toSalt = @ \ {e}]
             /\ live' = [live EXCEPT ![t].progress.kept = @ \cup kept, ![t].dirty = @ \/ kept # {}]
<1>4. PICK n, kept : /\ Settle(n, kept)
                     /\ \A d \in kept : Kept(d) # {}
  <2>1. \/ Settle(NoSalt, {})
        \/ \E n \in Kept(e) : Settle(n, {e})
        \/ Settle(drawn + 1, {})
    BY DEF Lookup
  <2> HIDE DEF Settle
  <2> QED
    BY <2>1
<1>5. PICK c : c = [loc[t].chosen EXCEPT ![e] = n]
  OBVIOUS
<1>6. SaltsSound(c)
  BY <1>2, <1>3, <1>5 DEF LocSound, SaltsSound, Locals
<1>7. loc' = [loc EXCEPT ![t] = [loc[t] EXCEPT !.chosen = c, !.toSalt = loc[t].toSalt \ {e}]]
  BY <1>4, <1>5
<1>8. LocSound([loc[t] EXCEPT !.chosen = c, !.toSalt = loc[t].toSalt \ {e}])
  BY <1>2, <1>3, <1>6 DEF LocSound, Locals
<1>9. PICK p : p = [live[t].progress EXCEPT !.kept = live[t].progress.kept \cup kept]
  OBVIOUS
<1>10. Sound(p)
  BY <1>2, <1>3, <1>4, <1>9, NoJobIs DEF Sound, LiveSound, LiveJob, Progress
<1>11. PICK d : d = (live[t].dirty \/ kept # {})
  OBVIOUS
<1>12. live' = [live EXCEPT ![t] = [live[t] EXCEPT !.progress = p, !.dirty = d]]
  BY <1>4, <1>9, <1>11
<1>13. LiveSound([live[t] EXCEPT !.progress = p, !.dirty = d])
  BY <1>2, <1>3, <1>10, NoJobIs DEF LiveSound, LiveJob
<1>14. Goto(t, "lookup")
  BY <1>1, TabHas
<1>15. QueueBelief'
  BY <1>1, <1>2, <1>7, <1>8, <1>12, <1>13, <1>14, TabSound
<1> QED
  BY <1>1, <1>15, RequestsKept

\* The salts of a tab's job are replaced by sound ones.
LEMMA SaltsLive ==
    ASSUME NEW l \in LiveJob, LiveSound(l), NEW m \in [Entries -> Names], SaltsSound(m)
    PROVE  LiveSound([l EXCEPT !.rec.salts = m])
BY NoJobIs DEF LiveSound, LiveJob, Record

\* The end of saltFor, and the salts before the record is closed.
LEMMA SaltsKeptSound ==
    ASSUME TypeInv, AnswerInv, QueueBelief, NEW t \in Tabs, SaveSalts(t) \/ FinishSalts(t)
    PROVE  AnswerInv' /\ QueueBelief'
<1>1. UNCHANGED <<objects, req>> /\ progress' = progress
  BY DEF SaveSalts, FinishSalts
<1>2. /\ LiveSound(live[t]) /\ LocSound(loc[t]) /\ JobSound(job) /\ Sound(progress)
      /\ live = [live EXCEPT ![t] = live[t]] /\ loc = [loc EXCEPT ![t] = loc[t]]
  BY TabHas
<1>3. /\ live[t] \in LiveJob /\ loc[t] \in Locals
      /\ live[t].persisted => job \in Record
  BY RunsWithJob, NoJobIs DEF SaveSalts, FinishSalts, TypeInv, QueueInv
<1>4. PICK s : Goto(t, s) /\ s # "finish"
  BY DEF SaveSalts, FinishSalts
<1>5. PICK c : loc' = [loc EXCEPT ![t] = c] /\ LocSound(c)
  BY <1>2, MergeSound DEF SaveSalts, FinishSalts
<1>6. SaltsSound(live[t].rec.salts) /\ SaltsSound(loc[t].chosen)
      /\ live[t].rec.salts \in [Entries -> Names] /\ loc[t].chosen \in [Entries -> Names]
  BY <1>2, <1>3, NoJobIs DEF LiveSound, LocSound, LiveJob, Record, Locals
<1>7. \/ UNCHANGED <<job, live>>
      \/ \E u \in {live[t].rec.salts, loc[t].chosen} :
           \/ /\ UNCHANGED job
              /\ live' = [live EXCEPT ![t].rec.salts = MergeSalts(@, u)]
           \/ /\ live[t].persisted
              /\ job' = [job EXCEPT !.salts = MergeSalts(@, u)]
              /\ live' = [live EXCEPT ![t].rec.salts = job'.salts]
  BY DEF SaveSalts, FinishSalts
<1>8. SUFFICES QueueBelief'
  BY <1>1, RequestsKept
<1>9. CASE UNCHANGED <<job, live>>
  BY <1>1, <1>2, <1>4, <1>5, <1>9, TabSound
<1>10. ASSUME NEW u \in {live[t].rec.salts, loc[t].chosen},
              UNCHANGED job, live' = [live EXCEPT ![t].rec.salts = MergeSalts(@, u)]
       PROVE  QueueBelief'
  <2>1. PICK m \in [Entries -> Names] : m = MergeSalts(live[t].rec.salts, u) /\ SaltsSound(m)
    BY <1>6, MergeTypes, MergeSound
  <2>2. live' = [live EXCEPT ![t] = [live[t] EXCEPT !.rec.salts = m]]
    BY <1>10, <2>1
  <2>3. LiveSound([live[t] EXCEPT !.rec.salts = m])
    BY <1>2, <1>3, <2>1, SaltsLive
  <2> QED
    BY <1>1, <1>2, <1>4, <1>5, <1>10, <2>2, <2>3, TabSound
<1>11. ASSUME NEW u \in {live[t].rec.salts, loc[t].chosen}, live[t].persisted,
              job' = [job EXCEPT !.salts = MergeSalts(@, u)],
              live' = [live EXCEPT ![t].rec.salts = job'.salts]
       PROVE  QueueBelief'
  <2>1. job \in Record /\ SaltsSound(job.salts) /\ job.salts \in [Entries -> Names]
    BY <1>2, <1>3, <1>11, NoJobIs DEF JobSound, Record
  <2>2. PICK m \in [Entries -> Names] : m = MergeSalts(job.salts, u) /\ SaltsSound(m)
    BY <1>6, <2>1, MergeTypes, MergeSound
  <2>3. PICK j \in Record : j = [job EXCEPT !.salts = m]
    BY <2>1 DEF Record
  <2>4. j.salts = m /\ j.keep = job.keep /\ j.done = job.done
    BY <2>1, <2>3 DEF Record
  <2>5. JobSound(j) /\ job' = j
    BY <1>2, <1>11, <2>1, <2>2, <2>3, <2>4, NoJobIs DEF JobSound
  <2>6. live' = [live EXCEPT ![t] = [live[t] EXCEPT !.rec.salts = m]]
    BY <1>11, <2>4, <2>5
  <2>7. LiveSound([live[t] EXCEPT !.rec.salts = m])
    BY <1>2, <1>3, <2>2, SaltsLive
  <2> QED
    BY <1>1, <1>2, <1>4, <1>5, <2>5, <2>6, <2>7, TabSound
<1> QED
  BY <1>7, <1>9, <1>10, <1>11

\* persist, and what follows a batch or a pass.
LEMMA PassSound ==
    ASSUME TypeInv, AnswerInv, QueueBelief, NEW t \in Tabs, AfterBatch(t) \/ PassEnd(t)
    PROVE  AnswerInv' /\ QueueBelief'
<1>1. UNCHANGED <<objects, req, loc, job>>
  BY DEF AfterBatch, PassEnd
<1>2. /\ LiveSound(live[t]) /\ LocSound(loc[t]) /\ JobSound(job) /\ Sound(progress)
      /\ live = [live EXCEPT ![t] = live[t]] /\ loc = [loc EXCEPT ![t] = loc[t]]
  BY TabHas
<1>3. live[t] \in LiveJob /\ Sound(live[t].progress)
  BY <1>2, RunsWithJob, NoJobIs DEF AfterBatch, PassEnd, TypeInv, LiveSound
<1>4. PICK s : /\ Goto(t, s)
               /\ s = "finish" => Working(live[t]) /\ Unresolved(live[t]) = {}
  BY DEF AfterBatch, PassEnd
<1>5. s = "finish" => AllDone
  BY <1>2, <1>4, NothingLeft
<1>6. \/ UNCHANGED <<progress, live>>
      \/ /\ progress' = MergeProgress(progress, live[t].progress)
         /\ live' = [live EXCEPT ![t].progress = MergeProgress(progress', @), ![t].dirty = FALSE]
  BY DEF AfterBatch, PassEnd, Persist
<1>7. SUFFICES QueueBelief'
  BY <1>1, RequestsKept
<1>8. CASE UNCHANGED <<progress, live>>
  BY <1>1, <1>2, <1>4, <1>5, <1>8, TabSound
<1>9. CASE /\ progress' = MergeProgress(progress, live[t].progress)
           /\ live' = [live EXCEPT ![t].progress = MergeProgress(progress', @), ![t].dirty = FALSE]
  <2>1. PICK p : p = MergeProgress(progress, live[t].progress) /\ Sound(p)
    BY <1>2, <1>3, MergeSound
  <2>2. PICK q : q = MergeProgress(p, live[t].progress) /\ Sound(q)
    BY <1>3, <2>1, MergeSound
  <2>3. live' = [live EXCEPT ![t] = [live[t] EXCEPT !.progress = q, !.dirty = FALSE]] /\ progress' = p
    BY <1>9, <2>1, <2>2
  <2>4. LiveSound([live[t] EXCEPT !.progress = q, !.dirty = FALSE])
    BY <1>2, <1>3, <2>2, NoJobIs DEF LiveSound, LiveJob
  <2> QED
    BY <1>1, <1>2, <1>4, <1>5, <2>1, <2>3, <2>4, TabSound
<1> QED
  BY <1>6, <1>8, <1>9

\* finish: the list goes only where nothing was left.
LEMMA FinishSound ==
    ASSUME TypeInv, AnswerInv, QueueBelief, NEW t \in Tabs, FinishProgress(t) \/ SaveJob(t)
    PROVE  AnswerInv' /\ QueueBelief'
<1>1. UNCHANGED <<objects, req, loc>>
  BY DEF FinishProgress, SaveJob
<1>2. /\ LiveSound(live[t]) /\ LocSound(loc[t]) /\ JobSound(job) /\ Sound(progress)
      /\ live = [live EXCEPT ![t] = live[t]] /\ loc = [loc EXCEPT ![t] = loc[t]]
  BY TabHas
<1>3. live[t] \in LiveJob /\ Sound(live[t].progress)
  BY <1>2, RunsWithJob, NoJobIs DEF FinishProgress, SaveJob, TypeInv, LiveSound
<1>4. SUFFICES QueueBelief'
  BY <1>1, RequestsKept
<1>5. CASE FinishProgress(t)
  <2>1. AllDone /\ job' = job /\ Goto(t, "closing")
    BY <1>5 DEF FinishProgress, QueueBelief
  <2>2. Sound(MergeProgress(progress, live[t].progress))
    BY <1>2, <1>3, MergeSound
  <2>3. Sound(progress')
    <3>1. PICK p : p = progress' /\ Sound(p)
      BY <1>2, <1>5, <2>2 DEF FinishProgress
    <3> QED
      BY <3>1
  <2>4. PICK p, d : /\ Sound(p)
                    /\ live' = [live EXCEPT ![t] = [live[t] EXCEPT !.progress = p, !.dirty = d,
                                                                   !.rec.done = TRUE, !.rec.list = FALSE]]
    BY <1>3, <1>5, <2>2 DEF FinishProgress
  <2>5. LiveSound([live[t] EXCEPT !.progress = p, !.dirty = d, !.rec.done = TRUE, !.rec.list = FALSE])
    BY <1>2, <1>3, <2>1, <2>4, NoJobIs DEF LiveSound, LiveJob, Record
  <2> QED
    BY <1>1, <1>2, <2>1, <2>3, <2>4, <2>5, TabSound
<1>6. CASE SaveJob(t)
  <2>1. Goto(t, "next") /\ live' = live /\ progress' = progress
    BY <1>6 DEF SaveJob
  <2>2. JobSound(live[t].rec)
    BY <1>2, <1>3, NoJobIs DEF LiveSound, JobSound
  <2>3. job' = job \/ job' = live[t].rec
    BY <1>6 DEF SaveJob
  <2> QED
    BY <1>1, <1>2, <2>1, <2>2, <2>3, TabSound
<1> QED
  BY <1>5, <1>6

\* A tab believes what is so.
LEMMA TabNextSound ==
    ASSUME TypeInv, AnswerInv, QueueBelief, NEW t \in Tabs, TabNext(t)
    PROVE  AnswerInv' /\ QueueBelief'
BY PumpSound, BatchSound, ApplySound, LookupSound, SaltsKeptSound, PassSound, FinishSound DEF TabNext, TabStep

-----------------------------------------------------------------------------
(* The processes believe what is so.                                       *)

\* A process goes on from sound beliefs to sound beliefs.
LEMMA ProcSound ==
    ASSUME TypeInv, JobsBelief, UNCHANGED objects, NEW p \in Procs,
           NEW m, StateSound(m), mem' = [mem EXCEPT ![p] = m],
           NEW d, TodoSound(d), todo' = [todo EXCEPT ![p] = d],
           NEW f, StateSound(f), file' = f,
           NEW s, At(p, s), s = "ending" => AllDone
    PROVE  JobsBelief'
<1>1. mem \in [Procs -> State] /\ todo \in [Procs -> Todo] /\ ppc \in [Procs -> ProcStates]
  BY DEF TypeInv, JobsInv
<1>2. StateSound(file)'
  <2>1. StateSound(f)'
    BY SoundSame
  <2> QED
    BY <2>1
<1>3. ASSUME NEW q \in Procs PROVE StateSound(mem[q])' /\ TodoSound(todo[q])'
  <2>1. PICK a, b : a = mem'[q] /\ b = todo'[q]
    OBVIOUS
  <2>2. StateSound(a) /\ TodoSound(b)
    BY <1>1, <2>1 DEF JobsBelief
  <2>3. StateSound(a)' /\ TodoSound(b)'
    BY <2>2, SoundSame
  <2> QED
    BY <2>1, <2>3
<1>4. ASSUME NEW q \in Procs, ppc'[q] = "ending" PROVE AllDone'
  <2>1. AllDone
    BY <1>1, <1>4 DEF At, JobsBelief
  <2> QED
    BY <2>1, SoundSame
<1> QED
  BY <1>2, <1>3, <1>4 DEF JobsBelief

\* A process's own part of the invariant.
LEMMA ProcHas ==
    ASSUME TypeInv, JobsBelief, NEW p \in Procs
    PROVE  /\ StateSound(mem[p]) /\ TodoSound(todo[p]) /\ StateSound(file)
           /\ mem[p] \in State /\ todo[p] \in Todo /\ mem[p] # NoFile
           /\ mem = [mem EXCEPT ![p] = mem[p]] /\ todo = [todo EXCEPT ![p] = todo[p]]
           /\ ppc' = ppc => At(p, ppc[p])
BY FreshIs DEF TypeInv, JobsInv, JobsBelief, At

\* A job with nothing pending is done.
LEMMA NothingPending ==
    ASSUME NEW m \in State, StateSound(m), PendingOf(m) = {}
    PROVE  AllDone
<1>1. Sound(m) /\ Entries \subseteq m.kept \cup m.blocked
  BY FreshIs DEF StateSound, PendingOf
<1> QED
  BY <1>1 DEF Sound, AllDone

\* Registering, the lock, what is left to do, and the end.
LEMMA LockStepSound ==
    ASSUME TypeInv, AnswerInv, JobsBelief, NEW p \in Procs,
           \/ Register(p) \/ RegisterSave(p) \/ TakeLock(p) \/ RemoveStale(p) \/ LoadJob(p)
           \/ LookedUp(p) \/ CheckHeld(p) \/ Finished(p) \/ RemoveJob(p) \/ CheckRelease(p) \/ Release(p)
    PROVE  AnswerInv' /\ JobsBelief'
<1>1. UNCHANGED <<objects, req>>
  BY DEF Register, RegisterSave, TakeLock, RemoveStale, LoadJob, LookedUp, CheckHeld, Finished,
         RemoveJob, CheckRelease, Release, storeVars
<1>2. /\ StateSound(mem[p]) /\ TodoSound(todo[p]) /\ StateSound(file)
      /\ mem[p] \in State /\ todo[p] \in Todo
      /\ mem = [mem EXCEPT ![p] = mem[p]] /\ todo = [todo EXCEPT ![p] = todo[p]]
  BY ProcHas
<1>3. StateSound(Fresh) /\ StateSound(NoFile)
  BY DEF StateSound, Fresh, Sound, SaltsSound
<1>4. PICK f : file' = f /\ StateSound(f)
  BY <1>2, <1>3 DEF Register, RegisterSave, TakeLock, RemoveStale, LoadJob, LookedUp, CheckHeld,
         Finished, RemoveJob, CheckRelease, Release
<1>5. PICK m : mem' = [mem EXCEPT ![p] = m] /\ StateSound(m)
  <2>1. mem' = mem \/ mem' = [mem EXCEPT ![p] = file] \/ mem' = [mem EXCEPT ![p] = mem[p]]
    BY DEF Register, RegisterSave, TakeLock, RemoveStale, LoadJob, LookedUp, CheckHeld, Finished,
           RemoveJob, CheckRelease, Release
  <2> QED
    BY <1>2, <2>1
<1>6. PICK d : todo' = [todo EXCEPT ![p] = d] /\ TodoSound(d)
  <2>1. todo' = todo \/ \E n : todo' = [todo EXCEPT ![p] = [todo[p] EXCEPT !.next = n]]
    BY DEF Register, RegisterSave, TakeLock, RemoveStale, LoadJob, LookedUp, CheckHeld, Finished,
           RemoveJob, CheckRelease, Release
  <2>2. \A n : TodoSound([todo[p] EXCEPT !.next = n])
    BY <1>2 DEF TodoSound, Todo
  <2> QED
    BY <1>2, <2>1, <2>2
<1>7. PICK s : At(p, s) /\ (s = "ending" => PendingOf(mem[p]) = {})
  BY DEF Register, RegisterSave, TakeLock, RemoveStale, LoadJob, LookedUp, CheckHeld, Finished,
         RemoveJob, CheckRelease, Release
<1>8. s = "ending" => AllDone
  BY <1>2, <1>7, NothingPending
<1>9. JobsBelief'
  BY <1>1, <1>4, <1>5, <1>6, <1>7, <1>8, ProcSound
<1> QED
  BY <1>1, <1>9, RequestsKept

\* Posting, what fails and what is killed.
LEMMA SendSound ==
    ASSUME TypeInv, AnswerInv, JobsBelief, NEW p \in Procs,
           Round(p) \/ ProcPostFails(p) \/ Kill(p) \/ SaveState(p)
    PROVE  AnswerInv' /\ JobsBelief'
<1>1. UNCHANGED <<objects, mem>> /\ p \in Writers
  BY WritersAre DEF Round, ProcPostFails, Kill, SaveState
<1>2. /\ StateSound(mem[p]) /\ TodoSound(todo[p]) /\ StateSound(file)
      /\ mem[p] \in State /\ todo[p] \in Todo /\ mem[p] # NoFile
      /\ mem = [mem EXCEPT ![p] = mem[p]] /\ todo = [todo EXCEPT ![p] = todo[p]]
  BY ProcHas
<1>3. \/ UNCHANGED req
      \/ Abandon(p)
      \/ \E S \in SUBSET Entries : Post(p, [e \in S |-> mem[p].salts[e]])
  BY <1>2 DEF Round, ProcPostFails, Kill, SaveState, PendingOf, Todo
<1>4. ASSUME NEW S \in SUBSET Entries, Post(p, [e \in S |-> mem[p].salts[e]]) PROVE AnswerInv'
  <2>1. \A e \in S : mem[p].salts[e] # Det => Held0(e)
    BY <1>2 DEF StateSound, SaltsSound, Det, NoSalt
  <2>2. PICK name : name = [e \in S |-> mem[p].salts[e]]
    OBVIOUS
  <2>3. \A e \in DOMAIN name : name[e] # Det => Held0(e)
    BY <2>1, <2>2
  <2> QED
    BY <1>1, <1>4, <2>2, <2>3, PostRight
<1>5. AnswerInv'
  BY <1>1, <1>3, <1>4, RequestsKept, AbandonRight
<1>6. PICK f : file' = f /\ StateSound(f)
  BY <1>2 DEF Round, ProcPostFails, Kill, SaveState
<1>7. PICK d : todo' = [todo EXCEPT ![p] = d] /\ TodoSound(d)
  <2>1. \/ todo' = todo
        \/ todo' = [todo EXCEPT ![p] = NoTodo]
        \/ todo' = [todo EXCEPT ![p] = [NoTodo EXCEPT !.next = "round"]]
        \/ todo' = [todo EXCEPT ![p] = [todo[p] EXCEPT !.fresh = {}, !.next = "round"]]
    BY DEF Round, ProcPostFails, Kill, SaveState
  <2>2. /\ TodoSound(NoTodo) /\ TodoSound([NoTodo EXCEPT !.next = "round"])
        /\ TodoSound([todo[p] EXCEPT !.fresh = {}, !.next = "round"])
    BY <1>2 DEF TodoSound, NoTodo, Todo
  <2> QED
    BY <1>2, <2>1, <2>2
<1>8. PICK s : At(p, s) /\ s # "ending"
  BY DEF Round, ProcPostFails, Kill, SaveState
<1>9. JobsBelief'
  BY <1>1, <1>2, <1>6, <1>7, <1>8, ProcSound
<1> QED
  BY <1>5, <1>9

\* The answers, and reading the address.
LEMMA HearSound ==
    ASSUME TypeInv, AnswerInv, JobsBelief, NEW p \in Procs,
           ProcApply(p) \/ \E e \in Entries : ProcLookup(p, e)
    PROVE  AnswerInv' /\ JobsBelief'
<1>1. UNCHANGED <<objects, file>> /\ p \in Writers /\ StoreInv
  BY WritersAre DEF ProcApply, ProcLookup, TypeInv
<1>2. /\ StateSound(mem[p]) /\ TodoSound(todo[p]) /\ StateSound(file)
      /\ mem[p] \in State /\ todo[p] \in Todo /\ mem[p] # NoFile
      /\ mem = [mem EXCEPT ![p] = mem[p]] /\ todo = [todo EXCEPT ![p] = todo[p]]
      /\ ppc' = ppc => At(p, ppc[p])
  BY ProcHas
<1>3. Sound(mem[p]) /\ SaltsSound(mem[p].salts)
  BY <1>2 DEF StateSound
<1>4. CASE ProcApply(p)
  <2> DEFINE r == req[p]
             held == {e \in DOMAIN r.res : r.res[e] = "other"}
             blocked == {e \in held : r.name[e] # Det}
  <2>1. /\ \A e \in Answered(r.res) : Kept(e) # {}
        /\ \A e \in held : Held0(e)
        /\ \A e \in blocked : GivenUp(e)
    <3>1. r \in Request /\ DOMAIN r.res \subseteq DOMAIN r.name /\ RightFor(r)
      BY <1>1, AnswersAre DEF StoreInv
    <3> HIDE DEF r
    <3> QED
      BY <1>1, <3>1, AnswerGives DEF Answered
  <2>2. /\ mem' = [mem EXCEPT ![p] = [mem[p] EXCEPT !.kept = mem[p].kept \cup Answered(r.res),
                                                    !.blocked = mem[p].blocked \cup blocked]]
        /\ req' = [req EXCEPT ![p] = NoReq]
        /\ todo' = [todo EXCEPT ![p] = [next |-> "round", held |-> held \ blocked, fresh |-> {}]]
    BY <1>4 DEF ProcApply
  <2>3. PICK s : At(p, s) /\ s # "ending"
    BY <1>4 DEF ProcApply
  <2>4. TodoSound([next |-> "round", held |-> held \ blocked, fresh |-> {}])
    BY <2>1 DEF TodoSound
  <2> HIDE DEF held, blocked
  <2>5. StateSound([mem[p] EXCEPT !.kept = mem[p].kept \cup Answered(r.res),
                                  !.blocked = mem[p].blocked \cup blocked])
    BY <1>2, <1>3, <2>1 DEF StateSound, Sound, State
  <2>6. JobsBelief'
    BY <1>1, <1>2, <2>2, <2>3, <2>4, <2>5, ProcSound
  <2> QED
    BY <1>1, <2>2, <2>6, NothingRight, RequestsRight
<1>5. ASSUME NEW e \in Entries, ProcLookup(p, e) PROVE AnswerInv' /\ JobsBelief'
  <2>1. UNCHANGED <<ppc, req>> /\ ppc[p] = "lookup" /\ e \in todo[p].held /\ Held0(e)
    BY <1>2, <1>5 DEF ProcLookup, TodoSound
  <2>2. PICK m : mem' = [mem EXCEPT ![p] = m] /\ StateSound(m)
    <3>1. \/ mem' = mem
          \/ Kept(e) # {} /\ \E n : mem' = [mem EXCEPT ![p].kept = @ \cup {e}, ![p].salts[e] = n]
          \/ \E n : mem' = [mem EXCEPT ![p].salts[e] = n]
      BY <1>5 DEF ProcLookup
    <3>2. CASE mem' = mem
      BY <1>2, <3>2
    <3>3. ASSUME Kept(e) # {}, NEW n, mem' = [mem EXCEPT ![p].kept = @ \cup {e}, ![p].salts[e] = n]
          PROVE  \E m : mem' = [mem EXCEPT ![p] = m] /\ StateSound(m)
      <4>1. PICK c : c = [mem[p].salts EXCEPT ![e] = n]
        OBVIOUS
      <4>2. SaltsSound(c)
        BY <1>2, <1>3, <2>1, <4>1 DEF SaltsSound, State
      <4>3. StateSound([mem[p] EXCEPT !.kept = mem[p].kept \cup {e}, !.salts = c])
        BY <1>2, <1>3, <3>3, <4>2 DEF StateSound, Sound, State
      <4> QED
        BY <3>3, <4>1, <4>3
    <3>4. ASSUME NEW n, mem' = [mem EXCEPT ![p].salts[e] = n]
          PROVE  \E m : mem' = [mem EXCEPT ![p] = m] /\ StateSound(m)
      <4>1. PICK c : c = [mem[p].salts EXCEPT ![e] = n]
        OBVIOUS
      <4>2. SaltsSound(c)
        BY <1>2, <1>3, <2>1, <4>1 DEF SaltsSound, State
      <4>3. StateSound([mem[p] EXCEPT !.salts = c])
        BY <1>2, <1>3, <4>2 DEF StateSound, Sound, State
      <4> QED
        BY <3>4, <4>1, <4>3
    <3> QED
      BY <3>1, <3>2, <3>3, <3>4
  <2>3. PICK d : todo' = [todo EXCEPT ![p] = d] /\ TodoSound(d)
    <3> DEFINE drop == [todo[p] EXCEPT !.held = todo[p].held \ {e}]
    <3>1. \/ todo' = [todo EXCEPT ![p] = drop]
          \/ todo' = [[todo EXCEPT ![p] = drop] EXCEPT ![p].fresh = @ \cup {e}]
      BY <1>5 DEF ProcLookup
    <3>2. TodoSound(drop) /\ TodoSound([drop EXCEPT !.fresh = drop.fresh \cup {e}])
      BY <1>2, <2>1 DEF TodoSound, Todo
    <3> HIDE DEF drop
    <3>3. [[todo EXCEPT ![p] = drop] EXCEPT ![p].fresh = @ \cup {e}]
            = [todo EXCEPT ![p] = [drop EXCEPT !.fresh = drop.fresh \cup {e}]]
      BY DEF TypeInv, JobsInv
    <3> QED
      BY <3>1, <3>2, <3>3
  <2>4. At(p, "lookup")
    BY <1>2, <2>1
  <2>5. JobsBelief'
    BY <1>1, <1>2, <2>2, <2>3, <2>4, ProcSound
  <2> QED
    BY <1>1, <2>1, <2>5, RequestsKept
<1> QED
  BY <1>4, <1>5

\* A process believes what is so.
LEMMA ProcNextSound ==
    ASSUME TypeInv, AnswerInv, JobsBelief, NEW p \in Procs, ProcNext(p)
    PROVE  AnswerInv' /\ JobsBelief'
BY LockStepSound, SendSound, HearSound DEF ProcNext

-----------------------------------------------------------------------------
(* What is believed.                                                       *)

\* Nothing is believed at the start.
LEMMA InitBelief == Init => BeliefInv
<1> SUFFICES ASSUME Init PROVE BeliefInv
  OBVIOUS
<1>1. AnswerInv
  BY NoReqIs DEF Init, StoreInit, AnswerInv
<1>2. QueueBelief
  BY MergeSound DEF Init, QueueInit, QueueBelief, NoProgress, JobSound, LiveSound
<1>3. JobsBelief
  BY DEF Init, JobsInit, JobsBelief, StateSound, Sound, SaltsSound, Fresh, TodoSound, NoTodo
<1> QED
  BY <1>1, <1>2, <1>3 DEF BeliefInv

\* Every step keeps beliefs sound.
LEMMA NextBelief ==
    ASSUME TypeInv, BeliefInv, [Next]_vars
    PROVE  BeliefInv'
<1>0. TypeInv' /\ Lasting /\ AnswerInv /\ QueueBelief /\ JobsBelief
  BY NextTypes DEF BeliefInv
<1>1. CASE Server
  <2>1. ServerNext /\ UNCHANGED queueVars /\ UNCHANGED <<file, ppc, mem, todo>>
    BY <1>1 DEF Server, jobsVars
  <2> QED
    BY <1>0, <2>1, ServerRight, QueueKeeps, JobsKeep DEF BeliefInv
<1>2. ASSUME NEW t \in Tabs, Tab(t) PROVE BeliefInv'
  <2>1. TabNext(t) /\ UNCHANGED <<file, ppc, mem, todo>>
    BY <1>2 DEF Tab, jobsVars
  <2> QED
    BY <1>0, <2>1, TabNextSound, JobsKeep DEF BeliefInv
<1>3. ASSUME NEW p \in Procs, Proc(p) PROVE BeliefInv'
  <2>1. ProcNext(p) /\ UNCHANGED queueVars
    BY <1>3 DEF Proc
  <2> QED
    BY <1>0, <2>1, ProcNextSound, QueueKeeps DEF BeliefInv
<1>4. CASE Stale
  <2>1. UNCHANGED <<file, ppc, mem, todo, objects, req>> /\ UNCHANGED queueVars
    BY <1>4 DEF Stale, GoesStale
  <2> QED
    BY <1>0, <2>1, RequestsKept, QueueKeeps, JobsKeep DEF BeliefInv
<1>5. CASE UNCHANGED vars
  <2>1. UNCHANGED <<file, ppc, mem, todo, objects, req>> /\ UNCHANGED queueVars
    BY <1>5 DEF vars, jobsVars, storeVars
  <2> QED
    BY <1>0, <2>1, RequestsKept, QueueKeeps, JobsKeep DEF BeliefInv
<1> QED
  BY <1>1, <1>2, <1>3, <1>4, <1>5 DEF Next

\* The inductive invariant: the types, and every belief sound.
LEMMA BeliefHolds == Spec => [](TypeInv /\ BeliefInv)
<1>1. Init => TypeInv /\ BeliefInv
  BY InitTypes, InitBelief
<1>2. TypeInv /\ BeliefInv /\ [Next]_vars => (TypeInv /\ BeliefInv)'
  BY NextTypes, NextBelief
<1> QED
  BY <1>1, <1>2, PTL DEF Spec

\* An entry that a tab's memory, the browser's database, a process or the job
\* file counts as kept can be read back from the server, whichever answers
\* were lost, came late or were heard by another writer.
THEOREM BelievedIsThere == Spec => []KeptIsThere
<1>1. TypeInv /\ BeliefInv => KeptIsThere
  <2> SUFFICES ASSUME TypeInv, BeliefInv, NEW e \in Believed PROVE Kept(e) # {}
    BY DEF KeptIsThere
  <2>1. CASE e \in progress.kept
    BY <2>1 DEF BeliefInv, QueueBelief, Sound
  <2>2. CASE \E t \in Tabs : live[t] # NoJob /\ e \in live[t].progress.kept
    BY <2>2 DEF BeliefInv, QueueBelief, LiveSound, Sound
  <2>3. CASE file # NoFile /\ e \in file.kept
    BY <2>3 DEF BeliefInv, JobsBelief, StateSound, Sound
  <2>4. CASE \E p \in Procs : e \in mem[p].kept
    BY <2>4, FreshIs DEF BeliefInv, JobsBelief, StateSound, Sound, TypeInv, JobsInv
  <2> QED
    BY <2>1, <2>2, <2>3, <2>4 DEF Believed
<1> QED
  BY <1>1, BeliefHolds, PTL

\* The list of a tree is dropped, by a tab that marks the record done or by a
\* process that removes the job file, only when every entry is on the server or
\* is held by others under both names.
THEOREM ListIsNeededNoMore == Spec => []ListDroppedWhenWritten
<1>1. TypeInv /\ BeliefInv => ListDroppedWhenWritten
  BY DEF BeliefInv, QueueBelief, JobsBelief, JobSound, AllDone, ListDroppedWhenWritten
<1> QED
  BY <1>1, BeliefHolds, PTL

=============================================================================
