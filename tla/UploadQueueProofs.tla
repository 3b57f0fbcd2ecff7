------------------------- MODULE UploadQueueProofs -------------------------
(***************************************************************************)
(* Theorems about the upload queue, for any set of artifacts, any limits   *)
(* of the queue and any number of lives of the process.                    *)
(***************************************************************************)
EXTENDS UploadQueue, FiniteSetTheorems, TLAPS

\* The items whose temp file must be there, and those process_item has sized.
NeedsFile == {"admitted", "counted", "queued", "held", "spawned", "trying", "parked", "woken", "reacquire"}
Sized == {"trying", "parked", "woken", "reacquire", "unlinked", "settling"}
Gone == {"unlinked", "settling"}

\* What holds of an artifact, its two items and its two files:
\* the recovered item exists in a later life than the caller's ...
OneItem(i) ==
    /\ ~scanned => At(Own(i), "idle") /\ At(Rec(i), "idle") /\ i \notin scan
    /\ i \in temp \/ i \in side \/ i \in scan \/ ~At(Own(i), "idle") \/ ~At(Rec(i), "idle") => i \in called
    /\ i \in scan => At(Own(i), "idle") /\ At(Rec(i), "idle")
    /\ ~At(Own(i), "idle") => At(Rec(i), "idle")
    /\ job[Rec(i)].pc \notin {"admitted"} \cup InlineTask /\ job[Rec(i)].kind = "none"
\* ... an item that waits or runs has its file, and settles what it was counted with ...
FileThere(i) ==
    /\ job[Own(i)].pc \in NeedsFile \/ job[Rec(i)].pc \in NeedsFile => i \in temp
    /\ At(Own(i), "counted") /\ Sidecar(kind(i)) => i \in side
    /\ \A j \in {Own(i), Rec(i)} : job[j].pc \in Sized => job[j].bytes = Size(i)
\* ... an item that is over, or is not yet accepted, owes nothing ...
NothingDue(i) ==
    /\ i \in owed => i \in temp /\ i \in side
    /\ job[Own(i)].pc \in {"admitted", "counted"} \cup InlineTask => i \notin owed
    /\ job[Own(i)].pc \in Gone \/ job[Rec(i)].pc \in Gone => i \notin owed /\ i \notin temp
    /\ At(Own(i), "settling") \/ At(Rec(i), "settling") => i \notin side
    /\ At(Own(i), "admitted") => i \notin side
    /\ job[Own(i)].pc \in InlineTask => i \notin side
\* ... and in its first life the files go with the item, unless it is aborted or was never whole.
FilesKept(i) ==
    crashes = 0 =>
        /\ At(Rec(i), "idle") /\ i \notin scan
        /\ ~At(Own(i), "aborted") /\ (i \in temp \/ i \in side) =>
               Keeps(i) \/ (At(Own(i), "torn") /\ i \notin side)

Good(i) == OneItem(i) /\ FileThere(i) /\ NothingDue(i) /\ FilesKept(i)
ItemInv == \A i \in Items : Good(i)

\* The channel and the worker hold the items that are queued and held, each once.
ChannelInv ==
    /\ \A k \in 1 .. Len(chan) : At(chan[k], "queued")
    /\ \A k, l \in 1 .. Len(chan) : k # l => chan[k] # chan[l]
    /\ held # NoJob => At(held, "held")

\* The mark has one owner.
Owner(i) == Tracked(i) /\ job[Own(i)].pc \in Live
MarkInv ==
    /\ \A i \in Items : Owner(i) => marked
    /\ marked => \E i \in Items : Owner(i)
    /\ \A i, l \in Items : Owner(i) /\ Owner(l) => i = l

\* The counters, and the items for which process_item has not counted inflight up, or down again.
Uploading == {j \in Jobs : job[j].pc \in {"trying", "parked", "woken", "reacquire", "unlinked"}}
Outside == {j \in Jobs : job[j].pc \in {"counted", "queued", "held", "spawned", "settling"}}
Large == {j \in InQueue : Art(j) \in Big}
CountersInv ==
    /\ stats \in [pending : Int, pending_bytes : Int, inflight : Int]
    /\ stats.pending = Cardinality(InQueue)
    /\ stats.pending_bytes = Cardinality(InQueue) + Cardinality(Large)
    /\ stats.inflight >= Cardinality(Uploading)
    /\ stats.inflight + Cardinality(Outside) <= stats.pending

\* The types, but for the counters: that those are natural numbers takes CountersInv.
Item == [pc : {"idle", "done", "torn", "aborted"} \cup Live \cup InlineTask,
         attempts : 0 .. MaxAttempts, auth_retried : BOOLEAN, permit : BOOLEAN,
         bytes : 0 .. 2, kind : Kinds \cup {"none"}, expired : BOOLEAN]
Shape ==
    /\ job \in [Jobs -> Item]
    /\ chan \in Seq(Jobs) /\ Len(chan) <= Capacity
    /\ worker \in {"select", "cooldown", "drain", "join", "gone"}
    /\ held \in Jobs \cup {NoJob}
    /\ shutdown \in BOOLEAN /\ closed \in BOOLEAN /\ marked \in BOOLEAN /\ scanned \in BOOLEAN
    /\ failures \in 0 .. Threshold /\ crashes \in 0 .. MaxCrashes
    /\ {called, waiting, temp, side, scan, owed} \subseteq SUBSET Items

IInv == Shape /\ ItemInv /\ ChannelInv /\ MarkInv /\ CountersInv

-----------------------------------------------------------------------------
(* Items and their steps                                                   *)
LEMMA JobFacts ==
    /\ \A j \in Jobs : Art(j) \in Items /\ (j = Own(Art(j)) \/ j = Rec(Art(j))) /\ (IsOwn(j) <=> j = Own(Art(j)))
    /\ \A i \in Items : /\ Own(i) \in Jobs /\ Rec(i) \in Jobs /\ Own(i) # Rec(i)
                        /\ Art(Own(i)) = i /\ Art(Rec(i)) = i /\ IsOwn(Own(i)) /\ ~IsOwn(Rec(i))
    /\ NoJob \notin Jobs
BY DEF Jobs, Own, Rec, Art, IsOwn, NoJob

LEMMA SizeType == \A i \in Items : Size(i) \in 1 .. 2
BY DEF Size

\* One item goes to pc, with what process_item and its caller have noted of it; the others stay.
Moved(j, pc, k, b) ==
    /\ job' \in [Jobs -> Item]
    /\ \A d \in Jobs : d # j => job'[d] = job[d]
    /\ job'[j].pc = pc /\ job'[j].kind = k /\ job'[j].bytes = b
Steps(j, pc) == Moved(j, pc, job[j].kind, job[j].bytes)
Ends(j, pc) == Moved(j, pc, "none", 0)

LEMMA GotoMoves ==
    ASSUME job \in [Jobs -> Item], NEW j \in Jobs, NEW l \in Live \cup InlineTask \cup {"done"}, Goto(j, l)
    PROVE  Steps(j, l)
BY DEF Goto, Steps, Moved, Item

\* The record an item becomes: its fields are those of the items, three of them are known.
Is(s, pc, k, b) == s \in Item /\ s.pc = pc /\ s.kind = k /\ s.bytes = b
Judged(r, b, e) == [r EXCEPT !.pc = "unlinked", !.bytes = b, !.expired = e]
Tried(r, l, a, u, p) == [r EXCEPT !.attempts = a, !.auth_retried = u, !.pc = l, !.permit = p]
Resumed(r, u, p) == [r EXCEPT !.pc = "trying", !.permit = p, !.auth_retried = u]
Spawned(r, p) == [r EXCEPT !.pc = "spawned", !.permit = p]

LEMMA PutMoves ==
    ASSUME job \in [Jobs -> Item], NEW j \in Jobs, NEW s, NEW l, NEW k, NEW b, Is(s, l, k, b),
           job' = [job EXCEPT ![j] = s]
    PROVE  Moved(j, l, k, b)
BY DEF Moved, Is

LEMMA FreshIs == Is(Fresh, "idle", "none", 0)
BY QueueAssumption DEF Fresh, Is, Item

LEMMA EndedIs == ASSUME NEW l \in {"done", "torn", "inline", "aborted"} PROVE Is(Ended(l), l, "none", 0)
<1>1. ASSUME NEW r \in Item PROVE Is([r EXCEPT !.pc = l], l, r.kind, r.bytes)
  BY <1>1 DEF Is, Item, InlineTask
<1> QED  BY <1>1, FreshIs DEF Ended, Is

LEMMA JudgedIs ==
    ASSUME NEW r \in Item, NEW b \in 0 .. 2, NEW e \in BOOLEAN
    PROVE  Is(Judged(r, b, e), "unlinked", r.kind, b)
BY DEF Item, Is, Judged, Live, Counted

LEMMA TriedIs ==
    ASSUME NEW r \in Item, NEW l \in {"trying", "parked"}, NEW a \in 0 .. MaxAttempts,
           NEW u \in BOOLEAN, NEW p \in BOOLEAN
    PROVE  Is(Tried(r, l, a, u, p), l, r.kind, r.bytes)
BY DEF Item, Is, Tried, Live, Counted

LEMMA ResumedIs ==
    ASSUME NEW r \in Item, NEW u \in BOOLEAN, NEW p \in BOOLEAN
    PROVE  Is(Resumed(r, u, p), "trying", r.kind, r.bytes)
BY DEF Item, Is, Resumed, Live, Counted

LEMMA SpawnedIs ==
    ASSUME NEW r \in Item, NEW p \in BOOLEAN PROVE Is(Spawned(r, p), "spawned", r.kind, r.bytes)
BY DEF Item, Is, Spawned, Live, Counted

LEMMA EndMoves ==
    ASSUME job \in [Jobs -> Item], NEW j \in Jobs, NEW l \in {"done", "torn", "inline"},
           job' = [job EXCEPT ![j] = Ended(l)]
    PROVE  Ends(j, l)
BY EndedIs, PutMoves DEF Ends

LEMMA SubmitMoves ==
    ASSUME job \in [Jobs -> Item], NEW i \in Items, NEW k \in Kinds,
           NEW l \in {"done", "inline", "admitted"},
           job' = [job EXCEPT ![Own(i)].pc = l, ![Own(i)].kind = k]
    PROVE  Moved(Own(i), l, k, job[Own(i)].bytes)
BY JobFacts DEF Moved, Item, Live, InlineTask

LEMMA VerdictMoves ==
    ASSUME job \in [Jobs -> Item], NEW j \in Jobs, NEW b \in 0 .. 2, NEW e \in BOOLEAN, Verdict(j, b, e)
    PROVE  Moved(j, "unlinked", job[j].kind, b)
<1>1. Is(Judged(job[j], b, e), "unlinked", job[j].kind, b)  BY JudgedIs
<1>2. job' = [job EXCEPT ![j] = Judged(job[j], b, e)]  BY DEF Verdict, Judged
<1> QED  BY <1>1, <1>2, PutMoves

LEMMA BeginMoves ==
    ASSUME job \in [Jobs -> Item], NEW j \in Jobs, NEW b \in 0 .. 2,
           job' = [job EXCEPT ![j].pc = "trying", ![j].bytes = b]
    PROVE  Moved(j, "trying", job[j].kind, b)
BY DEF Moved, Item, Live, Counted

LEMMA AttemptsType ==
    ASSUME job \in [Jobs -> Item], NEW j \in Jobs PROVE Attempts(j) \in 0 .. MaxAttempts
BY QueueAssumption DEF Attempts, Item

LEMMA RetryMoves ==
    ASSUME job \in [Jobs -> Item], NEW j \in Jobs, At(j, "trying"),
           job' = [job EXCEPT ![j].attempts = Attempts(j)]
    PROVE  Steps(j, "trying")
BY AttemptsType DEF Steps, Moved, Item, At

LEMMA UnauthorizedMoves ==
    ASSUME job \in [Jobs -> Item], NEW j \in Jobs, AttemptUnauthorized(j)
    PROVE  Steps(j, "trying") \/ Steps(j, "parked")
<1>1. PICK l \in {"trying", "parked"} :
          job' = [job EXCEPT ![j] = Tried(job[j], l, Attempts(j), TRUE, ~job[j].auth_retried)]
  BY DEF AttemptUnauthorized, Tried
<1>2. Is(Tried(job[j], l, Attempts(j), TRUE, ~job[j].auth_retried), l, job[j].kind, job[j].bytes)
  BY TriedIs, AttemptsType
<1>3. Moved(j, l, job[j].kind, job[j].bytes)  BY <1>1, <1>2, PutMoves
<1> QED  BY <1>3 DEF Steps

LEMMA ParkMoves ==
    ASSUME job \in [Jobs -> Item], NEW j \in Jobs, NEW w \in BOOLEAN, ParkWaits(j, w)
    PROVE  Steps(j, "parked") \/ Steps(j, "woken")
BY DEF ParkWaits, Steps, Moved, Item, Live, Counted

LEMMA ReacquireMoves ==
    ASSUME job \in [Jobs -> Item], NEW j \in Jobs, Reacquire(j) PROVE Steps(j, "trying")
<1>1. Is(Resumed(job[j], FALSE, TRUE), "trying", job[j].kind, job[j].bytes)  BY ResumedIs
<1>2. job' = [job EXCEPT ![j] = Resumed(job[j], FALSE, TRUE)]  BY DEF Reacquire, Resumed
<1> QED  BY <1>1, <1>2, PutMoves DEF Steps

LEMMA DispatchMoves ==
    ASSUME job \in [Jobs -> Item], held \in Jobs \cup {NoJob}, Dispatch
    PROVE  held \in Jobs /\ Steps(held, "spawned")
<1>1. held \in Jobs  BY DEF Dispatch
<1>2. Is(Spawned(job[held], TRUE), "spawned", job[held].kind, job[held].bytes)  BY <1>1, SpawnedIs
<1>3. job' = [job EXCEPT ![held] = Spawned(job[held], TRUE)]  BY DEF Dispatch, Spawned
<1> QED  BY <1>1, <1>2, <1>3, PutMoves DEF Steps

-----------------------------------------------------------------------------
(* The steps of the queue, as the invariant sees them                      *)
\* Nothing moves but the worker and its breaker.
Quiet == UNCHANGED <<called, job, chan, held, stats, marked, disk, recovery, crashes, owed>>

\* The task of an item gets on: it starts, tries, parks, wakes, or has its verdict.
Works(j, l) ==
    /\ job[j].pc \in {"spawned", "trying", "parked", "woken", "reacquire"}
    /\ Moved(j, l, job[j].kind, Size(Art(j)))
    /\ temp' = IF l = "unlinked" THEN temp \ {Art(j)} ELSE temp
    /\ owed' = IF l = "unlinked" THEN owed \ {Art(j)} ELSE owed
    /\ stats' = IF At(j, "spawned") THEN [stats EXCEPT !.inflight = @ + 1] ELSE stats
    /\ UNCHANGED <<called, chan, held, marked, side, recovery, crashes>>
Worked == {"trying", "parked", "woken", "reacquire", "unlinked"}

LEMMA SizedNow ==
    ASSUME Shape, ItemInv, NEW j \in Jobs
    PROVE  /\ job[j].pc \in Sized => job[j].bytes = Size(Art(j))
           /\ job[j].pc \in NeedsFile => Art(j) \in temp
<1>1. Good(Art(j)) /\ (j = Own(Art(j)) \/ j = Rec(Art(j)))  BY JobFacts DEF ItemInv
<1> QED  BY <1>1 DEF Good, FileThere

LEMMA VerdictWorks ==
    ASSUME Shape, ItemInv, NEW j \in Jobs, NEW e \in BOOLEAN, Verdict(j, Size(Art(j)), e),
           job[j].pc \in {"spawned", "trying", "parked", "woken"},
           stats' = IF At(j, "spawned") THEN [stats EXCEPT !.inflight = @ + 1] ELSE stats,
           UNCHANGED <<called, chan, held, marked, side, recovery, crashes>>
    PROVE  Works(j, "unlinked")
<1>1. Size(Art(j)) \in 0 .. 2  BY SizeType, JobFacts
<1>2. Moved(j, "unlinked", job[j].kind, Size(Art(j)))  BY <1>1, VerdictMoves DEF Shape
<1> QED  BY <1>2 DEF Works, Verdict

LEMMA BeginWorks ==
    ASSUME Shape, ItemInv, NEW j \in Jobs, Begin(j) PROVE \E l \in Worked : Works(j, l)
<1>1. At(j, "spawned") /\ Art(j) \in temp  BY SizedNow DEF Begin, At, NeedsFile
<1>2. UNCHANGED <<called, chan, held, marked, side, recovery, crashes>>
  BY DEF Begin, caller, loop
<1>3. stats' = [stats EXCEPT !.inflight = @ + 1]  BY DEF Begin
<1>4. CASE Verdict(j, Size(Art(j)), TRUE)
  <2>1. Works(j, "unlinked")  BY <1>1, <1>2, <1>3, <1>4, VerdictWorks DEF At
  <2> QED  BY <2>1 DEF Worked
<1>5. CASE job' = [job EXCEPT ![j].pc = "trying", ![j].bytes = Size(Art(j))] /\ UNCHANGED <<temp, owed>>
  <2>0. Size(Art(j)) \in 0 .. 2  BY SizeType, JobFacts
  <2>1. Moved(j, "trying", job[j].kind, Size(Art(j)))  BY <1>5, <2>0, BeginMoves DEF Shape
  <2>2. Works(j, "trying")  BY <1>1, <1>2, <1>3, <1>5, <2>1 DEF Works, At
  <2> QED  BY <2>2 DEF Worked
<1> QED  BY <1>1, <1>4, <1>5 DEF Begin

LEMMA StaysWorks ==
    ASSUME Shape, ItemInv, NEW j \in Jobs, NEW l \in Worked \ {"unlinked"}, Steps(j, l),
           job[j].pc \in {"trying", "parked", "woken", "reacquire"},
           UNCHANGED <<called, chan, held, marked, stats, disk, recovery, crashes, owed>>
    PROVE  Works(j, l)
<1>1. job[j].bytes = Size(Art(j))  BY SizedNow DEF Sized
<1> QED  BY <1>1 DEF Works, Steps, At, disk

LEMMA FinishWorks ==
    ASSUME Shape, ItemInv, NEW j \in Jobs, Finish(j), job[j].pc \in {"trying", "parked", "woken"},
           UNCHANGED <<called, chan, held, marked, stats, side, recovery, crashes>>
    PROVE  Works(j, "unlinked")
<1>1. job[j].bytes = Size(Art(j))  BY SizedNow DEF Sized
<1>2. Verdict(j, Size(Art(j)), FALSE)  BY <1>1 DEF Finish
<1> QED  BY <1>2, VerdictWorks DEF At

LEMMA TaskWorks ==
    ASSUME Shape, ItemInv, NEW j \in Jobs,
           Attempt(j) \/ Woken(j) \/ Reacquire(j) \/ ParkEnds(j) \/ \E w \in BOOLEAN : ParkWaits(j, w)
    PROVE  \E l \in Worked : Works(j, l)
<1> USE DEF Worked
<1>1. CASE AttemptSucceeds(j) \/ AttemptTerminal(j) \/ ParkEnds(j)
  <2>1. Finish(j) /\ job[j].pc \in {"trying", "parked", "woken"}
    BY <1>1 DEF AttemptSucceeds, AttemptTerminal, ParkEnds, GiveUp, At
  <2>2. UNCHANGED <<called, chan, held, marked, stats, side, recovery, crashes>>
    BY <1>1 DEF AttemptSucceeds, AttemptTerminal, ParkEnds, caller, loop
  <2> QED  BY <2>1, <2>2, FinishWorks
<1>2. CASE AttemptFails(j)
  <2>1. At(j, "trying") /\ UNCHANGED <<called, chan, held, marked, stats, side, recovery, crashes>>
    BY <1>2 DEF AttemptFails, caller, loop
  <2>2. CASE Finish(j)  BY <2>1, <2>2, FinishWorks DEF At
  <2>3. CASE job' = [job EXCEPT ![j].attempts = Attempts(j)] /\ UNCHANGED <<temp, owed>>
    <3>1. Steps(j, "trying")  BY <2>1, <2>3, RetryMoves DEF Shape
    <3>2. Works(j, "trying")  BY <2>1, <2>3, <3>1, StaysWorks DEF At, disk
    <3> QED  BY <3>2
  <2> QED  BY <1>2, <2>2, <2>3 DEF AttemptFails, GiveUp
<1>3. CASE AttemptUnauthorized(j)
  <2>1. Steps(j, "trying") \/ Steps(j, "parked")  BY <1>3, UnauthorizedMoves DEF Shape
  <2>2. At(j, "trying") /\ UNCHANGED <<called, chan, held, marked, stats, disk, recovery, crashes, owed>>
    BY <1>3 DEF AttemptUnauthorized, caller, loop
  <2> QED  BY <2>1, <2>2, StaysWorks DEF At
<1>4. CASE Woken(j)
  <2>1. Steps(j, "reacquire")  BY <1>4, GotoMoves DEF Woken, Shape, Live, Counted
  <2>2. At(j, "woken") /\ UNCHANGED <<called, chan, held, marked, stats, disk, recovery, crashes, owed>>
    BY <1>4 DEF Woken, caller, loop
  <2> QED  BY <2>1, <2>2, StaysWorks DEF At
<1>5. CASE Reacquire(j)
  <2>1. Steps(j, "trying")  BY <1>5, ReacquireMoves DEF Shape
  <2>2. At(j, "reacquire") /\ UNCHANGED <<called, chan, held, marked, stats, disk, recovery, crashes, owed>>
    BY <1>5 DEF Reacquire, caller, loop
  <2> QED  BY <2>1, <2>2, StaysWorks DEF At
<1>6. ASSUME NEW w \in BOOLEAN, ParkWaits(j, w) PROVE \E l \in Worked : Works(j, l)
  <2>1. Steps(j, "parked") \/ Steps(j, "woken")  BY <1>6, ParkMoves DEF Shape
  <2>2. At(j, "parked") /\ UNCHANGED <<called, chan, held, marked, stats, disk, recovery, crashes, owed>>
    BY <1>6 DEF ParkWaits, loop
  <2> QED  BY <2>1, <2>2, StaysWorks DEF At
<1> QED  BY <1>1, <1>2, <1>3, <1>4, <1>5, <1>6 DEF Attempt

OfCaller(i) ==
    \/ \E k \in Kinds : Submit(i, k)
    \/ \E k \in Kinds : WriteFails(i, k)
    \/ WriteError(i) \/ Count(i) \/ RefusedClosed(i) \/ RefusedFull(i) \/ InlineStart(i) \/ InlineEnd(i)
OfScan(i) == RecoveredRefused(i) \/ ScanDrops(i) \/ ScanEnqueues(i)
OfTask(j) == Sent(j) \/ SettleInflight(j) \/ SettlePending(j) \/ \E l \in Worked : Works(j, l)
OfQueue == Receive \/ Dispatch \/ ScanStarts \/ DrainTimeout \/ Crash \/ Quiet

LEMMA StepKinds ==
    ASSUME Shape, ItemInv, [Next]_vars
    PROVE  (\E i \in Items : OfCaller(i) \/ OfScan(i)) \/ (\E j \in Jobs : OfTask(j)) \/ OfQueue
<1>1. ASSUME NEW j \in Jobs, Begin(j) PROVE OfTask(j)  BY <1>1, BeginWorks DEF OfTask
<1>2. ASSUME NEW j \in Jobs,
             Attempt(j) \/ Woken(j) \/ Reacquire(j) \/ ParkEnds(j) \/ \E w \in BOOLEAN : ParkWaits(j, w)
      PROVE  OfTask(j)
  BY <1>2, TaskWorks DEF OfTask
<1>3. ASSUME NEW j \in Jobs, Advance(j) \/ ParkEnds(j) \/ ParkWaits(j, TRUE) PROVE OfTask(j)
  BY <1>1, <1>2, <1>3 DEF Advance, Settle, OfTask
<1>4. ASSUME CoolDownEnds \/ SeesShutdown \/ Drained \/ Joined \/ Shutdown \/ UNCHANGED vars PROVE Quiet
  BY <1>4 DEF CoolDownEnds, SeesShutdown, Drained, Joined, Shutdown, vars, Quiet, caller, disk, recovery
<1> QED  BY <1>3, <1>4 DEF Next, Call, Inline, Worker, Scan, OfCaller, OfScan, OfQueue

-----------------------------------------------------------------------------
(* Artifacts, items and files                                              *)
\* A step of another artifact.
Untouched(i) ==
    /\ job'[Own(i)] = job[Own(i)] /\ job'[Rec(i)] = job[Rec(i)]
    /\ i \in called' <=> i \in called
    /\ i \in temp' <=> i \in temp
    /\ i \in side' <=> i \in side
    /\ i \in scan' <=> i \in scan
    /\ i \in owed' <=> i \in owed
    /\ scanned' = scanned /\ crashes' = crashes

LEMMA GoodUntouched == ASSUME NEW i \in Items, Good(i), Untouched(i) PROVE Good(i)'
<1> USE DEF Untouched, Good, At, kind
<1>1. OneItem(i)'  BY DEF OneItem
<1>2. FileThere(i)'  BY DEF FileThere
<1>3. NothingDue(i)'  BY DEF NothingDue
<1>4. FilesKept(i)'  BY DEF FilesKept, Keeps
<1> QED  BY <1>1, <1>2, <1>3, <1>4

\* One artifact is concerned.
Only(i) == \A l \in Items : l # i => Untouched(l)

LEMMA GoodOnly == ASSUME ItemInv, NEW i \in Items, Only(i), Good(i)' PROVE ItemInv'
BY GoodUntouched DEF ItemInv, Only

LEMMA OnlyMoved ==
    ASSUME NEW j \in Jobs, NEW l, NEW k, NEW b, Moved(j, l, k, b),
           \A i \in Items : i # Art(j) => /\ i \in called' <=> i \in called
                                          /\ i \in temp' <=> i \in temp
                                          /\ i \in side' <=> i \in side
                                          /\ i \in scan' <=> i \in scan
                                          /\ i \in owed' <=> i \in owed,
           scanned' = scanned, crashes' = crashes
    PROVE  Only(Art(j))
BY JobFacts DEF Moved, Only, Untouched

LEMMA SubmitGood ==
    ASSUME Shape, NEW i \in Items, Good(i), NEW k \in Kinds, Submit(i, k) PROVE Only(i) /\ Good(i)'
<1>1. PICK l \in {"done", "inline", "admitted"} :
          /\ job' = [job EXCEPT ![Own(i)].pc = l, ![Own(i)].kind = k]
          /\ temp' = IF l = "admitted" THEN temp \cup {i} ELSE temp
  BY DEF Submit
<1>2. Moved(Own(i), l, k, job[Own(i)].bytes)  BY <1>1, SubmitMoves DEF Shape
<1>3. /\ i \notin called /\ scanned /\ scan = {} /\ called' = called \cup {i}
      /\ UNCHANGED <<side, scan, scanned, crashes, owed>>
  BY DEF Submit, RecoveryOver, recovery
<1>4. job'[Rec(i)] = job[Rec(i)] /\ job'[Own(i)].pc = l /\ job'[Own(i)].kind = k  BY <1>2, JobFacts DEF Moved
<1>5. Only(i)  BY <1>1, <1>2, <1>3, OnlyMoved, JobFacts
<1>6. Good(i)'
  BY <1>1, <1>3, <1>4
  DEF Good, OneItem, FileThere, NothingDue, FilesKept, Keeps, kind, At, Sidecar, NeedsFile, Sized, Gone,
      Live, Counted, InlineTask, Kinds
<1> QED  BY <1>5, <1>6

\* A call whose temp file could not be written is over at once.
LEMMA TornMoves ==
    ASSUME Shape, NEW i \in Items, Good(i), NEW k \in Kinds, WriteFails(i, k)
    PROVE  /\ Ends(Own(i), "torn") /\ At(Own(i), "idle") /\ i \notin called
           /\ called' = called \cup {i} /\ temp' \in {temp, temp \cup {i}} /\ scanned
           /\ UNCHANGED <<side, scan, scanned, crashes, owed, chan, held, stats, marked>>
<1>1. Own(i) \in Jobs /\ job \in [Jobs -> Item]  BY JobFacts DEF Shape
<1>2. Ends(Own(i), "torn")  BY <1>1, EndMoves DEF WriteFails
<1>3. i \notin called  BY DEF WriteFails
<1>4. At(Own(i), "idle")  BY <1>3 DEF Good, OneItem
<1> QED  BY <1>2, <1>3, <1>4 DEF WriteFails, RecoveryOver, recovery, loop

LEMMA TornGood ==
    ASSUME Shape, NEW i \in Items, Good(i), NEW k \in Kinds, WriteFails(i, k) PROVE Only(i) /\ Good(i)'
<1>1. /\ Ends(Own(i), "torn") /\ At(Own(i), "idle") /\ i \notin called
      /\ called' = called \cup {i} /\ temp' \in {temp, temp \cup {i}} /\ scanned
      /\ UNCHANGED <<side, scan, scanned, crashes, owed>>
  BY TornMoves
<1>2. Only(i)  BY <1>1, OnlyMoved, JobFacts DEF Ends
<1>3. job'[Rec(i)] = job[Rec(i)]  BY <1>1, JobFacts DEF Moved, Ends
<1>4. Good(i)'
  BY <1>1, <1>3
  DEF Moved, Ends, Good, OneItem, FileThere, NothingDue, FilesKept, Keeps, kind, At, Sidecar,
      NeedsFile, Sized, Gone, Live, Counted, InlineTask, Size
<1> QED  BY <1>2, <1>4

LEMMA CallerGood ==
    ASSUME Shape, NEW i \in Items, Good(i), OfCaller(i) PROVE Only(i) /\ Good(i)'
<1> USE DEF recovery, disk, caller, Refused
<1>0. Own(i) \in Jobs /\ job \in [Jobs -> Item]  BY JobFacts DEF Shape
<1>1. CASE \E k \in Kinds : Submit(i, k) \/ WriteFails(i, k)  BY <1>1, SubmitGood, TornGood
<1>2. CASE WriteError(i)
  <2>1. Ends(Own(i), "done")
    BY <1>0, <1>2, EndMoves DEF WriteError
  <2>2. /\ At(Own(i), "admitted") /\ temp' = temp \ {i}
        /\ UNCHANGED <<called, side, scan, scanned, crashes, owed>>
    BY <1>2 DEF WriteError
  <2>3. Only(i)  BY <2>1, <2>2, OnlyMoved, JobFacts DEF Steps, Ends
  <2>4. job'[Rec(i)] = job[Rec(i)]  BY <2>1, JobFacts DEF Moved, Steps, Ends
  <2>5. Good(i)'
    BY <2>1, <2>2, <2>4
    DEF Moved, Steps, Ends, Good, OneItem, FileThere, NothingDue, FilesKept, Keeps, kind, At, Sidecar,
        NeedsFile, Sized, Gone, Live, Counted, InlineTask, Size
  <2> QED  BY <2>3, <2>5
<1>3. CASE Count(i)
  <2>1. Steps(Own(i), "counted")
    BY <1>0, <1>3, GotoMoves DEF Count, Live, Counted
  <2>2. /\ At(Own(i), "admitted") /\ side' = IF Sidecar(kind(i)) THEN side \cup {i} ELSE side
        /\ UNCHANGED <<called, temp, scan, scanned, crashes, owed>>
    BY <1>3 DEF Count
  <2>3. Only(i)  BY <2>1, <2>2, OnlyMoved, JobFacts DEF Steps, Ends
  <2>4. job'[Rec(i)] = job[Rec(i)]  BY <2>1, JobFacts DEF Moved, Steps, Ends
  <2>5. Good(i)'
    BY <2>1, <2>2, <2>4
    DEF Moved, Steps, Ends, Good, OneItem, FileThere, NothingDue, FilesKept, Keeps, kind, At, Sidecar,
        NeedsFile, Sized, Gone, Live, Counted, InlineTask, Size
  <2> QED  BY <2>3, <2>5
<1>4. CASE RefusedClosed(i)
  <2>1. Ends(Own(i), "inline") \/ Ends(Own(i), "done")
    BY <1>0, <1>4, EndMoves DEF RefusedClosed
  <2>2. /\ At(Own(i), "counted") /\ temp' = temp \ {i} /\ side' = side \ {i}
        /\ UNCHANGED <<called, scan, scanned, crashes, owed>>
    BY <1>4 DEF RefusedClosed
  <2>3. Only(i)  BY <2>1, <2>2, OnlyMoved, JobFacts DEF Steps, Ends
  <2>4. job'[Rec(i)] = job[Rec(i)]  BY <2>1, JobFacts DEF Moved, Steps, Ends
  <2>5. Good(i)'
    BY <2>1, <2>2, <2>4
    DEF Moved, Steps, Ends, Good, OneItem, FileThere, NothingDue, FilesKept, Keeps, kind, At, Sidecar,
        NeedsFile, Sized, Gone, Live, Counted, InlineTask, Size
  <2> QED  BY <2>3, <2>5
<1>5. CASE RefusedFull(i)
  <2>1. Steps(Own(i), "inline")
    BY <1>0, <1>5, GotoMoves DEF RefusedFull, InlineTask
  <2>2. /\ At(Own(i), "counted") /\ side' = side \ {i}
        /\ temp' = IF kind(i) = "blocking" THEN temp ELSE temp \ {i}
        /\ UNCHANGED <<called, scan, scanned, crashes, owed>>
    BY <1>5 DEF RefusedFull
  <2>3. Only(i)  BY <2>1, <2>2, OnlyMoved, JobFacts DEF Steps, Ends
  <2>4. job'[Rec(i)] = job[Rec(i)]  BY <2>1, JobFacts DEF Moved, Steps, Ends
  <2>5. Good(i)'
    BY <2>1, <2>2, <2>4
    DEF Moved, Steps, Ends, Good, OneItem, FileThere, NothingDue, FilesKept, Keeps, kind, At, Sidecar,
        NeedsFile, Sized, Gone, Live, Counted, InlineTask, Size
  <2> QED  BY <2>3, <2>5
<1>6. CASE InlineStart(i)
  <2>1. Steps(Own(i), "streaming")
    BY <1>0, <1>6, GotoMoves DEF InlineStart, InlineTask
  <2>2. At(Own(i), "inline") /\ UNCHANGED <<called, temp, side, scan, scanned, crashes, owed>>
    BY <1>6 DEF InlineStart
  <2>3. Only(i)  BY <2>1, <2>2, OnlyMoved, JobFacts DEF Steps, Ends
  <2>4. job'[Rec(i)] = job[Rec(i)]  BY <2>1, JobFacts DEF Moved, Steps, Ends
  <2>5. Good(i)'
    BY <2>1, <2>2, <2>4
    DEF Moved, Steps, Ends, Good, OneItem, FileThere, NothingDue, FilesKept, Keeps, kind, At, Sidecar,
        NeedsFile, Sized, Gone, Live, Counted, InlineTask, Size
  <2> QED  BY <2>3, <2>5
<1>7. CASE InlineEnd(i)
  <2>1. Ends(Own(i), "done")
    BY <1>0, <1>7, EndMoves DEF InlineEnd
  <2>2. /\ At(Own(i), "streaming") /\ temp' = IF kind(i) = "blocking" THEN temp \ {i} ELSE temp
        /\ UNCHANGED <<called, side, scan, scanned, crashes, owed>>
    BY <1>7 DEF InlineEnd
  <2>3. Only(i)  BY <2>1, <2>2, OnlyMoved, JobFacts DEF Steps, Ends
  <2>4. job'[Rec(i)] = job[Rec(i)]  BY <2>1, JobFacts DEF Moved, Steps, Ends
  <2>5. Good(i)'
    BY <2>1, <2>2, <2>4
    DEF Moved, Steps, Ends, Good, OneItem, FileThere, NothingDue, FilesKept, Keeps, kind, At, Sidecar,
        NeedsFile, Sized, Gone, Live, Counted, InlineTask, Size
  <2> QED  BY <2>3, <2>5
<1> QED  BY <1>1, <1>2, <1>3, <1>4, <1>5, <1>6, <1>7 DEF OfCaller

LEMMA ScanGood ==
    ASSUME Shape, NEW i \in Items, Good(i), OfScan(i) PROVE Only(i) /\ Good(i)'
<1> USE DEF recovery, disk, caller
<1>0. Rec(i) \in Jobs /\ job \in [Jobs -> Item]  BY JobFacts DEF Shape
<1>1. CASE RecoveredRefused(i)
  <2>1. Steps(Rec(i), "done")
    BY <1>0, <1>1, GotoMoves DEF RecoveredRefused
  <2>2. At(Rec(i), "counted") /\ UNCHANGED <<called, temp, side, scan, scanned, crashes, owed>>
    BY <1>1 DEF RecoveredRefused
  <2>3. Only(i)  BY <2>1, <2>2, OnlyMoved, JobFacts DEF Steps, Ends
  <2>4. job'[Own(i)] = job[Own(i)]  BY <2>1, JobFacts DEF Moved, Steps, Ends
  <2>5. Good(i)'
    BY <2>1, <2>2, <2>4
    DEF Moved, Steps, Ends, Good, OneItem, FileThere, NothingDue, FilesKept, Keeps, kind, At, Sidecar,
        NeedsFile, Sized, Gone, Live, Counted, InlineTask, Size
  <2> QED  BY <2>3, <2>5
<1>2. CASE ScanEnqueues(i) /\ ~over_disk_budget(Size(i))
  <2>1. Steps(Rec(i), "counted")
    BY <1>0, <1>2, GotoMoves DEF ScanEnqueues, Live, Counted
  <2>2. /\ i \in scan /\ i \in side /\ i \in temp /\ scan' = scan \ {i}
        /\ UNCHANGED <<called, temp, side, scanned, crashes, owed>>
    BY <1>2 DEF ScanEnqueues
  <2>3. Only(i)  BY <2>1, <2>2, OnlyMoved, JobFacts DEF Steps, Ends
  <2>4. job'[Own(i)] = job[Own(i)]  BY <2>1, JobFacts DEF Moved, Steps, Ends
  <2>5. Good(i)'
    BY <2>1, <2>2, <2>4
    DEF Moved, Steps, Ends, Good, OneItem, FileThere, NothingDue, FilesKept, Keeps, kind, At, Sidecar,
        NeedsFile, Sized, Gone, Live, Counted, InlineTask, Size
  <2> QED  BY <2>3, <2>5
<1>3. CASE ScanEnqueues(i) /\ over_disk_budget(Size(i))
  <2>1. scan' = scan \ {i} /\ UNCHANGED <<called, job, temp, side, scanned, crashes, owed>>
    BY <1>3 DEF ScanEnqueues
  <2>2. Only(i)  BY <2>1 DEF Only, Untouched
  <2>3. Good(i)'  BY <2>1 DEF Good, OneItem, FileThere, NothingDue, FilesKept, Keeps, kind, At
  <2> QED  BY <2>2, <2>3
<1>4. CASE ScanDrops(i)
  <2>1. /\ i \in scan /\ scan' = scan \ {i} /\ side' = side \ {i} /\ temp' = temp \ {i}
        /\ owed' = IF i \in side /\ i \in temp THEN owed \ {i} ELSE owed
        /\ UNCHANGED <<called, job, scanned, crashes>>
    BY <1>4 DEF ScanDrops
  <2>2. Only(i)  BY <2>1 DEF Only, Untouched
  <2>3. Good(i)'
    BY <2>1 DEF Good, OneItem, FileThere, NothingDue, FilesKept, Keeps, kind, At, NeedsFile
  <2> QED  BY <2>2, <2>3
<1> QED  BY <1>1, <1>2, <1>3, <1>4 DEF OfScan

LEMMA TaskGood ==
    ASSUME Shape, NEW j \in Jobs, Good(Art(j)), OfTask(j) PROVE Only(Art(j)) /\ Good(Art(j))'
<1> USE DEF recovery, disk, caller
<1>0. job \in [Jobs -> Item] /\ Art(j) \in Items  BY JobFacts DEF Shape
<1> DEFINE i == Art(j)
<1>j. Good(i) /\ i \in Items /\ (j = Own(i) \/ j = Rec(i)) /\ Own(i) \in Jobs /\ Rec(i) \in Jobs /\ Own(i) # Rec(i)
  BY JobFacts
<1>1. CASE Sent(j)
  <2>1. Steps(j, "queued")
    BY <1>0, <1>1, GotoMoves DEF Sent, Live, Counted
  <2>2. /\ At(j, "counted") /\ owed' = IF Sidecar(job[j].kind) THEN owed \cup {i} ELSE owed
        /\ UNCHANGED <<called, temp, side, scan, scanned, crashes>>
    BY <1>1 DEF Sent
  <2>3. Only(i)  BY <2>1, <2>2, OnlyMoved DEF Steps, Ends
  <2>4. \A d \in {Own(i), Rec(i)} : d # j => job'[d] = job[d]  BY <2>1, <1>j DEF Moved, Steps, Ends
  <2>5. Good(i)'
    <3> HIDE DEF i
    <3> QED  BY <2>1, <2>2, <2>4, <1>j
      DEF Moved, Steps, Ends, Good, OneItem, FileThere, NothingDue, FilesKept, Keeps, kind, At, Sidecar,
          NeedsFile, Sized, Gone, Live, Counted, InlineTask, Worked
  <2> QED  BY <2>3, <2>5
<1>2. CASE SettleInflight(j)
  <2>1. Steps(j, "settling")
    BY <1>0, <1>2, GotoMoves DEF SettleInflight, Live, Counted
  <2>2. /\ At(j, "unlinked") /\ side' = side \ {i}
        /\ UNCHANGED <<called, temp, scan, scanned, crashes, owed>>
    BY <1>2 DEF SettleInflight
  <2>3. Only(i)  BY <2>1, <2>2, OnlyMoved DEF Steps, Ends
  <2>4. \A d \in {Own(i), Rec(i)} : d # j => job'[d] = job[d]  BY <2>1, <1>j DEF Moved, Steps, Ends
  <2>5. Good(i)'
    <3> HIDE DEF i
    <3> QED  BY <2>1, <2>2, <2>4, <1>j
      DEF Moved, Steps, Ends, Good, OneItem, FileThere, NothingDue, FilesKept, Keeps, kind, At, Sidecar,
          NeedsFile, Sized, Gone, Live, Counted, InlineTask, Worked
  <2> QED  BY <2>3, <2>5
<1>3. CASE SettlePending(j)
  <2>1. Ends(j, "done")
    BY <1>0, <1>3, EndMoves DEF SettlePending
  <2>2. At(j, "settling") /\ UNCHANGED <<called, temp, side, scan, scanned, crashes, owed>>
    BY <1>3 DEF SettlePending
  <2>3. Only(i)  BY <2>1, <2>2, OnlyMoved DEF Steps, Ends
  <2>4. \A d \in {Own(i), Rec(i)} : d # j => job'[d] = job[d]  BY <2>1, <1>j DEF Moved, Steps, Ends
  <2>5. Good(i)'
    <3> HIDE DEF i
    <3> QED  BY <2>1, <2>2, <2>4, <1>j
      DEF Moved, Steps, Ends, Good, OneItem, FileThere, NothingDue, FilesKept, Keeps, kind, At, Sidecar,
          NeedsFile, Sized, Gone, Live, Counted, InlineTask, Worked
  <2> QED  BY <2>3, <2>5
<1>4. ASSUME NEW l \in Worked, Works(j, l) PROVE Only(i) /\ Good(i)'
  <2>1. Moved(j, l, job[j].kind, Size(i))
    BY <1>4 DEF Works
  <2>2. /\ job[j].pc \in {"spawned", "trying", "parked", "woken", "reacquire"}
        /\ temp' = IF l = "unlinked" THEN temp \ {i} ELSE temp
        /\ owed' = IF l = "unlinked" THEN owed \ {i} ELSE owed
        /\ UNCHANGED <<called, side, scan, scanned, crashes>>
    BY <1>4 DEF Works
  <2>3. Only(i)  BY <2>1, <2>2, OnlyMoved DEF Steps, Ends
  <2>4. \A d \in {Own(i), Rec(i)} : d # j => job'[d] = job[d]  BY <2>1, <1>j DEF Moved, Steps, Ends
  <2>5. Good(i)'
    <3> HIDE DEF i
    <3> QED  BY <2>1, <2>2, <2>4, <1>j
      DEF Moved, Steps, Ends, Good, OneItem, FileThere, NothingDue, FilesKept, Keeps, kind, At, Sidecar,
          NeedsFile, Sized, Gone, Live, Counted, InlineTask, Worked
  <2> QED  BY <2>3, <2>5
<1> QED  BY <1>1, <1>2, <1>3, <1>4 DEF OfTask

\* The worker moves an item that the channel or its hand holds.
LEMMA HandGood ==
    ASSUME Shape, ItemInv, NEW j \in Jobs, NEW l \in {"held", "spawned"}, Steps(j, l),
           job[j].pc \in {"queued", "held"}, UNCHANGED <<called, disk, recovery, crashes, owed>>
    PROVE  ItemInv'
<1> DEFINE i == Art(j)
<1>1. Good(i) /\ i \in Items /\ (j = Own(i) \/ j = Rec(i)) /\ Own(i) \in Jobs /\ Rec(i) \in Jobs /\ Own(i) # Rec(i)
  BY JobFacts DEF ItemInv
<1>2. UNCHANGED <<called, temp, side, scan, scanned, crashes, owed>>  BY DEF disk, recovery
<1>3. Only(i)  BY <1>2, OnlyMoved DEF Steps
<1>4. \A d \in {Own(i), Rec(i)} : d # j => job'[d] = job[d]  BY <1>1 DEF Moved, Steps
<1>5. Good(i)'
  <2> HIDE DEF i
  <2> QED  BY <1>1, <1>2, <1>4
    DEF Moved, Steps, Good, OneItem, FileThere, NothingDue, FilesKept, Keeps, kind, At, Sidecar,
        NeedsFile, Sized, Gone, Live, Counted, InlineTask
<1> QED  BY <1>1, <1>3, <1>5, GoodOnly

LEMMA ReceiveMoves ==
    ASSUME Shape, ChannelInv, Receive
    PROVE  /\ Head(chan) \in Jobs /\ At(Head(chan), "queued") /\ Steps(Head(chan), "held")
           /\ UNCHANGED <<called, disk, recovery, crashes, owed>>
<1>1. Head(chan) \in Jobs /\ Head(chan) = chan[1] /\ 1 \in 1 .. Len(chan)  BY DEF Receive, Shape
<1>2. Steps(Head(chan), "held")  BY <1>1, GotoMoves DEF Receive, Shape, Live, Counted
<1> QED  BY <1>1, <1>2 DEF Receive, ChannelInv, caller

LEMMA DispatchHand ==
    ASSUME Shape, ChannelInv, Dispatch
    PROVE  /\ held \in Jobs /\ At(held, "held") /\ Steps(held, "spawned")
           /\ UNCHANGED <<called, disk, recovery, crashes, owed>>
<1>1. held \in Jobs /\ Steps(held, "spawned")  BY DispatchMoves DEF Shape
<1> QED  BY <1>1 DEF Dispatch, ChannelInv, caller

LEMMA ScanStartsGood == ASSUME ItemInv, ScanStarts PROVE ItemInv'
<1> SUFFICES ASSUME NEW i \in Items PROVE Good(i)'  BY DEF ItemInv
<1>1. Good(i) /\ ~scanned /\ scanned' /\ scan' = side  BY DEF ItemInv, ScanStarts
<1>2. UNCHANGED <<called, job, temp, side, crashes, owed>>  BY DEF ScanStarts, caller, disk
<1> QED  BY <1>1, <1>2
  DEF Good, OneItem, FileThere, NothingDue, FilesKept, Keeps, kind, At, Live, Counted, InlineTask

\* Whose turn drain's deadline cuts short.
Dropped(j) == job[j].pc \in Awaiting
LEMMA TimeoutMoves ==
    ASSUME Shape, DrainTimeout
    PROVE  /\ job' \in [Jobs -> Item]
           /\ \A j \in Jobs : Dropped(j) => job'[j].pc = "aborted" /\ job'[j].kind = "none"
           /\ \A j \in Jobs : ~Dropped(j) => job'[j] = job[j]
<1>1. Is(Ended("aborted"), "aborted", "none", 0)  BY EndedIs
<1>2. job' = [j \in Jobs |-> IF Dropped(j) THEN Ended("aborted") ELSE job[j]]  BY DEF DrainTimeout, Dropped
<1> HIDE DEF Dropped
<1> QED  BY <1>1, <1>2 DEF Is, Shape

LEMMA TimeoutGood == ASSUME Shape, ItemInv, DrainTimeout PROVE ItemInv'
<1> SUFFICES ASSUME NEW i \in Items PROVE Good(i)'  BY DEF ItemInv
<1>1. Good(i) /\ Own(i) \in Jobs /\ Rec(i) \in Jobs  BY JobFacts DEF ItemInv
<1>2. UNCHANGED <<called, temp, side, scan, scanned, crashes, owed>>  BY DEF DrainTimeout, disk, recovery
<1>3. \A j \in {Own(i), Rec(i)} :
          \/ job'[j] = job[j]
          \/ job'[j].pc = "aborted" /\ job'[j].kind = "none" /\ job[j].pc \in Awaiting
  BY <1>1, TimeoutMoves DEF Dropped
<1> QED  BY <1>1, <1>2, <1>3
  DEF Good, OneItem, FileThere, NothingDue, FilesKept, Keeps, kind, At, Sidecar, NeedsFile, Sized, Gone,
      Live, Counted, InlineTask, Awaiting

LEMMA CrashGood == ASSUME Shape, ItemInv, Crash PROVE ItemInv'
<1> SUFFICES ASSUME NEW i \in Items PROVE Good(i)'  BY DEF ItemInv
<1>1. Good(i) /\ Own(i) \in Jobs /\ Rec(i) \in Jobs  BY JobFacts DEF ItemInv
<1>2. /\ scan' = {} /\ scanned' = FALSE /\ crashes' = crashes + 1 /\ crashes \in Nat
      /\ UNCHANGED <<called, temp, side, owed>>
  BY QueueAssumption DEF Crash, disk, Shape
<1>3. \A j \in {Own(i), Rec(i)} : job'[j].pc = "idle" /\ job'[j].kind = "none"
  BY <1>1, FreshIs DEF Crash, Is
<1> QED  BY <1>1, <1>2, <1>3
  DEF Good, OneItem, FileThere, NothingDue, FilesKept, Keeps, kind, At, Sidecar, NeedsFile, Sized, Gone,
      Live, Counted, InlineTask

LEMMA ItemStep == ASSUME Shape, ItemInv, ChannelInv, [Next]_vars PROVE ItemInv'
<1>1. ASSUME NEW i \in Items, OfCaller(i) \/ OfScan(i) PROVE ItemInv'
  <2>1. Good(i)  BY DEF ItemInv
  <2>2. Only(i) /\ Good(i)'  BY <1>1, <2>1, CallerGood, ScanGood
  <2> QED  BY <2>2, GoodOnly
<1>2. ASSUME NEW j \in Jobs, OfTask(j) PROVE ItemInv'
  <2>1. Art(j) \in Items /\ Good(Art(j))  BY JobFacts DEF ItemInv
  <2>2. Only(Art(j)) /\ Good(Art(j))'  BY <1>2, <2>1, TaskGood
  <2> QED  BY <2>1, <2>2, GoodOnly
<1>3. CASE Receive  BY <1>3, ReceiveMoves, HandGood DEF At
<1>4. CASE Dispatch  BY <1>4, DispatchHand, HandGood DEF At
<1>5. CASE Quiet
  <2>1. \A i \in Items : Untouched(i)  BY <1>5 DEF Quiet, Untouched, disk, recovery
  <2> QED  BY <2>1, GoodUntouched DEF ItemInv
<1> QED
  BY <1>1, <1>2, <1>3, <1>4, <1>5, StepKinds, ScanStartsGood, TimeoutGood, CrashGood DEF OfQueue

-----------------------------------------------------------------------------
(* The channel                                                             *)
\* A step that leaves the queued and the held items where they are.
LEMMA ChannelFrame ==
    ASSUME Shape, ChannelInv, UNCHANGED <<chan, held>>,
           \A j \in Jobs : job[j].pc \in {"queued", "held"} => job'[j].pc = job[j].pc
    PROVE  ChannelInv'
<1>1. \A k \in 1 .. Len(chan) : chan[k] \in Jobs  BY DEF Shape
<1>2. held # NoJob => held \in Jobs  BY DEF Shape
<1> QED  BY <1>1, <1>2 DEF ChannelInv, At

LEMMA ChannelMoved ==
    ASSUME Shape, ChannelInv, UNCHANGED <<chan, held>>, NEW j \in Jobs, NEW l, NEW k, NEW b,
           Moved(j, l, k, b), job[j].pc \notin {"queued", "held"}
    PROVE  ChannelInv'
<1>1. \A d \in Jobs : job[d].pc \in {"queued", "held"} => job'[d].pc = job[d].pc  BY DEF Moved
<1> QED  BY <1>1, ChannelFrame

LEMMA ChannelCaller ==
    ASSUME Shape, ItemInv, ChannelInv, NEW i \in Items, OfCaller(i) PROVE ChannelInv'
<1> USE DEF loop
<1>0. Own(i) \in Jobs /\ job \in [Jobs -> Item]  BY JobFacts DEF Shape
<1>1. ASSUME NEW k \in Kinds, Submit(i, k) PROVE ChannelInv'
  <2>1. PICK l \in {"done", "inline", "admitted"} : job' = [job EXCEPT ![Own(i)].pc = l, ![Own(i)].kind = k]
    BY <1>1 DEF Submit
  <2>2. Moved(Own(i), l, k, job[Own(i)].bytes)  BY <1>0, <2>1, SubmitMoves
  <2>3. At(Own(i), "idle")  BY <1>1 DEF Submit, ItemInv, Good, OneItem
  <2>4. UNCHANGED <<chan, held>>  BY <1>1 DEF Submit
  <2> QED  BY <1>0, <2>2, <2>3, <2>4, ChannelMoved DEF At
<1>2. CASE WriteError(i) \/ RefusedClosed(i) \/ InlineEnd(i)
  <2>1. Ends(Own(i), "done") \/ Ends(Own(i), "inline")
    BY <1>0, <1>2, EndMoves DEF WriteError, RefusedClosed, InlineEnd, Refused
  <2>2. UNCHANGED <<chan, held>> /\ job[Own(i)].pc \in {"admitted", "counted", "streaming"}
    BY <1>2 DEF WriteError, RefusedClosed, InlineEnd, At
  <2> QED  BY <1>0, <2>1, <2>2, ChannelMoved DEF Ends
<1>3. CASE Count(i) \/ RefusedFull(i) \/ InlineStart(i)
  <2>1. Steps(Own(i), "counted") \/ Steps(Own(i), "inline") \/ Steps(Own(i), "streaming")
    BY <1>0, <1>3, GotoMoves DEF Count, RefusedFull, InlineStart, Live, Counted, InlineTask
  <2>2. UNCHANGED <<chan, held>> /\ job[Own(i)].pc \in {"admitted", "counted", "inline"}
    BY <1>3 DEF Count, RefusedFull, InlineStart, At
  <2> QED  BY <1>0, <2>1, <2>2, ChannelMoved DEF Steps
<1>4. ASSUME NEW k \in Kinds, WriteFails(i, k) PROVE ChannelInv'
  <2>1. Ends(Own(i), "torn") /\ At(Own(i), "idle") /\ UNCHANGED <<chan, held>>
    BY <1>4, TornMoves DEF ItemInv
  <2> QED  BY <1>0, <2>1, ChannelMoved DEF Ends, At
<1> QED  BY <1>1, <1>2, <1>3, <1>4 DEF OfCaller

LEMMA ChannelScan ==
    ASSUME Shape, ItemInv, ChannelInv, NEW i \in Items, OfScan(i) PROVE ChannelInv'
<1>0. Rec(i) \in Jobs /\ job \in [Jobs -> Item]  BY JobFacts DEF Shape
<1>1. UNCHANGED <<chan, held>>  BY DEF OfScan, RecoveredRefused, ScanDrops, ScanEnqueues, loop
<1>2. CASE UNCHANGED job  BY <1>1, <1>2, ChannelFrame
<1>3. CASE ScanEnqueues(i) /\ Goto(Rec(i), "counted")
  <2>1. Steps(Rec(i), "counted")  BY <1>0, <1>3, GotoMoves DEF Live, Counted
  <2>2. At(Rec(i), "idle")  BY <1>3 DEF ScanEnqueues, ItemInv, Good, OneItem
  <2> QED  BY <1>0, <1>1, <2>1, <2>2, ChannelMoved DEF Steps, At
<1>4. CASE RecoveredRefused(i)
  <2>1. Steps(Rec(i), "done") /\ At(Rec(i), "counted")  BY <1>0, <1>4, GotoMoves DEF RecoveredRefused
  <2> QED  BY <1>0, <1>1, <2>1, ChannelMoved DEF Steps, At
<1> QED  BY <1>2, <1>3, <1>4 DEF OfScan, ScanDrops, ScanEnqueues

LEMMA ChannelSent == ASSUME Shape, ChannelInv, NEW j \in Jobs, Sent(j) PROVE ChannelInv'
<1> DEFINE n == Len(chan)
<1>1. Steps(j, "queued") /\ At(j, "counted")  BY GotoMoves DEF Sent, Shape, Live, Counted
<1>2. n \in Nat /\ Len(chan') = n + 1 /\ chan'[n + 1] = j /\ \A k \in 1 .. n : chan'[k] = chan[k] /\ chan[k] \in Jobs
  BY DEF Sent, Shape
<1>3. \A k \in 1 .. n : At(chan[k], "queued") /\ chan[k] # j  BY <1>1 DEF ChannelInv, At
<1> HIDE DEF n
<1>4. \A k \in 1 .. (n + 1) : job'[chan'[k]].pc = "queued"
  BY <1>1, <1>2, <1>3 DEF Steps, Moved, At
<1>5. \A k, l \in 1 .. (n + 1) : k # l => chan'[k] # chan'[l]
  <2>1. \A k, l \in 1 .. n : k # l => chan[k] # chan[l]  BY DEF ChannelInv, n
  <2> QED  BY <1>2, <1>3, <2>1
<1>6. held' # NoJob => job'[held'].pc = "held"
  <2>1. held' = held /\ (held # NoJob => held \in Jobs /\ At(held, "held"))  BY DEF Sent, Shape, ChannelInv
  <2> QED  BY <1>1, <2>1 DEF Steps, Moved, At
<1> QED  BY <1>2, <1>4, <1>5, <1>6 DEF ChannelInv, At

LEMMA ChannelReceive == ASSUME Shape, ChannelInv, Receive PROVE ChannelInv'
<1> DEFINE n == Len(chan)
<1>1. Head(chan) \in Jobs /\ Steps(Head(chan), "held")  BY ReceiveMoves
<1>2. /\ n \in Nat \ {0} /\ Len(chan') = n - 1 /\ Head(chan) = chan[1] /\ held' = chan[1]
      /\ \A k \in 1 .. (n - 1) : chan'[k] = chan[k + 1] /\ chan[k + 1] \in Jobs
  BY DEF Receive, Shape
<1>3. \A k \in 1 .. n : At(chan[k], "queued")  BY DEF ChannelInv
<1>4. \A k, l \in 1 .. n : k # l => chan[k] # chan[l]  BY DEF ChannelInv
<1> HIDE DEF n
<1>5. \A k \in 1 .. (n - 1) : job'[chan'[k]].pc = "queued"
  <2> TAKE k \in 1 .. (n - 1)
  <2>1. k + 1 \in 1 .. n /\ 1 \in 1 .. n /\ k + 1 # 1  BY <1>2
  <2>2. chan[k + 1] # chan[1] /\ At(chan[k + 1], "queued")  BY <1>3, <1>4, <2>1
  <2> QED  BY <1>1, <1>2, <2>2 DEF Steps, Moved, At
<1>6. \A k, l \in 1 .. (n - 1) : k # l => chan'[k] # chan'[l]
  <2> TAKE k, l \in 1 .. (n - 1)
  <2>1. k + 1 \in 1 .. n /\ l + 1 \in 1 .. n /\ (k # l => k + 1 # l + 1)  BY <1>2
  <2> QED  BY <1>2, <1>4, <2>1
<1>7. job'[held'].pc = "held"  BY <1>1, <1>2 DEF Steps, Moved
<1> QED  BY <1>2, <1>5, <1>6, <1>7 DEF ChannelInv, At

LEMMA ChannelDispatch == ASSUME Shape, ChannelInv, Dispatch PROVE ChannelInv'
<1>1. held \in Jobs /\ At(held, "held") /\ Steps(held, "spawned")  BY DispatchHand
<1>2. held' = NoJob /\ chan' = chan  BY DEF Dispatch
<1>3. \A k \in 1 .. Len(chan) : chan[k] \in Jobs /\ At(chan[k], "queued")  BY DEF Shape, ChannelInv
<1>4. \A k \in 1 .. Len(chan) : job'[chan[k]].pc = "queued"  BY <1>1, <1>3 DEF Steps, Moved, At
<1> QED  BY <1>2, <1>4 DEF ChannelInv, At

LEMMA ChannelTask ==
    ASSUME Shape, ChannelInv, NEW j \in Jobs, OfTask(j) PROVE ChannelInv'
<1>1. CASE Sent(j)  BY <1>1, ChannelSent
<1>2. CASE SettleInflight(j)
  <2>1. Steps(j, "settling") /\ At(j, "unlinked") /\ UNCHANGED <<chan, held>>
    BY <1>2, GotoMoves DEF SettleInflight, Shape, Live, Counted, loop
  <2> QED  BY <2>1, ChannelMoved DEF Steps, At
<1>3. CASE SettlePending(j)
  <2>1. Ends(j, "done") /\ At(j, "settling") /\ UNCHANGED <<chan, held>>
    BY <1>3, EndMoves DEF SettlePending, Shape, loop
  <2> QED  BY <2>1, ChannelMoved DEF Ends, At
<1>4. ASSUME NEW l \in Worked, Works(j, l) PROVE ChannelInv'
  BY <1>4, ChannelMoved DEF Works
<1> QED  BY <1>1, <1>2, <1>3, <1>4 DEF OfTask

LEMMA ChannelStep == ASSUME Shape, ItemInv, ChannelInv, [Next]_vars PROVE ChannelInv'
<1>1. CASE Quiet \/ ScanStarts
  <2>1. UNCHANGED <<job, chan, held>>  BY <1>1 DEF Quiet, ScanStarts, loop
  <2> QED  BY <2>1, ChannelFrame
<1>2. CASE DrainTimeout \/ Crash
  <2>1. chan' = <<>> /\ held' = NoJob  BY <1>2 DEF DrainTimeout, Crash
  <2> QED  BY <2>1 DEF ChannelInv
<1> QED
  BY <1>1, <1>2, StepKinds, ChannelCaller, ChannelScan, ChannelTask, ChannelReceive, ChannelDispatch
  DEF OfQueue

-----------------------------------------------------------------------------
(* The in-flight mark                                                      *)
LEMMA MarkFrame ==
    ASSUME MarkInv, marked' <=> marked, \A i \in Items : Owner(i)' <=> Owner(i) PROVE MarkInv'
BY DEF MarkInv

\* An item of a caller leaves the queue, and its guard takes the mark along.
LEMMA MarkDropped ==
    ASSUME MarkInv, NEW i \in Items, job[Own(i)].pc \in Live, marked' <=> (marked /\ ~Tracked(i)),
           ~Owner(i)', \A l \in Items : l # i => (Owner(l)' <=> Owner(l))
    PROVE  MarkInv'
<1>1. CASE Tracked(i)
  <2>1. \A l \in Items : ~Owner(l)'  BY <1>1 DEF MarkInv, Owner
  <2> QED  BY <1>1, <2>1 DEF MarkInv
<1>2. CASE ~Tracked(i)
  <2>1. \A l \in Items : Owner(l)' <=> Owner(l)  BY <1>2 DEF Owner
  <2> QED  BY <1>2, <2>1, MarkFrame
<1> QED  BY <1>1, <1>2

LEMMA OwnersMoved ==
    ASSUME NEW j \in Jobs, NEW l, NEW k, NEW b, Moved(j, l, k, b)
    PROVE  /\ \A i \in Items : Own(i) # j => (Owner(i)' <=> Owner(i))
           /\ \A i \in Items : Own(i) = j => (Owner(i)' <=> i \in Addressed /\ k \in {"bytes", "durable"} /\ l \in Live)
<1>1. ASSUME NEW i \in Items, Own(i) # j PROVE Owner(i)' <=> Owner(i)
  <2>1. job'[Own(i)] = job[Own(i)]  BY <1>1, JobFacts DEF Moved
  <2> QED  BY <2>1 DEF Owner, Tracked, kind
<1>2. ASSUME NEW i \in Items, Own(i) = j
      PROVE  Owner(i)' <=> i \in Addressed /\ k \in {"bytes", "durable"} /\ l \in Live
  BY <1>2 DEF Owner, Tracked, kind, Moved
<1> QED  BY <1>1, <1>2

\* An item that was in the queue and stays in it, or was not and does not enter it.
LEMMA MarkMoved ==
    ASSUME MarkInv, NEW j \in Jobs, NEW l, NEW b, Moved(j, l, job[j].kind, b),
           job[j].pc \in Live <=> l \in Live, marked' <=> marked
    PROVE  MarkInv'
<1>1. \A i \in Items : Owner(i)' <=> Owner(i)  BY OwnersMoved DEF Owner, Tracked, kind
<1> QED  BY <1>1, MarkFrame

\* A recovered item has no mark.
LEMMA MarkRecovered ==
    ASSUME MarkInv, NEW j \in Jobs, ~IsOwn(j), NEW l, NEW k, NEW b, Moved(j, l, k, b), marked' <=> marked
    PROVE  MarkInv'
<1>1. \A i \in Items : Owner(i)' <=> Owner(i)  BY OwnersMoved, JobFacts
<1> QED  BY <1>1, MarkFrame

LEMMA MarkLeaves ==
    ASSUME MarkInv, NEW i \in Items, NEW l, NEW k, NEW b, Moved(Own(i), l, k, b),
           job[Own(i)].pc \in Live, l \notin Live, marked' <=> (marked /\ ~Tracked(i))
    PROVE  MarkInv'
<1>1. Own(i) \in Jobs /\ \A d \in Items : Own(d) = Own(i) <=> d = i  BY JobFacts
<1>2. ~Owner(i)' /\ \A d \in Items : d # i => (Owner(d)' <=> Owner(d))  BY <1>1, OwnersMoved
<1> QED  BY <1>2, MarkDropped

LEMMA MarkSubmit ==
    ASSUME Shape, ItemInv, MarkInv, NEW i \in Items, NEW k \in Kinds, Submit(i, k) PROVE MarkInv'
<1> DEFINE tracked == i \in Addressed /\ k # "blocking"
<1>1. PICK l \in {"done", "inline", "admitted"} :
          /\ job' = [job EXCEPT ![Own(i)].pc = l, ![Own(i)].kind = k]
          /\ marked' <=> marked \/ (l = "admitted" /\ tracked)
          /\ l = "admitted" => ~(tracked /\ marked)
  <2> DEFINE To(l) == job' = [job EXCEPT ![Own(i)].pc = l, ![Own(i)].kind = k]
             P(l) == /\ To(l) /\ (marked' <=> marked \/ (l = "admitted" /\ tracked))
                     /\ l = "admitted" => ~(tracked /\ marked)
  <2>1. \/ (To("done") \/ To("inline")) /\ marked' = marked
        \/ To("admitted") /\ ~(tracked /\ marked) /\ marked' = (marked \/ tracked)
    BY Zenon DEF Submit
  <2> HIDE DEF To, tracked
  <2>2. P("done") \/ P("inline") \/ P("admitted")  BY <2>1
  <2> QED  BY <2>2 DEF To
<1>2. Moved(Own(i), l, k, job[Own(i)].bytes)  BY <1>1, SubmitMoves DEF Shape
<1>3. At(Own(i), "idle")  BY DEF Submit, ItemInv, Good, OneItem
<1>4. Own(i) \in Jobs /\ \A d \in Items : Own(d) = Own(i) <=> d = i  BY JobFacts
<1>5. \A d \in Items : d # i => (Owner(d)' <=> Owner(d))  BY <1>2, <1>4, OwnersMoved
<1>6. Owner(i)' <=> (l = "admitted" /\ tracked)
  <2>1. Owner(i)' <=> i \in Addressed /\ k \in {"bytes", "durable"} /\ l \in Live  BY <1>2, <1>4, OwnersMoved
  <2> QED  BY <2>1 DEF Kinds, Live, Counted
<1>7. ~Owner(i)  BY <1>3 DEF Owner, At, Live, Counted
<1> HIDE DEF tracked
<1> QED  BY <1>1, <1>5, <1>6, <1>7 DEF MarkInv

LEMMA MarkCaller ==
    ASSUME Shape, ItemInv, MarkInv, NEW i \in Items, OfCaller(i) PROVE MarkInv'
<1>0. Own(i) \in Jobs /\ job \in [Jobs -> Item]  BY JobFacts DEF Shape
<1>1. CASE \E k \in Kinds : Submit(i, k)  BY <1>1, MarkSubmit
<1>2. CASE WriteError(i) \/ RefusedClosed(i)
  <2>1. Ends(Own(i), "done") \/ Ends(Own(i), "inline")
    BY <1>0, <1>2, EndMoves DEF WriteError, RefusedClosed, Refused
  <2>2. job[Own(i)].pc \in Live  BY <1>2 DEF WriteError, RefusedClosed, At, Live, Counted
  <2>3. marked' <=> (marked /\ ~Tracked(i))  BY <1>2, Zenon DEF WriteError, RefusedClosed, Refused, Unmarked
  <2> QED  BY <2>1, <2>2, <2>3, MarkLeaves DEF Ends, Live, Counted
<1>3. CASE RefusedFull(i)
  <2>1. Steps(Own(i), "inline")  BY <1>0, <1>3, GotoMoves DEF RefusedFull, InlineTask
  <2>2. job[Own(i)].pc \in Live  BY <1>3 DEF RefusedFull, At, Live, Counted
  <2>3. marked' <=> (marked /\ ~Tracked(i))  BY <1>3, Zenon DEF RefusedFull, Unmarked
  <2> QED  BY <2>1, <2>2, <2>3, MarkLeaves DEF Steps, Live, Counted
<1>4. CASE Count(i)
  <2>1. Steps(Own(i), "counted") /\ At(Own(i), "admitted") /\ marked' = marked
    BY <1>0, <1>4, GotoMoves DEF Count, Live, Counted
  <2> QED  BY <1>0, <2>1, MarkMoved DEF Steps, At, Live, Counted
<1>5. CASE InlineStart(i)
  <2>1. Steps(Own(i), "streaming") /\ At(Own(i), "inline") /\ marked' = marked
    BY <1>0, <1>5, GotoMoves DEF InlineStart, InlineTask
  <2> QED  BY <1>0, <2>1, MarkMoved DEF Steps, At, Live, Counted
<1>6. CASE InlineEnd(i)
  <2>1. Ends(Own(i), "done") /\ At(Own(i), "streaming") /\ marked' = marked
    BY <1>0, <1>6, EndMoves DEF InlineEnd
  <2>2. \A d \in Items : Owner(d)' <=> Owner(d)
    BY <1>0, <2>1, OwnersMoved DEF Ends, Owner, At, Live, Counted
  <2> QED  BY <2>1, <2>2, MarkFrame
<1>7. ASSUME NEW k \in Kinds, WriteFails(i, k) PROVE MarkInv'
  <2>1. Ends(Own(i), "torn") /\ At(Own(i), "idle") /\ marked' = marked  BY <1>7, TornMoves DEF ItemInv
  <2>2. \A d \in Items : Owner(d)' <=> Owner(d)
    BY <1>0, <2>1, OwnersMoved DEF Ends, Owner, At, Live, Counted
  <2> QED  BY <2>1, <2>2, MarkFrame
<1> QED  BY <1>1, <1>2, <1>3, <1>4, <1>5, <1>6, <1>7 DEF OfCaller

LEMMA MarkScan == ASSUME Shape, MarkInv, NEW i \in Items, OfScan(i) PROVE MarkInv'
<1>0. Rec(i) \in Jobs /\ ~IsOwn(Rec(i)) /\ job \in [Jobs -> Item]  BY JobFacts DEF Shape
<1>1. marked' = marked  BY DEF OfScan, RecoveredRefused, ScanDrops, ScanEnqueues
<1>2. CASE UNCHANGED job  BY <1>1, <1>2, MarkFrame DEF Owner, Tracked, kind
<1>3. CASE Goto(Rec(i), "counted") \/ Goto(Rec(i), "done")
  <2>1. Steps(Rec(i), "counted") \/ Steps(Rec(i), "done")  BY <1>0, <1>3, GotoMoves DEF Live, Counted
  <2> QED  BY <1>0, <1>1, <2>1, MarkRecovered DEF Steps
<1> QED  BY <1>2, <1>3 DEF OfScan, ScanDrops, ScanEnqueues, RecoveredRefused

LEMMA MarkTask == ASSUME Shape, MarkInv, NEW j \in Jobs, OfTask(j) PROVE MarkInv'
<1>1. CASE Sent(j)
  <2>1. Steps(j, "queued") /\ At(j, "counted") /\ marked' = marked
    BY <1>1, GotoMoves DEF Sent, Shape, Live, Counted
  <2> QED  BY <2>1, MarkMoved DEF Steps, At, Live, Counted
<1>2. CASE SettleInflight(j)
  <2>1. Steps(j, "settling") /\ At(j, "unlinked") /\ marked' = marked
    BY <1>2, GotoMoves DEF SettleInflight, Shape, Live, Counted
  <2> QED  BY <2>1, MarkMoved DEF Steps, At, Live, Counted
<1>3. CASE SettlePending(j) /\ IsOwn(j)
  <2>1. Ends(j, "done") /\ At(j, "settling")  BY <1>3, EndMoves DEF SettlePending, Shape
  <2>2. Art(j) \in Items /\ j = Own(Art(j))  BY <1>3, JobFacts
  <2>3. marked' <=> (marked /\ ~Tracked(Art(j)))  BY <1>3, Zenon DEF SettlePending, Unmarked
  <2> QED  BY <2>1, <2>2, <2>3, MarkLeaves DEF Ends, At, Live, Counted
<1>4. CASE SettlePending(j) /\ ~IsOwn(j)
  <2>1. Ends(j, "done") /\ marked' = marked  BY <1>4, EndMoves DEF SettlePending, Shape
  <2> QED  BY <1>4, <2>1, MarkRecovered DEF Ends
<1>5. ASSUME NEW l \in Worked, Works(j, l) PROVE MarkInv'
  BY <1>5, MarkMoved DEF Works, Worked, Live, Counted
<1> QED  BY <1>1, <1>2, <1>3, <1>4, <1>5 DEF OfTask

LEMMA MarkTimeout == ASSUME Shape, MarkInv, DrainTimeout PROVE MarkInv'
<1>1. \A i \in Items : Owner(i)' <=> Owner(i) /\ ~Dropped(Own(i))
  <2> TAKE i \in Items
  <2>1. Own(i) \in Jobs  BY JobFacts
  <2>2. \/ Dropped(Own(i)) /\ job'[Own(i)].pc = "aborted"
        \/ ~Dropped(Own(i)) /\ job'[Own(i)] = job[Own(i)]
    BY <2>1, TimeoutMoves
  <2> QED  BY <2>2 DEF Owner, Tracked, kind, Live, Counted
<1>2. marked' <=> (marked /\ ~\E i \in Items : Dropped(Own(i)) /\ Tracked(i))
  <2>1. \A i \in Items : Own(i) \in {j \in Jobs : job[j].pc \in Awaiting} <=> Dropped(Own(i))
    BY JobFacts DEF Dropped
  <2>2. marked' <=> (marked /\ ~\E i \in Items : Own(i) \in {j \in Jobs : job[j].pc \in Awaiting} /\ Tracked(i))
    BY Zenon DEF DrainTimeout
  <2> QED  BY <2>1, <2>2, Zenon
<1>3. \A i \in Items : Dropped(Own(i)) /\ Tracked(i) => Owner(i)
  BY DEF Dropped, Awaiting, Owner, Live, Counted
<1> HIDE DEF Dropped
<1>4. CASE \E i \in Items : Dropped(Own(i)) /\ Tracked(i)
  <2>1. \A l \in Items : ~Owner(l)'  BY <1>1, <1>3, <1>4 DEF MarkInv
  <2>2. ~marked'  BY <1>2, <1>4
  <2> QED  BY <2>1, <2>2 DEF MarkInv
<1>5. CASE ~\E i \in Items : Dropped(Own(i)) /\ Tracked(i)
  <2>1. \A l \in Items : Owner(l)' <=> Owner(l)  BY <1>1, <1>5 DEF Owner
  <2> QED  BY <1>2, <1>5, <2>1, MarkFrame
<1> QED  BY <1>4, <1>5

LEMMA MarkFresh == ASSUME job = [j \in Jobs |-> Fresh], ~marked PROVE MarkInv
<1>1. \A i \in Items : ~Owner(i)  BY FreshIs, JobFacts DEF Is, Owner, Live, Counted
<1> QED  BY <1>1 DEF MarkInv

LEMMA MarkStep == ASSUME Shape, ItemInv, ChannelInv, MarkInv, [Next]_vars PROVE MarkInv'
<1>1. CASE Quiet \/ ScanStarts
  <2>1. UNCHANGED <<job, marked>>  BY <1>1 DEF Quiet, ScanStarts
  <2> QED  BY <2>1, MarkFrame DEF Owner, Tracked, kind
<1>2. CASE Receive
  <2>1. Head(chan) \in Jobs /\ At(Head(chan), "queued") /\ Steps(Head(chan), "held") /\ marked' = marked
    BY <1>2, ReceiveMoves DEF Receive
  <2> QED  BY <2>1, MarkMoved DEF Steps, At, Live, Counted
<1>3. CASE Dispatch
  <2>1. held \in Jobs /\ At(held, "held") /\ Steps(held, "spawned") /\ marked' = marked
    BY <1>3, DispatchHand DEF Dispatch
  <2> QED  BY <2>1, MarkMoved DEF Steps, At, Live, Counted
<1>4. CASE Crash
  <2>1. \A i \in Items : ~Owner(i)'  BY <1>4, FreshIs, JobFacts DEF Crash, Is, Owner, Live, Counted
  <2>2. ~marked'  BY <1>4 DEF Crash
  <2> QED  BY <2>1, <2>2 DEF MarkInv
<1> QED  BY <1>1, <1>2, <1>3, <1>4, StepKinds, MarkCaller, MarkScan, MarkTask, MarkTimeout DEF OfQueue

-----------------------------------------------------------------------------
(* The counters                                                            *)
LEMMA JobsFinite == IsFiniteSet(Jobs)
<1>1. IsFiniteSet(Items)  BY QueueAssumption
<1>2. IsFiniteSet({"own"} \cup {"rec"})  BY FS_Singleton, FS_AddElement
<1>3. IsFiniteSet(Items \X ({"own"} \cup {"rec"}))  BY <1>1, <1>2, FS_Product
<1>4. Jobs \subseteq Items \X ({"own"} \cup {"rec"})  BY DEF Jobs, Own, Rec
<1> QED  BY <1>3, <1>4, FS_Subset

LEMMA CountsAreNat ==
    /\ IsFiniteSet(InQueue) /\ IsFiniteSet(Large) /\ IsFiniteSet(Uploading) /\ IsFiniteSet(Outside)
    /\ Cardinality(InQueue) \in Nat /\ Cardinality(Large) \in Nat
    /\ Cardinality(Uploading) \in Nat /\ Cardinality(Outside) \in Nat
<1>1. InQueue \subseteq Jobs /\ Large \subseteq Jobs /\ Uploading \subseteq Jobs /\ Outside \subseteq Jobs
  BY DEF InQueue, Large, Uploading, Outside
<1>2. IsFiniteSet(InQueue) /\ IsFiniteSet(Large) /\ IsFiniteSet(Uploading) /\ IsFiniteSet(Outside)
  BY <1>1, JobsFinite, FS_Subset
<1> QED  BY <1>2, FS_CardinalityType

\* How much an item counts for.
Pending(l) == IF l \in Counted \cup {"aborted"} THEN 1 ELSE 0
Inflight(l) == IF l \in {"trying", "parked", "woken", "reacquire", "unlinked"} THEN 1 ELSE 0
Beside(l) == IF l \in {"counted", "queued", "held", "spawned", "settling"} THEN 1 ELSE 0

LEMMA CountOne ==
    ASSUME NEW S, NEW T, IsFiniteSet(S), NEW x, NEW a \in 0 .. 1, NEW b \in 0 .. 1,
           x \in S <=> b = 1, x \in T <=> a = 1, \A y : y # x => (y \in T <=> y \in S)
    PROVE  Cardinality(T) = Cardinality(S) + a - b
<1>1. Cardinality(S) \in Nat  BY FS_CardinalityType
<1>2. CASE a = 1
  <2>1. T = S \cup {x}  BY <1>2
  <2>2. Cardinality(S \cup {x}) = IF x \in S THEN Cardinality(S) ELSE Cardinality(S) + 1  BY FS_AddElement
  <2> QED  BY <1>1, <1>2, <2>1, <2>2
<1>3. CASE a = 0
  <2>1. T = S \ {x}  BY <1>3
  <2>2. Cardinality(S \ {x}) = IF x \in S THEN Cardinality(S) - 1 ELSE Cardinality(S)  BY FS_RemoveElement
  <2> QED  BY <1>1, <1>3, <2>1, <2>2
<1> QED  BY <1>2, <1>3

LEMMA CountsMoved ==
    ASSUME NEW j \in Jobs, NEW l, NEW k, NEW b, Moved(j, l, k, b)
    PROVE  /\ Cardinality(InQueue)' = Cardinality(InQueue) + Pending(l) - Pending(job[j].pc)
           /\ Cardinality(Uploading)' = Cardinality(Uploading) + Inflight(l) - Inflight(job[j].pc)
           /\ Cardinality(Outside)' = Cardinality(Outside) + Beside(l) - Beside(job[j].pc)
           /\ Art(j) \in Big =>
                  Cardinality(Large)' = Cardinality(Large) + Pending(l) - Pending(job[j].pc)
           /\ Art(j) \notin Big => Cardinality(Large)' = Cardinality(Large)
<1> DEFINE p == job[j].pc
<1>0. job'[j].pc = l /\ \A d \in Jobs : d # j => job'[d].pc = job[d].pc  BY DEF Moved
<1>1. Cardinality(InQueue') = Cardinality(InQueue) + Pending(l) - Pending(p)
  <2>1. Pending(l) \in 0 .. 1 /\ Pending(p) \in 0 .. 1  BY DEF Pending
  <2>2. (j \in InQueue <=> Pending(p) = 1) /\ (j \in InQueue' <=> Pending(l) = 1)
    BY <1>0 DEF InQueue, Pending
  <2>3. \A y : y # j => (y \in InQueue' <=> y \in InQueue)  BY <1>0 DEF InQueue
  <2> QED  BY <2>1, <2>2, <2>3, CountOne, CountsAreNat
<1>2. Cardinality(Uploading') = Cardinality(Uploading) + Inflight(l) - Inflight(p)
  <2>1. Inflight(l) \in 0 .. 1 /\ Inflight(p) \in 0 .. 1  BY DEF Inflight
  <2>2. (j \in Uploading <=> Inflight(p) = 1) /\ (j \in Uploading' <=> Inflight(l) = 1)
    BY <1>0 DEF Uploading, Inflight
  <2>3. \A y : y # j => (y \in Uploading' <=> y \in Uploading)  BY <1>0 DEF Uploading
  <2> QED  BY <2>1, <2>2, <2>3, CountOne, CountsAreNat
<1>3. Cardinality(Outside') = Cardinality(Outside) + Beside(l) - Beside(p)
  <2>1. Beside(l) \in 0 .. 1 /\ Beside(p) \in 0 .. 1  BY DEF Beside
  <2>2. (j \in Outside <=> Beside(p) = 1) /\ (j \in Outside' <=> Beside(l) = 1)
    BY <1>0 DEF Outside, Beside
  <2>3. \A y : y # j => (y \in Outside' <=> y \in Outside)  BY <1>0 DEF Outside
  <2> QED  BY <2>1, <2>2, <2>3, CountOne, CountsAreNat
<1>4. ASSUME Art(j) \in Big PROVE Cardinality(Large') = Cardinality(Large) + Pending(l) - Pending(p)
  <2>1. Pending(l) \in 0 .. 1 /\ Pending(p) \in 0 .. 1  BY DEF Pending
  <2>2. (j \in Large <=> Pending(p) = 1) /\ (j \in Large' <=> Pending(l) = 1)
    BY <1>0, <1>4 DEF Large, InQueue, Pending
  <2>3. \A y : y # j => (y \in Large' <=> y \in Large)  BY <1>0 DEF Large, InQueue
  <2> QED  BY <2>1, <2>2, <2>3, CountOne, CountsAreNat
<1>5. ASSUME Art(j) \notin Big PROVE Large' = Large
  BY <1>0, <1>5 DEF Large, InQueue
<1> QED  BY <1>1, <1>2, <1>3, <1>4, <1>5

\* The counters follow the item.
Follows(j, l) ==
    LET p == Pending(l) - Pending(job[j].pc) IN
    /\ stats' \in [pending : Int, pending_bytes : Int, inflight : Int]
    /\ stats'.pending = stats.pending + p
    /\ stats'.pending_bytes = stats.pending_bytes + p * Size(Art(j))
    /\ stats'.inflight = stats.inflight + Inflight(l) - Inflight(job[j].pc)

LEMMA CountersMoved ==
    ASSUME CountersInv, NEW j \in Jobs, NEW l, NEW k, NEW b, Moved(j, l, k, b), Follows(j, l),
           l # "aborted", job[j].pc # "aborted"
    PROVE  CountersInv'
<1> DEFINE p == Pending(l) - Pending(job[j].pc)
           u == Inflight(l) - Inflight(job[j].pc)
           q == Cardinality(InQueue)  g == Cardinality(Large)
           n == Cardinality(Uploading)  o == Cardinality(Outside)
<1>1. p \in -1 .. 1 /\ u \in -1 .. 1  BY DEF Pending, Inflight
<1>2. Beside(l) - Beside(job[j].pc) = p - u  BY DEF Pending, Inflight, Beside, Counted
<1>3. q \in Nat /\ g \in Nat /\ n \in Nat /\ o \in Nat  BY CountsAreNat
<1>4. Pending(l) \in 0 .. 1 /\ Pending(job[j].pc) \in 0 .. 1 /\ Inflight(l) \in 0 .. 1 /\ Inflight(job[j].pc) \in 0 .. 1
      /\ Beside(l) \in 0 .. 1 /\ Beside(job[j].pc) \in 0 .. 1
  BY DEF Pending, Inflight, Beside
<1>5. q' = q + p /\ n' = n + u /\ o' = o + (p - u)  BY <1>2, <1>3, <1>4, CountsMoved
<1>6. g' = g + p * (Size(Art(j)) - 1)
  <2>1. CASE Art(j) \in Big
    <3>1. Size(Art(j)) = 2 /\ g' = g + p  BY <1>3, <1>4, <2>1, CountsMoved DEF Size
    <3> QED  BY <1>1, <1>3, <3>1
  <2>2. CASE Art(j) \notin Big
    <3>1. Size(Art(j)) = 1 /\ g' = g  BY <2>2, CountsMoved DEF Size
    <3> QED  BY <1>1, <1>3, <3>1
  <2> QED  BY <2>1, <2>2
<1>7. /\ stats.pending = q /\ stats.pending_bytes = q + g
      /\ stats.inflight >= n /\ stats.inflight + o <= stats.pending /\ stats.inflight \in Int
  BY DEF CountersInv
<1>8. /\ stats'.pending = stats.pending + p /\ stats'.pending_bytes = stats.pending_bytes + p * Size(Art(j))
      /\ stats'.inflight = stats.inflight + u /\ stats' \in [pending : Int, pending_bytes : Int, inflight : Int]
  BY <1>4, <1>7 DEF Follows
<1>9. Size(Art(j)) \in 1 .. 2  BY SizeType, JobFacts
<1>10. p * Size(Art(j)) = p + p * (Size(Art(j)) - 1)
  BY <1>1, <1>9
<1>11. q' = Cardinality(InQueue)' /\ g' = Cardinality(Large)' /\ n' = Cardinality(Uploading)' /\ o' = Cardinality(Outside)'
  OBVIOUS
<1> DEFINE z == p * (Size(Art(j)) - 1)
<1>12. z \in Int  BY <1>1, <1>9
<1> HIDE DEF p, u, q, g, n, o, z
<1>13. stats'.pending = q' /\ stats'.pending_bytes = q' + g' /\ stats'.inflight >= n' /\ stats'.inflight + o' <= stats'.pending
  BY <1>1, <1>3, <1>5, <1>6, <1>7, <1>8, <1>10, <1>12 DEF z
<1> QED  BY <1>8, <1>11, <1>13 DEF CountersInv

StatsType == [pending : Int, pending_bytes : Int, inflight : Int]

Counters(s, a, b) == [s EXCEPT !.pending = a, !.pending_bytes = b]
LEMMA CountersFields ==
    ASSUME NEW s \in StatsType, NEW a \in Int, NEW b \in Int
    PROVE  /\ Counters(s, a, b) \in StatsType /\ Counters(s, a, b).pending = a
           /\ Counters(s, a, b).pending_bytes = b /\ Counters(s, a, b).inflight = s.inflight
BY DEF Counters, StatsType

LEMMA CountInFacts ==
    ASSUME stats \in StatsType, NEW n \in Int, stats' = CountIn(n)
    PROVE  /\ stats' \in StatsType /\ stats'.pending = stats.pending + 1
           /\ stats'.pending_bytes = stats.pending_bytes + n /\ stats'.inflight = stats.inflight
<1>1. stats.pending \in Int /\ stats.pending_bytes \in Int /\ stats.inflight \in Int  BY DEF StatsType
<1>2. stats' = Counters(stats, stats.pending + 1, stats.pending_bytes + n)
  BY DEF CountIn, Counters
<1> QED  BY <1>1, <1>2, CountersFields

LEMMA CountOutFacts ==
    ASSUME stats \in StatsType, NEW n \in Int, stats' = CountOut(n)
    PROVE  /\ stats' \in StatsType /\ stats'.pending = stats.pending - 1
           /\ stats'.pending_bytes = stats.pending_bytes - n /\ stats'.inflight = stats.inflight
<1>1. stats.pending \in Int /\ stats.pending_bytes \in Int /\ stats.inflight \in Int  BY DEF StatsType
<1>2. stats' = Counters(stats, stats.pending - 1, stats.pending_bytes - n)
  BY DEF CountOut, Counters
<1> QED  BY <1>1, <1>2, CountersFields

\* An item is counted in, is counted out, or is in the queue before and after, not under upload.
LEMMA CountedIn ==
    ASSUME CountersInv, NEW j \in Jobs, NEW l \in {"counted"}, NEW k, NEW b, Moved(j, l, k, b),
           job[j].pc \in {"admitted", "idle"}, stats' = CountIn(Size(Art(j)))
    PROVE  CountersInv'
<1>1. Size(Art(j)) \in 1 .. 2  BY SizeType, JobFacts
<1>2. Pending(l) - Pending(job[j].pc) = 1 /\ Inflight(l) = 0 /\ Inflight(job[j].pc) = 0
  BY DEF Pending, Inflight, Counted
<1>3. stats \in StatsType  BY DEF CountersInv, StatsType
<1>4. Follows(j, l)  BY <1>1, <1>2, <1>3, CountInFacts DEF Follows, StatsType
<1> QED  BY <1>4, CountersMoved

LEMMA CountedOut ==
    ASSUME CountersInv, NEW j \in Jobs, NEW l \in {"done", "inline"}, NEW k, NEW b, Moved(j, l, k, b),
           job[j].pc \in {"counted", "settling"}, stats' = CountOut(Size(Art(j)))
    PROVE  CountersInv'
<1>1. Size(Art(j)) \in 1 .. 2  BY SizeType, JobFacts
<1>2. Pending(l) - Pending(job[j].pc) = -1 /\ Inflight(l) = 0 /\ Inflight(job[j].pc) = 0
  BY DEF Pending, Inflight, Counted
<1>3. stats \in StatsType  BY DEF CountersInv, StatsType
<1>4. Follows(j, l)  BY <1>1, <1>2, <1>3, CountOutFacts DEF Follows, StatsType
<1> QED  BY <1>4, CountersMoved

LEMMA CountedSame ==
    ASSUME CountersInv, NEW j \in Jobs, NEW l, NEW k, NEW b, Moved(j, l, k, b), UNCHANGED stats,
           Pending(l) = Pending(job[j].pc), Inflight(l) = Inflight(job[j].pc),
           l # "aborted", job[j].pc # "aborted"
    PROVE  CountersInv'
<1>1. Size(Art(j)) \in 1 .. 2  BY SizeType, JobFacts
<1>2. Pending(l) \in 0 .. 1 /\ Inflight(l) \in 0 .. 1  BY DEF Pending, Inflight
<1>3. stats \in StatsType  BY DEF CountersInv, StatsType
<1>4. Follows(j, l)  BY <1>1, <1>2, <1>3 DEF Follows, StatsType
<1> QED  BY <1>4, CountersMoved

LEMMA CountersCaller ==
    ASSUME Shape, ItemInv, CountersInv, NEW i \in Items, OfCaller(i) PROVE CountersInv'
<1>0. Own(i) \in Jobs /\ Art(Own(i)) = i /\ job \in [Jobs -> Item]  BY JobFacts DEF Shape
<1>1. ASSUME NEW k \in Kinds, Submit(i, k) PROVE CountersInv'
  <2>1. PICK l \in {"done", "inline", "admitted"} : job' = [job EXCEPT ![Own(i)].pc = l, ![Own(i)].kind = k]
    BY <1>1 DEF Submit
  <2>2. Moved(Own(i), l, k, job[Own(i)].bytes)  BY <1>0, <2>1, SubmitMoves
  <2>3. At(Own(i), "idle") /\ UNCHANGED stats  BY <1>1 DEF Submit, ItemInv, Good, OneItem
  <2> QED  BY <1>0, <2>2, <2>3, CountedSame DEF At, Pending, Inflight, Counted
<1>2. CASE WriteError(i)
  <2>1. Ends(Own(i), "done") /\ At(Own(i), "admitted") /\ UNCHANGED stats
    BY <1>0, <1>2, EndMoves DEF WriteError, Refused
  <2> QED  BY <1>0, <2>1, CountedSame DEF Ends, At, Pending, Inflight, Counted
<1>3. CASE InlineEnd(i)
  <2>1. Ends(Own(i), "done") /\ At(Own(i), "streaming") /\ UNCHANGED stats
    BY <1>0, <1>3, EndMoves DEF InlineEnd
  <2> QED  BY <1>0, <2>1, CountedSame DEF Ends, At, Pending, Inflight, Counted
<1>4. CASE InlineStart(i)
  <2>1. Steps(Own(i), "streaming") /\ At(Own(i), "inline") /\ UNCHANGED stats
    BY <1>0, <1>4, GotoMoves DEF InlineStart, InlineTask
  <2> QED  BY <1>0, <2>1, CountedSame DEF Steps, At, Pending, Inflight, Counted
<1>5. CASE Count(i)
  <2>1. Steps(Own(i), "counted") /\ At(Own(i), "admitted") /\ stats' = CountIn(Size(i))
    BY <1>0, <1>5, GotoMoves DEF Count, Live, Counted
  <2> QED  BY <1>0, <2>1, CountedIn DEF Steps, At
<1>6. CASE RefusedClosed(i)
  <2>1. /\ Ends(Own(i), "done") \/ Ends(Own(i), "inline")
        /\ At(Own(i), "counted") /\ stats' = CountOut(Size(i))
    BY <1>0, <1>6, EndMoves DEF RefusedClosed, Refused
  <2> QED  BY <1>0, <2>1, CountedOut DEF Ends, At
<1>7. CASE RefusedFull(i)
  <2>1. Steps(Own(i), "inline") /\ At(Own(i), "counted") /\ stats' = CountOut(Size(i))
    BY <1>0, <1>7, GotoMoves DEF RefusedFull, InlineTask
  <2> QED  BY <1>0, <2>1, CountedOut DEF Steps, At
<1>8. ASSUME NEW k \in Kinds, WriteFails(i, k) PROVE CountersInv'
  <2>1. Ends(Own(i), "torn") /\ At(Own(i), "idle") /\ UNCHANGED stats  BY <1>8, TornMoves DEF ItemInv
  <2> QED  BY <1>0, <2>1, CountedSame DEF Ends, At, Pending, Inflight, Counted
<1> QED  BY <1>1, <1>2, <1>3, <1>4, <1>5, <1>6, <1>7, <1>8 DEF OfCaller

LEMMA CountersFrame == ASSUME CountersInv, UNCHANGED <<job, stats>> PROVE CountersInv'
BY DEF CountersInv, InQueue, Large, Uploading, Outside

LEMMA CountersScan ==
    ASSUME Shape, ItemInv, CountersInv, NEW i \in Items, OfScan(i) PROVE CountersInv'
<1>0. Rec(i) \in Jobs /\ Art(Rec(i)) = i /\ job \in [Jobs -> Item]  BY JobFacts DEF Shape
<1>1. CASE UNCHANGED <<job, stats>>  BY <1>1, CountersFrame
<1>2. CASE ScanEnqueues(i) /\ Goto(Rec(i), "counted") /\ stats' = CountIn(Size(i))
  <2>1. Steps(Rec(i), "counted")  BY <1>0, <1>2, GotoMoves DEF Live, Counted
  <2>2. At(Rec(i), "idle")  BY <1>2 DEF ScanEnqueues, ItemInv, Good, OneItem
  <2> QED  BY <1>0, <1>2, <2>1, <2>2, CountedIn DEF Steps, At
<1>3. CASE RecoveredRefused(i)
  <2>1. Steps(Rec(i), "done") /\ At(Rec(i), "counted") /\ stats' = CountOut(Size(i))
    BY <1>0, <1>3, GotoMoves DEF RecoveredRefused
  <2> QED  BY <1>0, <2>1, CountedOut DEF Steps, At
<1> QED  BY <1>1, <1>2, <1>3 DEF OfScan, ScanDrops, ScanEnqueues

LEMMA CountersTask ==
    ASSUME Shape, ItemInv, CountersInv, NEW j \in Jobs, OfTask(j) PROVE CountersInv'
<1>s. stats \in StatsType  BY DEF CountersInv, StatsType
<1>z. Size(Art(j)) \in 1 .. 2  BY SizeType, JobFacts
<1>1. CASE Sent(j)
  <2>1. Steps(j, "queued") /\ At(j, "counted") /\ UNCHANGED stats
    BY <1>1, GotoMoves DEF Sent, Shape, Live, Counted
  <2> QED  BY <2>1, CountedSame DEF Steps, At, Pending, Inflight, Counted
<1>2. CASE SettleInflight(j)
  <2>1. Steps(j, "settling") /\ At(j, "unlinked")
    BY <1>2, GotoMoves DEF SettleInflight, Shape, Live, Counted
  <2>2. /\ stats' \in StatsType /\ stats'.pending = stats.pending
        /\ stats'.pending_bytes = stats.pending_bytes /\ stats'.inflight = stats.inflight - 1
    BY <1>2, <1>s DEF SettleInflight, StatsType
  <2>3. Pending("settling") - Pending(job[j].pc) = 0 /\ Inflight("settling") = 0 /\ Inflight(job[j].pc) = 1
    BY <2>1 DEF At, Pending, Inflight, Counted
  <2>4. Follows(j, "settling")  BY <1>s, <1>z, <2>2, <2>3 DEF Follows, StatsType
  <2> QED  BY <2>1, <2>4, CountersMoved DEF Steps, At
<1>3. CASE SettlePending(j)
  <2>1. Ends(j, "done") /\ At(j, "settling") /\ stats' = CountOut(job[j].bytes)
    BY <1>3, EndMoves DEF SettlePending, Shape
  <2>2. job[j].bytes = Size(Art(j))  BY <2>1, SizedNow DEF At, Sized
  <2> QED  BY <2>1, <2>2, CountedOut DEF Ends, At
<1>4. ASSUME NEW l \in Worked, Works(j, l) PROVE CountersInv'
  <2>1. Moved(j, l, job[j].kind, Size(Art(j)))  BY <1>4 DEF Works
  <2>2. CASE At(j, "spawned")
    <3>1. /\ stats' \in StatsType /\ stats'.pending = stats.pending
          /\ stats'.pending_bytes = stats.pending_bytes /\ stats'.inflight = stats.inflight + 1
      BY <1>4, <1>s, <2>2 DEF Works, StatsType
    <3>2. Pending(l) - Pending(job[j].pc) = 0 /\ Inflight(l) = 1 /\ Inflight(job[j].pc) = 0
      BY <2>2 DEF At, Worked, Pending, Inflight, Counted
    <3>3. Follows(j, l)  BY <1>s, <1>z, <3>1, <3>2 DEF Follows, StatsType
    <3> QED  BY <2>1, <2>2, <3>3, CountersMoved DEF At, Worked
  <2>3. CASE ~At(j, "spawned")
    <3>1. UNCHANGED stats /\ job[j].pc \in {"trying", "parked", "woken", "reacquire"}
      BY <1>4, <2>3 DEF Works, At
    <3> QED  BY <2>1, <3>1, CountedSame DEF Worked, Pending, Inflight, Counted
  <2> QED  BY <2>2, <2>3
<1> QED  BY <1>1, <1>2, <1>3, <1>4 DEF OfTask

LEMMA CountersTimeout == ASSUME Shape, CountersInv, DrainTimeout PROVE CountersInv'
<1>1. \A j \in Jobs : \/ job[j].pc \in Awaiting /\ job'[j].pc = "aborted"
                      \/ job'[j].pc = job[j].pc
  BY TimeoutMoves DEF Dropped
<1>2. InQueue' = InQueue /\ Large' = Large
  <2>1. \A j \in Jobs : job'[j].pc \in Counted \cup {"aborted"} <=> job[j].pc \in Counted \cup {"aborted"}
    BY <1>1 DEF Awaiting, Counted
  <2>2. InQueue' = InQueue  BY <2>1 DEF InQueue
  <2> QED  BY <2>2 DEF Large
<1>3. Uploading' \subseteq Uploading /\ Outside' \subseteq Outside  BY <1>1 DEF Uploading, Outside
<1>4. /\ Cardinality(Uploading') \in Nat /\ Cardinality(Outside') \in Nat
      /\ Cardinality(Uploading') <= Cardinality(Uploading) /\ Cardinality(Outside') <= Cardinality(Outside)
  BY <1>3, CountsAreNat, FS_Subset, FS_CardinalityType
<1>5. UNCHANGED stats  BY DEF DrainTimeout
<1>6. /\ stats.inflight \in Int /\ stats.pending \in Int
      /\ stats.inflight >= Cardinality(Uploading)
      /\ stats.inflight + Cardinality(Outside) <= stats.pending
  BY DEF CountersInv
<1>7. stats.inflight >= Cardinality(Uploading') /\ stats.inflight + Cardinality(Outside') <= stats.pending
  BY <1>4, <1>6, CountsAreNat
<1> QED  BY <1>2, <1>5, <1>7 DEF CountersInv

LEMMA CountersEmpty ==
    ASSUME \A j \in Jobs : job[j].pc = "idle", stats = NoStats PROVE CountersInv
<1>1. InQueue = {} /\ Uploading = {} /\ Outside = {}  BY DEF InQueue, Uploading, Outside, Counted
<1>2. Large = {}  BY <1>1 DEF Large
<1> QED  BY <1>1, <1>2, FS_EmptySet DEF CountersInv, NoStats

LEMMA CountersCrash == ASSUME Crash PROVE CountersInv'
<1>0. \A j \in Jobs : job'[j].pc = "idle"  BY FreshIs DEF Crash, Is
<1>1. InQueue' = {} /\ Uploading' = {} /\ Outside' = {}  BY <1>0 DEF InQueue, Uploading, Outside, Counted
<1>2. Large' = {}  BY <1>1 DEF Large
<1>3. stats' = NoStats  BY DEF Crash
<1> QED  BY <1>1, <1>2, <1>3, FS_EmptySet DEF CountersInv, NoStats

LEMMA CountersStep ==
    ASSUME Shape, ItemInv, ChannelInv, CountersInv, [Next]_vars PROVE CountersInv'
<1>1. CASE Quiet \/ ScanStarts
  <2>1. UNCHANGED <<job, stats>>  BY <1>1 DEF Quiet, ScanStarts
  <2> QED  BY <2>1, CountersFrame
<1>2. CASE Receive
  <2>1. Head(chan) \in Jobs /\ At(Head(chan), "queued") /\ Steps(Head(chan), "held") /\ UNCHANGED stats
    BY <1>2, ReceiveMoves DEF Receive
  <2> QED  BY <2>1, CountedSame DEF Steps, At, Pending, Inflight, Counted
<1>3. CASE Dispatch
  <2>1. held \in Jobs /\ At(held, "held") /\ Steps(held, "spawned") /\ UNCHANGED stats
    BY <1>3, DispatchHand DEF Dispatch
  <2> QED  BY <2>1, CountedSame DEF Steps, At, Pending, Inflight, Counted
<1> QED
  BY <1>1, <1>2, <1>3, StepKinds, CountersCaller, CountersScan, CountersTask, CountersTimeout, CountersCrash
  DEF OfQueue

-----------------------------------------------------------------------------
(* Types                                                                   *)
ShapeOfQueue ==
    /\ job \in [Jobs -> Item]
    /\ chan \in Seq(Jobs) /\ Len(chan) <= Capacity /\ held \in Jobs \cup {NoJob}
    /\ marked \in BOOLEAN /\ scanned \in BOOLEAN /\ crashes \in 0 .. MaxCrashes
    /\ {called, temp, side, scan, owed} \subseteq SUBSET Items
ShapeOfWorker ==
    /\ worker \in {"select", "cooldown", "drain", "join", "gone"}
    /\ shutdown \in BOOLEAN /\ closed \in BOOLEAN
    /\ failures \in 0 .. Threshold /\ waiting \in SUBSET Items

LEMMA ShapeParts == Shape <=> ShapeOfQueue /\ ShapeOfWorker
BY DEF Shape, ShapeOfQueue, ShapeOfWorker

LEMMA QueueMoved ==
    ASSUME ShapeOfQueue, NEW j \in Jobs, NEW l, NEW k, NEW b, Moved(j, l, k, b),
           UNCHANGED <<chan, held, scanned, crashes>>, marked' \in BOOLEAN,
           {called', temp', side', scan', owed'} \subseteq SUBSET Items
    PROVE  ShapeOfQueue'
BY DEF ShapeOfQueue, Moved

LEMMA QueueCaller == ASSUME ShapeOfQueue, NEW i \in Items, OfCaller(i) PROVE ShapeOfQueue'
<1>0. Own(i) \in Jobs /\ job \in [Jobs -> Item] /\ marked \in BOOLEAN  BY JobFacts DEF ShapeOfQueue
<1>1. UNCHANGED <<chan, held, scanned, crashes>>
  BY DEF OfCaller, Submit, WriteFails, WriteError, Count, RefusedClosed, RefusedFull, InlineStart, InlineEnd, loop, recovery
<1>2. {called', temp', side', scan', owed'} \subseteq SUBSET Items
  BY DEF OfCaller, Submit, WriteFails, WriteError, Count, RefusedClosed, RefusedFull, InlineStart, InlineEnd, caller,
         disk, recovery, ShapeOfQueue
<1>3. marked' \in BOOLEAN
  BY <1>0, Zenon
  DEF OfCaller, Submit, WriteFails, WriteError, Count, RefusedClosed, RefusedFull, InlineStart, InlineEnd, Refused, Unmarked
<1>4. \E l, k, b : Moved(Own(i), l, k, b)
  <2>1. ASSUME NEW k \in Kinds, Submit(i, k) PROVE \E l, m, b : Moved(Own(i), l, m, b)
    <3>1. PICK l \in {"done", "inline", "admitted"} : job' = [job EXCEPT ![Own(i)].pc = l, ![Own(i)].kind = k]
      BY <2>1 DEF Submit
    <3> QED  BY <1>0, <3>1, SubmitMoves
  <2>2. CASE WriteError(i) \/ RefusedClosed(i) \/ InlineEnd(i)
    <3>1. Ends(Own(i), "done") \/ Ends(Own(i), "inline")
      BY <1>0, <2>2, EndMoves DEF WriteError, RefusedClosed, InlineEnd, Refused
    <3> QED  BY <3>1 DEF Ends
  <2>3. CASE Count(i) \/ RefusedFull(i) \/ InlineStart(i)
    <3>1. Steps(Own(i), "counted") \/ Steps(Own(i), "inline") \/ Steps(Own(i), "streaming")
      BY <1>0, <2>3, GotoMoves DEF Count, RefusedFull, InlineStart, Live, Counted, InlineTask
    <3> QED  BY <3>1 DEF Steps
  <2>4. ASSUME NEW k \in Kinds, WriteFails(i, k) PROVE \E l, m, b : Moved(Own(i), l, m, b)
    <3>1. Ends(Own(i), "torn")  BY <1>0, <2>4, EndMoves DEF WriteFails
    <3> QED  BY <3>1 DEF Ends
  <2> QED  BY <2>1, <2>2, <2>3, <2>4 DEF OfCaller
<1> QED  BY <1>0, <1>1, <1>2, <1>3, <1>4, QueueMoved

LEMMA QueueScan == ASSUME ShapeOfQueue, NEW i \in Items, OfScan(i) PROVE ShapeOfQueue'
<1>0. Rec(i) \in Jobs /\ job \in [Jobs -> Item]  BY JobFacts DEF ShapeOfQueue
<1>1. UNCHANGED <<chan, held, marked, scanned, crashes>>
  BY DEF OfScan, RecoveredRefused, ScanDrops, ScanEnqueues, loop, recovery
<1>2. {called', temp', side', scan', owed'} \subseteq SUBSET Items
  BY DEF OfScan, RecoveredRefused, ScanDrops, ScanEnqueues, caller, disk, recovery, ShapeOfQueue
<1>3. CASE UNCHANGED job  BY <1>1, <1>2, <1>3 DEF ShapeOfQueue
<1>4. CASE Goto(Rec(i), "counted") \/ Goto(Rec(i), "done")
  <2>1. Steps(Rec(i), "counted") \/ Steps(Rec(i), "done")  BY <1>0, <1>4, GotoMoves DEF Live, Counted
  <2> QED  BY <1>0, <1>1, <1>2, <2>1, QueueMoved DEF Steps, ShapeOfQueue
<1> QED  BY <1>3, <1>4 DEF OfScan, ScanDrops, ScanEnqueues, RecoveredRefused

LEMMA QueueTask == ASSUME ShapeOfQueue, NEW j \in Jobs, OfTask(j) PROVE ShapeOfQueue'
<1>0. Art(j) \in Items /\ job \in [Jobs -> Item] /\ marked \in BOOLEAN  BY JobFacts DEF ShapeOfQueue
<1>1. CASE Sent(j)
  <2>1. Steps(j, "queued")  BY <1>0, <1>1, GotoMoves DEF Sent, Live, Counted
  <2>2. chan' \in Seq(Jobs) /\ Len(chan') <= Capacity
    <3>1. Len(chan) \in Nat /\ Len(chan) < Capacity /\ Capacity \in Nat /\ Len(chan') = Len(chan) + 1
      BY <1>1, QueueAssumption DEF Sent, ShapeOfQueue
    <3>2. chan' \in Seq(Jobs)  BY <1>1 DEF Sent, ShapeOfQueue
    <3> QED  BY <3>1, <3>2
  <2>3. {called', temp', side', scan', owed'} \subseteq SUBSET Items
    BY <1>0, <1>1 DEF Sent, caller, disk, recovery, ShapeOfQueue
  <2>4. UNCHANGED <<held, marked, scanned, crashes>>  BY <1>1 DEF Sent, recovery
  <2> QED  BY <2>1, <2>2, <2>3, <2>4 DEF ShapeOfQueue, Steps, Moved
<1>2. CASE SettleInflight(j)
  <2>1. Steps(j, "settling")  BY <1>0, <1>2, GotoMoves DEF SettleInflight, Live, Counted
  <2>2. UNCHANGED <<called, chan, held, marked, temp, scan, scanned, crashes, owed>> /\ side' = side \ {Art(j)}
    BY <1>2 DEF SettleInflight, loop, recovery
  <2>3. {called', temp', side', scan', owed'} \subseteq SUBSET Items  BY <2>2 DEF ShapeOfQueue
  <2> QED  BY <1>0, <2>1, <2>2, <2>3, QueueMoved DEF Steps
<1>3. CASE SettlePending(j)
  <2>1. Ends(j, "done")  BY <1>0, <1>3, EndMoves DEF SettlePending
  <2>2. UNCHANGED <<called, chan, held, temp, side, scan, scanned, crashes, owed>>
    BY <1>3 DEF SettlePending, loop, recovery, disk
  <2>3. {called', temp', side', scan', owed'} \subseteq SUBSET Items  BY <2>2 DEF ShapeOfQueue
  <2>4. marked' \in BOOLEAN  BY <1>0, <1>3, Zenon DEF SettlePending, Unmarked
  <2> QED  BY <2>1, <2>2, <2>3, <2>4, QueueMoved DEF Ends
<1>4. ASSUME NEW l \in Worked, Works(j, l) PROVE ShapeOfQueue'
  <2>1. Moved(j, l, job[j].kind, Size(Art(j)))  BY <1>4 DEF Works
  <2>2. /\ UNCHANGED <<called, chan, held, marked, side, scan, scanned, crashes>>
        /\ temp' \in SUBSET Items /\ owed' \in SUBSET Items
    BY <1>4 DEF Works, recovery, ShapeOfQueue
  <2>3. {called', temp', side', scan', owed'} \subseteq SUBSET Items  BY <2>2 DEF ShapeOfQueue
  <2> QED  BY <1>0, <2>1, <2>2, <2>3, QueueMoved
<1> QED  BY <1>1, <1>2, <1>3, <1>4 DEF OfTask

LEMMA FreshType == [j \in Jobs |-> Fresh] \in [Jobs -> Item]
BY FreshIs DEF Is

LEMMA QueueStep == ASSUME Shape, ItemInv, ChannelInv, [Next]_vars PROVE ShapeOfQueue'
<1>0. ShapeOfQueue  BY ShapeParts
<1>1. CASE Quiet  BY <1>0, <1>1 DEF Quiet, ShapeOfQueue, disk, recovery
<1>2. CASE ScanStarts
  BY <1>0, <1>2 DEF ScanStarts, ShapeOfQueue, caller, disk, loop
<1>3. CASE Receive
  <2>1. Head(chan) \in Jobs /\ Steps(Head(chan), "held")  BY <1>3, ReceiveMoves
  <2>2. chan' \in Seq(Jobs) /\ Len(chan') <= Capacity /\ held' \in Jobs
    <3>1. chan \in Seq(Jobs) /\ chan # <<>> /\ chan' = Tail(chan) /\ Len(chan) <= Capacity
      BY <1>0, <1>3 DEF Receive, ShapeOfQueue
    <3>2. chan' \in Seq(Jobs) /\ Len(chan') = Len(chan) - 1 /\ Len(chan) \in Nat  BY <3>1
    <3> QED  BY <1>3, <2>1, <3>1, <3>2, QueueAssumption DEF Receive
  <2>3. UNCHANGED <<called, marked, temp, side, scan, scanned, crashes, owed>>
    BY <1>3 DEF Receive, caller, disk, recovery
  <2> QED  BY <1>0, <2>1, <2>2, <2>3 DEF ShapeOfQueue, Steps, Moved
<1>4. CASE Dispatch
  <2>1. held \in Jobs /\ Steps(held, "spawned")  BY <1>4, DispatchHand
  <2>2. held' = NoJob /\ UNCHANGED <<called, chan, marked, temp, side, scan, scanned, crashes, owed>>
    BY <1>4 DEF Dispatch, caller, disk, recovery
  <2> QED  BY <1>0, <2>1, <2>2 DEF ShapeOfQueue, Steps, Moved
<1>5. CASE DrainTimeout
  <2>1. job' \in [Jobs -> Item]  BY <1>5, TimeoutMoves
  <2>2. chan' = <<>> /\ held' = NoJob /\ UNCHANGED <<called, temp, side, scan, scanned, crashes, owed>>
    BY <1>5 DEF DrainTimeout, disk, recovery
  <2>3. marked' \in BOOLEAN  BY <1>5, Zenon DEF DrainTimeout
  <2> QED  BY <1>0, <2>1, <2>2, <2>3, QueueAssumption DEF ShapeOfQueue
<1>6. CASE Crash
  <2>1. job' \in [Jobs -> Item]  BY <1>6, FreshType DEF Crash
  <2>2. /\ chan' = <<>> /\ held' = NoJob /\ marked' = FALSE /\ scanned' = FALSE /\ scan' = {}
        /\ UNCHANGED <<called, temp, side, owed>>
    BY <1>6 DEF Crash, disk
  <2>3. crashes' \in 0 .. MaxCrashes  BY <1>0, <1>6, QueueAssumption DEF Crash, ShapeOfQueue
  <2>4. marked' \in BOOLEAN /\ scanned' \in BOOLEAN  BY <2>2, Zenon
  <2>5. chan' \in Seq(Jobs) /\ Len(chan') <= Capacity /\ held' \in Jobs \cup {NoJob}  BY <2>2, QueueAssumption
  <2>6. {called', temp', side', scan', owed'} \subseteq SUBSET Items  BY <1>0, <2>2 DEF ShapeOfQueue
  <2> QED  BY <2>1, <2>3, <2>4, <2>5, <2>6 DEF ShapeOfQueue
<1> QED  BY <1>0, <1>1, <1>2, <1>3, <1>4, <1>5, <1>6, StepKinds, QueueCaller, QueueScan, QueueTask DEF OfQueue

LEMMA WorkerStep == ASSUME ShapeOfWorker, [Next]_vars PROVE ShapeOfWorker'
<1> USE DEF ShapeOfWorker, loop, caller
<1>0. Threshold \in Nat \ {0}  BY QueueAssumption
<1>1. ASSUME NEW i \in Items, OfCaller(i) PROVE ShapeOfWorker'
  BY <1>1 DEF OfCaller, Submit, WriteFails, WriteError, Count, RefusedClosed, RefusedFull, InlineStart, InlineEnd, Refused
<1>2. ASSUME NEW i \in Items, OfScan(i) PROVE ShapeOfWorker'
  BY <1>2 DEF OfScan, RecoveredRefused, ScanDrops, ScanEnqueues
<1>3. ASSUME NEW j \in Jobs, Sent(j) \/ Begin(j) \/ Woken(j) \/ Reacquire(j) \/ Settle(j) PROVE ShapeOfWorker'
  BY <1>3 DEF Sent, Begin, Woken, Reacquire, Settle, SettleInflight, SettlePending, Notified
<1>4. ASSUME NEW j \in Jobs, Attempt(j) PROVE ShapeOfWorker'
  BY <1>0, <1>4
  DEF Attempt, AttemptSucceeds, AttemptTerminal, AttemptFails, AttemptUnauthorized, GiveUp
<1>5. ASSUME NEW j \in Jobs, ParkEnds(j) PROVE ShapeOfWorker'  BY <1>0, <1>5 DEF ParkEnds, GiveUp
<1>6. ASSUME NEW j \in Jobs, NEW w \in BOOLEAN, ParkWaits(j, w) PROVE ShapeOfWorker'
  BY <1>6 DEF ParkWaits, Notified
<1>7. CASE Worker \/ Dispatch
  <2>1. shutdown' \in BOOLEAN /\ closed' \in BOOLEAN
    BY <1>7, Zenon DEF Worker, Dispatch, CoolDownEnds, SeesShutdown, Receive, Drained, Joined
  <2>2. /\ worker' \in {"select", "cooldown", "drain", "join", "gone"}
        /\ failures' \in 0 .. Threshold /\ waiting' \in SUBSET Items
    BY <1>0, <1>7 DEF Worker, Dispatch, CoolDownEnds, SeesShutdown, Receive, Drained, Joined
  <2> QED  BY <2>1, <2>2
<1>8. CASE ScanStarts  BY <1>8 DEF ScanStarts
<1>9. CASE Shutdown  BY <1>9 DEF Shutdown
<1>10. CASE DrainTimeout  BY <1>10 DEF DrainTimeout
<1>11. CASE Crash
  <2>1. shutdown' \in BOOLEAN /\ closed' \in BOOLEAN  BY <1>11, Zenon DEF Crash
  <2>2. worker' = "select" /\ failures' = 0 /\ waiting' = {}  BY <1>11 DEF Crash
  <2> QED  BY <1>0, <2>1, <2>2
<1>12. CASE UNCHANGED vars  BY <1>12 DEF vars
<1> QED
  BY <1>1, <1>2, <1>3, <1>4, <1>5, <1>6, <1>7, <1>8, <1>9, <1>10, <1>11, <1>12
  DEF Next, Call, Inline, Advance, Scan, OfCaller, OfScan

-----------------------------------------------------------------------------
LEMMA InitIInv == Init => IInv
<1> SUFFICES ASSUME Init PROVE IInv  OBVIOUS
<1>1. \A j \in Jobs : job[j].pc = "idle" /\ job[j].kind = "none"  BY FreshIs DEF Init, Is
<1>2. Shape
  <2>1. job \in [Jobs -> Item]  BY FreshType DEF Init
  <2>2. shutdown \in BOOLEAN /\ closed \in BOOLEAN /\ marked \in BOOLEAN /\ scanned \in BOOLEAN
    BY Zenon DEF Init
  <2>3. /\ chan = <<>> /\ held = NoJob /\ worker = "select" /\ failures = 0 /\ crashes = 0
        /\ called = {} /\ waiting = {} /\ temp = {} /\ side = {} /\ scan = {} /\ owed = {}
    BY DEF Init
  <2> QED  BY <2>1, <2>2, <2>3, QueueAssumption DEF Shape
<1>3. ItemInv
  <2> SUFFICES ASSUME NEW i \in Items PROVE Good(i)  BY DEF ItemInv
  <2>1. At(Own(i), "idle") /\ At(Rec(i), "idle") /\ job[Rec(i)].kind = "none"  BY <1>1, JobFacts DEF At
  <2> QED  BY <2>1
    DEF Init, Good, OneItem, FileThere, NothingDue, FilesKept, Keeps, At, NeedsFile, Sized, Gone, InlineTask
<1>4. ChannelInv  BY DEF Init, ChannelInv
<1>5. MarkInv  BY MarkFresh DEF Init
<1>6. CountersInv  BY <1>1, CountersEmpty DEF Init
<1> QED  BY <1>2, <1>3, <1>4, <1>5, <1>6 DEF IInv

LEMMA NextIInv == IInv /\ [Next]_vars => IInv'
<1> SUFFICES ASSUME IInv, [Next]_vars PROVE IInv'  OBVIOUS
<1>1. Shape /\ ItemInv /\ ChannelInv /\ MarkInv /\ CountersInv  BY DEF IInv
<1>2. ShapeOfQueue' /\ ShapeOfWorker'  BY <1>1, QueueStep, WorkerStep, ShapeParts
<1>3. Shape'  BY <1>2 DEF Shape, ShapeOfQueue, ShapeOfWorker
<1> QED  BY <1>1, <1>3, ItemStep, ChannelStep, MarkStep, CountersStep DEF IInv

\* The inductive invariant of the queue: artifacts and files, channel, mark and counters.
THEOREM QueueInvariant == Spec => []IInv
BY InitIInv, NextIInv, PTL DEF Spec

LEMMA CountersType == IInv => TypeOK
<1> SUFFICES ASSUME IInv PROVE TypeOK  OBVIOUS
<1>1. /\ stats \in [pending : Int, pending_bytes : Int, inflight : Int]
      /\ stats.pending >= 0 /\ stats.pending_bytes >= 0 /\ stats.inflight >= 0
  BY CountsAreNat DEF IInv, CountersInv
<1>2. stats \in [pending : Nat, pending_bytes : Nat, inflight : Nat]  BY <1>1
<1>3. Shape  BY DEF IInv
<1>4. {shutdown, closed, marked, scanned} \subseteq BOOLEAN  BY <1>3, Zenon DEF Shape
<1> QED  BY <1>2, <1>3, <1>4 DEF TypeOK, Shape, Item

\* The channel stays within its capacity and no counter drops below zero, although an item is
\* counted by its caller and settled by its task.
THEOREM TypeCorrect == Spec => []TypeOK
BY QueueInvariant, CountersType, PTL

\* What the queue accepted with a sidecar and has not delivered or given up is on disk as a whole
\* pair, wherever the process stops: UploadQueueItem's files outlive it.
THEOREM NeverLost == Spec => []NothingLost
<1>1. IInv => NothingLost
  <2> SUFFICES ASSUME IInv, NEW i \in owed PROVE i \in temp \cap side  BY DEF NothingLost
  <2>1. i \in Items  BY DEF IInv, Shape
  <2> QED  BY <2>1 DEF IInv, ItemInv, Good, NothingDue
<1> QED  BY <1>1, QueueInvariant, PTL

\* pending, pending_bytes and inflight are what the queue holds at every moment between the
\* separate additions and subtractions of callers and tasks.
THEOREM CountersExact == Spec => []CountersAreExact
<1>1. IInv => CountersAreExact
  <2> SUFFICES ASSUME IInv PROVE CountersAreExact  OBVIOUS
  <2>1. stats.inflight <= stats.pending  BY CountsAreNat DEF IInv, CountersInv
  <2> QED  BY <2>1 DEF IInv, CountersInv, CountersAreExact, Large
<1> QED  BY <1>1, QueueInvariant, PTL

\* uploads_in_flight holds the content hash exactly while one queued item carries the mark.
THEOREM MarkOwned == Spec => []MarkHasOwner
<1>1. IInv => MarkHasOwner
  <2> SUFFICES ASSUME IInv PROVE MarkHasOwner  OBVIOUS
  <2> DEFINE Owners == {i \in Items : Tracked(i) /\ job[Own(i)].pc \in Live}
  <2>1. MarkInv  BY DEF IInv
  <2>2. CASE marked
    <3>1. PICK i \in Items : Owner(i)  BY <2>1, <2>2 DEF MarkInv
    <3>2. Owners = {i}  BY <2>1, <3>1 DEF MarkInv, Owner
    <3> QED  BY <2>2, <3>2, FS_Singleton DEF MarkHasOwner
  <2>3. CASE ~marked
    <3>1. Owners = {}  BY <2>1, <2>3 DEF MarkInv, Owner
    <3> QED  BY <2>3, <3>1, FS_EmptySet DEF MarkHasOwner
  <2> QED  BY <2>2, <2>3
<1> QED  BY <1>1, QueueInvariant, PTL

\* In a first life without an aborted worker every file in the queue directory belongs to an item
\* that will remove it, whatever the channel, the budget or the server refused, or is what a
\* failed write of the temp file left, which enqueue_core does not remove.
THEOREM NoFileStrays == Spec => []NoStrayFiles
<1>1. IInv => NoStrayFiles
  <2> SUFFICES ASSUME IInv, crashes = 0, \A j \in Jobs : ~At(j, "aborted"), NEW i \in temp \cup side
               PROVE  Keeps(i) \/ (At(Own(i), "torn") /\ i \notin side)
    BY DEF NoStrayFiles
  <2>1. i \in Items  BY DEF IInv, Shape
  <2> QED  BY <2>1, JobFacts DEF IInv, ItemInv, Good, FilesKept
<1> QED  BY <1>1, QueueInvariant, PTL

=============================================================================
