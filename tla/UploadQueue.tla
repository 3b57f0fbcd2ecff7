---------------------------- MODULE UploadQueue ----------------------------
(***************************************************************************)
(* The spill-to-disk upload queue of xai-file-utils and the recovery of    *)
(* its directory by xai-grok-workspace, in one process and its successors. *)
(*                                                                         *)
(* Callers hand artifacts to the queue with enqueue ("bytes"),             *)
(* enqueue_bytes_blocking ("durable") and enqueue_blocking ("blocking");   *)
(* run_startup_recovery hands it the pairs of an earlier life: Own(i) is   *)
(* the caller's UploadQueueItem for artifact i, Rec(i) the recovered one;  *)
(* both name the same two files, temp and sidecar.  A background           *)
(* worker takes items from a bounded channel and spawns a task for each;   *)
(* what the channel or the disk budget refuses is uploaded inline.  The    *)
(* process may stop at any point, keeping only its files.                  *)
(*                                                                         *)
(* Age is left open: an item or a pair may turn out to be expired at any   *)
(* check.  What the server answers, and when credentials recover, is open  *)
(* too.  The file-based enqueues, which nothing in the program calls, the  *)
(* sweep of files older than two hours and the opt-out purge are left out. *)
(* The recovery is over before the first call, as in the workspace; in the *)
(* shell it is detached and may overtake a call, which is not modelled.    *)
(***************************************************************************)
EXTENDS Integers, Sequences, FiniteSets, FiniteSetsExt

CONSTANTS Items,
          Addressed,      \* the items whose destination is one and the same content hash
          Big,            \* the items of two units, the others are of one
          Capacity,       \* CHANNEL_CAPACITY
          MaxConcurrent,  \* max_concurrent
          MaxBytes,       \* max_queue_bytes
          InlineTotal,    \* INLINE_FALLBACK_TOTAL_PERMITS
          MaxAttempts,    \* retry_policy.max_attempts
          Threshold,      \* CIRCUIT_BREAKER_THRESHOLD
          MaxCrashes      \* bound: times the process stops

ASSUME QueueAssumption ==
    /\ Addressed \subseteq Items /\ Big \subseteq Items /\ IsFiniteSet(Items)
    /\ {Capacity, MaxConcurrent, InlineTotal, MaxAttempts, Threshold} \subseteq Nat \ {0}
    /\ {MaxBytes, MaxCrashes} \subseteq Nat

Own(i) == <<i, "own">>
Rec(i) == <<i, "rec">>
Jobs == {Own(i) : i \in Items} \cup {Rec(i) : i \in Items}
Kinds == {"bytes", "durable", "blocking"}
NoJob == <<>>

VARIABLES called,    \* the artifacts handed over, in any life
          waiting,   \* those whose caller awaits its completion channel (enqueue_blocking)
          job,       \* the queue items
          chan,      \* the channel
          worker,    \* where upload_worker stands
          held,      \* the item dispatch_item waits to spawn
          shutdown,  \* shutdown_rx is ready: drain was called or the last handle dropped
          closed,    \* draining_flag, and the receiver closed
          failures,  \* consecutive_failures
          stats,     \* pending, pending_bytes and inflight
          marked,    \* uploads_in_flight holds the content hash
          temp, side, \* the files in the queue directory
          scan,      \* sidecars run_startup_recovery has still to visit
          scanned,   \* SPILL_RECONCILE_STATE: the recovery was claimed in this life
          crashes,   \* times the process stopped
          owed       \* history: accepted with a sidecar, not in the cloud and not given up
vars == <<called, waiting, job, chan, worker, held, shutdown, closed, failures, stats, marked, temp,
          side, scan, scanned, crashes, owed>>

caller == <<called, waiting>>
loop == <<chan, worker, held, shutdown, closed>>
disk == <<temp, side>>
recovery == <<scan, scanned>>

Art(j) == j[1]
IsOwn(j) == j[2] = "own"
At(j, l) == job[j].pc = l
Goto(j, l) == job' = [job EXCEPT ![j].pc = l]
Size(i) == IF i \in Big THEN 2 ELSE 1
Fresh == [pc |-> "idle", attempts |-> 0, auth_retried |-> FALSE,
          permit |-> FALSE, bytes |-> 0, kind |-> "none", expired |-> FALSE]
Ended(pc) == [Fresh EXCEPT !.pc = pc]
NoStats == [pending |-> 0, pending_bytes |-> 0, inflight |-> 0]

kind(i) == job[Own(i)].kind
Tracked(i) == i \in Addressed /\ kind(i) \in {"bytes", "durable"}
Sidecar(k) == k \in {"durable", "blocking"}
\* notify_completion: the caller, if it still waits, is told.
Notified(j) == IF IsOwn(j) THEN waiting \ {Art(j)} ELSE waiting
InlineTask == {"inline", "streaming"}
Counted == {"counted", "queued", "held", "spawned", "trying", "parked", "woken", "reacquire",
            "unlinked", "settling"}
Live == {"admitted"} \cup Counted

-----------------------------------------------------------------------------
(* Handing an artifact over                                                *)
over_disk_budget(n) == stats.pending_bytes + n > MaxBytes
CountIn(n) == [stats EXCEPT !.pending = @ + 1, !.pending_bytes = @ + n]
CountOut(n) == [stats EXCEPT !.pending = @ - 1, !.pending_bytes = @ - n]
\* Fault: a call that queues nothing keeps its mark.
KeptMark(i) == marked
\* InFlightGuard's drop.
Unmarked(i) == marked /\ ~Tracked(i)

Init ==
    /\ called = {} /\ waiting = {}
    /\ job = [j \in Jobs |-> Fresh]
    /\ chan = <<>> /\ worker = "select" /\ held = NoJob
    /\ shutdown = FALSE /\ closed = FALSE /\ failures = 0
    /\ stats = NoStats /\ marked = FALSE
    /\ temp = {} /\ side = {} /\ scan = {} /\ scanned = FALSE
    /\ crashes = 0 /\ owed = {}

RecoveryOver == scanned /\ scan = {} /\ \A i \in Items : ~At(Rec(i), "counted")

\* A call of enqueue, enqueue_bytes_blocking or enqueue_blocking up to the budget gate: the item
\* is a duplicate, goes inline (its temp file written and removed again), or is admitted.
Submit(i, k) ==
    /\ i \notin called /\ RecoveryOver
    /\ called' = called \cup {i}
    /\ waiting' = IF k = "blocking" THEN waiting \cup {i} ELSE waiting
    /\ LET tracked == i \in Addressed /\ k # "blocking"
           gated == k # "blocking" /\ over_disk_budget(Size(i))
           To(pc) == job' = [job EXCEPT ![Own(i)].pc = pc, ![Own(i)].kind = k]
       IN  \/ tracked /\ marked /\ To("done") /\ UNCHANGED <<marked, temp>>
           \/ ~(tracked /\ marked) /\ gated /\ To("inline") /\ UNCHANGED <<marked, temp>>
           \/ /\ ~(tracked /\ marked) /\ ~gated /\ To("admitted")
              /\ marked' = (marked \/ tracked) /\ temp' = temp \cup {i}
    /\ UNCHANGED <<loop, failures, stats, side, recovery, crashes, owed>>

\* The call is over without an item: the in-flight mark and the caller's channel go with it.
Refused(i, pc) ==
    /\ job' = [job EXCEPT ![Own(i)] = Ended(pc)]
    /\ marked' = Unmarked(i)
    /\ waiting' = waiting \ {i}

\* The temp file, which is written before the budget is looked at, cannot be written: the call ends
\* with its mark and its channel, and what the failed write left of the file stays ("torn").
WriteFails(i, k) ==
    /\ i \notin called /\ RecoveryOver
    /\ ~(i \in Addressed /\ k # "blocking" /\ marked)
    /\ called' = called \cup {i}
    /\ job' = [job EXCEPT ![Own(i)] = Ended("torn")]
    /\ temp' \in {temp, temp \cup {i}}
    /\ UNCHANGED <<waiting, loop, failures, stats, marked, side, recovery, crashes, owed>>

\* The sidecar cannot be written: the temp file is removed again.  The temporary file write_atomic
\* may leave behind is not modelled.
WriteError(i) ==
    /\ At(Own(i), "admitted") /\ Sidecar(kind(i))
    /\ Refused(i, "done")
    /\ temp' = temp \ {i}
    /\ UNCHANGED <<called, loop, failures, stats, side, recovery, crashes, owed>>

Count(i) ==
    /\ At(Own(i), "admitted")
    /\ Goto(Own(i), "counted")
    /\ side' = IF Sidecar(kind(i)) THEN side \cup {i} ELSE side
    /\ stats' = CountIn(Size(i))
    /\ UNCHANGED <<caller, loop, failures, marked, temp, recovery, crashes, owed>>

\* Fault: the channel is not bounded.
SentUnbounded(j) ==
    /\ At(j, "counted") /\ ~closed
    /\ Goto(j, "queued")
    /\ chan' = Append(chan, j)
    /\ owed' = IF Sidecar(job[j].kind) THEN owed \cup {Art(j)} ELSE owed
    /\ UNCHANGED <<caller, worker, held, shutdown, closed, failures, stats, marked, disk, recovery,
                   crashes>>

Sent(j) ==
    /\ At(j, "counted") /\ ~closed /\ Len(chan) < Capacity
    /\ Goto(j, "queued")
    /\ chan' = Append(chan, j)
    /\ owed' = IF Sidecar(job[j].kind) THEN owed \cup {Art(j)} ELSE owed
    /\ UNCHANGED <<caller, worker, held, shutdown, closed, failures, stats, marked, disk, recovery,
                   crashes>>

\* Fault: a closed queue removes the temp file only.
ClosedKeepsSidecar(i) ==
    /\ At(Own(i), "counted") /\ closed
    /\ Refused(i, IF kind(i) = "bytes" THEN "inline" ELSE "done")
    /\ temp' = temp \ {i}
    /\ stats' = CountOut(Size(i))
    /\ UNCHANGED <<called, loop, failures, side, recovery, crashes, owed>>

\* try_send found the worker gone: enqueue alone falls back to an inline upload.
RefusedClosed(i) ==
    /\ At(Own(i), "counted") /\ closed
    /\ Refused(i, IF kind(i) = "bytes" THEN "inline" ELSE "done")
    /\ temp' = temp \ {i} /\ side' = side \ {i}
    /\ stats' = CountOut(Size(i))
    /\ UNCHANGED <<called, loop, failures, recovery, crashes, owed>>

\* try_send found the channel full: the upload goes inline, without its sidecar; that of
\* enqueue_blocking takes the temp file and the caller's channel along.
RefusedFull(i) ==
    /\ At(Own(i), "counted") /\ ~closed /\ Len(chan) >= Capacity
    /\ Goto(Own(i), "inline")
    /\ temp' = IF kind(i) = "blocking" THEN temp ELSE temp \ {i}
    /\ side' = side \ {i}
    /\ stats' = CountOut(Size(i))
    /\ marked' = Unmarked(i)
    /\ UNCHANGED <<caller, loop, failures, recovery, crashes, owed>>

-----------------------------------------------------------------------------
(* The inline fallback, gated by the byte semaphore                        *)
\* Fault: a file larger than the budget asks for more permits than there are.
UnclampedPermits(i) == Size(i)
inline_fallback_permits(i) == IF Size(i) > InlineTotal THEN InlineTotal ELSE Size(i)
InlineTaken == LET On == {i \in Items : At(Own(i), "streaming")} IN
               MapThenSumSet(inline_fallback_permits, On)

InlineStart(i) ==
    /\ At(Own(i), "inline")
    /\ InlineTaken + inline_fallback_permits(i) <= InlineTotal
    /\ Goto(Own(i), "streaming")
    /\ UNCHANGED <<caller, loop, failures, stats, marked, disk, recovery, crashes, owed>>

\* One attempt, whatever its result.
InlineEnd(i) ==
    /\ At(Own(i), "streaming")
    /\ job' = [job EXCEPT ![Own(i)] = Ended("done")]
    /\ temp' = IF kind(i) = "blocking" THEN temp \ {i} ELSE temp
    /\ waiting' = waiting \ {i}
    /\ UNCHANGED <<called, loop, failures, stats, marked, side, recovery, crashes, owed>>

-----------------------------------------------------------------------------
(* upload_worker                                                           *)
FreePermits == MaxConcurrent - Cardinality({j \in Jobs : job[j].permit})
tasks == {j \in Jobs : job[j].pc \in Counted \ {"counted", "queued", "held"}}

CoolDownEnds ==
    /\ worker = "cooldown"
    /\ worker' = "select" /\ failures' = 0
    /\ UNCHANGED <<caller, job, chan, held, shutdown, closed, stats, marked, disk, recovery, crashes, owed>>

SeesShutdown ==
    /\ worker \in {"cooldown", "select"} /\ held = NoJob /\ shutdown
    /\ worker' = "drain" /\ closed' = TRUE
    /\ UNCHANGED <<caller, job, chan, held, shutdown, failures, stats, marked, disk, recovery, crashes, owed>>

Receive ==
    /\ worker \in {"select", "drain"} /\ held = NoJob /\ chan # <<>>
    /\ held' = Head(chan) /\ chan' = Tail(chan)
    /\ Goto(Head(chan), "held")
    /\ UNCHANGED <<caller, worker, shutdown, closed, failures, stats, marked, disk, recovery, crashes, owed>>

\* dispatch_item: the worker awaits a permit and looks at nothing else meanwhile.  Back at the
\* top of its loop it looks at the breaker, which it does between two items only.
Dispatch ==
    /\ held # NoJob /\ FreePermits > 0
    /\ job' = [job EXCEPT ![held].pc = "spawned", ![held].permit = TRUE]
    /\ held' = NoJob
    /\ worker' = IF worker = "select" /\ failures >= Threshold THEN "cooldown" ELSE worker
    /\ UNCHANGED <<caller, chan, shutdown, closed, failures, stats, marked, disk, recovery, crashes, owed>>

Drained ==
    /\ worker = "drain" /\ held = NoJob /\ chan = <<>>
    /\ worker' = "join"
    /\ UNCHANGED <<caller, job, chan, held, shutdown, closed, failures, stats, marked, disk, recovery,
                   crashes, owed>>

Joined ==
    /\ worker = "join" /\ tasks = {}
    /\ worker' = "gone"
    /\ UNCHANGED <<caller, job, chan, held, shutdown, closed, failures, stats, marked, disk, recovery,
                   crashes, owed>>

-----------------------------------------------------------------------------
(* process_item and upload_with_retries                                    *)
\* The item has a verdict, success or not.  What follows has no await: first its temp file goes.
Verdict(j, b, expired) ==
    /\ job' = [job EXCEPT ![j].pc = "unlinked", ![j].bytes = b, ![j].expired = expired]
    /\ temp' = temp \ {Art(j)}
    /\ owed' = owed \ {Art(j)}

\* Fault: an expired item is sized after its file was removed.
BeginSizesLate(j) ==
    /\ At(j, "spawned")
    /\ stats' = [stats EXCEPT !.inflight = @ + 1]
    /\ \/ /\ job' = [job EXCEPT ![j].pc = "trying", ![j].bytes = Size(Art(j))]
          /\ UNCHANGED <<temp, owed>>
       \/ Verdict(j, 0, TRUE)
    /\ UNCHANGED <<caller, loop, failures, marked, side, recovery, crashes>>

\* The size the item will be settled with is its file's size now; it may have expired.
Begin(j) ==
    /\ At(j, "spawned")
    /\ stats' = [stats EXCEPT !.inflight = @ + 1]
    /\ LET accounted == IF Art(j) \in temp THEN Size(Art(j)) ELSE 0 IN
       \/ /\ job' = [job EXCEPT ![j].pc = "trying", ![j].bytes = accounted]
          /\ UNCHANGED <<temp, owed>>
       \/ Verdict(j, accounted, TRUE)
    /\ UNCHANGED <<caller, loop, failures, marked, side, recovery, crashes>>

Attempts(j) == IF job[j].attempts < MaxAttempts THEN job[j].attempts + 1 ELSE MaxAttempts
Finish(j) == Verdict(j, job[j].bytes, FALSE)
\* Failures that are not terminal count for the breaker.
GiveUp(j) == Finish(j) /\ failures' = IF failures < Threshold THEN failures + 1 ELSE Threshold

AttemptSucceeds(j) ==
    /\ At(j, "trying") /\ Art(j) \in temp
    /\ Finish(j) /\ failures' = 0
    /\ UNCHANGED <<caller, loop, stats, marked, side, recovery, crashes>>

\* Disposition::Terminal.
AttemptTerminal(j) ==
    /\ At(j, "trying") /\ Art(j) \in temp
    /\ Finish(j)
    /\ UNCHANGED <<caller, loop, failures, stats, marked, side, recovery, crashes>>

\* Disposition::Retryable; a missing file is one.
AttemptFails(j) ==
    /\ At(j, "trying")
    /\ \/ Attempts(j) >= MaxAttempts /\ GiveUp(j)
       \/ /\ Attempts(j) < MaxAttempts
          /\ job' = [job EXCEPT ![j].attempts = Attempts(j)]
          /\ UNCHANGED <<temp, owed, failures>>
    /\ UNCHANGED <<caller, loop, stats, marked, side, recovery, crashes>>

\* Fault: a parked item keeps its permit.
ParksWithPermit(j) ==
    /\ At(j, "trying") /\ Art(j) \in temp
    /\ job' = [job EXCEPT ![j].attempts = Attempts(j),
                          ![j].auth_retried = TRUE,
                          ![j].pc = IF job[j].auth_retried THEN "parked" ELSE "trying"]
    /\ UNCHANGED <<caller, loop, failures, stats, marked, disk, recovery, crashes, owed>>

\* Disposition::AuthRefresh: one retry, then the item parks and gives its permit back.
AttemptUnauthorized(j) ==
    /\ At(j, "trying") /\ Art(j) \in temp
    /\ job' = [job EXCEPT ![j].attempts = Attempts(j),
                          ![j].auth_retried = TRUE,
                          ![j].pc = IF job[j].auth_retried THEN "parked" ELSE "trying",
                          ![j].permit = ~job[j].auth_retried]
    /\ UNCHANGED <<caller, loop, failures, stats, marked, disk, recovery, crashes, owed>>

\* The top of the park loop gives the item up: the queue drains, there is no recovery to wait
\* for, or the item is too old.
ParkEnds(j) ==
    /\ job[j].pc \in {"parked", "woken"}
    /\ GiveUp(j)
    /\ UNCHANGED <<caller, loop, stats, marked, side, recovery, crashes>>

\* One wait for credentials: the caller is told, once, that the item is parked.
ParkWaits(j, wake) ==
    /\ At(j, "parked") /\ ~closed
    /\ job' = [job EXCEPT ![j].pc = IF wake THEN "woken" ELSE "parked"]
    /\ waiting' = Notified(j)
    /\ UNCHANGED <<called, loop, failures, stats, marked, disk, recovery, crashes, owed>>

Woken(j) ==
    /\ At(j, "woken") /\ ~closed
    /\ Goto(j, "reacquire")
    /\ UNCHANGED <<caller, loop, failures, stats, marked, disk, recovery, crashes, owed>>

Reacquire(j) ==
    /\ At(j, "reacquire") /\ FreePermits > 0
    /\ job' = [job EXCEPT ![j].pc = "trying", ![j].permit = TRUE, ![j].auth_retried = FALSE]
    /\ UNCHANGED <<caller, loop, failures, stats, marked, disk, recovery, crashes, owed>>

\* The sidecar follows; the caller is told, unless the item expired: then only once it is settled.
\* settle_pending drops inflight before pending.
SettleInflight(j) ==
    /\ At(j, "unlinked")
    /\ Goto(j, "settling")
    /\ side' = side \ {Art(j)}
    /\ waiting' = IF job[j].expired THEN waiting ELSE Notified(j)
    /\ stats' = [stats EXCEPT !.inflight = @ - 1]
    /\ UNCHANGED <<called, loop, failures, marked, temp, recovery, crashes, owed>>

\* The task ends: permit and in-flight mark are dropped with the item.
SettlePending(j) ==
    /\ At(j, "settling")
    /\ job' = [job EXCEPT ![j] = Ended("done")]
    /\ stats' = CountOut(job[j].bytes)
    /\ waiting' = Notified(j)
    /\ marked' = IF IsOwn(j) THEN Unmarked(Art(j)) ELSE marked
    /\ UNCHANGED <<called, loop, failures, disk, recovery, crashes, owed>>

-----------------------------------------------------------------------------
(* Shutdown, recovery and the end of the process                           *)
\* drain signals the worker, and so does dropping the last handle.
Shutdown ==
    /\ ~shutdown
    /\ shutdown' = TRUE
    /\ UNCHANGED <<caller, job, chan, worker, held, closed, failures, stats, marked, disk, recovery,
                   crashes, owed>>

\* drain's deadline passes: the worker is aborted, with its channel and every task at an await.
Awaiting == {"queued", "held", "spawned", "trying", "parked", "woken", "reacquire"}
DrainTimeout ==
    /\ shutdown /\ worker # "gone"
    /\ worker' = "gone" /\ closed' = TRUE /\ chan' = <<>> /\ held' = NoJob
    /\ LET Dropped == {j \in Jobs : job[j].pc \in Awaiting} IN
       /\ job' = [j \in Jobs |-> IF j \in Dropped
                                 THEN Ended("aborted") ELSE job[j]]
       /\ waiting' = {i \in waiting : Own(i) \notin Dropped}
       /\ marked' = (marked /\ ~\E i \in Items : Own(i) \in Dropped /\ Tracked(i))
    /\ UNCHANGED <<called, shutdown, failures, stats, disk, recovery, crashes, owed>>

\* run_startup_recovery, once in a life and over before the first call, as in the workspace: the
\* sidecars are listed, then visited one by one while the worker already uploads.
ScanStarts ==
    /\ ~scanned
    /\ scanned' = TRUE /\ scan' = side
    /\ UNCHANGED <<caller, job, loop, failures, stats, marked, disk, crashes, owed>>

\* A sidecar that is gone takes its temp file along, one without its temp file goes, and so does
\* a whole pair that is too old, cannot be read at this moment, does not match its hash or fails
\* validation.  Whichever it is, the scan has given the artifact up, readable or not.
ScanDrops(i) ==
    /\ i \in scan
    /\ scan' = scan \ {i}
    /\ side' = side \ {i} /\ temp' = temp \ {i}
    /\ owed' = IF i \in side /\ i \in temp THEN owed \ {i} ELSE owed
    /\ UNCHANGED <<caller, job, loop, failures, stats, marked, scanned, crashes>>

\* enqueue_recovered up to its try_send; over budget the pair stays where it is.
ScanEnqueues(i) ==
    /\ i \in scan /\ i \in side /\ i \in temp
    /\ scan' = scan \ {i}
    /\ IF over_disk_budget(Size(i))
       THEN UNCHANGED <<job, stats>>
       ELSE Goto(Rec(i), "counted") /\ stats' = CountIn(Size(i))
    /\ UNCHANGED <<caller, loop, failures, marked, disk, scanned, crashes, owed>>

\* Fault: a refused recovered item takes its files along, as a refused new one does.
RecoveredRefusedDeletes(i) ==
    /\ At(Rec(i), "counted") /\ (closed \/ Len(chan) >= Capacity)
    /\ Goto(Rec(i), "done")
    /\ stats' = CountOut(Size(i))
    /\ temp' = temp \ {i} /\ side' = side \ {i}
    /\ UNCHANGED <<caller, loop, failures, marked, recovery, crashes, owed>>

\* The channel refuses a recovered item: the pair stays for a later life.
RecoveredRefused(i) ==
    /\ At(Rec(i), "counted") /\ (closed \/ Len(chan) >= Capacity)
    /\ Goto(Rec(i), "done")
    /\ stats' = CountOut(Size(i))
    /\ UNCHANGED <<caller, loop, failures, marked, disk, recovery, crashes, owed>>

\* The process stops and a new one starts with the files it left.
Crash ==
    /\ crashes < MaxCrashes
    /\ crashes' = crashes + 1
    /\ job' = [j \in Jobs |-> Fresh] /\ chan' = <<>> /\ worker' = "select" /\ held' = NoJob
    /\ shutdown' = FALSE /\ closed' = FALSE /\ failures' = 0
    /\ stats' = NoStats /\ marked' = FALSE /\ scan' = {} /\ scanned' = FALSE
    /\ waiting' = {}
    /\ UNCHANGED <<called, disk, owed>>

-----------------------------------------------------------------------------
Call(i) == WriteError(i) \/ Count(i) \/ RefusedClosed(i) \/ RefusedFull(i)
Inline(i) == InlineStart(i) \/ InlineEnd(i)
Attempt(j) == AttemptSucceeds(j) \/ AttemptTerminal(j) \/ AttemptFails(j) \/ AttemptUnauthorized(j)
Settle(j) == SettleInflight(j) \/ SettlePending(j)
Advance(j) == Sent(j) \/ Begin(j) \/ Attempt(j) \/ ParkWaits(j, FALSE) \/ Woken(j) \/ Reacquire(j) \/ Settle(j)
Worker == CoolDownEnds \/ SeesShutdown \/ Receive \/ Drained \/ Joined
Scan == ScanStarts \/ \E i \in Items : ScanDrops(i) \/ ScanEnqueues(i)

Next ==
    \/ \E i \in Items : (\E k \in Kinds : Submit(i, k) \/ WriteFails(i, k)) \/ Call(i) \/ Inline(i) \/ RecoveredRefused(i)
    \/ \E j \in Jobs : Advance(j) \/ ParkEnds(j) \/ ParkWaits(j, TRUE)
    \/ Worker \/ Dispatch \/ Scan
    \/ Shutdown \/ DrainTimeout \/ Crash

Spec == Init /\ [][Next]_vars

\* Every call, task and loop under way takes its next step.  The semaphore is first come first
\* served, so the worker gets one of the permits that keep coming free.  Nothing obliges
\* credentials to recover, an item to expire, drain's deadline to pass or the process to stop.
Fairness ==
    /\ \A i \in Items : WF_vars(Call(i) \/ Inline(i) \/ Advance(Own(i)) \/ (closed /\ ParkEnds(Own(i))))
    /\ \A i \in Items : WF_vars(RecoveredRefused(i) \/ Advance(Rec(i)) \/ (closed /\ ParkEnds(Rec(i))))
    /\ WF_vars(Worker) /\ SF_vars(Dispatch) /\ WF_vars(Scan)
FairSpec == Spec /\ Fairness

-----------------------------------------------------------------------------
TypeOK ==
    /\ job \in [Jobs -> [pc : {"idle", "done", "torn", "aborted"} \cup Live \cup InlineTask,
                         attempts : 0 .. MaxAttempts, auth_retried : BOOLEAN, permit : BOOLEAN,
                         bytes : 0 .. 2, kind : Kinds \cup {"none"}, expired : BOOLEAN]]
    /\ chan \in Seq(Jobs) /\ Len(chan) <= Capacity
    /\ worker \in {"select", "cooldown", "drain", "join", "gone"}
    /\ held \in Jobs \cup {NoJob} /\ {shutdown, closed, marked, scanned} \subseteq BOOLEAN
    /\ failures \in 0 .. Threshold /\ crashes \in 0 .. MaxCrashes
    /\ stats \in [pending : Nat, pending_bytes : Nat, inflight : Nat]
    /\ {called, waiting, temp, side, scan, owed} \subseteq SUBSET Items

\* An artifact the queue accepted with a recovery sidecar is in the cloud, was given up by an
\* upload that ended, or is on disk as a whole pair for the next life: whatever process stopped,
\* drain timed out, channel was full or budget spent in between.  What the recovery scan deletes
\* counts as given up: that it deletes only what is past saving is not claimed here, and a pair
\* that is merely unreadable when it is visited goes too.
NothingLost == owed \subseteq temp \cap side

\* What the flush, the budget and the status page read is what the queue holds: pending counts
\* the items between their count and their settlement, pending_bytes their units (a big item has
\* one more than the others), although an item is counted by its caller and settled by the size
\* its task found on disk, and no upload is running that is no longer pending, even between the
\* two subtractions of settle_pending.  Only an aborted worker leaves its items counted.
InQueue == {j \in Jobs : job[j].pc \in Counted \cup {"aborted"}}
CountersAreExact ==
    /\ stats.inflight <= stats.pending
    /\ stats.pending = Cardinality(InQueue)
    /\ stats.pending_bytes = Cardinality(InQueue) + Cardinality({j \in InQueue : Art(j) \in Big})

\* The content hash is marked exactly while one queued item carries the mark: no second copy is
\* spilled, and no destination stays blocked after its item has gone.
MarkHasOwner ==
    LET Owners == {i \in Items : Tracked(i) /\ job[Own(i)].pc \in Live} IN
    Cardinality(Owners) = IF marked THEN 1 ELSE 0

\* While the process runs undisturbed every file in the queue directory belongs to an item that
\* will remove it, or is what a failed write of a temp file left: enqueue_core and enqueue_blocking
\* return from that without removing it, and it waits for the two-hour sweep.
Keeps(i) == job[Own(i)].pc \in Live \cup (IF kind(i) = "blocking" THEN InlineTask ELSE {})
NoStrayFiles ==
    (crashes = 0 /\ \A j \in Jobs : ~At(j, "aborted")) =>
    \A i \in temp \cup side :
        \/ Keeps(i) \/ job[Rec(i)].pc \in Live
        \/ At(Own(i), "torn") /\ i \notin side

\* A caller of enqueue_blocking is answered: with the result, that the item is parked, or that
\* the queue is closed.
EveryCallerAnswered == \A i \in Items : (i \in waiting) ~> (i \notin waiting)

\* A shutdown ends the worker without the help of its deadline, even when every item is parked
\* on rejected credentials or the breaker is cooling down.
EveryShutdownEnds == shutdown ~> (worker = "gone" \/ ~shutdown)

=============================================================================
