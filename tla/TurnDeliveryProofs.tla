------------------------- MODULE TurnDeliveryProofs -------------------------
(***************************************************************************)
(* Proofs about TurnDelivery, for every set of prompts and messages and    *)
(* every bound. SlotOrder is what typing needs: the CHOOSE of InOrder has  *)
(* a value because the occupied slots carry distinct admission numbers.    *)
(* The first part is about slots, signal and mark, the second about the    *)
(* command loop, its queue and its gate.                                   *)
(***************************************************************************)
EXTENDS TurnDelivery, FiniteSetTheorems, FunctionTheorems, SequenceTheorems, TLAPS

(* Occupied slots carry distinct admission numbers, none above serial. *)
SlotOrder ==
    /\ \A m \in Live : slot[m].at <= serial
    /\ \A m, n \in Live : slot[m].at = slot[n].at => m = n

TypeInv == TypeOK /\ SlotOrder

-----------------------------------------------------------------------------
(* Distinct numbers on a finite set of slots rank it: InOrder lists every  *)
(* subset of the occupied slots as a sequence ordered by admission.        *)
LEMMA InOrderLists ==
    ASSUME TypeInv, NEW S \in SUBSET Live
    PROVE  /\ IsFiniteSet(S) /\ Cardinality(S) \in Nat
           /\ InOrder(S) \in [1..Cardinality(S) -> S]
           /\ \A i, j \in 1..Cardinality(S) :
                i < j => slot[InOrder(S)[i]].at < slot[InOrder(S)[j]].at
<1> DEFINE n == Cardinality(S)
           upto(m) == {k \in S : slot[k].at <= slot[m].at}
           rank == [m \in S |-> Cardinality(upto(m))]
<1>1. S \subseteq Msgs /\ \A m \in S : slot[m].at \in Nat
  BY DEF Live, TypeInv, TypeOK, Slots
<1>2. IsFiniteSet(S) /\ n \in Nat
  BY <1>1, ConstantsAssumption, FS_Subset, FS_CardinalityType
<1>3. \A m \in S : /\ IsFiniteSet(upto(m)) /\ rank[m] = Cardinality(upto(m))
                   /\ rank[m] \in 1..n
  <2> SUFFICES ASSUME NEW m \in S
               PROVE  /\ IsFiniteSet(upto(m)) /\ Cardinality(upto(m)) \in 1..n
    OBVIOUS
  <2>1. upto(m) \in SUBSET S /\ upto(m) # {}
    BY <1>1
  <2>2. IsFiniteSet(upto(m)) /\ Cardinality(upto(m)) <= n
    BY <1>2, <2>1, FS_Subset
  <2>3. Cardinality(upto(m)) \in Nat \ {0}
    BY <2>1, <2>2, FS_CardinalityType, FS_EmptySet
  <2> QED
    BY <1>2, <2>2, <2>3
<1>4. \A a, b \in S : slot[a].at < slot[b].at => rank[a] < rank[b]
  <2> SUFFICES ASSUME NEW a \in S, NEW b \in S, slot[a].at < slot[b].at
               PROVE  rank[a] < rank[b]
    OBVIOUS
  <2>1. upto(a) \in SUBSET upto(b) /\ upto(a) # upto(b)
    BY <1>1
  <2>2. Cardinality(upto(a)) <= Cardinality(upto(b)) /\ Cardinality(upto(a)) # Cardinality(upto(b))
    BY <1>3, <2>1, FS_Subset
  <2>3. rank[a] <= rank[b] /\ rank[a] # rank[b]
    BY <2>2
  <2> HIDE DEF rank, upto, n
  <2> QED
    BY <1>2, <1>3, <2>3
<1>5. rank \in [S -> 1..n]
  BY <1>3
<1> HIDE DEF rank, upto, n
<1>6. \A a, b \in S : rank[a] = rank[b] => a = b
  <2> SUFFICES ASSUME NEW a \in S, NEW b \in S, rank[a] = rank[b], a # b PROVE FALSE
    OBVIOUS
  <2>1. slot[a].at # slot[b].at
    BY DEF TypeInv, SlotOrder
  <2>2. CASE slot[a].at < slot[b].at
    BY <1>2, <1>3, <1>4, <2>2
  <2>3. CASE slot[b].at < slot[a].at
    BY <1>2, <1>3, <1>4, <2>3
  <2> QED
    BY <1>1, <2>1, <2>2, <2>3
<1>7. rank \in Surjection(S, 1..n)
  <2>1. rank \in Injection(S, 1..n)
    BY <1>5, <1>6, Fun_IsInj
  <2>2. IsFiniteSet(1..n) /\ Cardinality(1..n) = n
    BY <1>2, FS_Interval
  <2> QED
    BY <2>1, <2>2, FS_Injection DEF n
<1>8. \A i \in 1..n : \E m \in S : rank[m] = i
  BY <1>7, Fun_SurjectionProperties
<1> DEFINE f == [i \in 1..n |-> CHOOSE m \in S : rank[m] = i]
<1>9. f \in [1..n -> S] /\ \A i \in 1..n : rank[f[i]] = i
  BY <1>8
<1> HIDE DEF f
<1>10. \A i, j \in 1..n : i < j => slot[f[i]].at < slot[f[j]].at
  <2> SUFFICES ASSUME NEW i \in 1..n, NEW j \in 1..n, i < j
               PROVE  slot[f[i]].at < slot[f[j]].at
    OBVIOUS
  <2>1. CASE slot[f[j]].at < slot[f[i]].at
    BY <1>2, <1>4, <1>9, <2>1
  <2>2. CASE slot[f[j]].at = slot[f[i]].at
    BY <1>2, <1>9, <2>2 DEF TypeInv, SlotOrder
  <2> QED
    BY <1>1, <1>9, <2>1, <2>2
<1>11. \E g \in [1..n -> S] : \A i, j \in 1..n : i < j => slot[g[i]].at < slot[g[j]].at
  BY <1>9, <1>10
<1> QED
  BY <1>2, <1>11 DEF n, InOrder

-----------------------------------------------------------------------------
LEMMA ListIsSeq ==
    ASSUME NEW S, NEW T, S \subseteq T, NEW n \in Nat, NEW f \in [1..n -> S]
    PROVE  f \in Seq(T)
BY SeqDef

(* A handler that holds nothing holds a well-formed lease.                 *)
LEMMA NoLeaseType == NoLease \in Leases
BY DEF NoLease, Leases

(* Every lease a claim takes is well-formed.                               *)
LEMMA LeaseUpdate ==
    ASSUME NEW k \in {"none", "completion", "soft", "hard", "rewind", "rewound"},
           NEW t \in Tasks \cup {NoTask}, NEW x \in Prompts \cup {NoPrompt}
    PROVE  /\ [NoLease EXCEPT !.kind = k, !.task = t, !.front = x] \in Leases
           /\ [NoLease EXCEPT !.kind = k, !.task = t] \in Leases
           /\ [NoLease EXCEPT !.kind = k, !.named = x] \in Leases
           /\ [NoLease EXCEPT !.kind = k] \in Leases
BY DEF NoLease, Leases

(* The front row of pending_inputs, if any, is a prompt.                   *)
LEMMA FrontType ==
    ASSUME TypeOK
    PROVE  Front(queue) \in Prompts \cup {NoPrompt}
BY DEF TypeOK, Front

(* What a turn's end appends to the queue are prompts of the parent. *)
LEMMA FallbackListType ==
    ASSUME TypeInv, NEW target, NEW cause
    PROVE  InOrder(Fallbacks(target, cause)) \in Seq(Prompts)
<1> DEFINE S == Fallbacks(target, cause)
<1>1. S \in SUBSET Live /\ S \subseteq Msgs
  BY DEF Fallbacks, Hit, Live
<1>2. InOrder(S) \in [1..Cardinality(S) -> S] /\ Cardinality(S) \in Nat
  BY <1>1, InOrderLists
<1> QED
  BY <1>1, <1>2, ListIsSeq DEF Prompts

(* Appending fallbacks keeps the queue a sequence of prompts.              *)
LEMMA WithFallbacksType ==
    ASSUME TypeInv, NEW q \in Seq(Prompts), NEW target, NEW cause
    PROVE  WithFallbacks(q, target, cause) \in Seq(Prompts)
BY FallbackListType, ConcatProperties DEF WithFallbacks

(* A terminal transition frees slots and changes no admission number.      *)
LEMMA TransitionType ==
    ASSUME TypeInv, NEW target, NEW cause, NEW run, Transition(target, cause, run)
    PROVE  /\ slot' \in [Msgs -> Slots] /\ serial' \in Nat /\ signal' \in BOOLEAN
           /\ mark' \in Nat /\ noted' \in BOOLEAN
           /\ SlotOrder'
<1>1. slot' \in [Msgs -> Slots] /\ serial' = serial /\ mark' \in Nat
  BY DEF Transition, TypeInv, TypeOK, Slots, NoSlot
<1>2. signal' \in BOOLEAN /\ noted' \in BOOLEAN
  BY DEF Transition, Signal
<1>3. SlotOrder'
  BY DEF Transition, TypeInv, TypeOK, SlotOrder, Live, NoSlot, Slots
<1> QED
  BY <1>1, <1>2, <1>3 DEF TypeInv, TypeOK

(* Answering receipts counts them.                                         *)
LEMMA AnswerType ==
    ASSUME TypeOK, NEW S, Answer(S)
    PROVE  resolved' \in [Msgs -> Nat]
BY DEF TypeOK, Answer

(* A batch of the history has its type. *)
LEMMA CommitType ==
    ASSUME TypeInv, Commit
    PROVE  TypeInv'
<1>1. slot' \in [Msgs -> Slots] /\ SlotOrder'
  <2>1. slot' \in [Msgs -> Slots]
    BY DEF Commit, TypeInv, TypeOK, Slots
  <2>2. \A m \in Msgs : /\ slot'[m].at = slot[m].at
                         /\ slot'[m].st = "Free" <=> slot[m].st = "Free"
    BY DEF Commit, Projecting, TypeInv, TypeOK, Slots
  <2> QED
    BY <2>1, <2>2 DEF Commit, TypeInv, SlotOrder, Live
<1>2. OrderForDelivery(Projecting) \in Seq(Msgs)
  <2> DEFINE S(op) == {m \in Projecting : slot[m].op = op}
  <2>1. \A op : S(op) \in SUBSET Live /\ S(op) \subseteq Msgs
    BY DEF Projecting, Live
  <2>2. \A op : InOrder(S(op)) \in [1..Cardinality(S(op)) -> S(op)] /\ Cardinality(S(op)) \in Nat
    BY <2>1, InOrderLists
  <2>3. InOrder(S("Interject")) \in Seq(Msgs) /\ InOrder(S("Steer")) \in Seq(Msgs)
    BY <2>1, <2>2, ListIsSeq
  <2> QED
    BY <2>3 DEF OrderForDelivery
<1>3. shown' \in Seq(Entries)
  <2> DEFINE batch == OrderForDelivery(Projecting)
             entry(i) == [id |-> batch[i], nth |-> admits[batch[i]], op |-> slot[batch[i]].op,
                          at |-> slot[batch[i]].at, turn |-> slot[batch[i]].turn,
                          from |-> Len(shown)]
             entries == [i \in 1..Len(batch) |-> entry(i)]
  <2>1. Len(batch) \in Nat /\ \A i \in 1..Len(batch) : batch[i] \in Msgs
    BY <1>2
  <2>2. \A i \in 1..Len(batch) : entry(i) \in Entries
    BY <2>1 DEF TypeInv, TypeOK, Slots, Entries
  <2>3. entries \in Seq(Entries)
    <3> HIDE DEF batch, entry
    <3> QED BY <2>1, <2>2
  <2>4. shown' = shown \o entries
    BY DEF Commit
  <2> QED
    BY <2>3, <2>4, ConcatProperties DEF TypeInv, TypeOK
<1> QED
  BY <1>1, <1>3 DEF Commit, TypeInv, TypeOK, actorVars, loopVars

(* The steps that move no message. *)
LEMMA QuietTypes ==
    ASSUME TypeInv,
           \/ Kick \/ EarlyAbort \/ CancelNoop \/ Settle \/ Release \/ Finish
           \/ FirstOutput \/ BarrierFails \/ CommitFails \/ WaitStarts \/ TurnEnds
           \/ \E e \in waits : WaitAborts(e) \/ WaitReturns(e)
           \/ \E u \in Users : Prompt(u)
           \/ \E c \in done : CompletionClaim(c)
           \/ \E k \in {"soft", "hard"} : CancelClaim(k)
           \/ \E named \in Prompts \cup {NoPrompt} : RewindGeneric(named)
           \/ ResumeNext
           \/ UNCHANGED vars
    PROVE  TypeInv'
<1> USE NoLeaseType DEF TypeInv, actorVars, slotVars, futureVars, loopVars, inputVars
<1>1. ASSUME Start PROVE /\ running' \in Tasks \cup {NoTask} /\ epoch' \in Nat
                         /\ rewindable' \in BOOLEAN /\ turn' \in {"off", "idle", "barrier"}
                         /\ waits' \subseteq Nat /\ done' \subseteq Tasks
  <2>1. CASE CanStart
    <3>1. Head(queue) \in Prompts
      BY <2>1, HeadTailProperties DEF CanStart, TypeOK
    <3>2. [prompt |-> Head(queue), epoch |-> epoch + 1] \in Tasks
      BY <3>1 DEF TypeOK, Tasks
    <3>3. running' \in Tasks /\ epoch' = epoch + 1 /\ turn' = "idle" /\ waits' = waits /\ done' = done
      BY <1>1, <2>1, <3>2 DEF Start
    <3>4. rewindable' \in BOOLEAN
      BY <1>1, <2>1, Zenon DEF Start
    <3> QED
      BY <3>3, <3>4 DEF TypeOK
  <2>2. CASE ~CanStart
    BY <1>1, <2>2 DEF Start, TypeOK
  <2> QED
    BY <2>1, <2>2
<1>2. CASE Kick
  BY <1>1, <1>2 DEF Kick, TypeOK, SlotOrder, Live
<1>3. CASE EarlyAbort
  BY <1>3 DEF EarlyAbort, TypeOK, SlotOrder, Live
<1>4. CASE CancelNoop
  BY <1>4 DEF CancelNoop, TypeOK, SlotOrder, Live
<1>5. CASE Settle
  BY <1>5, AnswerType DEF Settle, TypeOK, SlotOrder, Live
<1>6. CASE Release
  BY <1>6 DEF Release, TypeOK, SlotOrder, Live
<1>7. CASE Finish
  BY <1>7 DEF Finish, TypeOK, SlotOrder, Live
<1>8. CASE FirstOutput \/ BarrierFails \/ CommitFails
  BY <1>8 DEF FirstOutput, BarrierFails, CommitFails, TypeOK, SlotOrder, Live
<1>9. CASE WaitStarts \/ TurnEnds
  <2>1. ASSUME IsRunning PROVE running \in Tasks /\ running.epoch \in Nat
    BY <2>1 DEF IsRunning, TypeOK, Tasks
  <2>2. CASE WaitStarts
    BY <2>1, <2>2 DEF WaitStarts, TypeOK, SlotOrder, Live
  <2>3. CASE TurnEnds
    BY <2>1, <2>3 DEF TurnEnds, TypeOK, SlotOrder, Live
  <2> QED
    BY <1>9, <2>2, <2>3
<1>10. CASE \E e \in waits : WaitAborts(e) \/ WaitReturns(e)
  <2> PICK e \in waits : WaitAborts(e) \/ WaitReturns(e)
    BY <1>10
  <2>1. e \in Nat /\ mark' \in Nat /\ noted' \in BOOLEAN /\ waits' \subseteq Nat
    BY DEF WaitAborts, WaitReturns, TypeOK
  <2> QED
    BY <2>1 DEF WaitAborts, WaitReturns, TypeOK, SlotOrder, Live
<1>11. CASE \E u \in Users : Prompt(u)
  BY <1>11 DEF Prompt, Prompts, TypeOK, SlotOrder, Live
<1>12. CASE \E c \in done : CompletionClaim(c)
  <2> PICK c \in done : CompletionClaim(c)
    BY <1>12
  <2>1. lease' \in Leases
    BY LeaseUpdate DEF CompletionClaim, TypeOK
  <2> QED
    BY <2>1 DEF CompletionClaim, TypeOK, SlotOrder, Live
<1>13. CASE \E k \in {"soft", "hard"} : CancelClaim(k)
  <2> PICK k \in {"soft", "hard"} : CancelClaim(k)
    BY <1>13
  <2>1. lease' \in Leases
    BY LeaseUpdate, FrontType DEF CancelClaim, TypeOK
  <2> QED
    BY <2>1 DEF CancelClaim, TypeOK, SlotOrder, Live
<1>14. CASE \E named \in Prompts \cup {NoPrompt} : RewindGeneric(named)
  <2> PICK named \in Prompts \cup {NoPrompt} : RewindGeneric(named)
    BY <1>14
  <2>1. lease' \in Leases
    BY LeaseUpdate DEF RewindGeneric, TypeOK
  <2> QED
    BY <2>1 DEF RewindGeneric, TypeOK, SlotOrder, Live
<1>15. CASE ResumeNext
  <2>1. ASSUME NEW r \in Resumes, Resume(r) PROVE TypeInv'
    BY <2>1 DEF Resume, Prompts, TypeOK, SlotOrder, Live
  <2>2. ASSUME NEW r \in Resumes, ResumeKick(r) PROVE TypeInv'
    BY <1>1, <2>2 DEF ResumeKick, TypeOK, SlotOrder, Live
  <2> QED
    BY <1>15, <2>1, <2>2 DEF ResumeNext
<1>16. CASE UNCHANGED vars
  BY <1>16 DEF vars, TypeOK, SlotOrder, Live
<1> QED
  BY <1>2, <1>3, <1>4, <1>5, <1>6, <1>7, <1>8, <1>9, <1>10, <1>11, <1>12, <1>13, <1>14,
     <1>15, <1>16

(* An admission takes the next admission number, or queues, or is refused. *)
LEMMA AdmitType ==
    ASSUME TypeInv, NEW m \in Msgs, NEW requested \in {"Queue", "Steer", "Interject"},
           Admit(m, requested)
    PROVE  TypeInv'
<1> DEFINE effective == IF IsRunning THEN requested ELSE "Queue"
<1>1. /\ admits' \in [Msgs -> Nat] /\ pc' = "kick"
      /\ UNCHANGED <<running, epoch, rewindable, gate, futureVars, lease, settling,
                     asked, prompted, resolved, shown>>
  BY DEF Admit, TypeInv, TypeOK
<1>2. CASE effective = "Queue"
  <2>1. queue' \in Seq(Prompts) /\ UNCHANGED slotVars
    <3>1. queue' = Append(queue, m) /\ UNCHANGED slotVars
      BY <1>2 DEF Admit
    <3> QED
      BY <3>1, AppendProperties DEF TypeInv, TypeOK, Prompts
  <2> QED
    BY <1>1, <2>1 DEF TypeInv, TypeOK, SlotOrder, Live, slotVars, futureVars
<1>3. CASE effective # "Queue"
  <2> DEFINE new == [st |-> "Pending", turn |-> running.epoch, op |-> effective, at |-> serial + 1]
  <2>1. new \in Slots
    BY <1>3 DEF IsRunning, TypeInv, TypeOK, Tasks, Slots
  <2>2. /\ slot' = [slot EXCEPT ![m] = new] /\ serial' = serial + 1
        /\ signal' = Signal(slot', running) /\ UNCHANGED <<queue, mark, noted>>
    BY <1>3 DEF Admit
  <2>3. signal' \in BOOLEAN
    BY <2>2 DEF Signal
  <2>4. slot' \in [Msgs -> Slots] /\ \A n \in Msgs : slot'[n] = IF n = m THEN new ELSE slot[n]
    BY <2>1, <2>2 DEF TypeInv, TypeOK
  <2>5. SlotOrder'
    <3>1. \A n \in Live : slot[n].at \in Nat /\ slot[n].at < serial + 1
      BY DEF TypeInv, SlotOrder, TypeOK, Live, Slots
    <3>2. \A n \in Live' : n = m \/ n \in Live
      BY <2>4 DEF Live
    <3>3. new.at = serial + 1 /\ serial \in Nat
      BY DEF TypeInv, TypeOK
    <3> HIDE DEF new
    <3> QED
      BY <2>2, <2>4, <3>1, <3>2, <3>3 DEF TypeInv, SlotOrder, Live
  <2> QED
    BY <1>1, <2>2, <2>3, <2>4, <2>5 DEF TypeInv, TypeOK, futureVars
<1> QED
  BY <1>2, <1>3

(* A drain moves slots to Projecting and keeps their order.                *)
LEMMA SafePointType ==
    ASSUME TypeInv, SafePoint
    PROVE  TypeInv'
<1>1. slot' \in [Msgs -> Slots]
  BY DEF SafePoint, TypeInv, TypeOK, Slots
<1>2. \A m \in Msgs : /\ slot'[m].at = slot[m].at
                       /\ slot'[m].st = "Free" <=> slot[m].st = "Free"
  BY DEF SafePoint, Pending, TypeInv, TypeOK, Slots
<1>3. SlotOrder'
  BY <1>1, <1>2 DEF SafePoint, TypeInv, SlotOrder, Live
<1>4. signal' \in BOOLEAN
  BY DEF SafePoint, Signal
<1>5. noted' \in BOOLEAN /\ mark' = 0 /\ turn' \in {"idle", "barrier"}
  BY DEF SafePoint
<1> QED
  BY <1>1, <1>3, <1>4, <1>5 DEF SafePoint, TypeInv, TypeOK, actorVars, loopVars, inputVars

(* A row taken out of the queue: those behind it move up by one.           *)
LEMMA RowRemoved ==
    ASSUME NEW T, NEW q \in Seq(T), NEW i \in 1..Len(q)
    PROVE  LET r == SubSeq(q, 1, i - 1) \o SubSeq(q, i + 1, Len(q))
           IN  /\ r \in Seq(T) /\ Len(r) = Len(q) - 1
               /\ \A k \in 1..Len(r) : r[k] = IF k < i THEN q[k] ELSE q[k + 1]
<1> DEFINE a == SubSeq(q, 1, i - 1)
           b == SubSeq(q, i + 1, Len(q))
<1>1. Len(q) \in Nat /\ i \in Nat
  BY LenProperties
<1>2. a \in Seq(T) /\ Len(a) = i - 1 /\ \A k \in 1..(i - 1) : a[k] = q[k]
  BY <1>1, SubSeqProperties
<1>3. b \in Seq(T) /\ Len(b) = Len(q) - i /\ \A k \in 1..(Len(q) - i) : b[k] = q[i + k]
  BY <1>1, SubSeqProperties
<1> HIDE DEF a, b
<1>4. /\ a \o b \in Seq(T) /\ Len(a \o b) = Len(a) + Len(b)
      /\ \A k \in 1..(Len(a) + Len(b)) : (a \o b)[k] = IF k <= Len(a) THEN a[k] ELSE b[k - Len(a)]
  BY <1>2, <1>3, ConcatProperties
<1>5. \A k \in 1..(Len(q) - 1) : (a \o b)[k] = IF k < i THEN q[k] ELSE q[k + 1]
  <2> TAKE k \in 1..(Len(q) - 1)
  <2>1. CASE k < i
    BY <1>1, <1>2, <1>3, <1>4, <2>1
  <2>2. CASE ~(k < i)
    <3>1. k - Len(a) \in 1..(Len(q) - i) /\ i + (k - Len(a)) = k + 1 /\ ~(k <= Len(a))
      BY <1>1, <1>2, <2>2
    <3>2. (a \o b)[k] = b[k - Len(a)]
      BY <1>1, <1>2, <1>3, <1>4, <3>1
    <3> QED
      BY <1>3, <2>2, <3>1, <3>2
  <2> QED
    BY <2>1, <2>2
<1>6. Len(a \o b) = Len(q) - 1
  BY <1>1, <1>2, <1>3, <1>4
<1>7. /\ a \o b \in Seq(T) /\ Len(a \o b) = Len(q) - 1
      /\ \A k \in 1..Len(a \o b) : (a \o b)[k] = IF k < i THEN q[k] ELSE q[k + 1]
  BY <1>4, <1>5, <1>6
<1> QED
  BY <1>7, Zenon DEF a, b

(* Dropping one row leaves a queue of prompts.                             *)
LEMMA RowDropType ==
    ASSUME TypeInv, NEW p \in Prompts, RewindDropsRow(p)
    PROVE  TypeInv'
<1>1. queue' \in Seq(Prompts)
  <2>1. PICK i \in DOMAIN queue :
          queue' = SubSeq(queue, 1, i - 1) \o SubSeq(queue, i + 1, Len(queue))
    BY DEF RewindDropsRow
  <2>2. i \in 1..Len(queue) /\ Len(queue) \in Nat /\ \A j \in 1..Len(queue) : queue[j] \in Prompts
    BY <2>1 DEF TypeInv, TypeOK
  <2>3. /\ SubSeq(queue, 1, i - 1) \in Seq(Prompts)
        /\ SubSeq(queue, i + 1, Len(queue)) \in Seq(Prompts)
    BY <2>2, SubSeqProperties
  <2> QED
    BY <2>1, <2>3, ConcatProperties
<1>2. resolved' \in [Msgs -> Nat]
  BY AnswerType DEF RewindDropsRow, TypeInv
<1> QED
  BY <1>1, <1>2 DEF RewindDropsRow, TypeInv, TypeOK, SlotOrder, Live, slotVars, futureVars

(* Dequeuing the front leaves a queue of prompts.                          *)
LEMMA TailType ==
    ASSUME NEW q \in Seq(Prompts), q # <<>>
    PROVE  Tail(q) \in Seq(Prompts)
BY HeadTailProperties

(* The steps that end a turn or the actor. *)
LEMMA EndTypes ==
    ASSUME TypeInv,
           \/ CompletionTransition \/ CancelTransition \/ Shutdown
           \/ \E p \in Users \cup Resumes : RewindNamed(p)
    PROVE  TypeInv'
<1>1. \A target, cause : Completions(target, cause) \subseteq Msgs
  BY DEF Completions, Hit, Live
<1>2. CASE CompletionTransition
  <2> DEFINE c == lease.task
             rest == IF queue # <<>> /\ Head(queue) = c.prompt THEN Tail(queue) ELSE queue
  <2>1. rest \in Seq(Prompts)
    BY TailType DEF TypeInv, TypeOK
  <2>2. queue' = WithFallbacks(rest, c.epoch, "Completion")
    BY <1>2 DEF CompletionTransition
  <2>3. queue' \in Seq(Prompts)
    BY <2>1, <2>2, WithFallbacksType
  <2>4. Transition(c.epoch, "Completion", running)
    BY <1>2 DEF CompletionTransition
  <2>5. resolved' \in [Msgs -> Nat]
    BY <1>2, AnswerType DEF CompletionTransition, TypeInv
  <2>6. settling' \subseteq Msgs
    BY <1>1, <1>2 DEF CompletionTransition
  <2> QED
    BY <1>2, <2>3, <2>4, <2>5, <2>6, TransitionType
    DEF CompletionTransition, TypeInv, TypeOK, futureVars
<1>3. CASE CancelTransition
  <2>1. PICK target, cause :
          /\ Transition(target, cause, running')
          /\ \/ queue' = <<>>
             \/ /\ WithFallbacks(queue, target, cause) # <<>>
                /\ queue' = Tail(WithFallbacks(queue, target, cause))
          /\ settling' \subseteq Completions(target, cause) \cup Msgs
    BY <1>3 DEF CancelTransition, Queued
  <2>2. queue' \in Seq(Prompts)
    <3>1. WithFallbacks(queue, target, cause) \in Seq(Prompts)
      BY WithFallbacksType DEF TypeInv, TypeOK
    <3> QED
      BY <2>1, <3>1, TailType, EmptySeq
  <2>3. settling' \subseteq Msgs
    BY <1>1, <2>1
  <2>4. /\ running' \in Tasks \cup {NoTask} /\ turn' \in {"off", "idle", "barrier"}
        /\ pc' = "settle" /\ UNCHANGED <<epoch, gate, waits, done, lease, inputVars>>
    BY <1>3 DEF CancelTransition, TypeInv, TypeOK
  <2>5. rewindable' \in BOOLEAN
    BY <1>3, Zenon DEF CancelTransition
  <2> QED
    BY <2>1, <2>2, <2>3, <2>4, <2>5, TransitionType DEF TypeInv, TypeOK, inputVars
<1>4. CASE Shutdown
  <2>1. resolved' \in [Msgs -> Nat]
    BY <1>4, AnswerType DEF Shutdown, TypeInv
  <2>2. queue' \in Seq(Prompts)
    BY <1>4, EmptySeq DEF Shutdown
  <2> QED
    BY <1>4, <2>1, <2>2, TransitionType DEF Shutdown, TypeInv, TypeOK, futureVars
<1>5. ASSUME NEW p \in Users \cup Resumes, RewindNamed(p) PROVE TypeInv'
  <2>1. queue \in Seq(Prompts) /\ queue # <<>>
    BY <1>5, ConstantsAssumption DEF RewindNamed, Front, TypeInv, TypeOK
  <2> DEFINE all == WithFallbacks(queue, epoch, "Rewind")
  <2>2. all \in Seq(Prompts)
    BY <2>1, WithFallbacksType
  <2>3. all # <<>>
    <3>1. InOrder(Fallbacks(epoch, "Rewind")) \in Seq(Prompts)
      BY FallbackListType
    <3> QED
      BY <2>1, <3>1, ConcatEqualIffEmpty DEF WithFallbacks
  <2>4. queue' \in Seq(Prompts)
    BY <1>5, <2>2, <2>3, TailType DEF RewindNamed
  <2>5. settling' \subseteq Msgs /\ lease' \in Leases
    BY <1>1, <1>5, LeaseUpdate DEF RewindNamed
  <2>6. /\ running' \in Tasks \cup {NoTask} /\ turn' \in {"off", "idle", "barrier"}
        /\ rewindable' = FALSE /\ pc' = "settle" /\ UNCHANGED <<epoch, gate, waits, done, inputVars>>
        /\ Transition(epoch, "Rewind", running')
    BY <1>5 DEF RewindNamed, TypeInv, TypeOK
  <2> QED
    BY <2>4, <2>5, <2>6, TransitionType DEF TypeInv, TypeOK, inputVars
<1> QED
  BY <1>2, <1>3, <1>4, <1>5

(* A new session has an empty queue and free slots.                        *)
LEMMA InitType == Init => TypeInv
<1> SUFFICES ASSUME Init PROVE TypeInv
  OBVIOUS
<1>1. slot \in [Msgs -> Slots] /\ Live = {}
  BY DEF Init, NoSlot, Slots, Live
<1> QED
  BY <1>1, NoLeaseType, EmptySeq DEF Init, TypeInv, TypeOK, SlotOrder

(* Every lock section and every step of a spawned future keeps the types.  *)
LEMMA StepType == TypeInv /\ [Next]_vars => TypeInv'
<1> SUFFICES ASSUME TypeInv, [Next]_vars PROVE TypeInv'
  OBVIOUS
<1>1. CASE Commit
  BY <1>1, CommitType
<1>2. CASE SafePoint
  BY <1>2, SafePointType
<1>3. CASE \E m \in Msgs, op \in {"Queue", "Steer", "Interject"} : Admit(m, op)
  BY <1>3, AdmitType
<1>4. CASE \E p \in Prompts : RewindDropsRow(p)
  BY <1>4, RowDropType
<1>5. CASE \/ CompletionTransition \/ CancelTransition \/ Shutdown
           \/ \E p \in Users \cup Resumes : RewindNamed(p)
  BY <1>5, EndTypes
<1> QED
  BY <1>1, <1>2, <1>3, <1>4, <1>5, QuietTypes
  DEF Next, LoopNext, TurnNext, CommandNext

(* Type correctness, for every instance: in particular the queue stays a   *)
(* sequence of prompts across every fallback of maybe_start_running_task's *)
(* callers, and no two occupied slots share a place in the VecDeque.       *)
THEOREM TypeCorrect == Spec => []TypeOK
<1>1. Spec => []TypeInv
  BY InitType, StepType, PTL DEF Spec
<1> QED
  BY <1>1, PTL DEF TypeInv

-----------------------------------------------------------------------------
(* The inductive invariant of delivery. The three properties hold one      *)
(* another up: the signal is false after a turn's end only because no slot *)
(* outlives its turn, and a wait tool polled between that end and the      *)
(* release of the task cannot leave a mark only because the signal is      *)
(* false.                                                                  *)
Keeps(kind) == kind \notin {"rewind", "rewound"}

Coherent ==
    /\ SlotsBelongToRunningTurn
    /\ SignalIsExact
    /\ MarkIsLiveTurns
    /\ IsRunning => running.epoch = epoch
    /\ ~IsRunning => ~noted
    /\ mark <= epoch
    /\ \A e \in waits : e <= epoch

Finalized ==
    /\ pc = "release" => Keeps(lease.kind)
    /\ pc \in {"settle", "release"} /\ Keeps(lease.kind) =>
         /\ \A m \in Live : slot[m].turn # lease.task.epoch
         /\ running = lease.task => ~noted

DeliveryInv == TypeInv /\ Coherent /\ Finalized

(* A running task has a prompt and a turn epoch of at least one.           *)
LEMMA RunningTask ==
    ASSUME TypeInv, IsRunning
    PROVE  running \in Tasks /\ running.epoch \in Nat \ {0}
BY DEF TypeInv, TypeOK, IsRunning, Tasks

(* The slots of a target leave, and what stays is coherent. *)
LEMMA TransitionCoherent ==
    ASSUME DeliveryInv, NEW target, NEW cause, Transition(target, cause, running'),
           running' = running \/ running' = NoTask, epoch' = epoch, waits' = waits,
           running' = NoTask => target = All \/ ~IsRunning \/ target = running.epoch
    PROVE  /\ Coherent'
           /\ Live' = Live \ Hit(target) /\ \A m \in Live' : slot'[m] = slot[m]
           /\ target = All \/ running' = NoTask \/ running'.epoch = target => ~noted'
<1> DEFINE ends == target = All \/ running' = NoTask \/ running'.epoch = target
<1>1. /\ \A m \in Msgs : slot'[m] = IF m \in Hit(target) THEN NoSlot ELSE slot[m]
      /\ signal' = Signal(slot', running')
      /\ mark' = IF ends THEN 0 ELSE mark
      /\ noted' = (noted /\ ~ends)
  BY DEF Transition
<1>2. Live' = Live \ Hit(target) /\ \A m \in Live' : slot'[m] = slot[m]
  BY <1>1 DEF Live, Hit, NoSlot
<1>3. SlotsBelongToRunningTurn'
  <2>1. CASE running' = running
    BY <1>2, <2>1 DEF DeliveryInv, Coherent, SlotsBelongToRunningTurn, IsRunning, NoTask
  <2>2. CASE running' = NoTask
    <3>1. Live' = {}
      BY <1>2, <2>2 DEF DeliveryInv, Coherent, SlotsBelongToRunningTurn, Hit, Live
    <3> QED
      BY <3>1 DEF SlotsBelongToRunningTurn
  <2> QED
    BY <2>1, <2>2
<1>4. SignalIsExact'
  BY <1>1 DEF SignalIsExact
<1>5. ends => ~noted'
  BY <1>1
<1>6. MarkIsLiveTurns' /\ (~IsRunning => ~noted)'
  <2>1. CASE ends
    BY <1>1, <1>5, <2>1, RunningTask
    DEF DeliveryInv, MarkIsLiveTurns, IsRunning, NoTask
  <2>2. CASE ~ends
    BY <1>1, <2>2 DEF DeliveryInv, Coherent, MarkIsLiveTurns, IsRunning, NoTask
  <2> QED
    BY <2>1, <2>2
<1>7. /\ (IsRunning => running.epoch = epoch)'
      /\ mark' <= epoch' /\ \A e \in waits' : e <= epoch'
  BY <1>1 DEF DeliveryInv, Coherent, TypeInv, TypeOK, IsRunning, NoTask
<1> QED
  BY <1>2, <1>3, <1>4, <1>5, <1>6, <1>7 DEF Coherent

(* Starting a turn: no slot, no signal and no mark is left for it. *)
LEMMA StartCoherent ==
    ASSUME DeliveryInv, Start, UNCHANGED <<slotVars, waits>>
    PROVE  Coherent' /\ (UNCHANGED <<pc, lease>> => Finalized')
<1>1. CASE CanStart
  <2>1. running' = [prompt |-> Head(queue), epoch |-> epoch + 1] /\ epoch' = epoch + 1
    BY <1>1 DEF Start
  <2>2. /\ ~IsRunning /\ Live = {} /\ ~noted /\ ~signal /\ epoch \in Nat
        /\ mark <= epoch /\ mark \in Nat /\ \A e \in waits : e <= epoch /\ e \in Nat
    BY <1>1 DEF CanStart, DeliveryInv, Coherent, SlotsBelongToRunningTurn, SignalIsExact,
                Signal, IsRunning, TypeInv, TypeOK
  <2>3. running'.epoch = epoch + 1 /\ running' # NoTask
    BY <2>1, <2>2 DEF NoTask
  <2>4. Live' = {} /\ ~noted' /\ ~signal' /\ mark' = mark /\ waits' = waits
    BY <2>2 DEF slotVars, Live
  <2>5. SignalIsExact'
    BY <2>4 DEF SignalIsExact, Signal, Pending, Live
  <2>6. MarkIsLiveTurns' /\ mark' <= epoch' /\ \A e \in waits' : e <= epoch'
    BY <2>1, <2>2, <2>3, <2>4 DEF MarkIsLiveTurns
  <2>7. Coherent'
    BY <2>1, <2>3, <2>4, <2>5, <2>6 DEF Coherent, SlotsBelongToRunningTurn, IsRunning
  <2>8. UNCHANGED <<pc, lease>> => Finalized'
    BY <2>4 DEF DeliveryInv, Finalized
  <2> QED
    BY <2>7, <2>8
<1>2. CASE ~CanStart
  BY <1>2 DEF Start, futureVars, slotVars, DeliveryInv, Coherent, Finalized,
              SlotsBelongToRunningTurn, SignalIsExact, Signal, Pending, MarkIsLiveTurns,
              IsRunning, Live
<1> QED
  BY <1>1, <1>2

(* Steps that change neither the slots, the mark nor the running task. *)
LEMMA FrameCoherent ==
    ASSUME DeliveryInv, UNCHANGED <<slotVars, running, epoch>>,
           waits' \subseteq waits \cup {epoch}
    PROVE  /\ Coherent'
           /\ UNCHANGED <<pc, lease>> => Finalized'
           /\ pc' \notin {"settle", "release"} => Finalized'
           /\ pc = "settle" /\ lease' = lease /\ Keeps(lease.kind) => Finalized'
BY DEF slotVars, DeliveryInv, Coherent, Finalized, SlotsBelongToRunningTurn, SignalIsExact,
       Signal, Pending, MarkIsLiveTurns, IsRunning, Live, TypeInv, TypeOK

(* A new session has nothing to deliver.                                   *)
LEMMA InitDelivery == Init => DeliveryInv
<1> SUFFICES ASSUME Init PROVE DeliveryInv
  OBVIOUS
<1>1. Live = {} /\ ~IsRunning
  BY DEF Init, NoSlot, Live, IsRunning
<1>2. Coherent
  BY <1>1 DEF Init, Coherent, SlotsBelongToRunningTurn, SignalIsExact, Signal, MarkIsLiveTurns,
              IsRunning
<1> QED
  BY <1>2, InitType DEF Init, DeliveryInv, Finalized

(* The handlers' later lock sections keep the delivery coherent.           *)
LEMMA LoopDelivery ==
    ASSUME DeliveryInv, LoopNext
    PROVE  Coherent' /\ Finalized'
<1>1. CASE Kick
  BY <1>1, StartCoherent DEF Kick, Finalized, slotVars, Start, futureVars
<1>2. CASE EarlyAbort
  BY <1>2, FrameCoherent DEF EarlyAbort, actorVars, loopVars
<1>3. CASE CancelNoop
  BY <1>3, FrameCoherent DEF CancelNoop, actorVars, futureVars
<1>4. CASE Settle
  BY <1>4, FrameCoherent DEF Settle, actorVars, futureVars, NoLease, Keeps
<1>5. CASE Finish
  BY <1>5, FrameCoherent DEF Finish, futureVars
<1>6. CASE CompletionTransition
  <2>1. /\ Transition(lease.task.epoch, "Completion", running') /\ running' = running
        /\ epoch' = epoch /\ waits' = waits /\ lease' = lease /\ pc' = "settle"
    BY <1>6 DEF CompletionTransition, futureVars
  <2>2. /\ Coherent' /\ Live' = Live \ Hit(lease.task.epoch)
        /\ \A m \in Live' : slot'[m] = slot[m]
        /\ running' = lease.task => ~noted'
    <3>1. running' = NoTask => ~IsRunning
      BY <2>1 DEF IsRunning
    <3> QED
      BY <2>1, <3>1, TransitionCoherent
  <2>3. \A m \in Live' : slot'[m].turn # lease.task.epoch
    BY <2>2 DEF Hit
  <2> QED
    BY <2>1, <2>2, <2>3 DEF Finalized
<1>7. CASE CancelTransition
  <2>1. PICK target, cause :
          /\ Transition(target, cause, running')
          /\ running' = NoTask \/ (running' = running /\ BindingIsCurrent)
          /\ target = All \/ ~IsRunning \/ target = running.epoch
          /\ ~IsRunning => target = All
    BY <1>7 DEF CancelTransition
  <2>2. epoch' = epoch /\ waits' = waits /\ pc' = "settle"
    BY <1>7 DEF CancelTransition
  <2>3. /\ Coherent' /\ Live' = Live \ Hit(target) /\ \A m \in Live' : slot'[m] = slot[m]
        /\ target = All \/ running' = NoTask \/ running'.epoch = target => ~noted'
    BY <2>1, <2>2, TransitionCoherent
  <2>4. Live' = {} /\ ~noted'
    BY <2>1, <2>3 DEF Hit, DeliveryInv, Coherent, SlotsBelongToRunningTurn, Live
  <2> QED
    BY <2>2, <2>3, <2>4 DEF Finalized
<1>8. CASE Release
  <2>1. CASE gate /\ running = lease.task
    <3>1. /\ running' = NoTask /\ UNCHANGED <<epoch, slotVars, waits>> /\ pc' = "finish"
      BY <1>8, <2>1 DEF Release, futureVars
    <3>2. \A m \in Live : slot[m].turn # running.epoch
      BY <1>8, <2>1 DEF Release, DeliveryInv, Finalized
    <3>3. Live = {} /\ ~noted
      BY <1>8, <2>1, <3>2 DEF Release, DeliveryInv, Finalized, Coherent, SlotsBelongToRunningTurn
    <3>4. ~signal
      BY <3>3 DEF DeliveryInv, Coherent, SignalIsExact, Signal, Pending, Live
    <3>5. Live' = {} /\ ~noted' /\ ~signal'
      BY <3>1, <3>3, <3>4 DEF Live, slotVars
    <3> QED
      BY <3>1, <3>5 DEF DeliveryInv, Coherent, Finalized, SlotsBelongToRunningTurn, SignalIsExact,
                        Signal, MarkIsLiveTurns, IsRunning, slotVars
  <2>2. CASE ~(gate /\ running = lease.task)
    BY <1>8, <2>2, FrameCoherent DEF Release, futureVars
  <2> QED
    BY <2>1, <2>2
<1> QED
  BY <1>1, <1>2, <1>3, <1>4, <1>5, <1>6, <1>7, <1>8 DEF LoopNext

(* So do the steps of the turn future and its tools.                       *)
LEMMA TurnDeliverySteps ==
    ASSUME DeliveryInv, TurnNext
    PROVE  Coherent' /\ Finalized'
<1>1. CASE FirstOutput \/ BarrierFails \/ CommitFails \/ TurnEnds
  BY <1>1, FrameCoherent DEF FirstOutput, BarrierFails, CommitFails, TurnEnds, actorVars,
                             futureVars, loopVars
<1>2. CASE WaitStarts
  <2>1. waits' \subseteq waits \cup {epoch}
    BY <1>2 DEF WaitStarts, DeliveryInv, Coherent
  <2> QED
    BY <1>2, <2>1, FrameCoherent DEF WaitStarts, actorVars, loopVars
<1>3. CASE \E e \in waits : WaitReturns(e)
  BY <1>3, FrameCoherent DEF WaitReturns, actorVars, loopVars
<1>4. CASE \E e \in waits : WaitAborts(e)
  <2>1. PICK e \in waits : WaitAborts(e)
    BY <1>4
  <2>2. /\ e \in Nat /\ e <= epoch /\ mark \in Nat /\ mark <= epoch /\ epoch \in Nat
        /\ mark' = IF mark <= e THEN e ELSE mark
        /\ noted' = (noted \/ (IsRunning /\ running.epoch = e))
        /\ UNCHANGED <<running, epoch, slot, signal, pc, lease>> /\ signal
        /\ waits' \subseteq waits
    BY <2>1 DEF WaitAborts, DeliveryInv, Coherent, TypeInv, TypeOK, actorVars, loopVars
  <2>3. IsRunning /\ running.epoch = epoch
    BY <2>2 DEF DeliveryInv, Coherent, SignalIsExact, Signal, IsRunning
  <2>4. PICK m \in Msgs : slot[m].st = "Pending" /\ slot[m].turn = running.epoch
    BY <2>2 DEF DeliveryInv, Coherent, SignalIsExact, Signal, Pending
  <2>5. m \in Live
    BY <2>4 DEF Live
  <2>6. MarkIsLiveTurns'
    <3>1. noted <=> mark = epoch
      BY <2>3 DEF DeliveryInv, Coherent, MarkIsLiveTurns
    <3>2. noted' <=> noted \/ epoch = e
      BY <2>2, <2>3
    <3>3. noted' <=> mark' = epoch
      BY <2>2, <3>1, <3>2
    <3> QED
      BY <2>2, <2>3, <3>3 DEF MarkIsLiveTurns
  <2>7. Coherent'
    BY <2>2, <2>3, <2>6 DEF DeliveryInv, Coherent, SlotsBelongToRunningTurn, SignalIsExact,
                            Signal, Pending, IsRunning, Live
  <2>8. Finalized'
    BY <2>2, <2>4, <2>5 DEF DeliveryInv, Finalized, Live
  <2> QED
    BY <2>7, <2>8
<1>5. CASE SafePoint
  <2>1. \A m \in Msgs : /\ slot'[m].turn = slot[m].turn
                         /\ slot'[m].st = "Free" <=> slot[m].st = "Free"
    BY <1>5 DEF SafePoint, Pending, DeliveryInv, TypeInv, TypeOK, Slots
  <2>2. Live' = Live /\ IsRunning /\ \A m \in Live : slot'[m].turn = slot[m].turn
    BY <1>5, <2>1 DEF Live, SafePoint
  <2>3. /\ UNCHANGED <<running, epoch, waits, pc, lease>> /\ mark' = 0 /\ ~noted'
        /\ signal' = Signal(slot', running)
    BY <1>5 DEF SafePoint, actorVars, loopVars
  <2>4. MarkIsLiveTurns' /\ SignalIsExact' /\ mark' <= epoch'
    BY <2>2, <2>3, RunningTask DEF DeliveryInv, MarkIsLiveTurns, SignalIsExact, IsRunning,
                                   TypeInv, TypeOK
  <2>5. Coherent'
    BY <2>2, <2>3, <2>4 DEF DeliveryInv, Coherent, SlotsBelongToRunningTurn, IsRunning
  <2>6. Finalized'
    BY <2>2, <2>3 DEF DeliveryInv, Finalized
  <2> QED
    BY <2>5, <2>6
<1>6. CASE Commit
  <2>1. \A m \in Msgs : /\ slot'[m].turn = slot[m].turn /\ slot'[m].op = slot[m].op
                         /\ (slot'[m].st = "Free") = (slot[m].st = "Free")
                         /\ (slot'[m].st = "Pending") = (slot[m].st = "Pending")
    <3> SUFFICES ASSUME NEW m \in Msgs
                 PROVE  /\ slot'[m].turn = slot[m].turn /\ slot'[m].op = slot[m].op
                        /\ (slot'[m].st = "Free") = (slot[m].st = "Free")
                        /\ (slot'[m].st = "Pending") = (slot[m].st = "Pending")
      OBVIOUS
    <3>1. slot[m] \in Slots
      BY DEF DeliveryInv, TypeInv, TypeOK
    <3>2. slot'[m] = IF m \in Projecting THEN [slot[m] EXCEPT !.st = "Delivered"] ELSE slot[m]
      BY <1>6 DEF Commit
    <3>3. m \in Projecting => slot[m].st = "Projecting"
      BY DEF Projecting
    <3> QED
      BY <3>1, <3>2, <3>3 DEF Slots
  <2>2. Live' = Live /\ Live \subseteq Msgs /\ \A e : Pending(slot', e) = Pending(slot, e)
    BY <2>1 DEF Live, Pending
  <2>3. UNCHANGED <<running, epoch, waits, pc, lease, mark, noted, signal>>
    BY <1>6 DEF Commit, actorVars, loopVars
  <2>4. SignalIsExact'
    <3>1. \A e : \A m \in Pending(slot, e) : m \in Msgs
      BY DEF Pending
    <3> QED
      BY <2>1, <2>2, <2>3, <3>1 DEF DeliveryInv, Coherent, SignalIsExact, Signal
  <2>5. Coherent'
    BY <2>1, <2>2, <2>3, <2>4 DEF DeliveryInv, Coherent, SlotsBelongToRunningTurn,
                                  MarkIsLiveTurns, IsRunning
  <2>6. Finalized'
    BY <2>1, <2>2, <2>3 DEF DeliveryInv, Finalized
  <2> QED
    BY <2>5, <2>6
<1> QED
  BY <1>1, <1>2, <1>3, <1>4, <1>5, <1>6 DEF TurnNext

(* So do new commands and the spawned plan approval.                       *)
LEMMA CommandDelivery ==
    ASSUME DeliveryInv, CommandNext \/ ResumeNext \/ UNCHANGED vars
    PROVE  Coherent' /\ Finalized'
<1>1. CASE \/ \E u \in Users : Prompt(u)
           \/ \E p \in Prompts : RewindDropsRow(p)
           \/ \E c \in done : CompletionClaim(c)
  BY <1>1, FrameCoherent DEF Prompt, RewindDropsRow, CompletionClaim, futureVars
<1>2. CASE \/ \E k \in {"soft", "hard"} : CancelClaim(k)
           \/ \E named \in Prompts \cup {NoPrompt} : RewindGeneric(named)
  BY <1>2, FrameCoherent DEF CancelClaim, RewindGeneric, actorVars, futureVars
<1>3. CASE \E m \in Msgs, op \in {"Queue", "Steer", "Interject"} : Admit(m, op)
  <2>1. PICK m \in Msgs, op \in {"Queue", "Steer", "Interject"} : Admit(m, op)
    BY <1>3
  <2>2. UNCHANGED <<running, epoch, waits, mark, noted>> /\ pc' = "kick"
    BY <2>1 DEF Admit, futureVars, slotVars
  <2>3. CASE slot' = slot /\ signal' = signal
    BY <2>2, <2>3 DEF DeliveryInv, Coherent, Finalized, SlotsBelongToRunningTurn, SignalIsExact,
                      Signal, Pending, MarkIsLiveTurns, IsRunning, Live
  <2>4. CASE /\ IsRunning /\ signal' = Signal(slot', running)
             /\ \A n \in Msgs : n # m => slot'[n] = slot[n]
             /\ slot'[m].turn = running.epoch
    BY <2>2, <2>4 DEF DeliveryInv, Coherent, Finalized, SlotsBelongToRunningTurn, SignalIsExact,
                      MarkIsLiveTurns, IsRunning, Live
  <2>5. CASE IsRunning /\ op # "Queue"
    <3>1. /\ signal' = Signal(slot', running)
          /\ slot' = [slot EXCEPT ![m] = [st |-> "Pending", turn |-> running.epoch,
                                          op |-> op, at |-> serial + 1]]
      BY <2>1, <2>5 DEF Admit
    <3>2. /\ \A n \in Msgs : n # m => slot'[n] = slot[n]
          /\ slot'[m].turn = running.epoch
      BY <3>1 DEF DeliveryInv, TypeInv, TypeOK
    <3> QED
      BY <2>4, <2>5, <3>1, <3>2
  <2>6. CASE ~(IsRunning /\ op # "Queue")
    BY <2>1, <2>3, <2>6 DEF Admit, slotVars
  <2> QED
    BY <2>5, <2>6
<1>4. CASE Shutdown
  <2>1. /\ Transition(All, "HardTeardown", running') /\ running' = running /\ epoch' = epoch
        /\ waits' = waits /\ pc' = "ended"
    BY <1>4 DEF Shutdown, futureVars
  <2> QED
    BY <2>1, TransitionCoherent DEF Finalized
<1>5. CASE \E p \in Users \cup Resumes : RewindNamed(p)
  <2>1. /\ Transition(epoch, "Rewind", running') /\ (running' = running \/ running' = NoTask)
        /\ epoch' = epoch /\ waits' = waits /\ pc' = "settle" /\ lease'.kind = "rewound"
    BY <1>5 DEF RewindNamed, NoLease
  <2>2. IsRunning => running.epoch = epoch
    BY DEF DeliveryInv, Coherent
  <2> QED
    BY <2>1, <2>2, TransitionCoherent DEF Finalized, Keeps
<1>6. CASE ResumeNext
  <2>1. ASSUME NEW r \in Resumes, Resume(r) PROVE Coherent' /\ Finalized'
    BY <2>1, FrameCoherent DEF Resume, futureVars, loopVars
  <2>2. ASSUME NEW r \in Resumes, ResumeKick(r) PROVE Coherent' /\ Finalized'
    <3>1. Start /\ UNCHANGED <<slotVars, pc, lease>> /\ waits' = waits
      BY <2>2 DEF ResumeKick, loopVars, Start, futureVars
    <3> QED
      BY <3>1, StartCoherent
  <2> QED
    BY <1>6, <2>1, <2>2 DEF ResumeNext
<1>7. CASE UNCHANGED vars
  BY <1>7, FrameCoherent DEF vars, actorVars, futureVars, loopVars
<1> QED
  BY <1>1, <1>2, <1>3, <1>4, <1>5, <1>6, <1>7 DEF CommandNext

(* The inductive invariant of parent-message delivery holds: slots, signal *)
(* and mark agree with the running turn at every await of every handler.   *)
THEOREM DeliveryInvariant == Spec => []DeliveryInv
<1>1. DeliveryInv /\ [Next]_vars => DeliveryInv'
  BY StepType, LoopDelivery, TurnDeliverySteps, CommandDelivery DEF DeliveryInv, Next
<1> QED
  BY <1>1, InitDelivery, PTL DEF Spec

(* No parent message survives its turn in a slot, whatever completion,     *)
(* cancel, rewind or shutdown ended it (lifecycle.rs, transition).         *)
THEOREM NoSlotOutlivesItsTurn == Spec => []SlotsBelongToRunningTurn
BY DeliveryInvariant, PTL DEF DeliveryInv, Coherent

(* The interject signal a wait tool polls is exact in every state.         *)
THEOREM SignalExact == Spec => []SignalIsExact
BY DeliveryInvariant, PTL DEF DeliveryInv, Coherent

(* A late note of an earlier turn's tool never counts for the running      *)
(* turn, and the running turn's own note is never lost                     *)
(* (parent_interject.rs, note_wait_aborted).                               *)
THEOREM MarkExact == Spec => []MarkIsLiveTurns
BY DeliveryInvariant, PTL DEF DeliveryInv, Coherent

-----------------------------------------------------------------------------
(* The command loop: the running prompt stays the front row, no prompt is  *)
(* stranded behind an idle session, and, where no plan approval runs off   *)
(* the loop, no lease is ever dropped with the gate closed.                *)
Owns == lease.kind \in {"completion", "soft", "hard"}

(* What a handler that holds the finalization lease may rely on between    *)
(* its lock sections, and what a closed gate without a lease means.        *)
LeaseHeld ==
    /\ Owns => gate /\ pc \in {"complete", "cancel", "settle", "release", "finish"}
    /\ Owns /\ pc # "finish" => running = lease.task
    /\ pc \in {"complete", "release", "finish"} => Owns
    /\ pc = "cancel" => lease.kind \in {"soft", "hard", "rewind"}
    /\ pc = "settle" => lease.kind # "none"
    /\ pc = "complete" => IsRunning
    /\ pc = "finish" => ~IsRunning
    /\ gate /\ ~Owns => ~IsRunning

LoopInv == LeaseHeld /\ FrontIsRunning /\ NoStrandedPrompt

-----------------------------------------------------------------------------
(* A queue has a front row exactly when it has a row.                      *)
LEMMA FrontIsPrompt ==
    ASSUME NEW q \in Seq(Prompts)
    PROVE  Front(q) # NoPrompt <=> q # <<>>
<1>1. ASSUME q # <<>> PROVE Head(q) \in Prompts
  BY <1>1, HeadTailProperties
<1>2. NoPrompt \notin Prompts
  BY ConstantsAssumption DEF Prompts
<1> QED
  BY <1>1, <1>2 DEF Front

(* queue_input appends: the front row of a queue that has one stays.       *)
LEMMA FrontOfAppend ==
    ASSUME NEW q \in Seq(Prompts), NEW x \in Prompts, q # <<>>
    PROVE  Front(Append(q, x)) = Front(q) /\ Append(q, x) # <<>>
<1>1. /\ Append(q, x) \in Seq(Prompts) /\ Len(Append(q, x)) = Len(q) + 1
      /\ Append(q, x)[1] = q[1] /\ Len(q) \in Nat \ {0}
  BY AppendProperties, EmptySeq, LenProperties
<1>2. Append(q, x) # <<>> /\ Head(Append(q, x)) = Head(q)
  BY <1>1, HeadTailProperties
<1> QED
  BY <1>2 DEF Front

(* While a turn runs its prompt is a row of the queue.                     *)
LEMMA RunningIsQueued ==
    ASSUME TypeOK, FrontIsRunning, IsRunning, pc # "ended", ~(gate /\ pc \in {"settle", "release"})
    PROVE  queue # <<>> /\ Front(queue) = running.prompt
<1>1. running.prompt # NoPrompt
  BY ConstantsAssumption DEF TypeOK, IsRunning, Tasks, Prompts
<1> QED
  BY <1>1, FrontIsPrompt DEF FrontIsRunning, TypeOK

(* What touches neither the queue nor the loop keeps the invariant.        *)
LEMMA LoopFrame ==
    ASSUME LoopInv, UNCHANGED <<queue, running, gate, pc, lease, asked>>
    PROVE  LoopInv'
BY DEF LoopInv, LeaseHeld, FrontIsRunning, NoStrandedPrompt, Owns, IsRunning

(* maybe_start_running_task promotes the front row, and leaves a queue     *)
(* alone only if it is empty, a turn runs or the gate is closed.           *)
LEMMA LoopStart ==
    ASSUME TypeInv, LoopInv, Start, UNCHANGED <<queue, gate, lease>>,
           \/ pc = "kick" /\ pc' = "loop"
           \/ pc' = pc /\ pc # "ended"
    PROVE  LoopInv'
<1>1. CASE CanStart
  <2>1. /\ running' = [prompt |-> Head(queue), epoch |-> epoch + 1] /\ ~gate /\ queue # <<>>
        /\ epoch \in Nat
    BY <1>1 DEF Start, CanStart, TypeInv, TypeOK
  <2>2. running'.epoch # NoTask.epoch /\ running'.prompt = Front(queue)'
    BY <2>1 DEF NoTask, Front
  <2>3. IsRunning'
    BY <2>2 DEF IsRunning
  <2>4. LeaseHeld'
    BY <2>1 DEF LoopInv, LeaseHeld, Owns
  <2> QED
    BY <2>2, <2>3, <2>4 DEF LoopInv, FrontIsRunning, NoStrandedPrompt
<1>2. CASE ~CanStart
  <2>1. running' = running
    BY <1>2 DEF Start
  <2>2. LeaseHeld'
    BY <2>1 DEF LoopInv, LeaseHeld, Owns, IsRunning
  <2>3. FrontIsRunning'
    BY <2>1 DEF LoopInv, FrontIsRunning, IsRunning, Front
  <2>4. NoStrandedPrompt'
    BY <1>2, <2>1 DEF NoStrandedPrompt, CanStart, IsRunning
  <2> QED
    BY <2>2, <2>3, <2>4 DEF LoopInv
<1> QED
  BY <1>1, <1>2

(* The steps of a handler that ends a turn or lets go of its lease.        *)
LEMMA LoopHandlers ==
    ASSUME TypeInv, LoopInv, LoopNext
    PROVE  LoopInv'
<1> USE DEF LoopInv, LeaseHeld, Owns
<1>1. CASE Kick
  BY <1>1, LoopStart DEF Kick, inputVars
<1>2. CASE CompletionTransition
  <2>1. /\ pc = "complete" /\ pc' = "settle"
        /\ UNCHANGED <<running, gate, lease>>
    BY <1>2 DEF CompletionTransition
  <2> QED
    BY <2>1 DEF FrontIsRunning, NoStrandedPrompt, IsRunning
<1>3. CASE EarlyAbort
  BY <1>3, LoopFrame DEF EarlyAbort, actorVars, loopVars, inputVars
<1>4. CASE CancelTransition
  <2>1. /\ pc = "cancel" /\ pc' = "settle" /\ UNCHANGED <<gate, lease>>
        /\ lease.kind \in {"soft", "hard"} => gate /\ running' = running
        /\ lease.kind \notin {"soft", "hard"} => running' = NoTask
    BY <1>4 DEF CancelTransition, BindingIsCurrent
  <2> QED
    BY <2>1 DEF FrontIsRunning, NoStrandedPrompt, IsRunning
<1>5. CASE CancelNoop
  <2>1. /\ pc = "cancel" /\ lease' = NoLease /\ UNCHANGED <<queue, running, gate, asked>>
        /\ lease.kind \in {"soft", "hard"} => ~BindingIsCurrent
        /\ pc' = IF lease.kind = "rewind" THEN "kick" ELSE "loop"
    BY <1>5 DEF CancelNoop, actorVars, inputVars
  <2>2. lease \in Leases
    BY DEF TypeInv, TypeOK
  <2> QED
    BY <2>1, <2>2 DEF BindingIsCurrent, FrontIsRunning, NoStrandedPrompt, IsRunning, NoLease
<1>6. CASE Settle
  <2>1. /\ pc = "settle" /\ UNCHANGED <<queue, running, gate>>
        /\ IF lease.kind \in {"rewind", "rewound"} THEN pc' = "kick" /\ lease' = NoLease
           ELSE lease' = lease /\ pc' = IF lease.task # NoTask THEN "release" ELSE "finish"
    BY <1>6 DEF Settle, actorVars
  <2>2. lease.kind \in {"none", "completion", "soft", "hard", "rewind", "rewound"}
    BY DEF TypeInv, TypeOK, Leases
  <2> QED
    BY <2>1, <2>2 DEF FrontIsRunning, NoStrandedPrompt, IsRunning, NoLease
<1>7. CASE Release
  <2>1. pc = "release" /\ gate /\ running = lease.task
    BY <1>7 DEF Release
  <2>2. pc' = "finish" /\ running' = NoTask /\ UNCHANGED <<queue, gate, lease>>
    BY <1>7, <2>1 DEF Release
  <2> QED
    BY <2>1, <2>2 DEF FrontIsRunning, NoStrandedPrompt, IsRunning
<1>8. CASE Finish
  <2>1. pc = "finish" /\ ~IsRunning /\ running' = running /\ lease' = NoLease /\ pc' = "kick"
    BY <1>8 DEF Finish
  <2>2. ~gate'
    BY <1>8, <2>1 DEF Finish
  <2> QED
    BY <2>1, <2>2 DEF FrontIsRunning, NoStrandedPrompt, IsRunning, NoLease
<1> QED
  BY <1>1, <1>2, <1>3, <1>4, <1>5, <1>6, <1>7, <1>8 DEF LoopNext

(* The commands the loop takes from its channel.                           *)
LEMMA LoopCommands ==
    ASSUME TypeInv, LoopInv, CommandNext
    PROVE  LoopInv'
<1> USE DEF LoopInv, LeaseHeld, Owns
<1>1. ASSUME NEW x \in Prompts, pc = "loop", queue' = Append(queue, x), pc' = "kick",
             UNCHANGED <<running, gate, lease>>
      PROVE  LoopInv'
  <2>1. IsRunning => queue # <<>> /\ Front(queue) = running.prompt
    BY <1>1, RunningIsQueued DEF TypeInv
  <2>2. IsRunning => Front(queue') = running.prompt
    BY <1>1, <2>1, FrontOfAppend DEF TypeInv, TypeOK
  <2> QED
    BY <1>1, <2>2 DEF FrontIsRunning, NoStrandedPrompt, IsRunning, Front
<1>2. ASSUME NEW u \in Users, Prompt(u) PROVE LoopInv'
  BY <1>1, <1>2 DEF Prompt, Prompts
<1>3. ASSUME NEW m \in Msgs, NEW op \in {"Queue", "Steer", "Interject"}, Admit(m, op) PROVE LoopInv'
  <2>1. pc = "loop" /\ pc' = "kick" /\ UNCHANGED <<running, gate, lease>>
    BY <1>3 DEF Admit
  <2>2. queue' = Append(queue, m) \/ queue' = queue
    BY <1>3 DEF Admit
  <2>3. CASE queue' = queue
    BY <2>1, <2>3 DEF FrontIsRunning, NoStrandedPrompt, IsRunning
  <2>4. CASE queue' = Append(queue, m)
    BY <1>1, <2>1, <2>4 DEF Prompts
  <2> QED
    BY <2>2, <2>3, <2>4
<1>4. ASSUME NEW c \in done, CompletionClaim(c) PROVE LoopInv'
  <2>1. CASE Claimable(c)
    <3>1. /\ pc' = "complete" /\ gate' /\ running' = running /\ running = c
          /\ lease' = [NoLease EXCEPT !.kind = "completion", !.task = c]
      BY <1>4, <2>1 DEF CompletionClaim, Claimable
    <3>2. lease'.kind = "completion" /\ lease'.task = c
      BY <3>1 DEF NoLease
    <3>3. c \in Tasks /\ c # NoTask
      BY DEF TypeInv, TypeOK, Tasks, NoTask
    <3>4. queue' = queue /\ Front(queue) = running.prompt
      BY <1>4, <2>1 DEF CompletionClaim, Claimable
    <3> QED
      BY <3>1, <3>2, <3>3, <3>4 DEF IsRunning, FrontIsRunning, NoStrandedPrompt
  <2>2. CASE ~Claimable(c)
    BY <1>4, <2>2, LoopFrame DEF CompletionClaim, inputVars
  <2> QED
    BY <2>1, <2>2
<1>5. ASSUME NEW k \in {"soft", "hard"}, CancelClaim(k) PROVE LoopInv'
  <2>1. /\ pc = "loop" /\ pc' = "cancel" /\ gate' /\ UNCHANGED <<queue, running>>
        /\ lease' = [NoLease EXCEPT !.kind = k, !.task = running, !.front = Front(queue)]
    BY <1>5 DEF CancelClaim
  <2>2. lease'.kind = k /\ lease'.task = running
    BY <2>1 DEF NoLease
  <2> QED
    BY <2>1, <2>2 DEF FrontIsRunning, NoStrandedPrompt, IsRunning
<1>6. ASSUME NEW p \in Users \cup Resumes, RewindNamed(p) PROVE LoopInv'
  <2>1. /\ pc = "loop" /\ pc' = "settle" /\ gate' = gate /\ Front(queue) = p
        /\ running' = IF running.prompt = p THEN NoTask ELSE running
        /\ lease' = [NoLease EXCEPT !.kind = "rewound"]
    BY <1>6 DEF RewindNamed
  <2>2. running' = NoTask
    BY <2>1, RunningIsQueued DEF TypeInv, IsRunning
  <2>3. lease'.kind = "rewound"
    BY <2>1 DEF NoLease
  <2> QED
    BY <2>1, <2>2, <2>3 DEF FrontIsRunning, NoStrandedPrompt, IsRunning
<1>7. ASSUME NEW p \in Prompts, RewindDropsRow(p) PROVE LoopInv'
  <2>1. /\ pc = "loop" /\ pc' = "kick" /\ UNCHANGED <<running, gate, lease>>
        /\ Front(queue) # p
    BY <1>7 DEF RewindDropsRow
  <2>2. PICK i \in DOMAIN queue :
            /\ queue[i] = p
            /\ queue' = SubSeq(queue, 1, i - 1) \o SubSeq(queue, i + 1, Len(queue))
    BY <1>7 DEF RewindDropsRow
  <2>3. queue \in Seq(Prompts) /\ i \in 1..Len(queue) /\ Len(queue) \in Nat
    BY LenProperties DEF TypeInv, TypeOK
  <2>4. i # 1 /\ queue # <<>>
    BY <2>1, <2>2, <2>3, HeadTailProperties DEF Front
  <2>7. queue' \in Seq(Prompts) /\ queue'[1] = queue[1] /\ Len(queue') > 0
    BY <2>2, <2>3, <2>4, RowRemoved
  <2>8. Front(queue') = Front(queue)
    BY <2>3, <2>4, <2>7, HeadTailProperties, EmptySeq DEF Front
  <2> QED
    BY <2>1, <2>8 DEF FrontIsRunning, NoStrandedPrompt, IsRunning, Front
<1>8. ASSUME NEW named \in Prompts \cup {NoPrompt}, RewindGeneric(named) PROVE LoopInv'
  <2>1. /\ pc = "loop" /\ pc' = "cancel" /\ UNCHANGED <<queue, running, gate>>
        /\ lease' = [NoLease EXCEPT !.kind = "rewind", !.named = named]
    BY <1>8 DEF RewindGeneric, actorVars
  <2>2. lease'.kind = "rewind"
    BY <2>1 DEF NoLease
  <2> QED
    BY <2>1, <2>2 DEF FrontIsRunning, NoStrandedPrompt, IsRunning
<1>9. CASE Shutdown
  <2>1. pc = "loop" /\ pc' = "ended" /\ UNCHANGED <<running, gate, lease>>
    BY <1>9 DEF Shutdown
  <2> QED
    BY <2>1 DEF FrontIsRunning, NoStrandedPrompt, IsRunning
<1> QED
  BY <1>2, <1>3, <1>4, <1>5, <1>6, <1>7, <1>8, <1>9 DEF CommandNext

(* A plan approval appends its prompt whatever the loop is doing.          *)
LEMMA LoopResumes ==
    ASSUME TypeInv, LoopInv, ResumeNext
    PROVE  LoopInv'
<1>1. ASSUME NEW r \in Resumes, Resume(r) PROVE LoopInv'
  <2>1. /\ pc # "ended" /\ queue' = Append(queue, r) /\ asked' = [asked EXCEPT ![r] = "queued"]
        /\ UNCHANGED <<running, gate, pc, lease>>
    BY <1>1 DEF Resume, loopVars
  <2>2. LeaseHeld'
    BY <2>1 DEF LoopInv, LeaseHeld, Owns, IsRunning
  <2>3. FrontIsRunning'
    <3> SUFFICES ASSUME IsRunning, ~(gate /\ pc \in {"settle", "release"})
                 PROVE  Front(queue') = running.prompt
      BY <2>1 DEF FrontIsRunning, IsRunning, Front
    <3>1. queue # <<>> /\ Front(queue) = running.prompt
      BY <2>1, RunningIsQueued DEF TypeInv, LoopInv
    <3> QED
      BY <2>1, <3>1, FrontOfAppend DEF TypeInv, TypeOK, Prompts
  <2>4. NoStrandedPrompt'
    BY <2>1 DEF NoStrandedPrompt, TypeInv, TypeOK
  <2> QED
    BY <2>2, <2>3, <2>4 DEF LoopInv
<1>2. ASSUME NEW r \in Resumes, ResumeKick(r) PROVE LoopInv'
  BY <1>2, LoopStart DEF ResumeKick, loopVars
<1> QED
  BY <1>1, <1>2 DEF ResumeNext

(* The turn future touches neither the queue nor the loop.                 *)
LEMMA LoopTurns ==
    ASSUME LoopInv, TurnNext \/ UNCHANGED vars
    PROVE  LoopInv'
BY LoopFrame DEF TurnNext, FirstOutput, SafePoint, BarrierFails, Commit, CommitFails, WaitStarts,
                 TurnEnds, WaitAborts, WaitReturns, vars, actorVars, loopVars, inputVars

LEMMA InitLoop == Init => LoopInv
BY DEF Init, LoopInv, LeaseHeld, Owns, NoLease, FrontIsRunning, NoStrandedPrompt, IsRunning

(* The inductive invariant of the loop: who holds the lease holds the gate *)
(* closed on the task it claimed, and a gate nobody will open has no turn  *)
(* behind it (turn_task.rs, cancel.rs).                                    *)
THEOREM LoopInvariant == Spec => [](TypeInv /\ LoopInv)
<1>1. TypeInv /\ LoopInv /\ [Next]_vars => TypeInv' /\ LoopInv'
  BY StepType, LoopHandlers, LoopCommands, LoopResumes, LoopTurns DEF Next
<1> QED
  BY <1>1, InitType, InitLoop, PTL DEF Spec

(* Prompts that plan approvals queue between two lock sections never get   *)
(* in front of the running prompt: claim_task_finalization and the         *)
(* cancel's `idx == 0` find it there.                                      *)
THEOREM FrontRuns == Spec => []FrontIsRunning
BY LoopInvariant, PTL DEF LoopInv

(* Whenever the loop waits for a command and no turn runs or is being      *)
(* finalized, the queue is empty: every handler that may leave a prompt    *)
(* behind kicks it (maybe_start_running_task).                             *)
THEOREM NoPromptStranded == Spec => []NoStrandedPrompt
BY LoopInvariant, PTL DEF LoopInv

-----------------------------------------------------------------------------
(* Without plan approvals nothing touches the queue or starts a turn while *)
(* a cancel is between its two lock sections: the binding it claimed is    *)
(* still current.                                                          *)
BindingKept == pc = "cancel" /\ Owns => BindingIsCurrent

LEMMA OwnerFrame ==
    ASSUME GateHasOwner, BindingKept, UNCHANGED <<queue, running, gate, pc, lease>>
    PROVE  GateHasOwner' /\ BindingKept'
BY DEF GateHasOwner, BindingKept, BindingIsCurrent, Owns

LEMMA OwnerHandlers ==
    ASSUME TypeInv, LoopInv, GateHasOwner, BindingKept, LoopNext
    PROVE  GateHasOwner' /\ BindingKept'
<1> USE DEF LoopInv, LeaseHeld, Owns, GateHasOwner, BindingKept
<1>1. CASE Kick
  BY <1>1 DEF Kick
<1>2. CASE CompletionTransition
  BY <1>2 DEF CompletionTransition
<1>3. CASE EarlyAbort
  BY <1>3, OwnerFrame DEF EarlyAbort, actorVars, loopVars
<1>4. CASE CancelTransition
  BY <1>4 DEF CancelTransition
<1>5. CASE CancelNoop
  <2>1. pc = "cancel" /\ pc' # "cancel" /\ gate' = gate /\ lease.kind \notin {"soft", "hard"}
    BY <1>5 DEF CancelNoop, actorVars
  <2> QED
    BY <2>1
<1>6. CASE Settle
  <2>1. /\ pc' # "cancel" /\ gate' = gate
        /\ lease' = IF lease.kind \in {"rewind", "rewound"} THEN NoLease ELSE lease
    BY <1>6 DEF Settle, actorVars
  <2> QED
    BY <2>1
<1>7. CASE Release
  <2>1. pc = "release" /\ gate /\ running = lease.task
    BY <1>7 DEF Release
  <2> QED
    BY <1>7, <2>1 DEF Release
<1>8. CASE Finish
  <2>1. pc' # "cancel" /\ ~gate'
    BY <1>8 DEF Finish
  <2> QED
    BY <2>1
<1> QED
  BY <1>1, <1>2, <1>3, <1>4, <1>5, <1>6, <1>7, <1>8 DEF LoopNext

LEMMA OwnerCommands ==
    ASSUME TypeInv, LoopInv, GateHasOwner, BindingKept, CommandNext
    PROVE  GateHasOwner' /\ BindingKept'
<1> USE DEF LoopInv, LeaseHeld, Owns, GateHasOwner, BindingKept
<1>1. pc = "loop" /\ ~gate
  BY DEF CommandNext, Prompt, Admit, CompletionClaim, CancelClaim, RewindNamed, RewindDropsRow,
         RewindGeneric, Shutdown
<1>2. ASSUME NEW u \in Users, Prompt(u) PROVE GateHasOwner' /\ BindingKept'
  BY <1>1, <1>2 DEF Prompt
<1>3. ASSUME NEW m \in Msgs, NEW op \in {"Queue", "Steer", "Interject"}, Admit(m, op)
      PROVE  GateHasOwner' /\ BindingKept'
  BY <1>1, <1>3 DEF Admit
<1>4. ASSUME NEW c \in done, CompletionClaim(c) PROVE GateHasOwner' /\ BindingKept'
  <2>1. CASE Claimable(c)
    <3>1. pc' = "complete" /\ lease' = [NoLease EXCEPT !.kind = "completion", !.task = c]
      BY <1>4, <2>1 DEF CompletionClaim
    <3>2. lease'.kind = "completion"
      BY <3>1 DEF NoLease
    <3> QED
      BY <3>1, <3>2
  <2>2. CASE ~Claimable(c)
    BY <1>4, <2>2, OwnerFrame DEF CompletionClaim
  <2> QED
    BY <2>1, <2>2
<1>5. ASSUME NEW k \in {"soft", "hard"}, CancelClaim(k) PROVE GateHasOwner' /\ BindingKept'
  <2>1. /\ gate' /\ UNCHANGED <<queue, running>>
        /\ IsRunning => Front(queue) = running.prompt
        /\ lease' = [NoLease EXCEPT !.kind = k, !.task = running, !.front = Front(queue)]
    BY <1>5 DEF CancelClaim
  <2>2. lease'.kind = k /\ lease'.task = running /\ lease'.front = Front(queue)
    BY <2>1 DEF NoLease
  <2>3. BindingIsCurrent'
    BY <2>1, <2>2 DEF BindingIsCurrent, IsRunning, Front
  <2> QED
    BY <2>2, <2>3
<1>6. ASSUME NEW p \in Users \cup Resumes, RewindNamed(p) PROVE GateHasOwner' /\ BindingKept'
  BY <1>1, <1>6 DEF RewindNamed
<1>7. ASSUME NEW p \in Prompts, RewindDropsRow(p) PROVE GateHasOwner' /\ BindingKept'
  BY <1>1, <1>7 DEF RewindDropsRow
<1>8. ASSUME NEW named \in Prompts \cup {NoPrompt}, RewindGeneric(named)
      PROVE  GateHasOwner' /\ BindingKept'
  <2>1. ~gate' /\ lease' = [NoLease EXCEPT !.kind = "rewind", !.named = named]
    BY <1>1, <1>8 DEF RewindGeneric, actorVars
  <2>2. lease'.kind = "rewind"
    BY <2>1 DEF NoLease
  <2> QED
    BY <2>1, <2>2
<1>9. CASE Shutdown
  BY <1>1, <1>9 DEF Shutdown
<1> QED
  BY <1>2, <1>3, <1>4, <1>5, <1>6, <1>7, <1>8, <1>9 DEF CommandNext

(* turn_task.rs: "a committed finalization lease must be finished". Where  *)
(* no restored plan approval is waiting, the gate is never left closed     *)
(* without a handler that will open it. With one it is: the run turn_lease *)
(* shows the cancel that loses its binding and drops its lease.            *)
THEOREM GateOwned ==
    ASSUME Resumes = {}
    PROVE  Spec => []GateHasOwner
<1>1. Init => GateHasOwner /\ BindingKept
  BY DEF Init, GateHasOwner, BindingKept
<1>2. TypeInv /\ LoopInv /\ GateHasOwner /\ BindingKept /\ [Next]_vars
        => GateHasOwner' /\ BindingKept'
  <2> SUFFICES ASSUME TypeInv, LoopInv, GateHasOwner, BindingKept, [Next]_vars
               PROVE  GateHasOwner' /\ BindingKept'
    OBVIOUS
  <2>1. CASE TurnNext \/ UNCHANGED vars
    BY <2>1, OwnerFrame
    DEF TurnNext, FirstOutput, SafePoint, BarrierFails, Commit, CommitFails, WaitStarts,
        TurnEnds, WaitAborts, WaitReturns, vars, actorVars, loopVars
  <2>2. ~ResumeNext
    BY DEF ResumeNext
  <2> QED
    BY <2>1, <2>2, OwnerHandlers, OwnerCommands DEF Next
<1> QED
  BY <1>1, <1>2, LoopInvariant, PTL DEF Spec
=============================================================================
