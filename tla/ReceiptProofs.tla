--------------------------- MODULE ReceiptProofs ---------------------------
(***************************************************************************)
(* Theorems about what becomes of a parent message in TurnDelivery: who    *)
(* owes its answer, when its text enters the conversation and in which     *)
(* order, and that the session actor implements Receipt.                   *)
(***************************************************************************)
EXTENDS TurnDeliveryProofs

(* No parent message has two rows in the queue.                            *)
Distinct(q) == \A i, j \in DOMAIN q : q[i] = q[j] /\ q[i] \in Msgs => i = j

(* The places that may hold a receipt: a slot, a handler about to answer,  *)
(* a row of the queue. A message is in at most one of them, and its open   *)
(* receipt is the only one not answered.                                   *)
Owed == Live \cup settling \cup Queued(queue)

(* The messages whose text has not entered the conversation: they wait for *)
(* a safe point, or for a turn of their own.                               *)
Undelivered == {m \in Msgs : slot[m].st \in {"Pending", "Projecting"}}
Unspoken == Queued(queue) \cup Undelivered

OwnedInv ==
    /\ Distinct(queue)
    /\ Live \cap settling = {} /\ Live \cap Queued(queue) = {} /\ settling \cap Queued(queue) = {}
    /\ settling # {} => pc = "settle"
    /\ \A m \in Msgs : admits[m] = resolved[m] + IF m \in Owed THEN 1 ELSE 0

-----------------------------------------------------------------------------
(* Rows of the queue under the operations of the handlers *)

(* queue_input: an append adds one row.                                    *)
LEMMA AppendRow ==
    ASSUME NEW q \in Seq(Prompts), NEW x \in Prompts, Distinct(q), x \notin Queued(q)
    PROVE  /\ Append(q, x) \in Seq(Prompts) /\ Distinct(Append(q, x))
           /\ Queued(Append(q, x)) = Queued(q) \cup ({x} \cap Msgs)
<1> DEFINE r == Append(q, x)
<1>1. /\ r \in Seq(Prompts) /\ Len(r) = Len(q) + 1 /\ Len(q) \in Nat
      /\ \A i \in 1..Len(q) : r[i] = q[i]
      /\ r[Len(q) + 1] = x
      /\ DOMAIN r = 1..Len(r) /\ DOMAIN q = 1..Len(q)
  BY AppendProperties, LenProperties
<1> HIDE DEF r
<1>2. Distinct(r)
  BY <1>1 DEF Distinct, Queued
<1>3. Queued(r) = Queued(q) \cup ({x} \cap Msgs)
  <2>1. \A m \in Msgs : (\E i \in 1..Len(r) : r[i] = m) <=> (m = x \/ \E i \in 1..Len(q) : q[i] = m)
    BY <1>1
  <2> QED
    BY <1>1, <2>1 DEF Queued
<1> QED
  BY <1>1, <1>2, <1>3 DEF r

(* r is q, of length len, without its nth row: those behind it move up.    *)
Leaves(q, r, n, len) ==
    /\ len \in Nat /\ n \in 1..len
    /\ q \in [1..len -> Prompts] /\ r \in [1..len - 1 -> Prompts]
    /\ \A k \in 1..len - 1 : r[k] = IF k < n THEN q[k] ELSE q[k + 1]

(* One row leaves, wherever it stands.                                     *)
LEMMA RowLeaves ==
    ASSUME NEW q, NEW r, NEW n, NEW len, Leaves(q, r, n, len), Distinct(q)
    PROVE  Distinct(r) /\ Queued(r) = Queued(q) \ {q[n]}
<1> USE DEF Leaves
<1> DEFINE src(k) == IF k < n THEN k ELSE k + 1
<1>1. DOMAIN q = 1..len /\ DOMAIN r = 1..len - 1
  OBVIOUS
<1>2. \A k \in 1..len - 1 : src(k) \in 1..len /\ src(k) # n /\ r[k] = q[src(k)]
  OBVIOUS
<1>3. \A k, l \in 1..len - 1 : src(k) = src(l) => k = l
  OBVIOUS
<1>4. \A k \in 1..len : k # n => \E l \in 1..len - 1 : src(l) = k
  <2> SUFFICES ASSUME NEW k \in 1..len, k # n PROVE \E l \in 1..len - 1 : src(l) = k
    OBVIOUS
  <2>1. CASE k < n
    <3>1. k \in 1..len - 1 /\ src(k) = k
      BY <2>1
    <3> QED
      BY <3>1
  <2>2. CASE ~(k < n)
    <3>1. k - 1 \in 1..len - 1 /\ src(k - 1) = k
      BY <2>2
    <3> QED
      BY <3>1
  <2> QED
    BY <2>1, <2>2
<1> HIDE DEF src
<1>5. Distinct(r)
  BY <1>1, <1>2, <1>3 DEF Distinct
<1>6. ASSUME NEW m \in Msgs
      PROVE  (\E k \in 1..len - 1 : r[k] = m) <=> (m # q[n] /\ \E k \in 1..len : q[k] = m)
  <2>1. ASSUME NEW k \in 1..len - 1, r[k] = m PROVE m # q[n] /\ \E l \in 1..len : q[l] = m
    BY <1>1, <1>2, <2>1 DEF Distinct
  <2>2. ASSUME NEW k \in 1..len, q[k] = m, m # q[n] PROVE \E l \in 1..len - 1 : r[l] = m
    BY <1>2, <1>4, <2>2
  <2> QED
    BY <2>1, <2>2
<1>7. Queued(r) = Queued(q) \ {q[n]}
  BY <1>1, <1>6 DEF Queued
<1> QED
  BY <1>5, <1>7

(* The front row leaves.                                                   *)
LEMMA TailRows ==
    ASSUME NEW q \in Seq(Prompts), q # <<>>, Distinct(q)
    PROVE  /\ Tail(q) \in Seq(Prompts) /\ Distinct(Tail(q)) /\ Head(q) \in Prompts
           /\ Queued(Tail(q)) = Queued(q) \ {Head(q)}
           /\ Head(q) \in Msgs => Head(q) \in Queued(q)
<1> DEFINE r == Tail(q)
           len == Len(q)
<1>1. /\ r \in Seq(Prompts) /\ Len(r) = len - 1 /\ len \in Nat \ {0}
      /\ \A i \in 1..Len(r) : r[i] = q[i + 1]
      /\ q \in [1..len -> Prompts]
      /\ Head(q) = q[1] /\ Head(q) \in Prompts
  BY HeadTailProperties, LenProperties, EmptySeq
<1>2. r \in [1..len - 1 -> Prompts]
  <2>1. r \in [1..Len(r) -> Prompts]
    BY <1>1, LenProperties
  <2> QED
    BY <1>1, <2>1
<1> HIDE DEF r, len
<1>3. Leaves(q, r, 1, len)
  BY <1>1, <1>2 DEF Leaves
<1>4. Distinct(r) /\ Queued(r) = Queued(q) \ {q[1]}
  BY <1>3, RowLeaves
<1>5. q[1] \in Msgs => q[1] \in Queued(q)
  BY <1>1, <1>3 DEF Queued
<1> QED
  BY <1>1, <1>4, <1>5 DEF r

(* A rewind drops a row behind the front.                                  *)
LEMMA RemovedRow ==
    ASSUME NEW q \in Seq(Prompts), Distinct(q), NEW n \in 1..Len(q)
    PROVE  LET r == SubSeq(q, 1, n - 1) \o SubSeq(q, n + 1, Len(q))
           IN  r \in Seq(Prompts) /\ Distinct(r) /\ Queued(r) = Queued(q) \ {q[n]}
<1> DEFINE r == SubSeq(q, 1, n - 1) \o SubSeq(q, n + 1, Len(q))
           len == Len(q)
<1>1. /\ r \in Seq(Prompts) /\ Len(r) = len - 1
      /\ \A k \in 1..Len(r) : r[k] = IF k < n THEN q[k] ELSE q[k + 1]
  BY RowRemoved, Zenon
<1>2. len \in Nat /\ q \in [1..len -> Prompts] /\ n \in 1..len
  BY LenProperties
<1> HIDE DEF r, len
<1>3. r \in [1..Len(r) -> Prompts]
  BY <1>1, LenProperties
<1>4. Leaves(q, r, n, len)
  BY <1>1, <1>2, <1>3 DEF Leaves
<1>5. Distinct(r) /\ Queued(r) = Queued(q) \ {q[n]}
  BY <1>4, RowLeaves
<1> QED
  BY <1>1, <1>5, Zenon DEF r

(* InOrder lists every message of the set, once.                           *)
LEMMA InOrderCovers ==
    ASSUME TypeInv, NEW S \in SUBSET Live
    PROVE  /\ InOrder(S) \in Seq(S) /\ Len(InOrder(S)) = Cardinality(S)
           /\ DOMAIN InOrder(S) = 1..Len(InOrder(S)) /\ Len(InOrder(S)) \in Nat
           /\ \A i, j \in 1..Len(InOrder(S)) :
                 i < j => slot[InOrder(S)[i]].at < slot[InOrder(S)[j]].at
           /\ \A i, j \in 1..Len(InOrder(S)) : InOrder(S)[i] = InOrder(S)[j] => i = j
           /\ \A m \in S : \E i \in 1..Len(InOrder(S)) : InOrder(S)[i] = m
<1> DEFINE n == Cardinality(S)
           f == InOrder(S)
<1>1. /\ IsFiniteSet(S) /\ n \in Nat /\ f \in [1..n -> S]
      /\ \A i, j \in 1..n : i < j => slot[f[i]].at < slot[f[j]].at
  BY InOrderLists
<1>2. \A m \in S : slot[m].at \in Nat
  BY DEF Live, TypeInv, TypeOK, Slots
<1> HIDE DEF n, f
<1>3. \A i, j \in 1..n : f[i] = f[j] => i = j
  <2> SUFFICES ASSUME NEW i \in 1..n, NEW j \in 1..n, f[i] = f[j], i < j PROVE FALSE
    BY <1>1
  <2>1. slot[f[i]].at < slot[f[j]].at /\ slot[f[i]].at \in Nat
    BY <1>1, <1>2
  <2> QED
    BY <2>1
<1>4. f \in Injection(1..n, S)
  BY <1>1, <1>3, Fun_IsInj
<1>5. IsFiniteSet(1..n) /\ Cardinality(1..n) = n
  BY <1>1, FS_Interval
<1>6. f \in Surjection(1..n, S)
  BY <1>1, <1>4, <1>5, FS_Injection DEF n
<1>7. \A m \in S : \E i \in 1..n : f[i] = m
  BY <1>6 DEF Surjection
<1>8. f \in Seq(S)
  BY <1>1, ListIsSeq
<1>9. Len(f) = n /\ DOMAIN f = 1..n
  BY <1>1, <1>8
<1> QED
  BY <1>1, <1>3, <1>7, <1>8, <1>9 DEF n, f

(* r is q, of length len, followed by f, which lists S.                    *)
Joins(q, f, r, S, len, more) ==
    /\ len \in Nat /\ more \in Nat /\ S \in SUBSET Msgs
    /\ q \in [1..len -> Prompts] /\ f \in [1..more -> S] /\ r \in [1..len + more -> Prompts]
    /\ \A i, j \in 1..more : f[i] = f[j] => i = j
    /\ \A m \in S : \E i \in 1..more : f[i] = m
    /\ \A i \in 1..len + more : r[i] = IF i <= len THEN q[i] ELSE f[i - len]

(* A list of new messages joins the rows.                                  *)
LEMMA RowsJoin ==
    ASSUME NEW q, NEW f, NEW r, NEW S, NEW len, NEW more, Joins(q, f, r, S, len, more),
           Distinct(q), S \cap Queued(q) = {}
    PROVE  Distinct(r) /\ Queued(r) = Queued(q) \cup S
<1> USE DEF Joins
<1>1. DOMAIN q = 1..len /\ DOMAIN r = 1..len + more
  OBVIOUS
<1>2. /\ \A i \in 1..len : i \in 1..len + more /\ r[i] = q[i]
      /\ \A i \in 1..len + more : ~(i <= len) => i - len \in 1..more /\ r[i] = f[i - len]
      /\ \A i \in 1..more : len + i \in 1..len + more /\ r[len + i] = f[i]
  OBVIOUS
<1>3. \A i \in 1..len + more : r[i] \in S <=> ~(i <= len)
  <2> SUFFICES ASSUME NEW i \in 1..len + more PROVE r[i] \in S <=> ~(i <= len)
    OBVIOUS
  <2>1. CASE i <= len
    BY <1>1, <1>2, <2>1 DEF Queued
  <2>2. CASE ~(i <= len)
    BY <1>2, <2>2
  <2> QED
    BY <2>1, <2>2
<1>4. ASSUME NEW i \in 1..len + more, NEW j \in 1..len + more, r[i] = r[j], r[i] \in Msgs PROVE i = j
  <2>1. CASE i <= len
    BY <1>1, <1>2, <1>3, <1>4, <2>1 DEF Distinct
  <2>2. CASE ~(i <= len)
    <3>1. i - len \in 1..more /\ j - len \in 1..more /\ f[i - len] = f[j - len]
      BY <1>2, <1>3, <1>4, <2>2
    <3>2. i - len = j - len
      BY <3>1
    <3> QED
      BY <3>2
  <2> QED
    BY <2>1, <2>2
<1>5. Distinct(r)
  BY <1>1, <1>4 DEF Distinct
<1>6. ASSUME NEW m \in Msgs
      PROVE  (\E i \in 1..len + more : r[i] = m) <=> ((\E i \in 1..len : q[i] = m) \/ m \in S)
  <2>1. ASSUME NEW i \in 1..len + more, r[i] = m PROVE (\E k \in 1..len : q[k] = m) \/ m \in S
    BY <1>2, <1>3, <2>1
  <2>2. ASSUME m \in S PROVE \E i \in 1..len + more : r[i] = m
    BY <1>2, <2>2
  <2> QED
    BY <1>2, <2>1, <2>2
<1>7. Queued(r) = Queued(q) \cup S
  BY <1>1, <1>6 DEF Queued
<1> QED
  BY <1>5, <1>7

(* The messages that fall back become rows behind the others.              *)
LEMMA FallbackRows ==
    ASSUME TypeInv, NEW q \in Seq(Prompts), Distinct(q), NEW target, NEW cause,
           Live \cap Queued(q) = {}
    PROVE  LET r == WithFallbacks(q, target, cause)
           IN  /\ r \in Seq(Prompts) /\ Distinct(r)
               /\ Queued(r) = Queued(q) \cup Fallbacks(target, cause)
               /\ q # <<>> => r # <<>> /\ Head(r) = Head(q)
<1> DEFINE S == Fallbacks(target, cause)
           f == InOrder(S)
           r == q \o f
           len == Len(q)
           more == Len(f)
<1>1. S \in SUBSET Live /\ S \in SUBSET Msgs /\ S \cap Queued(q) = {}
  BY DEF Fallbacks, Hit, Live
<1>2. /\ f \in Seq(S) /\ more \in Nat
      /\ \A i, j \in 1..more : f[i] = f[j] => i = j
      /\ \A m \in S : \E i \in 1..more : f[i] = m
  BY <1>1, InOrderCovers, Zenon
<1>3. f \in Seq(Prompts)
  BY FallbackListType
<1> HIDE DEF S, f
<1>4. /\ r \in Seq(Prompts) /\ Len(r) = len + more
      /\ \A i \in 1..len + more : r[i] = IF i <= len THEN q[i] ELSE f[i - len]
  BY <1>3, ConcatProperties
<1>5. len \in Nat /\ q \in [1..len -> Prompts] /\ f \in [1..more -> S]
  BY <1>2, LenProperties
<1> HIDE DEF r
<1>6. r \in [1..Len(r) -> Prompts]
  BY <1>4, LenProperties
<1> HIDE DEF len, more
<1>7. r \in [1..len + more -> Prompts]
  BY <1>4, <1>6
<1>8. Joins(q, f, r, S, len, more)
  BY <1>1, <1>2, <1>4, <1>5, <1>7, Zenon DEF Joins
<1>10. Distinct(r) /\ Queued(r) = Queued(q) \cup S
  BY <1>1, <1>8, RowsJoin
<1>9. q # <<>> => r # <<>> /\ Head(r) = Head(q)
  <2> SUFFICES ASSUME q # <<>> PROVE r # <<>> /\ Head(r) = Head(q)
    OBVIOUS
  <2>1. len \in Nat \ {0} /\ Head(q) = q[1]
    BY EmptySeq, HeadTailProperties DEF len
  <2>2. r[1] = q[1] /\ Len(r) > 0
    BY <1>2, <1>4, <2>1
  <2>3. r # <<>> /\ Head(r) = r[1]
    BY <1>4, <2>2, EmptySeq, HeadTailProperties
  <2> QED
    BY <2>1, <2>2, <2>3
<1> QED
  BY <1>4, <1>9, <1>10, Zenon DEF r, f, S, WithFallbacks

-----------------------------------------------------------------------------
(* Who owes the answer *)

(* Receipts change hands, and those of S are answered.                     *)
LEMMA OwnedMoves ==
    ASSUME TypeInv, OwnedInv, Distinct(queue'),
           Live' \cap settling' = {}, Live' \cap Queued(queue') = {},
           settling' \cap Queued(queue') = {}, settling' # {} => pc' = "settle",
           NEW S, S \cap Msgs \subseteq Owed,
           Answer(S) \/ (resolved' = resolved /\ S = {}),
           Live' \cup settling' \cup Queued(queue') = Owed \ S, admits' = admits,
           Undelivered' \subseteq Undelivered, Queued(queue') \subseteq Queued(queue) \cup Undelivered
    PROVE  OwnedInv' /\ Unspoken' \subseteq Unspoken
<1>1. \A m \in Msgs : resolved'[m] = IF m \in S THEN resolved[m] + 1 ELSE resolved[m]
  BY DEF Answer
<1>2. Owed' = Owed \ S
  BY DEF Owed, Queued
<1>3. \A m \in Msgs : admits[m] \in Nat /\ resolved[m] \in Nat
  BY DEF TypeInv, TypeOK
<1>4. ASSUME NEW m \in Msgs PROVE admits'[m] = resolved'[m] + IF m \in Owed' THEN 1 ELSE 0
  <2>1. CASE m \in S
    BY <1>1, <1>2, <1>3, <2>1 DEF OwnedInv
  <2>2. CASE m \notin S
    BY <1>1, <1>2, <1>3, <2>2 DEF OwnedInv
  <2> QED
    BY <2>1, <2>2
<1>5. OwnedInv'
  BY <1>4 DEF OwnedInv, Queued
<1>6. Unspoken' \subseteq Unspoken
  BY DEF Unspoken, Queued
<1> QED
  BY <1>5, <1>6

(* What moves no message moves no receipt.                                 *)
LEMMA OwnedFrame ==
    ASSUME OwnedInv, Live' = Live, Distinct(queue'), Queued(queue') = Queued(queue),
           UNCHANGED <<settling, admits, resolved>>, pc' = pc \/ pc # "settle",
           Undelivered' \subseteq Undelivered
    PROVE  OwnedInv' /\ Unspoken' \subseteq Unspoken
<1>1. Owed' = Owed
  BY DEF Owed, Queued
<1>2. OwnedInv'
  BY <1>1 DEF OwnedInv, Queued
<1>3. Unspoken' \subseteq Unspoken
  BY DEF Unspoken, Queued
<1> QED
  BY <1>2, <1>3

(* The slots of a target leave.                                            *)
LEMMA SlotsLeave ==
    ASSUME TypeInv, NEW target, NEW cause, NEW run, Transition(target, cause, run)
    PROVE  /\ Live' = Live \ Hit(target) /\ Hit(target) \subseteq Live
           /\ \A m \in Msgs : slot'[m] = IF m \in Hit(target) THEN NoSlot ELSE slot[m]
           /\ Fallbacks(target, cause) \subseteq Hit(target) \cap Undelivered
        /\ Undelivered' \subseteq Undelivered
           /\ Completions(target, cause) = Hit(target) \ Fallbacks(target, cause)
           /\ Undelivered' \subseteq Undelivered \ Hit(target)
           /\ Fallbacks(target, cause) \subseteq Undelivered
BY DEF Transition, Live, Hit, NoSlot, Fallbacks, Completions, Undelivered, TypeInv, TypeOK

(* The sets that hold receipts are sets of messages.                       *)
LEMMA OwedMsgs ==
    ASSUME TypeOK
    PROVE  Live \subseteq Msgs /\ settling \subseteq Msgs /\ Queued(queue) \subseteq Msgs
BY DEF TypeOK, Live, Queued

LEMMA OwnedInit == Init => OwnedInv
<1> SUFFICES ASSUME Init PROVE OwnedInv
  OBVIOUS
<1>1. Live = {} /\ queue = <<>> /\ settling = {}
  BY DEF Init, Live, NoSlot
<1>2. DOMAIN queue = {}
  BY <1>1
<1>3. Queued(queue) = {} /\ Distinct(queue)
  BY <1>2 DEF Queued, Distinct
<1> QED
  BY <1>1, <1>3 DEF OwnedInv, Owed, Init

(* The turn future marks slots and empties none.                           *)
LEMMA OwnedTurns ==
    ASSUME TypeInv, OwnedInv, TurnNext \/ UNCHANGED vars
    PROVE  OwnedInv' /\ Unspoken' \subseteq Unspoken
<1>1. /\ UNCHANGED <<queue, settling, pc, admits, resolved>>
  BY DEF TurnNext, FirstOutput, SafePoint, BarrierFails, Commit, CommitFails, WaitStarts,
         TurnEnds, WaitAborts, WaitReturns, vars, actorVars, loopVars, inputVars
<1>2. Live' = Live /\ Undelivered' \subseteq Undelivered
  <2>1. CASE SafePoint
    BY <2>1 DEF SafePoint, Pending, Live, Undelivered, TypeInv, TypeOK, Slots
  <2>2. CASE Commit
    BY <2>2 DEF Commit, Projecting, Live, Undelivered, TypeInv, TypeOK, Slots
  <2>3. CASE ~SafePoint /\ ~Commit
    <3>1. slot' = slot
      BY <2>3 DEF TurnNext, FirstOutput, BarrierFails, CommitFails, WaitStarts,
         TurnEnds, WaitAborts, WaitReturns, vars, slotVars
    <3> QED
      BY <3>1 DEF Live, Undelivered
  <2> QED
    BY <2>1, <2>2, <2>3
<1>3. Distinct(queue') /\ Queued(queue') = Queued(queue)
  BY <1>1 DEF OwnedInv
<1> QED
  BY <1>1, <1>2, <1>3, OwnedFrame

(* Neither does a plan approval, whose prompts are no messages.            *)
LEMMA OwnedResumes ==
    ASSUME TypeInv, OwnedInv, ResumeNext
    PROVE  OwnedInv' /\ Unspoken' \subseteq Unspoken
<1>1. PICK r \in Resumes : Resume(r) \/ ResumeKick(r)
  BY DEF ResumeNext
<1>2. UNCHANGED <<settling, pc, admits, resolved, slot>>
  BY <1>1 DEF Resume, ResumeKick, loopVars, slotVars
<1>3. Live' = Live /\ Undelivered' = Undelivered
  BY <1>2 DEF Live, Undelivered
<1>4. r \in Prompts /\ r \notin Msgs
  BY ConstantsAssumption DEF Prompts
<1>5. queue' = queue \/ queue' = Append(queue, r)
  BY <1>1 DEF Resume, ResumeKick
<1>6. queue \in Seq(Prompts) /\ Distinct(queue) /\ r \notin Queued(queue)
  BY <1>4 DEF OwnedInv, TypeInv, TypeOK, Queued
<1>7. Distinct(queue') /\ Queued(queue') = Queued(queue)
  <2>1. CASE queue' = queue
    BY <1>6, <2>1
  <2>2. CASE queue' = Append(queue, r)
    <3>1. /\ Distinct(Append(queue, r))
          /\ Queued(Append(queue, r)) = Queued(queue) \cup ({r} \cap Msgs)
      BY <1>4, <1>6, AppendRow
    <3>2. {r} \cap Msgs = {}
      BY <1>4
    <3> QED
      BY <2>2, <3>1, <3>2, Zenon
  <2> QED
    BY <1>5, <2>1, <2>2
<1> QED
  BY <1>2, <1>3, <1>7, OwnedFrame

(* The handlers pass receipts on: from a slot to the queue or to the       *)
(* answers, from the queue to the answers.                                 *)
LEMMA OwnedHandlers ==
    ASSUME TypeInv, OwnedInv, LoopNext
    PROVE  OwnedInv' /\ Unspoken' \subseteq Unspoken
<1>1. CASE Kick \/ EarlyAbort \/ CancelNoop \/ Release \/ Finish
  <2>1. /\ UNCHANGED <<queue, slot, settling, admits, resolved>> /\ pc # "settle"
    BY <1>1 DEF Kick, EarlyAbort, CancelNoop, Release, Finish, actorVars, slotVars, loopVars, inputVars
  <2>2. Live' = Live /\ Undelivered' = Undelivered
    BY <2>1 DEF Live, Undelivered
  <2>3. Distinct(queue') /\ Queued(queue') = Queued(queue)
    BY <2>1 DEF OwnedInv
  <2> QED
    BY <2>1, <2>2, <2>3, OwnedFrame
<1>2. CASE CompletionTransition
  <2> DEFINE c == lease.task
             owned == queue # <<>> /\ Head(queue) = c.prompt
             rest == IF owned THEN Tail(queue) ELSE queue
             S == IF owned THEN {c.prompt} ELSE {}
  <2>1. /\ pc = "complete" /\ pc' = "settle" /\ admits' = admits
        /\ queue' = WithFallbacks(rest, c.epoch, "Completion")
        /\ settling' = Completions(c.epoch, "Completion")
        /\ Answer(S) /\ Transition(c.epoch, "Completion", running)
    BY <1>2 DEF CompletionTransition
  <2>2. settling = {} /\ queue \in Seq(Prompts) /\ Distinct(queue) /\ Live \cap Queued(queue) = {}
    BY <2>1 DEF OwnedInv, TypeInv, TypeOK
  <2>3. /\ rest \in Seq(Prompts) /\ Distinct(rest) /\ Queued(rest) = Queued(queue) \ S
        /\ S \cap Msgs \subseteq Queued(queue)
    <3>1. CASE owned
      <4>1. /\ Tail(queue) \in Seq(Prompts) /\ Distinct(Tail(queue))
            /\ Queued(Tail(queue)) = Queued(queue) \ {Head(queue)}
            /\ Head(queue) \in Msgs => Head(queue) \in Queued(queue)
        BY <2>2, <3>1, TailRows
      <4> QED
        BY <3>1, <4>1
    <3>2. CASE ~owned
      BY <2>2, <3>2
    <3> QED
      BY <3>1, <3>2
  <2> HIDE DEF rest, S, c
  <2>4. Live \cap Queued(rest) = {}
    BY <2>2, <2>3
  <2>5. /\ Distinct(queue')
        /\ Queued(queue') = Queued(rest) \cup Fallbacks(c.epoch, "Completion")
    BY <2>1, <2>3, <2>4, FallbackRows, Zenon
  <2>6. /\ Live' = Live \ Hit(c.epoch) /\ Hit(c.epoch) \subseteq Live
        /\ Fallbacks(c.epoch, "Completion") \subseteq Hit(c.epoch) \cap Undelivered
        /\ Undelivered' \subseteq Undelivered
        /\ settling' = Hit(c.epoch) \ Fallbacks(c.epoch, "Completion")
    BY <2>1, SlotsLeave
  <2>7. S \cap Live = {}
    BY <2>2, <2>3 DEF Live
  <2> QED
    BY <2>1, <2>2, <2>3, <2>5, <2>6, <2>7, OwnedMoves DEF Owed
<1>3. CASE CancelTransition
  <2> DEFINE rewound == /\ lease.kind = "rewind" /\ lease.named = NoPrompt /\ rewindable
                        /\ queue # <<>> /\ Head(queue) \notin Msgs
             cause == IF lease.kind = "hard" THEN "HardTeardown"
                      ELSE IF rewound THEN "Rewind" ELSE "SoftCancel"
             target == IF lease.kind = "hard" \/ rewound \/ ~IsRunning THEN All ELSE running.epoch
             all == WithFallbacks(queue, target, cause)
             cancelled == IF rewound \/ all = <<>> THEN {}
                          ELSE IF lease.kind = "hard" THEN Queued(all)
                          ELSE {Head(all)} \cap Msgs
  <2>1. /\ pc = "cancel" /\ pc' = "settle" /\ UNCHANGED <<admits, resolved>>
        /\ queue' = IF lease.kind = "hard" \/ all = <<>> THEN <<>> ELSE Tail(all)
        /\ Transition(target, cause, running')
        /\ settling' = Completions(target, cause) \cup cancelled
    BY <1>3 DEF CancelTransition, inputVars
  <2>2. settling = {} /\ queue \in Seq(Prompts) /\ Distinct(queue) /\ Live \cap Queued(queue) = {}
    BY <2>1 DEF OwnedInv, TypeInv, TypeOK
  <2>3. rewound => queue # <<>> /\ Head(queue) \notin Msgs /\ lease.kind # "hard"
    OBVIOUS
  <2> HIDE DEF rewound, cause, target
  <2>4. /\ all \in Seq(Prompts) /\ Distinct(all)
        /\ Queued(all) = Queued(queue) \cup Fallbacks(target, cause)
        /\ queue # <<>> => all # <<>> /\ Head(all) = Head(queue)
    BY <2>2, FallbackRows, Zenon
  <2> HIDE DEF all
  <2>5. Distinct(<<>>) /\ Queued(<<>>) = {}
    BY DEF Distinct, Queued
  <2>6. Distinct(queue') /\ Queued(queue') = Queued(all) \ cancelled /\ cancelled \subseteq Queued(all)
    <3>1. CASE all = <<>>
      BY <2>1, <2>5, <3>1
    <3>2. CASE all # <<>> /\ lease.kind = "hard"
      BY <2>1, <2>3, <2>5, <3>2
    <3>3. CASE all # <<>> /\ lease.kind # "hard"
      <4>1. /\ queue' = Tail(all) /\ Distinct(Tail(all))
            /\ Queued(Tail(all)) = Queued(all) \ {Head(all)}
            /\ Head(all) \in Msgs => Head(all) \in Queued(all)
        BY <2>1, <2>4, <3>3, TailRows
      <4>2. cancelled = {Head(all)} \cap Msgs
        BY <2>3, <2>4, <3>3
      <4>3. Queued(all) \subseteq Msgs
        BY DEF Queued
      <4> QED
        BY <4>1, <4>2, <4>3
    <3> QED
      BY <3>1, <3>2, <3>3
  <2> HIDE DEF cancelled
  <2>7. /\ Live' = Live \ Hit(target) /\ Hit(target) \subseteq Live
        /\ Fallbacks(target, cause) \subseteq Hit(target) \cap Undelivered
        /\ Undelivered' \subseteq Undelivered
        /\ settling' = (Hit(target) \ Fallbacks(target, cause)) \cup cancelled
    BY <2>1, SlotsLeave
  <2> QED
    BY <2>1, <2>2, <2>4, <2>6, <2>7, OwnedMoves DEF Owed
<1>4. CASE Settle
  <2>1. /\ pc = "settle" /\ settling' = {} /\ Answer(settling) /\ UNCHANGED <<queue, slot, admits>>
    BY <1>4 DEF Settle, actorVars, slotVars
  <2>2. /\ Live' = Live /\ Undelivered' = Undelivered
        /\ Queued(queue') = Queued(queue) /\ Distinct(queue')
    BY <2>1 DEF Live, Undelivered, OwnedInv
  <2>3. /\ settling \cap Live = {} /\ settling \cap Queued(queue) = {} /\ settling \subseteq Owed
        /\ Live \cap Queued(queue) = {}
    BY DEF OwnedInv, Owed
  <2> QED
    BY <2>1, <2>2, <2>3, OwnedMoves DEF Owed
<1> QED
  BY <1>1, <1>2, <1>3, <1>4 DEF LoopNext

(* A command hands out one receipt, or drops or answers rows it found.     *)
LEMMA OwnedCommands ==
    ASSUME TypeInv, OwnedInv, CommandNext
    PROVE  OwnedInv' /\ ((\A m \in Msgs, op \in {"Queue", "Steer", "Interject"} : ~Admit(m, op))
                         => Unspoken' \subseteq Unspoken)
<1>1. pc = "loop"
  BY DEF CommandNext, Prompt, Admit, CompletionClaim, CancelClaim, RewindNamed, RewindDropsRow,
         RewindGeneric, Shutdown
<1>2. settling = {} /\ queue \in Seq(Prompts) /\ Distinct(queue) /\ Live \cap Queued(queue) = {}
  BY <1>1 DEF OwnedInv, TypeInv, TypeOK
<1>3. ASSUME NEW u \in Users, Prompt(u) PROVE OwnedInv' /\ Unspoken' \subseteq Unspoken
  <2>1. queue' = Append(queue, u) /\ UNCHANGED <<slot, settling, admits, resolved>>
    BY <1>3 DEF Prompt, slotVars
  <2>2. u \in Prompts /\ {u} \cap Msgs = {} /\ u \notin Queued(queue)
    BY ConstantsAssumption DEF Prompts, Queued
  <2>3. /\ Distinct(Append(queue, u))
        /\ Queued(Append(queue, u)) = Queued(queue) \cup ({u} \cap Msgs)
    BY <1>2, <2>2, AppendRow
  <2>4. Distinct(queue') /\ Queued(queue') = Queued(queue)
    BY <2>1, <2>2, <2>3, Zenon
  <2>5. Live' = Live /\ Undelivered' = Undelivered
    BY <2>1 DEF Live, Undelivered
  <2> QED
    BY <1>1, <2>1, <2>4, <2>5, OwnedFrame
<1>4. ASSUME NEW m \in Msgs, NEW op \in {"Queue", "Steer", "Interject"}, Admit(m, op) PROVE OwnedInv'
  <2>1. /\ m \notin Live /\ m \notin Queued(queue) /\ m \in Prompts
        /\ admits' = [admits EXCEPT ![m] = @ + 1] /\ UNCHANGED <<settling, resolved>>
    BY <1>4 DEF Admit, InQueue, Queued, Prompts
  <2>2. Distinct(queue') /\ \/ Live' = Live /\ Queued(queue') = Queued(queue) \cup {m}
                            \/ Live' = Live \cup {m} /\ Queued(queue') = Queued(queue)
    <3>1. CASE queue' = Append(queue, m) /\ UNCHANGED slotVars
      <4>1. /\ Distinct(Append(queue, m))
            /\ Queued(Append(queue, m)) = Queued(queue) \cup ({m} \cap Msgs)
        BY <1>2, <2>1, AppendRow
      <4>2. {m} \cap Msgs = {m}
        OBVIOUS
      <4>3. Live' = Live
        BY <3>1 DEF Live, slotVars
      <4> QED
        BY <3>1, <4>1, <4>2, <4>3, Zenon
    <3>2. CASE ~(queue' = Append(queue, m) /\ UNCHANGED slotVars)
      <4>1. PICK s : /\ slot' = [slot EXCEPT ![m] = s] /\ s.st = "Pending" /\ queue' = queue
        BY <1>4, <3>2 DEF Admit
      <4>2. Live' = Live \cup {m}
        BY <4>1 DEF Live, TypeInv, TypeOK
      <4> QED
        BY <1>2, <4>1, <4>2
    <3> QED
      BY <3>1, <3>2
  <2>3. Owed' = Owed \cup {m} /\ m \notin Owed
    BY <1>2, <2>1, <2>2 DEF Owed, Queued
  <2>4. ASSUME NEW k \in Msgs PROVE admits'[k] = resolved'[k] + IF k \in Owed' THEN 1 ELSE 0
    <3>1. admits[k] \in Nat /\ resolved[k] \in Nat /\ resolved'[k] = resolved[k]
      BY <2>1 DEF TypeInv, TypeOK
    <3>2. admits[k] = resolved[k] + IF k \in Owed THEN 1 ELSE 0
      BY DEF OwnedInv
    <3>3. admits'[k] = IF k = m THEN admits[k] + 1 ELSE admits[k]
      BY <2>1 DEF TypeInv, TypeOK
    <3> QED
      BY <2>3, <3>1, <3>2, <3>3
  <2>5. /\ settling' = {} /\ Live' \cap Queued(queue') = {}
    BY <1>2, <2>1, <2>2
  <2> QED
    BY <2>2, <2>4, <2>5 DEF OwnedInv, Queued
<1>5. ASSUME NEW c \in done, CompletionClaim(c) PROVE OwnedInv' /\ Unspoken' \subseteq Unspoken
  <2>1. UNCHANGED <<queue, slot, settling, admits, resolved>>
    BY <1>5 DEF CompletionClaim, slotVars, inputVars
  <2>2. /\ Live' = Live /\ Undelivered' = Undelivered
        /\ Distinct(queue') /\ Queued(queue') = Queued(queue)
    BY <1>2, <2>1 DEF Live, Undelivered
  <2> QED
    BY <1>1, <2>1, <2>2, OwnedFrame
<1>6. ASSUME NEW k \in {"soft", "hard"}, CancelClaim(k) PROVE OwnedInv' /\ Unspoken' \subseteq Unspoken
  <2>1. UNCHANGED <<queue, slot, settling, admits, resolved>>
    BY <1>6 DEF CancelClaim, slotVars, inputVars
  <2>2. /\ Live' = Live /\ Undelivered' = Undelivered
        /\ Distinct(queue') /\ Queued(queue') = Queued(queue)
    BY <1>2, <2>1 DEF Live, Undelivered
  <2> QED
    BY <1>1, <2>1, <2>2, OwnedFrame
<1>7. ASSUME NEW p \in Users \cup Resumes, RewindNamed(p) PROVE OwnedInv' /\ Unspoken' \subseteq Unspoken
  <2> DEFINE all == WithFallbacks(queue, epoch, "Rewind")
  <2>1. /\ Front(queue) = p /\ queue' = Tail(all) /\ pc' = "settle"
        /\ Transition(epoch, "Rewind", running')
        /\ settling' = Completions(epoch, "Rewind") /\ UNCHANGED <<admits, resolved>>
    BY <1>7 DEF RewindNamed, inputVars
  <2>2. queue # <<>> /\ Head(queue) = p /\ p \notin Msgs
    BY <2>1, ConstantsAssumption DEF Front
  <2>3. /\ all \in Seq(Prompts) /\ Distinct(all)
        /\ Queued(all) = Queued(queue) \cup Fallbacks(epoch, "Rewind")
        /\ all # <<>> /\ Head(all) = Head(queue)
    BY <1>2, <2>2, FallbackRows, Zenon
  <2> HIDE DEF all
  <2>4. Distinct(queue') /\ Queued(queue') = Queued(all) \ {p}
    BY <2>1, <2>2, <2>3, TailRows
  <2>5. p \notin Queued(all)
    BY <2>2 DEF Queued
  <2>6. /\ Live' = Live \ Hit(epoch) /\ Hit(epoch) \subseteq Live
        /\ Fallbacks(epoch, "Rewind") \subseteq Hit(epoch) \cap Undelivered
        /\ Undelivered' \subseteq Undelivered
        /\ settling' = Hit(epoch) \ Fallbacks(epoch, "Rewind")
    BY <2>1, SlotsLeave
  <2>7. /\ Live' \cup settling' \cup Queued(queue') = Owed \ {} /\ {} \cap Msgs \subseteq Owed
        /\ Live' \cap settling' = {} /\ Live' \cap Queued(queue') = {}
        /\ settling' \cap Queued(queue') = {}
    BY <1>2, <2>3, <2>4, <2>5, <2>6 DEF Owed
  <2>8. Queued(queue') \subseteq Queued(queue) \cup Undelivered
    BY <2>3, <2>4, <2>6
  <2> QED
    BY <2>1, <2>4, <2>6, <2>7, <2>8, OwnedMoves
<1>8. ASSUME NEW p \in Prompts, RewindDropsRow(p) PROVE OwnedInv' /\ Unspoken' \subseteq Unspoken
  <2>1. Answer({p}) /\ UNCHANGED <<slot, settling, admits>>
    BY <1>8 DEF RewindDropsRow, slotVars
  <2>2. PICK i \in DOMAIN queue :
            /\ queue[i] = p
            /\ queue' = SubSeq(queue, 1, i - 1) \o SubSeq(queue, i + 1, Len(queue))
    BY <1>8 DEF RewindDropsRow
  <2>3. i \in 1..Len(queue)
    BY <1>2, LenProperties
  <2>4. Distinct(queue') /\ Queued(queue') = Queued(queue) \ {p}
    BY <1>2, <2>2, <2>3, RemovedRow, Zenon
  <2>5. {p} \cap Msgs \subseteq Queued(queue)
    BY <2>2 DEF Queued
  <2>6. Live' = Live /\ Live \subseteq Msgs /\ Undelivered' = Undelivered
    BY <2>1 DEF Live, Undelivered
  <2> QED
    BY <1>2, <2>1, <2>4, <2>5, <2>6, OwnedMoves DEF Owed
<1>9. ASSUME NEW named \in Prompts \cup {NoPrompt}, RewindGeneric(named) PROVE OwnedInv' /\ Unspoken' \subseteq Unspoken
  <2>1. UNCHANGED <<queue, slot, settling, admits, resolved>>
    BY <1>9 DEF RewindGeneric, actorVars, slotVars, inputVars
  <2>2. /\ Live' = Live /\ Undelivered' = Undelivered
        /\ Distinct(queue') /\ Queued(queue') = Queued(queue)
    BY <1>2, <2>1 DEF Live, Undelivered
  <2> QED
    BY <1>1, <2>1, <2>2, OwnedFrame
<1>10. CASE Shutdown
  <2> DEFINE S == Completions(All, "HardTeardown") \cup Queued(queue)
  <2>1. /\ Transition(All, "HardTeardown", running) /\ queue' = <<>> /\ Answer(S)
        /\ UNCHANGED <<settling, admits>>
    BY <1>10 DEF Shutdown
  <2>2. Distinct(<<>>) /\ Queued(<<>>) = {}
    BY DEF Distinct, Queued
  <2>3. Hit(All) = Live /\ Fallbacks(All, "HardTeardown") = {}
    BY DEF Hit, Fallbacks, FallsBack
  <2>4. Live' = {} /\ Undelivered' \subseteq Undelivered /\ S = Live \cup Queued(queue)
    BY <2>1, <2>3, SlotsLeave
  <2> HIDE DEF S
  <2>5. Distinct(queue') /\ Queued(queue') = {} /\ S \subseteq Owed
    BY <2>1, <2>2, <2>4 DEF Owed
  <2> QED
    BY <1>2, <2>1, <2>4, <2>5, OwnedMoves DEF Owed
<1> QED
  BY <1>3, <1>4, <1>5, <1>6, <1>7, <1>8, <1>9, <1>10 DEF CommandNext

(* The receipts' invariant: wherever a handler stands between two lock     *)
(* sections, each open receipt has one place.                              *)
THEOREM OwnedInvariant == Spec => [](TypeInv /\ OwnedInv)
<1>1. TypeInv /\ OwnedInv /\ [Next]_vars => TypeInv' /\ OwnedInv'
  BY StepType, OwnedHandlers, OwnedCommands, OwnedResumes, OwnedTurns DEF Next
<1> QED
  BY <1>1, InitType, OwnedInit, PTL DEF Spec

(* Every receipt handed out for a parent message is owned exactly once,    *)
(* across every fallback, cancel, rewind and shutdown of the actor         *)
(* (parent_delivery.rs, cancel.rs): none is lost, none is answered twice.  *)
THEOREM ReceiptsOwnedOnce == Spec => []ReceiptOwnedOnce
<1>1. TypeInv /\ OwnedInv => ReceiptOwnedOnce
  <2> SUFFICES ASSUME TypeInv, OwnedInv, NEW m \in Msgs
               PROVE  admits[m] = resolved[m] + (IF m \in Live THEN 1 ELSE 0)
                                + (IF m \in settling THEN 1 ELSE 0)
                                + Cardinality({i \in DOMAIN queue : queue[i] = m})
    BY DEF ReceiptOwnedOnce
  <2> DEFINE rows == {i \in DOMAIN queue : queue[i] = m}
  <2>1. Cardinality(rows) = IF m \in Queued(queue) THEN 1 ELSE 0
    <3>1. CASE m \in Queued(queue)
      <4>1. PICK i \in DOMAIN queue : queue[i] = m
        BY <3>1 DEF Queued
      <4>2. rows = {i}
        BY <4>1 DEF OwnedInv, Distinct
      <4> QED
        BY <3>1, <4>2, FS_Singleton
    <3>2. CASE m \notin Queued(queue)
      <4>1. rows = {}
        BY <3>2 DEF Queued
      <4> QED
        BY <3>2, <4>1, FS_EmptySet
    <3> QED
      BY <3>1, <3>2
  <2> HIDE DEF rows
  <2>2. resolved[m] \in Nat /\ admits[m] = resolved[m] + IF m \in Owed THEN 1 ELSE 0
    BY DEF OwnedInv, TypeInv, TypeOK
  <2>3. /\ ~(m \in Live /\ m \in settling) /\ ~(m \in Live /\ m \in Queued(queue))
        /\ ~(m \in settling /\ m \in Queued(queue))
        /\ m \in Owed <=> (m \in Live \/ m \in settling \/ m \in Queued(queue))
    BY DEF OwnedInv, Owed
  <2> QED
    BY <2>1, <2>2, <2>3 DEF rows
<1> QED
  BY <1>1, OwnedInvariant, PTL

-----------------------------------------------------------------------------
(* What entered the conversation *)

(* The history speaks of admissions that happened, of each of them once,   *)
(* and of the latest one of a message only when its text no longer waits.  *)
HistoryInv ==
    /\ \A i \in 1..Len(shown) : shown[i].nth \in 1..admits[shown[i].id]
    /\ \A i, j \in 1..Len(shown) :
          shown[i].id = shown[j].id /\ shown[i].nth = shown[j].nth => i = j
    /\ \A i \in 1..Len(shown) : shown[i].nth = admits[shown[i].id] => shown[i].id \notin Unspoken

(* Admission order over the batches of one turn: what was shown was        *)
(* admitted before what still waits, and what a failed barrier left        *)
(* projecting before what is pending.                                      *)
OrderInv ==
    /\ \A i \in 1..Len(shown) : shown[i].at <= serial /\ shown[i].from < i
    /\ \A i \in 1..Len(shown), m \in Undelivered :
          shown[i].turn = slot[m].turn => shown[i].at < slot[m].at
    /\ \A m, n \in Msgs : slot[m].st = "Projecting" /\ slot[n].st = "Pending"
          => slot[m].at < slot[n].at
    /\ DeliveryOrder

(* The text of m that finish_delivery pushes now.                          *)
EntryOf(m) == [id |-> m, nth |-> admits[m], op |-> slot[m].op, at |-> slot[m].at,
               turn |-> slot[m].turn, from |-> Len(shown)]

(* The batch b of n messages is appended to the history.                   *)
Shows(b, n) ==
    /\ n \in Nat /\ b \in [1..n -> Projecting]
    /\ \A i, j \in 1..n : i < j =>
          /\ slot[b[i]].op = slot[b[j]].op => slot[b[i]].at < slot[b[j]].at
          /\ ~(slot[b[i]].op = "Steer" /\ slot[b[j]].op = "Interject")
    /\ Len(shown) \in Nat /\ Len(shown') = Len(shown) + n
    /\ \A i \in 1..Len(shown) : shown'[i] = shown[i]
    /\ \A i \in Len(shown) + 1..Len(shown) + n : shown'[i] = EntryOf(b[i - Len(shown)])

LEMMA EntryFields ==
    \A m : /\ EntryOf(m).id = m /\ EntryOf(m).nth = admits[m] /\ EntryOf(m).op = slot[m].op
           /\ EntryOf(m).at = slot[m].at /\ EntryOf(m).turn = slot[m].turn
           /\ EntryOf(m).from = Len(shown)
BY DEF EntryOf

LEMMA EntriesShown ==
    ASSUME TypeInv
    PROVE  /\ Len(shown) \in Nat /\ DOMAIN shown = 1..Len(shown)
           /\ \A i \in 1..Len(shown) :
                 /\ shown[i].id \in Msgs /\ shown[i].nth \in Nat /\ shown[i].at \in Nat
                 /\ shown[i].op \in {"Steer", "Interject"} /\ shown[i].from \in Nat
<1>1. shown \in Seq(Entries)
  BY DEF TypeInv, TypeOK
<1>2. Len(shown) \in Nat /\ DOMAIN shown = 1..Len(shown)
  BY <1>1, LenProperties
<1>3. \A i \in 1..Len(shown) : shown[i] \in Entries
  BY <1>1, ElementOfSeq
<1> QED
  BY <1>2, <1>3 DEF Entries

(* order_for_delivery lists the projecting messages: Interject before      *)
(* Steer, each class in slot order.                                        *)
LEMMA BatchOrder ==
    ASSUME TypeInv, NEW b, b = OrderForDelivery(Projecting)
    PROVE  /\ Len(b) \in Nat /\ b \in [1..Len(b) -> Projecting]
           /\ \A i, j \in 1..Len(b) : i < j =>
                 /\ slot[b[i]].op = slot[b[j]].op => slot[b[i]].at < slot[b[j]].at
                 /\ ~(slot[b[i]].op = "Steer" /\ slot[b[j]].op = "Interject")
<1> DEFINE I == {m \in Projecting : slot[m].op = "Interject"}
           S == {m \in Projecting : slot[m].op = "Steer"}
           x == InOrder(I)
           y == InOrder(S)
           a == Len(x)
           c == Len(y)
<1>1. I \in SUBSET Live /\ S \in SUBSET Live
  BY DEF Projecting, Live
<1>2. /\ x \in Seq(I) /\ a \in Nat
      /\ \A i, j \in 1..a : i < j => slot[x[i]].at < slot[x[j]].at
  BY <1>1, InOrderCovers
<1>3. /\ y \in Seq(S) /\ c \in Nat
      /\ \A i, j \in 1..c : i < j => slot[y[i]].at < slot[y[j]].at
  BY <1>1, InOrderCovers
<1>4. b = x \o y
  BY DEF OrderForDelivery
<1> HIDE DEF x, y
<1>5. /\ \A i \in 1..a : x[i] \in Projecting /\ slot[x[i]].op = "Interject"
      /\ \A i \in 1..c : y[i] \in Projecting /\ slot[y[i]].op = "Steer"
      /\ x \in Seq(Projecting) /\ y \in Seq(Projecting)
  <2>1. \A i \in 1..a : x[i] \in I
    BY <1>2, ElementOfSeq
  <2>2. \A i \in 1..c : y[i] \in S
    BY <1>3, ElementOfSeq
  <2>3. x \in Seq(Projecting) /\ y \in Seq(Projecting)
    BY <1>2, <1>3
  <2> QED
    BY <2>1, <2>2, <2>3
<1>6. /\ b \in Seq(Projecting) /\ Len(b) = a + c
      /\ \A i \in 1..a + c : b[i] = IF i <= a THEN x[i] ELSE y[i - a]
  BY <1>4, <1>5, ConcatProperties
<1>7. b \in [1..Len(b) -> Projecting]
  BY <1>6, LenProperties
<1> HIDE DEF a, c
<1>8. \A i \in 1..a + c : \/ i <= a /\ i \in 1..a /\ b[i] = x[i]
                          \/ ~(i <= a) /\ i - a \in 1..c /\ b[i] = y[i - a]
  BY <1>2, <1>3, <1>6
<1>9. ASSUME NEW i \in 1..a + c, NEW j \in 1..a + c, i < j
      PROVE  /\ slot[b[i]].op = slot[b[j]].op => slot[b[i]].at < slot[b[j]].at
             /\ ~(slot[b[i]].op = "Steer" /\ slot[b[j]].op = "Interject")
  <2>1. CASE i <= a /\ j <= a
    BY <1>2, <1>5, <1>8, <1>9, <2>1
  <2>2. CASE i <= a /\ ~(j <= a)
    BY <1>5, <1>8, <2>2
  <2>3. CASE ~(i <= a)
    <3>1. /\ i - a \in 1..c /\ j - a \in 1..c /\ i - a < j - a
          /\ b[i] = y[i - a] /\ b[j] = y[j - a]
      BY <1>2, <1>8, <1>9, <2>3
    <3> QED
      BY <1>3, <1>5, <3>1
  <2> QED
    BY <2>1, <2>2, <2>3
<1> QED
  BY <1>2, <1>3, <1>6, <1>7, <1>9

(* finish_delivery appends that batch.                                     *)
LEMMA CommitShows ==
    ASSUME TypeInv, Commit
    PROVE  \E b, n : Shows(b, n)
<1> DEFINE b == OrderForDelivery(Projecting)
           n == Len(b)
           e == [i \in 1..n |-> EntryOf(b[i])]
<1>1. /\ n \in Nat /\ b \in [1..n -> Projecting]
      /\ \A i, j \in 1..n : i < j =>
            /\ slot[b[i]].op = slot[b[j]].op => slot[b[i]].at < slot[b[j]].at
            /\ ~(slot[b[i]].op = "Steer" /\ slot[b[j]].op = "Interject")
  BY BatchOrder, Zenon
<1>2. shown' = shown \o e
  BY DEF Commit, EntryOf
<1> HIDE DEF b, n
<1>3. \A m \in Projecting : EntryOf(m) \in Entries
  BY DEF Projecting, EntryOf, Entries, TypeInv, TypeOK, Slots
<1>4. e \in Seq(Entries) /\ Len(e) = n /\ \A i \in 1..n : e[i] = EntryOf(b[i])
  BY <1>1, <1>3
<1>5. shown \in Seq(Entries) /\ Len(shown) \in Nat
  BY DEF TypeInv, TypeOK
<1> HIDE DEF e
<1>6. /\ Len(shown') = Len(shown) + n
      /\ \A i \in 1..Len(shown) + n :
            shown'[i] = IF i <= Len(shown) THEN shown[i] ELSE e[i - Len(shown)]
  BY <1>2, <1>4, <1>5, ConcatProperties
<1>7. \A i \in 1..Len(shown) : shown'[i] = shown[i]
  BY <1>1, <1>5, <1>6
<1>8. \A i \in Len(shown) + 1..Len(shown) + n : shown'[i] = EntryOf(b[i - Len(shown)])
  <2> TAKE i \in Len(shown) + 1..Len(shown) + n
  <2>1. ~(i <= Len(shown)) /\ i \in 1..Len(shown) + n /\ i - Len(shown) \in 1..n
    BY <1>1, <1>5
  <2> QED
    BY <1>4, <1>6, <2>1
<1>9. Shows(b, n)
  BY <1>1, <1>5, <1>6, <1>7, <1>8 DEF Shows
<1> QED
  BY <1>9

Admits == \E m \in Msgs, op \in {"Queue", "Steer", "Interject"} : Admit(m, op)

(* Every other step leaves the history and the admissions alone, and at    *)
(* most empties slots.                                                     *)
LEMMA OtherSteps ==
    ASSUME TypeInv, [Next]_vars, ~Admits, ~SafePoint, ~Commit
    PROVE  /\ UNCHANGED <<shown, admits, serial>>
           /\ \A m \in Msgs : slot'[m] = slot[m] \/ slot'[m] = NoSlot
<1>1. ASSUME NEW target, NEW cause, NEW run, Transition(target, cause, run)
      PROVE  serial' = serial /\ \A m \in Msgs : slot'[m] = slot[m] \/ slot'[m] = NoSlot
  BY <1>1 DEF Transition
<1>2. CASE LoopNext
  <2>1. CASE Kick \/ EarlyAbort \/ CancelNoop \/ Settle \/ Release \/ Finish
    BY <2>1 DEF Kick, EarlyAbort, CancelNoop, Settle, Release, Finish, slotVars, inputVars
  <2>2. CASE CompletionTransition
    BY <1>1, <2>2 DEF CompletionTransition
  <2>3. CASE CancelTransition
    <3>1. UNCHANGED inputVars /\ \E target, cause : Transition(target, cause, running')
      BY <2>3, Zenon DEF CancelTransition
    <3> QED
      BY <1>1, <3>1 DEF inputVars
  <2> QED
    BY <1>2, <2>1, <2>2, <2>3 DEF LoopNext
<1>3. CASE TurnNext
  BY <1>3 DEF TurnNext, FirstOutput, BarrierFails, CommitFails, WaitStarts, TurnEnds, WaitAborts,
              WaitReturns, slotVars, inputVars
<1>4. CASE CommandNext
  <2>1. CASE \/ \E u \in Users : Prompt(u)
             \/ \E c \in done : CompletionClaim(c)
             \/ \E k \in {"soft", "hard"} : CancelClaim(k)
             \/ \E p \in Prompts : RewindDropsRow(p)
             \/ \E named \in Prompts \cup {NoPrompt} : RewindGeneric(named)
    BY <2>1 DEF Prompt, CompletionClaim, CancelClaim, RewindDropsRow, RewindGeneric, slotVars,
                inputVars
  <2>2. CASE \E p \in Users \cup Resumes : RewindNamed(p)
    BY <1>1, <2>2 DEF RewindNamed, inputVars
  <2>3. CASE Shutdown
    BY <1>1, <2>3 DEF Shutdown
  <2> QED
    BY <1>4, <2>1, <2>2, <2>3 DEF CommandNext, Admits
<1>5. CASE ResumeNext
  BY <1>5 DEF ResumeNext, Resume, ResumeKick, slotVars
<1>6. CASE UNCHANGED vars
  BY <1>6 DEF vars, slotVars, inputVars
<1> QED
  BY <1>2, <1>3, <1>4, <1>5, <1>6 DEF Next

(* A committed message is in no other place that could show it again.      *)
LEMMA HistoryCommit ==
    ASSUME TypeInv, OwnedInv, HistoryInv, Commit, Unspoken' \subseteq Unspoken
    PROVE  HistoryInv'
<1>1. PICK b, n : Shows(b, n)
  BY CommitShows
<1> DEFINE len == Len(shown)
<1>2. /\ n \in Nat /\ len \in Nat /\ Len(shown') = len + n
      /\ \A i \in 1..len : shown'[i] = shown[i]
      /\ \A i \in len + 1..len + n : shown'[i] = EntryOf(b[i - len]) /\ b[i - len] \in Projecting
  BY <1>1 DEF Shows
<1>3. \A m \in Projecting : /\ m \in Msgs /\ m \in Unspoken /\ m \in Owed /\ m \notin Queued(queue)
                            /\ admits[m] \in Nat \ {0}
  BY DEF Projecting, Unspoken, Undelivered, Owed, Live, OwnedInv, TypeInv, TypeOK
<1>4. \A m \in Projecting : m \notin Unspoken'
  <2>1. queue' = queue /\ \A m \in Projecting : slot'[m].st = "Delivered"
    BY DEF Commit, actorVars, Projecting, TypeInv, TypeOK, Slots
  <2> QED
    BY <1>3, <2>1 DEF Unspoken, Undelivered
<1>5. admits' = admits
  BY DEF Commit
<1>6. \A i \in len + 1..len + n : /\ shown'[i].id = b[i - len] /\ shown'[i].nth = admits[b[i - len]]
                                  /\ b[i - len] \in Projecting
  BY <1>2, EntryFields
<1>7. \A i, j \in len + 1..len + n : b[i - len] = b[j - len] => i = j
  <2> SUFFICES ASSUME NEW i \in len + 1..len + n, NEW j \in len + 1..len + n, i < j,
                      b[i - len] = b[j - len]
               PROVE  FALSE
    BY <1>2
  <2>1. i - len \in 1..n /\ j - len \in 1..n /\ i - len < j - len
    BY <1>2
  <2>2. slot[b[i - len]].at < slot[b[j - len]].at /\ slot[b[j - len]].at \in Nat
    BY <1>1, <1>3, <1>6, <2>1 DEF Shows, TypeInv, TypeOK, Slots
  <2> QED
    BY <2>2
<1> HIDE DEF len
<1>8. \A i \in 1..len + n : i \in 1..len \/ i \in len + 1..len + n
  BY <1>2
<1>9. /\ \A i \in 1..len : shown[i].nth \in 1..admits[shown[i].id]
      /\ \A i, j \in 1..len : shown[i].id = shown[j].id /\ shown[i].nth = shown[j].nth => i = j
      /\ \A i \in 1..len : shown[i].nth = admits[shown[i].id] => shown[i].id \notin Unspoken
  BY DEF HistoryInv, len
<1>10. \A i \in 1..len + n : shown'[i].nth \in 1..admits[shown'[i].id]
  BY <1>2, <1>3, <1>6, <1>8, <1>9
<1>11. \A i \in 1..len + n : shown'[i].nth = admits[shown'[i].id] => shown'[i].id \notin Unspoken'
  BY <1>2, <1>4, <1>6, <1>8, <1>9
<1>12. ASSUME NEW i \in 1..len + n, NEW j \in 1..len + n,
              shown'[i].id = shown'[j].id, shown'[i].nth = shown'[j].nth
       PROVE  i = j
  <2>1. CASE i \in 1..len /\ j \in 1..len
    BY <1>2, <1>9, <1>12, <2>1
  <2>2. CASE i \in 1..len /\ j \in len + 1..len + n
    BY <1>2, <1>3, <1>6, <1>9, <1>12, <2>2
  <2>3. CASE i \in len + 1..len + n /\ j \in 1..len
    BY <1>2, <1>3, <1>6, <1>9, <1>12, <2>3
  <2>4. CASE i \in len + 1..len + n /\ j \in len + 1..len + n
    BY <1>6, <1>7, <1>12, <2>4
  <2> QED
    BY <1>8, <2>1, <2>2, <2>3, <2>4
<1> QED
  BY <1>2, <1>5, <1>10, <1>11, <1>12 DEF HistoryInv

(* A message admitted again has nothing in the history yet.                *)
LEMMA HistoryAdmit ==
    ASSUME TypeInv, HistoryInv, Admits
    PROVE  HistoryInv'
<1>1. PICK m \in Msgs, op \in {"Queue", "Steer", "Interject"} : Admit(m, op)
  BY DEF Admits
<1>2. shown' = shown /\ admits' = [admits EXCEPT ![m] = @ + 1]
  BY <1>1 DEF Admit
<1>3. Unspoken' \subseteq Unspoken \cup {m}
  <2>1. CASE queue' = Append(queue, m) /\ UNCHANGED slotVars
    <3>1. queue \in Seq(Prompts) /\ m \in Prompts
      BY DEF TypeInv, TypeOK, Prompts
    <3>2. Undelivered' = Undelivered
      BY <2>1 DEF slotVars, Undelivered
    <3>3. /\ DOMAIN queue = 1..Len(queue) /\ DOMAIN queue' = 1..Len(queue) + 1
          /\ \A i \in 1..Len(queue) + 1 : queue'[i] = m \/ (i \in 1..Len(queue) /\ queue'[i] = queue[i])
      BY <2>1, <3>1, AppendProperties, LenProperties
    <3>4. Queued(queue') \subseteq Queued(queue) \cup {m}
      BY <3>3 DEF Queued
    <3> QED
      BY <3>2, <3>4 DEF Unspoken, Queued
  <2>2. CASE ~(queue' = Append(queue, m) /\ UNCHANGED slotVars)
    <3>1. PICK s : slot' = [slot EXCEPT ![m] = s] /\ queue' = queue
      BY <1>1, <2>2 DEF Admit
    <3> QED
      BY <3>1 DEF Unspoken, Undelivered, Queued, TypeInv, TypeOK
  <2> QED
    BY <2>1, <2>2
<1>4. \A i \in 1..Len(shown) : shown[i].id \in Msgs /\ shown[i].nth \in Nat
  BY EntriesShown
<1>5. \A k \in Msgs : admits[k] \in Nat /\ admits'[k] = IF k = m THEN admits[k] + 1 ELSE admits[k]
  BY <1>2 DEF TypeInv, TypeOK
<1>6. \A i \in 1..Len(shown) : shown[i].nth \in 1..admits'[shown[i].id]
  BY <1>4, <1>5 DEF HistoryInv
<1>7. ASSUME NEW i \in 1..Len(shown), shown[i].nth = admits'[shown[i].id]
      PROVE  shown[i].id \notin Unspoken'
  <2>1. shown[i].nth \in 1..admits[shown[i].id]
    BY DEF HistoryInv
  <2>2. shown[i].id # m /\ shown[i].nth = admits[shown[i].id]
    BY <1>4, <1>5, <1>7, <2>1
  <2> QED
    BY <1>3, <2>2 DEF HistoryInv
<1> QED
  BY <1>2, <1>6, <1>7 DEF HistoryInv

LEMMA HistoryStep ==
    ASSUME TypeInv, OwnedInv, HistoryInv, [Next]_vars
    PROVE  HistoryInv'
<1>1. CASE Admits
  BY <1>1, HistoryAdmit
<1>2. CASE ~Admits
  <2>1. Unspoken' \subseteq Unspoken
    BY <1>2, OwnedHandlers, OwnedCommands, OwnedResumes, OwnedTurns DEF Next, Admits
  <2>2. CASE Commit
    BY <2>1, <2>2, HistoryCommit
  <2>3. CASE ~Commit
    <3>1. UNCHANGED <<shown, admits>>
      <4>1. CASE SafePoint
        BY <4>1 DEF SafePoint, inputVars
      <4> QED
        BY <1>2, <2>3, <4>1, OtherSteps
    <3> QED
      BY <2>1, <3>1 DEF HistoryInv
  <2> QED
    BY <2>2, <2>3
<1> QED
  BY <1>1, <1>2

LEMMA HistoryInit == Init => HistoryInv
<1> SUFFICES ASSUME Init PROVE HistoryInv
  OBVIOUS
<1>1. Len(shown) = 0
  BY DEF Init
<1> QED
  BY <1>1 DEF HistoryInv

(* The receipts and the history together are inductive.                    *)
HistoryKept == TypeInv /\ OwnedInv /\ HistoryInv

LEMMA HistoryInvariant == Spec => []HistoryKept
<1>1. HistoryKept /\ [Next]_vars => HistoryKept'
  BY StepType, OwnedHandlers, OwnedCommands, OwnedResumes, OwnedTurns, HistoryStep
  DEF Next, HistoryKept
<1> QED
  BY <1>1, InitType, OwnedInit, HistoryInit, PTL DEF Spec, HistoryKept

(* A parent's text enters the conversation at most once per admission,     *)
(* in a batch at a safe point or as a turn of its own, however often       *)
(* barriers fail and turns end between the two (safe_point.rs).            *)
THEOREM ShownOnce == Spec => []ShownAtMostOnce
<1>1. HistoryKept => ShownAtMostOnce
  <2> SUFFICES ASSUME TypeInv, OwnedInv, HistoryInv, NEW m \in Msgs
               PROVE  Cardinality({i \in DOMAIN shown : shown[i].id = m})
                        + (IF InQueue(m) THEN 1 ELSE 0) <= admits[m]
    BY DEF ShownAtMostOnce, HistoryKept
  <2> DEFINE E == {i \in DOMAIN shown : shown[i].id = m}
             top == IF InQueue(m) THEN admits[m] - 1 ELSE admits[m]
             f == [i \in E |-> shown[i].nth]
  <2>1. admits[m] \in Nat /\ resolved[m] \in Nat
    BY DEF TypeInv, TypeOK
  <2>2. InQueue(m) <=> m \in Queued(queue)
    BY DEF InQueue, Queued
  <2>3. InQueue(m) => m \in Unspoken /\ admits[m] = resolved[m] + 1
    BY <2>2 DEF OwnedInv, Owed, Unspoken
  <2>4. E \subseteq 1..Len(shown) /\ \A i \in E : shown[i].id = m
    BY EntriesShown
  <2>5. \A i \in E : shown[i].nth \in 1..top
    <3> SUFFICES ASSUME NEW i \in E PROVE shown[i].nth \in 1..top
      OBVIOUS
    <3>1. shown[i].nth \in 1..admits[m] /\ (shown[i].nth = admits[m] => m \notin Unspoken)
      BY <2>4 DEF HistoryInv
    <3> QED
      BY <2>1, <2>3, <3>1
  <2>6. top \in Nat
    BY <2>1, <2>3
  <2>7. \A i, j \in E : f[i] = f[j] => i = j
    BY <2>4 DEF HistoryInv
  <2> HIDE DEF E, top
  <2>8. f \in [E -> 1..top]
    BY <2>5
  <2> HIDE DEF f
  <2>9. f \in Injection(E, 1..top)
    BY <2>7, <2>8, Fun_IsInj
  <2>10. IsFiniteSet(1..top) /\ Cardinality(1..top) = top
    BY <2>6, FS_Interval
  <2>11. IsFiniteSet(E) /\ Cardinality(E) <= top
    BY <2>9, <2>10, FS_Injection
  <2>12. Cardinality(E) \in Nat
    BY <2>11, FS_CardinalityType
  <2>13. top + (IF InQueue(m) THEN 1 ELSE 0) = admits[m]
    BY <2>1 DEF top
  <2>14. Cardinality(E) + (IF InQueue(m) THEN 1 ELSE 0) <= admits[m]
    BY <2>1, <2>6, <2>11, <2>12, <2>13
  <2> QED
    BY <2>14 DEF E
<1> QED
  BY <1>1, HistoryInvariant, PTL

-----------------------------------------------------------------------------
(* The order of delivery *)

(* finish_delivery: the new batch comes after everything shown of the      *)
(* turn, and before everything that still waits.                           *)
LEMMA OrderCommit ==
    ASSUME TypeInv, SlotsBelongToRunningTurn, OrderInv, Commit
    PROVE  OrderInv'
<1>1. PICK b, n : Shows(b, n)
  BY CommitShows
<1> DEFINE len == Len(shown)
<1>2. /\ n \in Nat /\ len \in Nat /\ Len(shown') = len + n
      /\ \A i \in 1..len : shown'[i] = shown[i]
      /\ \A i \in len + 1..len + n :
            /\ i - len \in 1..n /\ b[i - len] \in Projecting
            /\ shown'[i].op = slot[b[i - len]].op /\ shown'[i].at = slot[b[i - len]].at
            /\ shown'[i].turn = slot[b[i - len]].turn /\ shown'[i].from = len
  <2>1. /\ n \in Nat /\ len \in Nat /\ Len(shown') = len + n
        /\ \A i \in 1..len : shown'[i] = shown[i]
        /\ \A i \in len + 1..len + n : shown'[i] = EntryOf(b[i - len])
        /\ b \in [1..n -> Projecting]
    BY <1>1 DEF Shows
  <2>2. \A i \in len + 1..len + n : i - len \in 1..n
    BY <2>1
  <2> QED
    BY <2>1, <2>2, EntryFields
<1>3. \A i \in 1..n, j \in 1..n : i < j =>
          /\ slot[b[i]].op = slot[b[j]].op => slot[b[i]].at < slot[b[j]].at
          /\ ~(slot[b[i]].op = "Steer" /\ slot[b[j]].op = "Interject")
  BY <1>1 DEF Shows
<1>4. \A m \in Msgs : slot[m].st = "Projecting" <=> m \in Projecting
  BY DEF SlotsBelongToRunningTurn, Live, Projecting
<1>5. /\ serial' = serial
      /\ \A m \in Msgs : slot'[m] = IF m \in Projecting THEN [slot[m] EXCEPT !.st = "Delivered"]
                                                        ELSE slot[m]
  BY DEF Commit
<1>6. \A m \in Undelivered' : m \in Msgs /\ slot[m].st = "Pending" /\ slot'[m] = slot[m] /\ m \in Undelivered
  BY <1>4, <1>5 DEF Undelivered, TypeInv, TypeOK, Slots
<1>7. \A m \in Projecting : /\ m \in Msgs /\ m \in Undelivered /\ slot[m].st = "Projecting"
                            /\ slot[m].at \in Nat /\ slot[m].at <= serial
  BY DEF Projecting, Undelivered, TypeInv, TypeOK, Slots, SlotOrder, Live
<1>8. /\ \A i \in 1..len : shown[i].at <= serial /\ shown[i].from < i /\ shown[i].from \in Nat
      /\ \A i \in 1..len, m \in Undelivered :
            shown[i].turn = slot[m].turn => shown[i].at < slot[m].at
      /\ \A m, k \in Msgs : slot[m].st = "Projecting" /\ slot[k].st = "Pending"
            => slot[m].at < slot[k].at
      /\ \A i, j \in 1..len : i < j /\ shown[i].turn = shown[j].turn =>
            /\ shown[i].op = shown[j].op => shown[i].at < shown[j].at
            /\ shown[i].from = shown[j].from => ~(shown[i].op = "Steer" /\ shown[j].op = "Interject")
  BY EntriesShown DEF OrderInv, DeliveryOrder
<1> HIDE DEF len
<1>9. \A i \in 1..len + n : i \in 1..len \/ i \in len + 1..len + n
  BY <1>2
<1>10. ASSUME NEW i \in 1..len + n PROVE shown'[i].at <= serial /\ shown'[i].from < i
  <2>1. CASE i \in 1..len
    BY <1>2, <1>8, <2>1
  <2>2. CASE i \in len + 1..len + n
    BY <1>2, <1>7, <2>2
  <2> QED
    BY <1>9, <2>1, <2>2
<1>11. ASSUME NEW i \in 1..len + n, NEW m \in Undelivered', shown'[i].turn = slot'[m].turn
       PROVE  shown'[i].at < slot'[m].at
  <2>1. CASE i \in 1..len
    BY <1>2, <1>6, <1>8, <1>11, <2>1
  <2>2. CASE i \in len + 1..len + n
    BY <1>2, <1>6, <1>7, <1>8, <2>2
  <2> QED
    BY <1>9, <2>1, <2>2
<1>12. ASSUME NEW m \in Msgs PROVE slot'[m].st # "Projecting"
  BY <1>4, <1>5 DEF TypeInv, TypeOK, Slots
<1>13. ASSUME NEW i \in 1..len + n, NEW j \in 1..len + n, i < j, shown'[i].turn = shown'[j].turn
       PROVE  /\ shown'[i].op = shown'[j].op => shown'[i].at < shown'[j].at
              /\ shown'[i].from = shown'[j].from
                   => ~(shown'[i].op = "Steer" /\ shown'[j].op = "Interject")
  <2>1. CASE i \in 1..len /\ j \in 1..len
    BY <1>2, <1>8, <1>13, <2>1
  <2>2. CASE i \in 1..len /\ j \in len + 1..len + n
    <3>1. shown'[i].at < shown'[j].at
      BY <1>2, <1>7, <1>8, <1>13, <2>2
    <3>2. shown'[i] = shown[i] /\ shown'[j].from = len
      BY <1>2, <2>2
    <3>4. shown[i].from < i /\ shown[i].from \in Nat
      BY <1>8, <2>2
    <3>5. i \in Nat /\ i <= len
      BY <1>2, <2>2
    <3>3. shown'[i].from # shown'[j].from
      BY <1>2, <3>2, <3>4, <3>5
    <3> QED
      BY <3>1, <3>3
  <2>3. CASE i \in len + 1..len + n
    <3>1. j \in len + 1..len + n /\ i - len < j - len
      BY <1>2, <1>13, <2>3
    <3>2. i - len \in 1..n /\ j - len \in 1..n
      BY <1>2, <2>3, <3>1
    <3> QED
      BY <1>2, <1>3, <2>3, <3>1, <3>2
  <2> QED
    BY <1>2, <1>9, <1>13, <2>1, <2>2, <2>3
<1>14. DOMAIN shown' = 1..len + n
  <2>1. TypeInv'
    BY CommitType
  <2>2. DOMAIN shown' = 1..Len(shown')
    BY <2>1, LenProperties DEF TypeInv, TypeOK
  <2> QED
    BY <1>2, <2>2
<1>15. DeliveryOrder'
  BY <1>13, <1>14 DEF DeliveryOrder
<1> QED
  BY <1>2, <1>5, <1>10, <1>11, <1>12, <1>15 DEF OrderInv

(* What else may happen to the messages that wait.                         *)
LEMMA OrderStep ==
    ASSUME TypeInv, SlotsBelongToRunningTurn, OrderInv, [Next]_vars
    PROVE  OrderInv'
<1> USE EntriesShown
<1>1. CASE Commit
  BY <1>1, OrderCommit
<1>2. CASE SafePoint
  <2>1. shown' = shown /\ serial' = serial
    BY <1>2 DEF SafePoint, inputVars
  <2>2. \A m \in Msgs : /\ slot'[m].at = slot[m].at /\ slot'[m].turn = slot[m].turn
                        /\ slot'[m].st # "Pending" /\ (slot'[m].st = "Projecting" => m \in Undelivered)
    BY <1>2 DEF SafePoint, Pending, SlotsBelongToRunningTurn, Live, Undelivered, TypeInv, TypeOK, Slots
  <2>3. Undelivered' \subseteq Undelivered
    BY <2>2 DEF Undelivered
  <2>4. Undelivered \subseteq Msgs
    BY DEF Undelivered
  <2>5. DeliveryOrder'
    BY <2>1 DEF OrderInv, DeliveryOrder
  <2> QED
    BY <2>1, <2>2, <2>3, <2>4, <2>5 DEF OrderInv
<1>3. CASE Admits
  <2>1. PICK m \in Msgs, op \in {"Queue", "Steer", "Interject"} : Admit(m, op)
    BY <1>3 DEF Admits
  <2>2. shown' = shown
    BY <2>1 DEF Admit
  <2>3. DeliveryOrder'
    BY <2>2 DEF OrderInv, DeliveryOrder
  <2>4. CASE UNCHANGED slotVars
    BY <2>2, <2>3, <2>4 DEF OrderInv, Undelivered, slotVars
  <2>5. CASE ~UNCHANGED slotVars
    <3>1. PICK s : /\ slot' = [slot EXCEPT ![m] = s] /\ s.st = "Pending" /\ s.at = serial + 1
                   /\ serial' = serial + 1
      BY <2>1, <2>5 DEF Admit
    <3>2. /\ slot'[m] = s /\ \A k \in Msgs : k # m => slot'[k] = slot[k]
          /\ serial \in Nat
      BY <3>1 DEF TypeInv, TypeOK
    <3>3. \A k \in Msgs : slot[k].at \in Nat /\ (slot[k].st = "Projecting" => slot[k].at <= serial)
      BY DEF TypeInv, TypeOK, Slots, SlotOrder, Live
    <3>4. \A k \in Undelivered' : k \in Msgs /\ (k = m \/ k \in Undelivered)
      BY <3>2 DEF Undelivered
    <3>5. \A i \in 1..Len(shown) : shown[i].at <= serial /\ shown[i].at \in Nat /\ shown[i].from < i
      BY DEF OrderInv
    <3>6. \A i \in 1..Len(shown), k \in Undelivered' :
            shown[i].turn = slot'[k].turn => shown[i].at < slot'[k].at
      <4> TAKE i \in 1..Len(shown), k \in Undelivered'
      <4>1. CASE k = m
        BY <3>1, <3>2, <3>5, <4>1
      <4>2. CASE k # m
        BY <3>2, <3>4, <4>2 DEF OrderInv
      <4> QED
        BY <4>1, <4>2
    <3>7. \A k, l \in Msgs : slot'[k].st = "Projecting" /\ slot'[l].st = "Pending"
            => slot'[k].at < slot'[l].at
      <4> TAKE k \in Msgs, l \in Msgs
      <4>1. CASE k = m
        BY <3>1, <3>2, <4>1
      <4>2. CASE k # m /\ l = m
        BY <3>1, <3>2, <3>3, <4>2
      <4>3. CASE k # m /\ l # m
        BY <3>2, <4>3 DEF OrderInv
      <4> QED
        BY <4>1, <4>2, <4>3
    <3> QED
      BY <2>2, <2>3, <3>1, <3>2, <3>5, <3>6, <3>7 DEF OrderInv
  <2> QED
    BY <2>4, <2>5
<1>4. CASE ~Commit /\ ~SafePoint /\ ~Admits
  <2>1. /\ UNCHANGED <<shown, serial>>
        /\ \A m \in Msgs : slot'[m] = slot[m] \/ slot'[m] = NoSlot
    BY <1>4, OtherSteps
  <2>2. NoSlot.st = "Free"
    BY DEF NoSlot
  <2>3. \A m \in Undelivered' : m \in Undelivered /\ slot'[m] = slot[m]
    BY <2>1, <2>2 DEF Undelivered
  <2>4. DeliveryOrder'
    BY <2>1 DEF OrderInv, DeliveryOrder
  <2>5. \A m, k \in Msgs : slot'[m].st = "Projecting" /\ slot'[k].st = "Pending"
            => slot'[m].at < slot'[k].at
    BY <2>1, <2>2 DEF OrderInv
  <2> QED
    BY <2>1, <2>3, <2>4, <2>5 DEF OrderInv
<1> QED
  BY <1>1, <1>2, <1>3, <1>4

LEMMA OrderInit == Init => OrderInv
<1> SUFFICES ASSUME Init PROVE OrderInv
  OBVIOUS
<1>1. Len(shown) = 0 /\ DOMAIN shown = {} /\ \A m \in Msgs : slot[m].st = "Free"
  BY DEF Init, NoSlot
<1> QED
  BY <1>1 DEF OrderInv, DeliveryOrder

(* parent_interject.rs: within a batch Interject precedes Steer, and each  *)
(* class keeps admission order over all the batches of a turn, also those  *)
(* that a failed barrier or an unavailable actor delivers late.            *)
THEOREM DeliveredInOrder == Spec => []DeliveryOrder
<1>1. DeliveryInv => TypeInv /\ SlotsBelongToRunningTurn
  BY DEF DeliveryInv, Coherent
<1>2. TypeInv /\ SlotsBelongToRunningTurn /\ OrderInv /\ [Next]_vars => OrderInv'
  BY OrderStep
<1>3. OrderInv => DeliveryOrder
  BY DEF OrderInv
<1> QED
  BY <1>1, <1>2, <1>3, OrderInit, DeliveryInvariant, PTL DEF Spec

-----------------------------------------------------------------------------
(* The refinement of Receipt *)

(* Receipt's open receipts are the ones somebody owes.                     *)
LEMMA OpenIsOwed ==
    ASSUME TypeInv, OwnedInv
    PROVE  Abstract!Open = Owed
<1>1. Owed \subseteq Msgs
  BY OwedMsgs DEF Owed, TypeInv
<1>2. \A m \in Msgs : /\ admits[m] \in Nat /\ resolved[m] \in Nat
                      /\ admits[m] = resolved[m] + IF m \in Owed THEN 1 ELSE 0
  BY DEF OwnedInv, TypeInv, TypeOK
<1>3. \A m \in Msgs : resolved[m] < admits[m] <=> m \in Owed
  BY <1>2
<1> QED
  BY <1>1, <1>3 DEF Abstract!Open

(* u, of length len + n, is t followed by n more.                          *)
Extends(t, u, R, len, n) ==
    /\ len \in Nat /\ n \in Nat
    /\ t \in [1..len -> R] /\ u \in [1..len + n -> R]
    /\ \A i \in 1..len : u[i] = t[i]

LEMMA ExtendedSeq ==
    ASSUME NEW t, NEW u, NEW R, NEW len, NEW n, Extends(t, u, R, len, n)
    PROVE  /\ Len(t) = len /\ Len(u) = len + n /\ SubSeq(u, 1, len) = t
           /\ n = 0 => u = t
<1> USE DEF Extends
<1>1. t \in Seq(R) /\ u \in Seq(R)
  BY ListIsSeq
<1>2. Len(t) = len /\ Len(u) = len + n
  OBVIOUS
<1>3. \A i \in 1..len : u[i] \in R
  OBVIOUS
<1>4. /\ SubSeq(u, 1, len) \in Seq(R) /\ Len(SubSeq(u, 1, len)) = len
      /\ \A i \in 1..len : SubSeq(u, 1, len)[i] = u[i]
  BY <1>3, SubSeqProperties
<1>5. SubSeq(u, 1, len) = t
  BY <1>1, <1>2, <1>4, SeqEqual
<1>6. n = 0 => u = t
  BY <1>1, <1>2, SeqEqual
<1> QED
  BY <1>2, <1>5, <1>6

(* A batch at a safe point: open receipts, each spoken for the first time. *)
LEMMA CommitSpeaks ==
    ASSUME TypeInv, OwnedInv, HistoryInv, Commit
    PROVE  Abstract!Speak \/ UNCHANGED Abstract!receiptVars
<1>1. PICK b, n : Shows(b, n)
  BY CommitShows
<1> DEFINE len == Len(shown)
<1>2. /\ n \in Nat /\ len \in Nat /\ Len(shown') = len + n
      /\ \A i \in 1..len : shown'[i] = shown[i]
      /\ \A i \in len + 1..len + n :
            /\ i - len \in 1..n /\ b[i - len] \in Projecting
            /\ shown'[i].id = b[i - len] /\ shown'[i].nth = admits[b[i - len]]
  <2>1. /\ n \in Nat /\ len \in Nat /\ Len(shown') = len + n
        /\ \A i \in 1..len : shown'[i] = shown[i]
        /\ \A i \in len + 1..len + n : shown'[i] = EntryOf(b[i - len])
        /\ b \in [1..n -> Projecting]
    BY <1>1 DEF Shows
  <2>2. \A i \in len + 1..len + n : i - len \in 1..n
    BY <2>1
  <2> QED
    BY <2>1, <2>2, EntryFields
<1>3. DOMAIN shown = 1..len /\ DOMAIN shown' = 1..len + n
  <2>1. TypeInv'
    BY CommitType
  <2>2. DOMAIN shown' = 1..Len(shown')
    BY <2>1, LenProperties DEF TypeInv, TypeOK
  <2> QED
    BY <1>2, <2>2, EntriesShown
<1>4. UNCHANGED <<admits, resolved>>
  BY DEF Commit
<1>5. \A m \in Projecting : m \in Owed /\ m \in Unspoken /\ m \in Msgs
  BY DEF Projecting, Owed, Live, Unspoken, Undelivered
<1>6. \A i \in 1..len, m \in Projecting : ~(shown[i].id = m /\ shown[i].nth = admits[m])
  BY <1>5 DEF HistoryInv
<1>7. \A i, j \in 1..n : i < j => b[i] # b[j]
  <2> SUFFICES ASSUME NEW i \in 1..n, NEW j \in 1..n, i < j, b[i] = b[j] PROVE FALSE
    OBVIOUS
  <2>1. slot[b[i]].at < slot[b[j]].at /\ b[j] \in Projecting
    BY <1>1 DEF Shows
  <2>2. slot[b[j]].at \in Nat
    BY <1>5, <2>1 DEF TypeInv, TypeOK, Slots
  <2> QED
    BY <2>1, <2>2
<1> DEFINE text(e) == [id |-> e.id, nth |-> e.nth]
           t == [i \in 1..len |-> text(shown[i])]
           u == [i \in 1..len + n |-> text(shown'[i])]
           R == [id : Msgs, nth : Nat]
<1>8. Texts = t /\ Texts' = u
  BY <1>3 DEF Texts
<1>9. \A i \in 1..len : text(shown[i]) \in R /\ text(shown'[i]) = text(shown[i])
  BY <1>2, EntriesShown
<1>10. ASSUME NEW i \in len + 1..len + n
       PROVE  text(shown'[i]) = [id |-> b[i - len], nth |-> admits[b[i - len]]]
  BY <1>2
<1>11. \A m \in Projecting : [id |-> m, nth |-> admits[m]] \in R
  BY <1>5 DEF TypeInv, TypeOK
<1>12. ASSUME NEW i \in 1..len + n PROVE text(shown'[i]) \in R
  <2>1. CASE i \in 1..len
    BY <1>9, <2>1
  <2>2. CASE i \in len + 1..len + n
    BY <1>2, <1>10, <1>11, <2>2
  <2> QED
    BY <1>2, <2>1, <2>2
<1>13. Extends(t, u, R, len, n)
  <2> HIDE DEF text, R
  <2>1. t \in [1..len -> R]
    BY <1>9
  <2>2. u \in [1..len + n -> R]
    BY <1>12
  <2>3. \A i \in 1..len : i \in 1..len + n
    BY <1>2
  <2> QED
    BY <1>2, <1>9, <2>1, <2>2, <2>3 DEF Extends
<1> HIDE DEF len
<1>15. \A i \in len + 1..len + n : u[i] = [id |-> b[i - len], nth |-> admits[b[i - len]]]
  BY <1>2, <1>10
<1>16. DOMAIN t = 1..len /\ \A i \in 1..len, m \in Projecting : t[i] # [id |-> m, nth |-> admits[m]]
  BY <1>6
<1> HIDE DEF t, u, text, R
<1>14. Len(t) = len /\ Len(u) = len + n /\ SubSeq(u, 1, len) = t /\ (n = 0 => u = t)
  BY <1>13, ExtendedSeq
<1>17. CASE n = 0
  BY <1>4, <1>8, <1>14, <1>17 DEF Abstract!receiptVars
<1>18. CASE n # 0
  <2>1. Len(t) < Len(u)
    BY <1>2, <1>14, <1>18
  <2>2. ASSUME NEW i \in len + 1..len + n
        PROVE  /\ \E m \in Abstract!Open : ~Abstract!Spoken(m) /\ u[i] = [id |-> m, nth |-> admits[m]]
               /\ \A j \in len + 1..i - 1 : u[j] # u[i]
    <3>1. b[i - len] \in Abstract!Open
      BY <1>2, <1>5, OpenIsOwed
    <3>2. ~Abstract!Spoken(b[i - len])
      BY <1>2, <1>8, <1>16 DEF Abstract!Spoken
    <3>3. \A j \in len + 1..i - 1 : u[j] # u[i]
      <4> SUFFICES ASSUME NEW j \in len + 1..i - 1, u[j] = u[i] PROVE FALSE
        OBVIOUS
      <4>1. j \in len + 1..len + n /\ j - len \in 1..n /\ i - len \in 1..n /\ j - len < i - len
        BY <1>2
      <4>2. /\ u[j] = [id |-> b[j - len], nth |-> admits[b[j - len]]]
            /\ u[i] = [id |-> b[i - len], nth |-> admits[b[i - len]]]
        BY <1>15, <4>1
      <4>3. [id |-> b[j - len], nth |-> admits[b[j - len]]]
              = [id |-> b[i - len], nth |-> admits[b[i - len]]]
        BY <4>2, Zenon
      <4>4. b[j - len] = b[i - len]
        BY <4>3
      <4> QED
        BY <1>7, <4>1, <4>4
    <3> QED
      BY <1>15, <3>1, <3>2, <3>3
  <2> QED
    BY <1>4, <1>8, <1>14, <2>1, <2>2 DEF Abstract!Speak
<1> QED
  BY <1>17, <1>18

(* Every step of the actor is a step of Receipt.                           *)
LEMMA StepReceipt ==
    ASSUME HistoryKept, [Next]_vars
    PROVE  [Abstract!ReceiptNext]_(Abstract!receiptVars)
<1> USE DEF HistoryKept
<1>1. CASE Commit
  BY <1>1, CommitSpeaks DEF Abstract!ReceiptNext
<1>2. CASE Admits
  <2>1. PICK m \in Msgs, op \in {"Queue", "Steer", "Interject"} : Admit(m, op)
    BY <1>2 DEF Admits
  <2>2. /\ admits' = [admits EXCEPT ![m] = @ + 1] /\ UNCHANGED <<resolved, shown>> /\ pc = "loop"
        /\ m \notin Live /\ m \notin Queued(queue)
    BY <2>1 DEF Admit, InQueue, Queued
  <2>3. m \notin Abstract!Open
    BY <2>2, OpenIsOwed DEF OwnedInv, Owed
  <2>4. Texts' = Texts
    BY <2>2 DEF Texts
  <2>5. Abstract!Give(m)
    BY <2>2, <2>3, <2>4 DEF Abstract!Give
  <2> QED
    BY <2>5 DEF Abstract!ReceiptNext
<1>3. CASE ~Commit /\ ~Admits
  <2>1. UNCHANGED <<admits, shown>>
    <3>1. CASE SafePoint
      BY <3>1 DEF SafePoint, inputVars
    <3> QED
      BY <1>3, <3>1, OtherSteps
  <2>2. Texts' = Texts
    BY <2>1 DEF Texts
  <2>3. OwnedInv' /\ TypeInv'
    BY StepType, OwnedHandlers, OwnedCommands, OwnedResumes, OwnedTurns DEF Next
  <2>4. resolved' = resolved \/ \E S : Answer(S)
    BY DEF Next, LoopNext, TurnNext, CommandNext, ResumeNext, Kick, CompletionTransition, EarlyAbort,
           CancelTransition, CancelNoop, Settle, Release, Finish, FirstOutput, SafePoint,
           BarrierFails, Commit, CommitFails, WaitStarts, TurnEnds, WaitAborts, WaitReturns,
           Prompt, Admit, CompletionClaim, CancelClaim, RewindNamed, RewindDropsRow,
           RewindGeneric, Shutdown, Resume, ResumeKick, inputVars, vars
  <2>5. CASE resolved' = resolved
    BY <2>1, <2>2, <2>5 DEF Abstract!receiptVars
  <2>6. ASSUME NEW S, Answer(S) PROVE Abstract!Close
    <3> DEFINE D == S \cap Msgs
    <3>1. \A m \in Msgs : /\ admits[m] \in Nat /\ resolved[m] \in Nat /\ admits'[m] = admits[m]
                          /\ resolved'[m] = IF m \in D THEN resolved[m] + 1 ELSE resolved[m]
      BY <2>1, <2>6 DEF Answer, TypeInv, TypeOK
    <3>2. \A m \in Msgs : /\ admits[m] = resolved[m] + IF m \in Owed THEN 1 ELSE 0
                          /\ admits'[m] = resolved'[m] + IF m \in Owed' THEN 1 ELSE 0
      BY <2>3 DEF OwnedInv
    <3>3. D \subseteq Owed
      <4> SUFFICES ASSUME NEW m \in D, m \notin Owed PROVE FALSE
        OBVIOUS
      <4> QED
        BY <3>1, <3>2
    <3>4. resolved' = [m \in Msgs |-> IF m \in D THEN resolved[m] + 1 ELSE resolved[m]]
      BY <2>6 DEF Answer
    <3> HIDE DEF D
    <3>5. D \in SUBSET Abstract!Open
      BY <3>3, OpenIsOwed
    <3> QED
      BY <2>1, <2>2, <3>4, <3>5 DEF Abstract!Close
  <2> QED
    BY <2>4, <2>5, <2>6 DEF Abstract!ReceiptNext
<1> QED
  BY <1>1, <1>2, <1>3

(* The actor implements Receipt: whatever the interleaving of turns,       *)
(* fallbacks, cancels, rewinds and failed barriers, a receipt is handed    *)
(* out only when the last one of its message is answered, answered once,   *)
(* and its text is shown at most once and never after the answer.          *)
THEOREM ActorImplementsReceipt == Spec => ImplementsReceipt
<1>1. Init => Abstract!ReceiptInit
  BY DEF Init, Abstract!ReceiptInit, Texts
<1>2. HistoryKept /\ [Next]_vars => [Abstract!ReceiptNext]_(Abstract!receiptVars)
  BY StepReceipt
<1> QED
  BY <1>1, <1>2, HistoryInvariant, PTL DEF Spec, ImplementsReceipt, Abstract!ReceiptSpec
=============================================================================
