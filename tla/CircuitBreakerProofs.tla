------------------------ MODULE CircuitBreakerProofs ------------------------
(* Proofs about CircuitBreaker, for any number of callers and any          *)
(* configuration.                                                          *)
EXTENDS CircuitBreaker, TLAPS

\* No stamp and no caller's reading of the clock lies in the future.
StampsPast ==
    /\ opened_at <= clock /\ claimed_at <= clock
    /\ \A c \in Callers : caller[c].now <= clock

BreakerInv == AtomicsOK /\ StampsPast

\* A caller's next step, with its other locals kept, has its type.
LEMMA GotoType ==
    ASSUME AtomicsOK, NEW c \in Callers, NEW l \in Steps, Goto(c, l)
    PROVE  /\ caller' \in [Callers -> [pc : Steps, now : Nat, seen : Nat, failure : BOOLEAN]]
           /\ \A d \in Callers : caller'[d].now = caller[d].now
BY DEF AtomicsOK, Goto

\* The wrapped counter stays in its word (fetch_add and fetch_sub).
LEMMA Wraps ==
    ASSUME NEW n \in Int
    PROVE  n % WORD \in 0..(WORD - 1)
BY BreakerAssumption

\* What evict leaves of the window is a window.
LEMMA KeptType ==
    ASSUME AtomicsOK
    PROVE  Kept \subseteq [n : Nat, f : Nat]
BY DEF AtomicsOK, Kept

\* The breaker starts with the clock at its baseline.
LEMMA BreakerInit == Init => BreakerInv
<1> SUFFICES ASSUME Init PROVE BreakerInv
  OBVIOUS
<1>1. is_open_fast \in BOOLEAN
  BY Zenon DEF Init
<1>2. "idle" \in Steps
  BY DEF Steps
<1>3. caller \in [Callers -> [pc : Steps, now : Nat, seen : Nat, failure : BOOLEAN]]
  BY <1>2 DEF Init
<1>4. probes \in 0..(WORD - 1) /\ window \in [n : Nat, f : Nat]
  BY BreakerAssumption DEF Init
<1> QED
  BY <1>1, <1>3, <1>4 DEF Init, BreakerInv, AtomicsOK, StampsPast

\* No access of check, no matter how it interleaves, breaks the invariant.
LEMMA CheckingStep ==
    ASSUME BreakerInv, NEW c \in Callers, Checking(c)
    PROVE  BreakerInv'
<1> USE BreakerAssumption DEF BreakerInv, StampsPast
<1>1. CASE Check(c)
  <2>1. \E l \in Steps : Goto(c, l)
    BY <1>1 DEF Check, AtomicsOK, Steps
  <2> QED
    BY <2>1, <1>1, GotoType DEF Check, AtomicsOK
<1>2. CASE CheckOpenLoads(c)
  BY <1>2 DEF CheckOpenLoads, AtomicsOK, Steps
<1>3. CASE CheckOpenSwaps(c)
  <2>1. \E l \in Steps : Goto(c, l)
    BY <1>3 DEF CheckOpenSwaps, Steps
  <2>2. state' \in {"Closed", "Open", "HalfOpen"}
    BY <1>3 DEF CheckOpenSwaps, AtomicsOK
  <2> QED
    BY <2>1, <2>2, <1>3, GotoType DEF CheckOpenSwaps, AtomicsOK
<1>4. CASE CheckOpenMirrors(c)
  <2>1. "probe" \in Steps
    BY DEF Steps
  <2>2. is_open_fast' \in BOOLEAN
    BY <1>4, Zenon DEF CheckOpenMirrors
  <2> QED
    BY <2>1, <2>2, <1>4, GotoType DEF CheckOpenMirrors, AtomicsOK
<1>5. CASE CheckOpenLost(c)
  <2>1. \E l \in Steps : Goto(c, l)
    BY <1>5 DEF CheckOpenLost, AtomicsOK, Steps
  <2> QED
    BY <2>1, <1>5, GotoType DEF CheckOpenLost, AtomicsOK
<1> QED
  BY <1>1, <1>2, <1>3, <1>4, <1>5 DEF Checking

\* A probe is stamped with a reading of the clock, never with a later time.
LEMMA ProbingStep ==
    ASSUME BreakerInv, NEW c \in Callers, Probing(c)
    PROVE  BreakerInv'
<1> USE BreakerAssumption DEF BreakerInv, StampsPast
<1>1. CASE ProbeReadsClock(c)
  <2>1. "claim" \in Steps
    BY DEF Steps
  <2>2. caller' = [caller EXCEPT ![c].pc = "claim", ![c].now = clock]
    BY <1>1 DEF ProbeReadsClock
  <2>3. caller' \in [Callers -> [pc : Steps, now : Nat, seen : Nat, failure : BOOLEAN]]
    BY <2>1, <2>2 DEF AtomicsOK
  <2>4. \A d \in Callers : caller'[d].now <= clock
    BY <2>2 DEF AtomicsOK
  <2> QED
    BY <2>3, <2>4, <1>1 DEF ProbeReadsClock, AtomicsOK
<1>2. CASE ProbeClaims(c)
  <2>1. \E l \in Steps : Goto(c, l)
    BY <1>2 DEF ProbeClaims, Steps
  <2>2. probes' \in 0..(WORD - 1)
    BY <1>2, Wraps DEF ProbeClaims, AtomicsOK
  <2> QED
    BY <2>1, <2>2, <1>2, GotoType DEF ProbeClaims, AtomicsOK
<1>3. CASE ProbeStamps(c)
  <2>1. "probing" \in Steps
    BY DEF Steps
  <2>2. claimed_at' \in Nat /\ claimed_at' <= clock
    BY <1>3 DEF ProbeStamps, AtomicsOK
  <2> QED
    BY <2>1, <2>2, <1>3, GotoType DEF ProbeStamps, AtomicsOK
<1>4. CASE ProbeUnclaims(c)
  <2>1. "lease" \in Steps
    BY DEF Steps
  <2>2. probes' \in 0..(WORD - 1)
    BY <1>4, Wraps DEF ProbeUnclaims, AtomicsOK
  <2> QED
    BY <2>1, <2>2, <1>4, GotoType DEF ProbeUnclaims, AtomicsOK
<1>5. CASE ProbeReadsLease(c)
  BY <1>5 DEF ProbeReadsLease, AtomicsOK, Steps
<1>6. CASE ProbeTakesOver(c)
  <2>1. \E l \in Steps : Goto(c, l)
    BY <1>6 DEF ProbeTakesOver, Steps
  <2>2. claimed_at' \in Nat /\ claimed_at' <= clock
    BY <1>6 DEF ProbeTakesOver, AtomicsOK
  <2> QED
    BY <2>1, <2>2, <1>6, GotoType DEF ProbeTakesOver, AtomicsOK
<1> QED
  BY <1>1, <1>2, <1>3, <1>4, <1>5, <1>6 DEF Probing

\* A trip stamps the breaker with a time no later than now.
LEMMA TripStep ==
    ASSUME BreakerInv, NEW c \in Callers, Trip(c)
    PROVE  BreakerInv'
<1> USE BreakerAssumption DEF BreakerInv, StampsPast
<1>1. CASE At(c, "trip")
  BY <1>1 DEF Trip, At, AtomicsOK, Steps
<1>2. CASE At(c, "trip_time")
  <2>1. /\ Goto(c, "trip_probes") /\ opened_at' \in caller[c].now..clock
        /\ UNCHANGED <<state, probes, claimed_at, is_open_fast, window, clock, checks>>
    BY <1>2 DEF Trip, At
  <2>2. opened_at' \in Nat /\ opened_at' <= clock
    BY <2>1 DEF AtomicsOK
  <2>3. "trip_probes" \in Steps
    BY DEF Steps
  <2> QED
    BY <2>1, <2>2, <2>3, GotoType DEF AtomicsOK
<1>3. CASE At(c, "trip_probes")
  <2>1. /\ Goto(c, "trip_mirror") /\ probes' = 0
        /\ UNCHANGED <<state, opened_at, claimed_at, is_open_fast, window, clock, checks>>
    BY <1>3 DEF Trip, At
  <2>2. "trip_mirror" \in Steps
    BY DEF Steps
  <2> QED
    BY <2>1, <2>2, GotoType DEF AtomicsOK
<1>4. CASE At(c, "trip_mirror")
  <2>1. /\ Goto(c, "idle") /\ is_open_fast' = TRUE
        /\ UNCHANGED <<state, opened_at, probes, claimed_at, window, clock, checks>>
    BY <1>4 DEF Trip, At
  <2>2. "idle" \in Steps
    BY DEF Steps
  <2>3. is_open_fast' \in BOOLEAN
    BY <2>1, Zenon
  <2> QED
    BY <2>1, <2>2, <2>3, GotoType DEF AtomicsOK
<1> QED
  BY <1>1, <1>2, <1>3, <1>4 DEF Trip

\* Closing resets the window and the slots and touches no stamp.
LEMMA CloseStep ==
    ASSUME BreakerInv, NEW c \in Callers, Close(c)
    PROVE  BreakerInv'
<1> USE BreakerAssumption DEF BreakerInv, StampsPast
<1>1. \E l \in Steps : Goto(c, l)
  BY DEF Close, Steps
<1>2. UNCHANGED <<opened_at, claimed_at, clock, checks>>
  BY DEF Close
<1>3. state' \in {"Closed", "Open", "HalfOpen"} /\ probes' \in 0..(WORD - 1)
  BY DEF Close, AtomicsOK
<1>4. window' \in [n : Nat, f : Nat]
  BY DEF Close, AtomicsOK
<1>5. is_open_fast' \in BOOLEAN
  BY Zenon DEF Close, AtomicsOK
<1> QED
  BY <1>1, <1>2, <1>3, <1>4, <1>5, GotoType DEF AtomicsOK

\* Neither the request's end nor its outcome touches a stamp, except through trip.
LEMMA RecordingStep ==
    ASSUME BreakerInv, NEW c \in Callers, Recording(c)
    PROVE  BreakerInv'
<1> USE BreakerAssumption DEF BreakerInv, StampsPast
<1>1. CASE Abandon(c)
  <2>1. "idle" \in Steps
    BY DEF Steps
  <2> QED
    BY <2>1, <1>1, GotoType DEF Abandon, AtomicsOK
<1>2. ASSUME NEW failure \in BOOLEAN, Record(c, failure)
      PROVE  BreakerInv'
  <2>1. PICK l \in Steps : caller' = [caller EXCEPT ![c].failure = failure, ![c].pc = l]
    BY <1>2 DEF Record, AtomicsOK, Steps
  <2>2. /\ caller' \in [Callers -> [pc : Steps, now : Nat, seen : Nat, failure : BOOLEAN]]
        /\ \A d \in Callers : caller'[d].now = caller[d].now
    BY <2>1 DEF AtomicsOK
  <2> QED
    BY <2>2, <1>2 DEF Record, AtomicsOK
<1>3. CASE RecordSamples(c)
  <2>1. \E l \in Steps : Goto(c, l)
    BY <1>3 DEF RecordSamples, Steps
  <2>2. window' \in [n : Nat, f : Nat]
    BY <1>3, KeptType DEF RecordSamples, Pushed
  <2> QED
    BY <2>1, <2>2, <1>3, GotoType DEF RecordSamples, AtomicsOK
<1>4. CASE RecordLate(c)
  <2>1. "idle" \in Steps
    BY DEF Steps
  <2>2. window' \in [n : Nat, f : Nat]
    BY <1>4, KeptType DEF RecordLate, Pushed
  <2> QED
    BY <2>1, <2>2, <1>4, GotoType DEF RecordLate, AtomicsOK
<1> QED
  BY <1>1, <1>2, <1>3, <1>4, TripStep, CloseStep DEF Recording

\* Every step of every caller, of the clock and of error_rate keeps the invariant.
LEMMA BreakerStep == BreakerInv /\ [Next]_vars => BreakerInv'
<1> SUFFICES ASSUME BreakerInv, [Next]_vars
             PROVE  BreakerInv'
  OBVIOUS
<1>1. CASE Tick
  BY <1>1 DEF Tick, BreakerInv, StampsPast, AtomicsOK
<1>2. CASE ErrorRate
  BY <1>2, KeptType DEF ErrorRate, BreakerInv, StampsPast, AtomicsOK
<1>3. CASE UNCHANGED vars
  BY <1>3 DEF vars, BreakerInv, StampsPast, AtomicsOK
<1> QED
  BY <1>1, <1>2, <1>3, CheckingStep, ProbingStep, RecordingStep DEF Next, Step

\* The history variables keep their types.
LEMMA HistoryStep == BreakerInv /\ HistoryOK /\ [Next]_vars => HistoryOK'
<1> SUFFICES ASSUME BreakerInv, HistoryOK, [Next]_vars
             PROVE  HistoryOK'
  OBVIOUS
<1>1. CASE UNCHANGED vars
  <2>1. crossed' \in BOOLEAN
    BY <1>1, Zenon DEF vars, HistoryOK
  <2> QED
    BY <1>1, <2>1 DEF vars, HistoryOK
<1>2. CASE Note
  <2>1. crossed' \in BOOLEAN
    BY <1>2, Zenon DEF Note, HistoryOK
  <2>2. busyUntil' \in Nat /\ trippedAt' \in Nat
    BY <1>2 DEF Note, HistoryOK, BreakerInv, AtomicsOK
  <2>3. lone' \subseteq Callers /\ clean' \subseteq Callers
    BY <1>2 DEF Note
  <2> QED
    BY <2>1, <2>2, <2>3 DEF HistoryOK
<1> QED
  BY <1>1, <1>2 DEF Next

LEMMA HistoryInit == Init => HistoryOK
<1> SUFFICES ASSUME Init PROVE HistoryOK
  OBVIOUS
<1>1. crossed \in BOOLEAN
  BY Zenon DEF Init
<1> QED
  BY <1>1 DEF Init, HistoryOK

\* Every atomic keeps its type under every interleaving of callers; in particular
\* the probe counter stays in its word however often it is wrapped below zero.
THEOREM BreakerTypes == Spec => []TypeOK
<1>1. BreakerInv /\ HistoryOK => TypeOK
  BY DEF BreakerInv, TypeOK
<1> QED
  BY <1>1, BreakerInit, BreakerStep, HistoryInit, HistoryStep, PTL DEF Spec

-----------------------------------------------------------------------------
(* One caller moves at a time                                              *)

\* A step of caller c leaves the other callers where they are.
LEMMA OthersStay ==
    ASSUME BreakerInv, NEW c \in Callers, Checking(c) \/ Probing(c) \/ Recording(c)
    PROVE  \A d \in Callers : d # c => caller'[d] = caller[d]
<1> USE DEF BreakerInv, AtomicsOK, Goto
<1>1. CASE Checking(c)
  BY <1>1 DEF Checking, Check, CheckOpenLoads, CheckOpenSwaps, CheckOpenMirrors, CheckOpenLost
<1>2. CASE Probing(c)
  BY <1>2 DEF Probing, ProbeReadsClock, ProbeClaims, ProbeStamps, ProbeUnclaims, ProbeReadsLease,
              ProbeTakesOver
<1>3. CASE Recording(c)
  BY <1>3 DEF Recording, Abandon, Record, RecordSamples, RecordLate, Trip, Close
<1> QED
  BY <1>1, <1>2, <1>3

\* Time passes for a caller, but not with it.
LEMMA ClockStays ==
    ASSUME NEW c \in Callers, Checking(c) \/ Probing(c) \/ Recording(c)
    PROVE  clock' = clock
BY DEF Checking, Check, CheckOpenLoads, CheckOpenSwaps, CheckOpenMirrors, CheckOpenLost, Probing,
       ProbeReadsClock, ProbeClaims, ProbeStamps, ProbeUnclaims, ProbeReadsLease, ProbeTakesOver,
       Recording, Abandon, Record, RecordSamples, RecordLate, Trip, Close

\* A caller between its calls touches none of the atomics; it enters check or
\* record, gets its request through a closed breaker, or gives its request up.
LEMMA FromOutside ==
    ASSUME BreakerInv, NEW c \in Callers, Checking(c) \/ Probing(c) \/ Recording(c),
           ~Inside(caller, c)
    PROVE  /\ UNCHANGED <<state, opened_at, probes, claimed_at, is_open_fast>>
           /\ caller'[c].pc \in {"request", "opened", "probe", "idle", "sample", "late", "trip", "close"}
           /\ caller'[c].pc \in {"request", "opened", "probe"} => Check(c)
           /\ caller'[c].pc = "opened" => state = "Open"
<1> USE DEF BreakerInv, AtomicsOK, Goto, At, Inside, Outside, Requests
<1>1. CASE Checking(c)
  BY <1>1 DEF Checking, Check, CheckOpenLoads, CheckOpenSwaps, CheckOpenMirrors, CheckOpenLost
<1>2. CASE Probing(c)
  BY <1>2 DEF Probing, ProbeReadsClock, ProbeClaims, ProbeStamps, ProbeUnclaims, ProbeReadsLease,
              ProbeTakesOver
<1>3. CASE Recording(c)
  <2>1. Abandon(c) \/ \E failure \in BOOLEAN : Record(c, failure)
    BY <1>3 DEF Recording, RecordSamples, RecordLate, Trip, Close
  <2>2. /\ UNCHANGED <<state, opened_at, probes, claimed_at, is_open_fast>>
        /\ caller'[c].pc \in {"idle", "sample", "late", "trip", "close"}
    <3>1. CASE Abandon(c)
      BY <3>1 DEF Abandon
    <3>2. ASSUME NEW failure \in BOOLEAN, Record(c, failure)
          PROVE  caller'[c].pc \in {"sample", "late", "trip", "close"}
      <4>1. PICK l \in {"sample", "late", "trip", "close"} :
                caller' = [caller EXCEPT ![c].failure = failure, ![c].pc = l]
        BY <3>2 DEF Record
      <4> QED
        BY <4>1
    <3>3. ASSUME NEW failure \in BOOLEAN, Record(c, failure)
          PROVE  UNCHANGED <<state, opened_at, probes, claimed_at, is_open_fast>>
      BY <3>3 DEF Record
    <3>4. CASE \E failure \in BOOLEAN : Record(c, failure)
      BY <3>2, <3>3, <3>4
    <3> QED
      BY <2>1, <3>1, <3>4
  <2> QED
    BY <2>2
<1> QED
  BY <1>1, <1>2, <1>3

\* check's own steps are those of a caller inside check.
LEMMA FromCheck ==
    ASSUME BreakerInv, NEW c \in Callers, Checking(c) \/ Probing(c) \/ Recording(c),
           caller[c].pc \in CheckSteps
    PROVE  \/ CheckOpenLoads(c) \/ CheckOpenSwaps(c) \/ CheckOpenMirrors(c) \/ CheckOpenLost(c)
           \/ Probing(c)
BY DEF Checking, Check, Recording, Abandon, Record, RecordSamples, RecordLate, Trip, Close,
       CheckSteps, At, Requests

-----------------------------------------------------------------------------
(* The check that comes by itself                                          *)

\* The stamps are no younger than the last call.
StampsBusy == opened_at <= busyUntil /\ claimed_at <= busyUntil /\ busyUntil <= clock

\* Where a lone check stands: nobody else is inside, both stamps are a cool-down
\* old, and what it has read is still so.
LoneOK(c) ==
    /\ \A d \in Callers : Inside(caller, d) => d = c
    /\ caller[c].pc \in CheckSteps /\ caller[c].pc # "lost"
    /\ opened_at + OPEN_MILLIS <= clock /\ claimed_at + OPEN_MILLIS <= clock
    /\ caller[c].pc \in {"opened", "elapsed"} => state = "Open"
    /\ caller[c].pc = "elapsed" => caller[c].seen = opened_at
    /\ caller[c].pc \in {"claim", "stamp", "unclaim", "lease", "takeover"}
          => claimed_at + OPEN_MILLIS <= caller[c].now
    /\ caller[c].pc = "takeover" => caller[c].seen = claimed_at

LoneInv == StampsBusy /\ \A c \in lone : LoneOK(c)

LEMMA BusyStep ==
    ASSUME BreakerInv, BreakerInv', HistoryOK, StampsBusy, Next
    PROVE  StampsBusy'
<1>1. /\ opened_at \in Nat /\ claimed_at \in Nat /\ busyUntil \in Nat /\ clock \in Nat
      /\ opened_at' \in Nat /\ claimed_at' \in Nat /\ clock' \in Nat
      /\ opened_at' <= clock' /\ claimed_at' <= clock'
  BY DEF BreakerInv, AtomicsOK, StampsPast, HistoryOK
<1>2. busyUntil' = busyUntil \/ busyUntil' = clock
  BY DEF Next, Note
<1>3. CASE Tick \/ ErrorRate
  <2>1. UNCHANGED <<opened_at, claimed_at>> /\ clock' >= clock
    BY <1>1, <1>3 DEF Tick, ErrorRate
  <2> QED
    BY <1>1, <1>2, <2>1 DEF StampsBusy
<1>4. ASSUME NEW c \in Callers, Checking(c) \/ Probing(c) \/ Recording(c)
      PROVE  StampsBusy'
  <2>1. clock' = clock
    BY <1>4, ClockStays
  <2>2. CASE Inside(caller, c)
    <3>1. busyUntil' = clock
      BY <2>2 DEF Next, Note
    <3> QED
      BY <1>1, <2>1, <3>1 DEF StampsBusy
  <2>3. CASE ~Inside(caller, c)
    <3>1. UNCHANGED <<opened_at, claimed_at>>
      BY <1>4, <2>3, FromOutside
    <3> QED
      BY <1>1, <1>2, <2>1, <3>1 DEF StampsBusy
  <2> QED
    BY <2>2, <2>3
<1> QED
  BY <1>3, <1>4 DEF Next, Step

\* A lone check goes on alone until it is admitted; it is not turned away.
LEMMA LoneMoves ==
    ASSUME BreakerInv, NEW c \in Callers, LoneOK(c), Checking(c) \/ Probing(c) \/ Recording(c)
    PROVE  /\ caller'[c].pc # "idle"
           /\ caller'[c].pc \in CheckSteps => LoneOK(c)'
<1> USE BreakerAssumption DEF BreakerInv
<1>1. \A d \in Callers : d # c => caller'[d] = caller[d]
  BY OthersStay
<1>2. \A d \in Callers : Inside(caller', d) => d = c
  BY <1>1 DEF LoneOK, Inside
<1>3. clock' = clock
  BY ClockStays
<1>4. /\ clock \in Nat /\ opened_at \in Nat /\ claimed_at \in Nat
      /\ caller[c].now \in Nat /\ caller[c].seen \in Nat
  BY DEF AtomicsOK
<1>5. CASE CheckOpenLoads(c)
  <2>1. /\ caller'[c].pc = "elapsed" /\ caller'[c].seen = opened_at /\ At(c, "opened")
        /\ UNCHANGED <<state, opened_at, claimed_at>>
    BY <1>5 DEF CheckOpenLoads, AtomicsOK
  <2> QED
    BY <1>2, <1>3, <2>1 DEF LoneOK, CheckSteps, At
<1>6. CASE CheckOpenSwaps(c)
  <2>1. At(c, "elapsed") /\ state = "Open" /\ saturating_sub(clock, caller[c].seen) >= OPEN_MILLIS
    BY <1>4, <1>6 DEF CheckOpenSwaps, LoneOK, At, saturating_sub
  <2>2. caller'[c].pc = "mirror" /\ UNCHANGED <<opened_at, claimed_at>>
    BY <1>6, <2>1 DEF CheckOpenSwaps, CoolDownOver, Goto, AtomicsOK
  <2> QED
    BY <1>2, <1>3, <2>2 DEF LoneOK, CheckSteps
<1>7. CASE CheckOpenMirrors(c)
  <2>1. caller'[c].pc = "probe" /\ UNCHANGED <<opened_at, claimed_at>>
    BY <1>7 DEF CheckOpenMirrors, Goto, AtomicsOK
  <2> QED
    BY <1>2, <1>3, <2>1 DEF LoneOK, CheckSteps
<1>8. CASE ProbeReadsClock(c)
  <2>1. caller'[c].pc = "claim" /\ caller'[c].now = clock /\ UNCHANGED <<opened_at, claimed_at>>
    BY <1>8 DEF ProbeReadsClock, AtomicsOK
  <2> QED
    BY <1>2, <1>3, <2>1 DEF LoneOK, CheckSteps
<1>9. CASE ProbeClaims(c) \/ ProbeUnclaims(c)
  <2>1. /\ caller'[c].pc \in {"stamp", "unclaim", "lease"} /\ caller'[c].now = caller[c].now
        /\ At(c, "claim") \/ At(c, "unclaim")
        /\ UNCHANGED <<opened_at, claimed_at>>
    BY <1>9 DEF ProbeClaims, ProbeUnclaims, Goto, AtomicsOK
  <2> QED
    BY <1>2, <1>3, <2>1 DEF LoneOK, CheckSteps, At
<1>10. CASE ProbeReadsLease(c)
  <2>1. At(c, "lease") /\ saturating_sub(caller[c].now, claimed_at) >= OPEN_MILLIS
    BY <1>4, <1>10 DEF ProbeReadsLease, LoneOK, At, saturating_sub
  <2>2. /\ caller'[c].pc = "takeover" /\ caller'[c].seen = claimed_at
        /\ caller'[c].now = caller[c].now /\ UNCHANGED <<opened_at, claimed_at>>
    BY <1>10, <2>1 DEF ProbeReadsLease, AtomicsOK
  <2> QED
    BY <1>2, <1>3, <2>1, <2>2 DEF LoneOK, CheckSteps, At
<1>11. CASE ProbeStamps(c) \/ ProbeTakesOver(c)
  <2>1. caller'[c].pc = "probing"
    BY <1>11 DEF ProbeStamps, ProbeTakesOver, LoneOK, At, Goto, AtomicsOK
  <2> QED
    BY <2>1 DEF CheckSteps
<1> QED
  <2>1. caller[c].pc \in CheckSteps /\ ~CheckOpenLost(c)
    BY DEF LoneOK, CheckOpenLost, At
  <2> QED
    BY <2>1, <1>5, <1>6, <1>7, <1>8, <1>9, <1>10, <1>11, FromCheck DEF Probing

\* A check that enters with nobody inside, a cool-down after the last call.
LEMMA LoneBegins ==
    ASSUME BreakerInv, HistoryOK, StampsBusy, NEW c \in Callers,
           Checking(c) \/ Probing(c) \/ Recording(c), Quiet, clock >= busyUntil + OPEN_MILLIS,
           caller'[c].pc \in CheckSteps
    PROVE  LoneOK(c)'
<1>1. ~Inside(caller, c) /\ clock' = clock
  BY ClockStays DEF Quiet
<1>2. /\ UNCHANGED <<state, opened_at, claimed_at>> /\ caller'[c].pc \in {"opened", "probe"}
      /\ caller'[c].pc = "opened" => state = "Open"
  BY <1>1, FromOutside DEF CheckSteps
<1>3. \A d \in Callers : Inside(caller', d) => d = c
  BY OthersStay DEF Quiet, Inside
<1>4. clock \in Nat /\ opened_at \in Nat /\ claimed_at \in Nat /\ busyUntil \in Nat
  BY DEF BreakerInv, AtomicsOK, HistoryOK
<1> QED
  BY <1>1, <1>2, <1>3, <1>4, BreakerAssumption DEF LoneOK, StampsBusy, CheckSteps

\* While a lone check is under way, nobody else's step enters a call.
LEMMA LoneWaits ==
    ASSUME BreakerInv, NEW c \in Callers, LoneOK(c), NEW d \in Callers, d # c,
           Checking(d) \/ Probing(d) \/ Recording(d), ~Inside(caller', d)
    PROVE  LoneOK(c)' /\ caller'[c] = caller[c]
<1>1. ~Inside(caller, d) /\ clock' = clock
  BY ClockStays DEF LoneOK
<1>2. UNCHANGED <<state, opened_at, claimed_at>> /\ \A e \in Callers : e # d => caller'[e] = caller[e]
  BY <1>1, FromOutside, OthersStay
<1> QED
  BY <1>1, <1>2 DEF LoneOK, Inside

LEMMA LoneStep == BreakerInv /\ BreakerInv' /\ HistoryOK /\ LoneInv /\ [Next]_vars => LoneInv'
<1> SUFFICES ASSUME BreakerInv, BreakerInv', HistoryOK, LoneInv, [Next]_vars
             PROVE  LoneInv'
  OBVIOUS
<1>1. CASE UNCHANGED vars
  BY <1>1 DEF vars, LoneInv, StampsBusy, LoneOK, Inside
<1>2. CASE Next
  <2>1. StampsBusy'
    BY <1>2, BusyStep DEF LoneInv
  <2>2. ASSUME NEW c \in lone'
        PROVE  LoneOK(c)'
    <3>1. /\ c \in Callers /\ caller'[c].pc \in CheckSteps
          /\ \A d \in Callers : Inside(caller', d) => d = c
          /\ c \in lone \/ (Quiet /\ clock >= busyUntil + OPEN_MILLIS)
      BY <1>2, <2>2 DEF Next, Note
    <3>2. CASE Tick \/ ErrorRate
      <4>1. /\ UNCHANGED <<state, opened_at, claimed_at, caller>> /\ clock' >= clock
            /\ clock \in Nat /\ clock' \in Nat
        BY <3>2 DEF Tick, ErrorRate, BreakerInv, AtomicsOK
      <4>2. c \in lone
        BY <3>1, <4>1 DEF Quiet, Inside, CheckSteps, Outside, Requests
      <4>3. opened_at \in Nat /\ claimed_at \in Nat
        BY DEF BreakerInv, AtomicsOK
      <4> QED
        BY <4>1, <4>2, <4>3, BreakerAssumption DEF LoneInv, LoneOK, Inside
    <3>3. ASSUME NEW d \in Callers, Checking(d) \/ Probing(d) \/ Recording(d)
          PROVE  LoneOK(c)'
      <4>1. CASE c \in lone /\ d = c
        BY <3>1, <3>3, <4>1, LoneMoves DEF LoneInv
      <4>2. CASE c \in lone /\ d # c
        BY <3>1, <3>3, <4>2, LoneWaits DEF LoneInv
      <4>3. CASE c \notin lone
        <5>1. d = c
          BY <3>1, <3>3, <4>3, OthersStay DEF Quiet, Inside, CheckSteps, Outside, Requests
        <5> QED
          BY <3>1, <3>3, <4>3, <5>1, LoneBegins DEF LoneInv
      <4> QED
        BY <4>1, <4>2, <4>3
    <3> QED
      BY <1>2, <3>2, <3>3 DEF Next, Step
  <2> QED
    BY <2>1, <2>2 DEF LoneInv
<1> QED
  BY <1>1, <1>2

LEMMA LoneInit == Init => LoneInv
BY DEF Init, LoneInv, StampsBusy

\* For any number of callers, any races and any cancelled probes, a check made one
\* cool-down after the last call, and not joined by another, is let through: the
\* lease of probe_claimed_at_millis recovers even a wrapped or leaked probe counter.
THEOREM BreakerRecovers == Spec => LoneCheckAdmitted
<1>1. BreakerInv /\ HistoryOK /\ LoneInv /\ [Next]_vars
        => [\A c \in lone : caller'[c].pc # "idle"]_vars
  <2> SUFFICES ASSUME BreakerInv, HistoryOK, LoneInv, Next, NEW c \in lone
               PROVE  caller'[c].pc # "idle"
    OBVIOUS
  <2>1. c \in Callers /\ LoneOK(c) /\ caller[c].pc # "idle"
    BY DEF HistoryOK, LoneInv, LoneOK, CheckSteps
  <2>2. CASE Tick \/ ErrorRate
    BY <2>1, <2>2 DEF Tick, ErrorRate
  <2>3. ASSUME NEW d \in Callers, Checking(d) \/ Probing(d) \/ Recording(d)
        PROVE  caller'[c].pc # "idle"
    BY <2>1, <2>3, LoneMoves, OthersStay
  <2> QED
    BY <2>2, <2>3 DEF Next, Step
<1> QED
  BY <1>1, BreakerInit, BreakerStep, HistoryInit, HistoryStep, LoneInit, LoneStep, PTL
     DEF Spec, LoneCheckAdmitted

-----------------------------------------------------------------------------
(* The mirror of the state                                                 *)

\* While changes of state do not cross, the mirror lags only as long as the one
\* caller that changed the state is still to store it.
MirrorOK ==
    ~crossed =>
        /\ \A c, d \in Unmirrored(caller) : c = d
        /\ \A c \in Callers : /\ At(c, "mirror") => state = "HalfOpen"
                              /\ caller[c].pc \in TripPending => state = "Open"
                              /\ caller[c].pc \in ClosePending => state = "Closed"
        /\ Unmirrored(caller) = {} => (is_open_fast <=> state = "Open")

\* A change of state marks its caller; any other step leaves state alone.
LEMMA StateChanges ==
    ASSUME BreakerInv, NEW c \in Callers, Checking(c) \/ Probing(c) \/ Recording(c),
           caller[c].pc \notin {"mirror"} \cup TripPending \cup ClosePending
    PROVE  /\ is_open_fast' = is_open_fast
           /\ \/ /\ state' = state
                 /\ caller'[c].pc \notin {"mirror"} \cup TripPending \cup ClosePending
              \/ state' = "HalfOpen" /\ caller'[c].pc = "mirror"
              \/ state' = "Open" /\ caller'[c].pc = "trip_time"
              \/ state' = "Closed" /\ caller'[c].pc = "close_window"
<1> USE DEF BreakerInv, AtomicsOK, Goto, At, TripPending, ClosePending
<1>1. CASE Checking(c)
  BY <1>1 DEF Checking, Check, CheckOpenLoads, CheckOpenSwaps, CheckOpenMirrors, CheckOpenLost
<1>2. CASE Probing(c)
  BY <1>2 DEF Probing, ProbeReadsClock, ProbeClaims, ProbeStamps, ProbeUnclaims, ProbeReadsLease,
              ProbeTakesOver
<1>3. CASE ~Inside(caller, c)
  BY <1>3, FromOutside
<1>4. CASE Recording(c) /\ Inside(caller, c)
  <2>1. RecordSamples(c) \/ RecordLate(c) \/ Trip(c) \/ Close(c)
    BY <1>4 DEF Recording, Abandon, Record, Inside, Outside
  <2>2. CASE RecordSamples(c) \/ RecordLate(c)
    BY <2>2 DEF RecordSamples, RecordLate
  <2>3. CASE Trip(c)
    BY <2>3 DEF Trip
  <2>4. CASE Close(c)
    BY <2>4 DEF Close
  <2> QED
    BY <2>1, <2>2, <2>3, <2>4
<1> QED
  BY <1>1, <1>2, <1>3, <1>4

\* A change of state is mirrored by its last store.
LEMMA StateMirrored ==
    ASSUME BreakerInv, NEW c \in Callers, Checking(c) \/ Probing(c) \/ Recording(c),
           caller[c].pc \in {"mirror"} \cup TripPending \cup ClosePending
    PROVE  /\ state' = state
           /\ \/ At(c, "mirror") /\ caller'[c].pc = "probe" /\ is_open_fast' = FALSE
              \/ At(c, "trip_mirror") /\ caller'[c].pc = "idle" /\ is_open_fast' = TRUE
              \/ At(c, "close_mirror") /\ caller'[c].pc = "idle" /\ is_open_fast' = FALSE
              \/ caller[c].pc \in TripPending /\ caller'[c].pc \in TripPending
              \/ caller[c].pc \in ClosePending /\ caller'[c].pc \in ClosePending
<1> USE DEF BreakerInv, AtomicsOK, Goto, At, TripPending, ClosePending
<1>1. CASE Checking(c)
  BY <1>1 DEF Checking, Check, CheckOpenLoads, CheckOpenSwaps, CheckOpenMirrors, CheckOpenLost
<1>2. CASE Probing(c)
  BY <1>2 DEF Probing, ProbeReadsClock, ProbeClaims, ProbeStamps, ProbeUnclaims, ProbeReadsLease,
              ProbeTakesOver
<1>3. CASE Recording(c)
  BY <1>3 DEF Recording, Abandon, Record, RecordSamples, RecordLate, Trip, Close, Requests
<1> QED
  BY <1>1, <1>2, <1>3

LEMMA MirrorStep == BreakerInv /\ MirrorOK /\ [Next]_vars => MirrorOK'
<1> SUFFICES ASSUME BreakerInv, MirrorOK, [Next]_vars, ~crossed'
             PROVE  /\ \A c, d \in Unmirrored(caller') : c = d
                    /\ \A c \in Callers : /\ caller'[c].pc = "mirror" => state' = "HalfOpen"
                                          /\ caller'[c].pc \in TripPending => state' = "Open"
                                          /\ caller'[c].pc \in ClosePending => state' = "Closed"
                    /\ Unmirrored(caller') = {} => (is_open_fast' <=> state' = "Open")
  BY DEF MirrorOK, At
<1>1. CASE UNCHANGED <<state, is_open_fast, caller>> /\ (crossed => crossed')
  BY <1>1 DEF MirrorOK, At
<1>2. CASE UNCHANGED vars
  BY <1>1, <1>2 DEF vars
<1>3. CASE Next /\ (Tick \/ ErrorRate)
  <2>1. UNCHANGED <<state, is_open_fast, caller>>
    BY <1>3 DEF Tick, ErrorRate
  <2>2. crossed' = crossed
    BY <1>3, <2>1 DEF Next, Note
  <2> QED
    BY <1>1, <2>1, <2>2
<1>4. ASSUME Next, NEW c \in Callers, Checking(c) \/ Probing(c) \/ Recording(c)
      PROVE  /\ \A e, d \in Unmirrored(caller') : e = d
             /\ \A d \in Callers : /\ caller'[d].pc = "mirror" => state' = "HalfOpen"
                                   /\ caller'[d].pc \in TripPending => state' = "Open"
                                   /\ caller'[d].pc \in ClosePending => state' = "Closed"
             /\ Unmirrored(caller') = {} => (is_open_fast' <=> state' = "Open")
  <2>1. \A d \in Callers : d # c => caller'[d] = caller[d]
    BY <1>4, OthersStay
  <2>2. \/ Unmirrored(caller') \subseteq Unmirrored(caller) /\ ~crossed
        \/ ~(Unmirrored(caller') \subseteq Unmirrored(caller)) /\ Unmirrored(caller) = {}
    BY <1>4 DEF Next, Note
  <2>3. CASE caller[c].pc \in {"mirror"} \cup TripPending \cup ClosePending
    <3>1. c \in Unmirrored(caller) /\ ~crossed
      BY <2>2, <2>3 DEF Unmirrored
    <3>2. \A d \in Callers : d # c => d \notin Unmirrored(caller)
      BY <3>1 DEF MirrorOK
    <3>3. \A d \in Callers : d # c => caller'[d].pc \notin {"mirror"} \cup TripPending \cup ClosePending
      BY <2>1, <3>2 DEF Unmirrored
    <3>4. \A d \in Unmirrored(caller') : d = c
      BY <3>3 DEF Unmirrored
    <3>5. /\ At(c, "mirror") => state = "HalfOpen"
          /\ caller[c].pc \in TripPending => state = "Open"
          /\ caller[c].pc \in ClosePending => state = "Closed"
      BY <3>1 DEF MirrorOK
    <3>6. /\ caller'[c].pc = "mirror" => state' = "HalfOpen"
          /\ caller'[c].pc \in TripPending => state' = "Open"
          /\ caller'[c].pc \in ClosePending => state' = "Closed"
      BY <1>4, <2>3, <3>5, StateMirrored DEF TripPending, ClosePending
    <3>7. c \in Unmirrored(caller') \/ (is_open_fast' <=> state' = "Open")
      BY <1>4, <2>3, <3>5, StateMirrored DEF TripPending, ClosePending, At, Unmirrored
    <3> QED
      BY <3>3, <3>4, <3>6, <3>7
  <2>4. CASE caller[c].pc \notin {"mirror"} \cup TripPending \cup ClosePending
    <3>1. CASE caller'[c].pc \notin {"mirror"} \cup TripPending \cup ClosePending
      <4>1. state' = state /\ is_open_fast' = is_open_fast
        BY <1>4, <2>4, <3>1, StateChanges DEF TripPending, ClosePending
      <4>2. Unmirrored(caller') = Unmirrored(caller)
        BY <2>1, <2>4, <3>1 DEF Unmirrored
      <4>3. ~crossed
        BY <2>2, <4>2
      <4>4. \A d \in Callers : \/ caller'[d].pc = caller[d].pc
                               \/ caller'[d].pc \notin {"mirror"} \cup TripPending \cup ClosePending
        BY <2>1, <3>1
      <4> QED
        BY <4>1, <4>2, <4>3, <4>4 DEF MirrorOK, At
    <3>2. CASE caller'[c].pc \in {"mirror"} \cup TripPending \cup ClosePending
      <4>1. c \in Unmirrored(caller') /\ Unmirrored(caller) = {}
        BY <2>2, <2>4, <3>2 DEF Unmirrored
      <4>2. \A d \in Callers : d # c => caller'[d].pc \notin {"mirror"} \cup TripPending \cup ClosePending
        BY <2>1, <4>1 DEF Unmirrored
      <4>3. \A d \in Unmirrored(caller') : d = c
        BY <4>2 DEF Unmirrored
      <4>4. /\ caller'[c].pc = "mirror" => state' = "HalfOpen"
            /\ caller'[c].pc \in TripPending => state' = "Open"
            /\ caller'[c].pc \in ClosePending => state' = "Closed"
        BY <1>4, <2>4, <3>2, StateChanges DEF TripPending, ClosePending
      <4> QED
        BY <4>1, <4>2, <4>3, <4>4
    <3> QED
      BY <3>1, <3>2
  <2> QED
    BY <2>3, <2>4
<1> QED
  BY <1>2, <1>3, <1>4 DEF Next, Step

LEMMA MirrorInit == Init => MirrorOK
BY DEF Init, MirrorOK, Unmirrored, At, TripPending, ClosePending

\* is_open() agrees with state once every change of state has been mirrored
\* (breaker.rs:41), for any number of callers whose calls overlap in any way, unless
\* the last change of state began before an earlier one was mirrored.
THEOREM MirrorExact == Spec => []MirrorIsExact
<1>1. MirrorOK => MirrorIsExact
  BY DEF MirrorOK, MirrorIsExact
<1> QED
  BY <1>1, BreakerInit, BreakerStep, MirrorInit, MirrorStep, PTL DEF Spec

-----------------------------------------------------------------------------
(* The cool-down                                                           *)

\* Every stamp on its way, and, once none is, the stored one, is no older than the
\* run of trips it belongs to; so is what a check no trip overlapped has read.
CoolDownOK ==
    /\ trippedAt <= clock
    /\ \A c \in Unstamped(caller) : trippedAt <= caller[c].now
    /\ Unstamped(caller) = {} => trippedAt <= opened_at
    /\ clean # {} => Unstamped(caller) = {}
    /\ \A c \in clean : At(c, "elapsed") => trippedAt <= caller[c].seen

\* How a step of one caller bears on the stamp of a trip.
LEMMA StampMoves ==
    ASSUME BreakerInv, NEW c \in Callers, Checking(c) \/ Probing(c) \/ Recording(c)
    PROVE  \/ /\ caller'[c].pc # "trip_time" /\ caller[c].pc # "trip_time" /\ opened_at' = opened_at
              /\ caller'[c].pc = "elapsed" => At(c, "opened") /\ caller'[c].seen = opened_at
           \/ /\ At(c, "trip") /\ caller'[c].pc = "trip_time" /\ caller'[c].now = clock
              /\ opened_at' = opened_at
           \/ /\ At(c, "trip_time") /\ caller'[c].pc = "trip_probes"
              /\ opened_at' \in caller[c].now..clock
<1> USE DEF BreakerInv, AtomicsOK, Goto, At
<1>1. CASE Checking(c)
  BY <1>1 DEF Checking, Check, CheckOpenLoads, CheckOpenSwaps, CheckOpenMirrors, CheckOpenLost
<1>2. CASE Probing(c)
  BY <1>2 DEF Probing, ProbeReadsClock, ProbeClaims, ProbeStamps, ProbeUnclaims, ProbeReadsLease,
              ProbeTakesOver
<1>3. CASE ~Inside(caller, c)
  BY <1>3, FromOutside DEF Inside, Outside, Requests
<1>4. CASE Recording(c) /\ Inside(caller, c)
  <2>1. RecordSamples(c) \/ RecordLate(c) \/ Trip(c) \/ Close(c)
    BY <1>4 DEF Recording, Abandon, Record, Inside, Outside
  <2>2. CASE RecordSamples(c) \/ RecordLate(c)
    BY <2>2 DEF RecordSamples, RecordLate
  <2>3. CASE Trip(c)
    BY <2>3 DEF Trip
  <2>4. CASE Close(c)
    BY <2>4 DEF Close
  <2> QED
    BY <2>1, <2>2, <2>3, <2>4
<1> QED
  BY <1>1, <1>2, <1>3, <1>4

LEMMA CoolDownStep == BreakerInv /\ HistoryOK /\ CoolDownOK /\ [Next]_vars => CoolDownOK'
<1> SUFFICES ASSUME BreakerInv, HistoryOK, CoolDownOK, [Next]_vars
             PROVE  CoolDownOK'
  OBVIOUS
<1>1. CASE UNCHANGED vars
  BY <1>1 DEF vars, CoolDownOK, At
<1>2. CASE Next
  <2>1. /\ trippedAt' = IF Unstamped(caller) = {} /\ Unstamped(caller') # {} THEN clock ELSE trippedAt
        /\ clean' # {} => Unstamped(caller') = {}
        /\ \A e \in clean' : e \in Callers /\ (e \in clean \/ At(e, "idle"))
    BY <1>2 DEF Next, Note
  <2>2. /\ trippedAt \in Nat /\ clock \in Nat /\ opened_at \in Nat
        /\ \A e \in Callers : caller[e].now \in Nat
    BY DEF HistoryOK, BreakerInv, AtomicsOK
  <2>3. CASE Tick \/ ErrorRate
    <3>1. /\ UNCHANGED <<opened_at, caller>> /\ clock' >= clock /\ clock' \in Nat
      BY <2>2, <2>3 DEF Tick, ErrorRate
    <3>2. trippedAt' = trippedAt /\ \A e \in clean' : At(e, "elapsed")' => e \in clean
      BY <2>1, <3>1 DEF At
    <3> QED
      BY <2>1, <2>2, <3>1, <3>2 DEF CoolDownOK, At
  <2>4. ASSUME NEW c \in Callers, Checking(c) \/ Probing(c) \/ Recording(c)
        PROVE  CoolDownOK'
    <3>1. clock' = clock /\ \A d \in Callers : d # c => caller'[d] = caller[d]
      BY <2>4, ClockStays, OthersStay
    <3>2. CASE /\ caller'[c].pc # "trip_time" /\ caller[c].pc # "trip_time" /\ opened_at' = opened_at
               /\ caller'[c].pc = "elapsed" => At(c, "opened") /\ caller'[c].seen = opened_at
      <4>1. Unstamped(caller') = Unstamped(caller)
        BY <3>1, <3>2 DEF Unstamped
      <4>2. trippedAt' = trippedAt
        BY <2>1, <4>1
      <4>3. \A e \in Unstamped(caller') : trippedAt' <= caller'[e].now
        BY <3>1, <3>2, <4>1, <4>2 DEF CoolDownOK, Unstamped
      <4>4. ASSUME NEW e \in clean', caller'[e].pc = "elapsed"
            PROVE  trippedAt' <= caller'[e].seen
        <5>1. e \in Callers /\ (e \in clean \/ At(e, "idle")) /\ Unstamped(caller) = {}
          BY <2>1, <4>1, <4>4
        <5>2. CASE e = c
          BY <3>2, <4>2, <4>4, <5>1, <5>2 DEF CoolDownOK
        <5>3. CASE e # c
          BY <3>1, <4>2, <4>4, <5>1, <5>3 DEF CoolDownOK, At
        <5> QED
          BY <5>2, <5>3
      <4> QED
        BY <2>1, <3>1, <3>2, <4>1, <4>2, <4>3, <4>4 DEF CoolDownOK, At
    <3>3. CASE /\ At(c, "trip") /\ caller'[c].pc = "trip_time" /\ caller'[c].now = clock
               /\ opened_at' = opened_at
      <4>1. c \in Unstamped(caller') /\ Unstamped(caller') = Unstamped(caller) \cup {c}
        BY <3>1, <3>3 DEF Unstamped
      <4>2. clean' = {} /\ trippedAt' <= clock
        BY <2>1, <2>2, <4>1 DEF CoolDownOK
      <4>3. \A e \in Unstamped(caller') : trippedAt' <= caller'[e].now
        BY <2>1, <2>2, <3>1, <3>3, <4>1, <4>2 DEF CoolDownOK, Unstamped
      <4> QED
        BY <3>1, <4>1, <4>2, <4>3 DEF CoolDownOK
    <3>4. CASE /\ At(c, "trip_time") /\ caller'[c].pc = "trip_probes"
               /\ opened_at' \in caller[c].now..clock
      <4>1. c \in Unstamped(caller) /\ Unstamped(caller') = Unstamped(caller) \ {c}
        BY <3>1, <3>4 DEF Unstamped, At
      <4>2. clean = {} /\ trippedAt' = trippedAt
        BY <2>1, <4>1 DEF CoolDownOK
      <4>3. trippedAt <= opened_at'
        BY <2>2, <3>4, <4>1 DEF CoolDownOK
      <4>4. \A e \in Unstamped(caller') : trippedAt' <= caller'[e].now
        BY <3>1, <4>1, <4>2 DEF CoolDownOK, Unstamped
      <4>5. \A e \in clean' : caller'[e].pc # "elapsed"
        BY <2>1, <3>1, <3>4, <4>2 DEF At
      <4> QED
        BY <2>1, <3>1, <4>2, <4>3, <4>4, <4>5 DEF CoolDownOK, At
    <3> QED
      BY <2>4, <3>2, <3>3, <3>4, StampMoves
  <2> QED
    BY <1>2, <2>3, <2>4 DEF Next, Step
<1> QED
  BY <1>1, <1>2

LEMMA CoolDownInit == Init => CoolDownOK
BY DEF Init, CoolDownOK, Unstamped

\* For any number of callers whose calls overlap in any way, the breaker stays open
\* for open_duration after a trip, or after the first of several that overlapped,
\* unless the check that lets it go ran while a trip had stored Open and not yet its
\* time (breaker.rs:249).
THEOREM CoolDownHolds == Spec => CoolDownKept
<1>1. BreakerInv /\ HistoryOK /\ CoolDownOK /\ [Next]_vars
        => [\A c \in clean : At(c, "elapsed") /\ caller'[c].pc = "mirror"
                                => clock - trippedAt >= OPEN_MILLIS]_vars
  <2> SUFFICES ASSUME BreakerInv, HistoryOK, CoolDownOK, Next, NEW c \in clean,
                      At(c, "elapsed"), caller'[c].pc = "mirror"
               PROVE  clock - trippedAt >= OPEN_MILLIS
    OBVIOUS
  <2>1. c \in Callers /\ trippedAt <= caller[c].seen /\ trippedAt <= clock
    BY DEF HistoryOK, CoolDownOK
  <2>2. clock \in Nat /\ trippedAt \in Nat /\ caller[c].seen \in Nat
    BY <2>1 DEF BreakerInv, AtomicsOK, HistoryOK
  <2>3. Checking(c) \/ Probing(c) \/ Recording(c)
    BY <2>1, OthersStay DEF Next, Step, Tick, ErrorRate, At
  <2>4. CheckOpenSwaps(c)
    BY <2>1, <2>3, FromCheck
       DEF CheckSteps, At, CheckOpenLoads, CheckOpenMirrors, CheckOpenLost, Probing, ProbeReadsClock,
           ProbeClaims, ProbeStamps, ProbeUnclaims, ProbeReadsLease, ProbeTakesOver
  <2>5. saturating_sub(clock, caller[c].seen) >= OPEN_MILLIS
    BY <2>1, <2>4 DEF CheckOpenSwaps, CoolDownOver, Goto, BreakerInv, AtomicsOK
  <2> QED
    BY <2>1, <2>2, <2>5, BreakerAssumption DEF saturating_sub
<1> QED
  BY <1>1, BreakerInit, BreakerStep, HistoryInit, HistoryStep, CoolDownInit, CoolDownStep, PTL
     DEF Spec, CoolDownKept
=============================================================================
