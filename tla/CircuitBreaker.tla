--------------------------- MODULE CircuitBreaker ---------------------------
(***************************************************************************)
(* xai-circuit-breaker: one breaker shared by concurrent callers.          *)
(*                                                                         *)
(* The breaker's state is five separate atomics and a window under a       *)
(* mutex; check and record touch them one after the other.  Each action is *)
(* one atomic access (or one mutex section) of one caller, together with   *)
(* the computation up to its next access.  A caller asks check, makes its  *)
(* request if admitted, and then records the outcome or is cancelled and   *)
(* never does.  The window keeps counts only: which samples have expired,  *)
(* or fell to the cap of 10,000 entries, is left open.  The accesses       *)
(* interleave sequentially consistently; a disabled breaker, which changes *)
(* nothing, and the observer's callbacks are left out.                     *)
(***************************************************************************)
EXTENDS Integers, FiniteSets

CONSTANTS Callers,
          MIN_SAMPLES,      \* config.min_samples
          HALF_OPEN_PROBES, \* config.half_open_max_probes, at least 1
          OPEN_MILLIS,      \* config.open_duration
          WORD,             \* the counter's range: 2^64 in the code
          MaxTime,          \* bound: readings of the clock
          MaxChecks         \* bound: calls of check

ASSUME BreakerAssumption ==
    /\ MIN_SAMPLES \in Nat /\ HALF_OPEN_PROBES \in Nat \ {0}
    /\ OPEN_MILLIS \in Nat /\ WORD \in Nat \ {0}
    /\ MaxTime \in Nat /\ MaxChecks \in Nat

VARIABLES state,       \* AtomicU8
          opened_at,   \* opened_at_millis
          probes,      \* half_open_probes
          claimed_at,  \* probe_claimed_at_millis
          is_open_fast,
          window,      \* samples and failures in the sliding window
          caller,      \* where each caller stands, with the locals it holds
          clock,       \* milliseconds since the baseline
          checks,      \* calls of check so far
          busyUntil,   \* history: when a call was last under way
          lone,        \* history: the check begun alone, one cool-down after that, and still alone
          trippedAt,   \* history: when the last trip, or run of overlapping trips, began
          clean,       \* history: checks of an open breaker that no trip overlapped
          crossed      \* history: the last change of state began before an earlier one was mirrored
vars == <<state, opened_at, probes, claimed_at, is_open_fast, window, caller, clock,
          checks, busyUntil, lone, trippedAt, clean, crossed>>

saturating_sub(a, b) == IF a >= b THEN a - b ELSE 0
At(c, l) == caller[c].pc = l
Goto(c, l) == caller' = [caller EXCEPT ![c].pc = l]
\* Between calls: no request, one let through, one let through as a probe.
Requests == {"request", "probing"}
Outside == {"idle"} \cup Requests

-----------------------------------------------------------------------------
(* check                                                                   *)
Check(c) ==
    /\ At(c, "idle") /\ checks < MaxChecks
    /\ checks' = checks + 1
    /\ Goto(c, CASE state = "Closed" -> "request"
                 [] state = "Open" -> "opened"
                 [] state = "HalfOpen" -> "probe")
    /\ UNCHANGED <<state, opened_at, probes, claimed_at, is_open_fast, window, clock>>

CheckOpenLoads(c) ==
    /\ At(c, "opened")
    /\ caller' = [caller EXCEPT ![c].pc = "elapsed", ![c].seen = opened_at]
    /\ UNCHANGED <<state, opened_at, probes, claimed_at, is_open_fast, window, clock, checks>>

\* Fault: the time of the trip is not subtracted.
SinceBaseline(c) == clock >= OPEN_MILLIS
CoolDownOver(c) == saturating_sub(clock, caller[c].seen) >= OPEN_MILLIS

\* The clock is read here: a caller that read it earlier and is admitted would be
\* admitted now, and one that is turned away leaves nothing behind.
\* The cool-down is over and the exchange of Open for HalfOpen won or lost, or
\* the caller is turned away.
CheckOpenSwaps(c) ==
    /\ At(c, "elapsed")
    /\ IF ~CoolDownOver(c) THEN Goto(c, "idle") /\ UNCHANGED state
       ELSE IF state = "Open" THEN Goto(c, "mirror") /\ state' = "HalfOpen"
       ELSE Goto(c, "lost") /\ UNCHANGED state
    /\ UNCHANGED <<opened_at, probes, claimed_at, is_open_fast, window, clock, checks>>

\* Fault: the mirror is left to the next trip or close.
CheckOpenSkipsMirror(c) ==
    /\ At(c, "mirror")
    /\ Goto(c, "probe")
    /\ UNCHANGED <<state, opened_at, probes, claimed_at, is_open_fast, window, clock, checks>>

CheckOpenMirrors(c) ==
    /\ At(c, "mirror")
    /\ is_open_fast' = FALSE
    /\ Goto(c, "probe")
    /\ UNCHANGED <<state, opened_at, probes, claimed_at, window, clock, checks>>

CheckOpenLost(c) ==
    /\ At(c, "lost")
    /\ Goto(c, CASE state = "Closed" -> "request"
                 [] state = "HalfOpen" -> "probe"
                 [] state = "Open" -> "idle")
    /\ UNCHANGED <<state, opened_at, probes, claimed_at, is_open_fast, window, clock, checks>>

-----------------------------------------------------------------------------
(* try_half_open_probe                                                     *)
ProbeReadsClock(c) ==
    /\ At(c, "probe")
    /\ caller' = [caller EXCEPT ![c].pc = "claim", ![c].now = clock]
    /\ UNCHANGED <<state, opened_at, probes, claimed_at, is_open_fast, window, clock, checks>>

ProbeClaims(c) ==
    /\ At(c, "claim")
    /\ probes' = (probes + 1) % WORD
    /\ Goto(c, IF probes < HALF_OPEN_PROBES THEN "stamp" ELSE "unclaim")
    /\ UNCHANGED <<state, opened_at, claimed_at, is_open_fast, window, clock, checks>>

ProbeStamps(c) ==
    /\ At(c, "stamp")
    /\ claimed_at' = caller[c].now
    /\ Goto(c, "probing")
    /\ UNCHANGED <<state, opened_at, probes, is_open_fast, window, clock, checks>>

\* Fault: the counter is decremented as if it could not be zero by now.
ProbeUnclaimsBelow(c) ==
    /\ At(c, "unclaim")
    /\ probes' = probes - 1
    /\ Goto(c, "lease")
    /\ UNCHANGED <<state, opened_at, claimed_at, is_open_fast, window, clock, checks>>

ProbeUnclaims(c) ==
    /\ At(c, "unclaim")
    /\ probes' = (probes - 1) % WORD
    /\ Goto(c, "lease")
    /\ UNCHANGED <<state, opened_at, claimed_at, is_open_fast, window, clock, checks>>

\* Fault: a caller that finds every slot taken is turned away, whatever their age.
ProbeTurnedAway(c) ==
    /\ At(c, "lease")
    /\ Goto(c, "idle")
    /\ UNCHANGED <<state, opened_at, probes, claimed_at, is_open_fast, window, clock, checks>>

ProbeReadsLease(c) ==
    /\ At(c, "lease")
    /\ caller' = [caller EXCEPT
          ![c].seen = claimed_at,
          ![c].pc = IF saturating_sub(caller[c].now, claimed_at) >= OPEN_MILLIS
                    THEN "takeover" ELSE "idle"]
    /\ UNCHANGED <<state, opened_at, probes, claimed_at, is_open_fast, window, clock, checks>>

ProbeTakesOver(c) ==
    /\ At(c, "takeover")
    /\ IF claimed_at = caller[c].seen
       THEN claimed_at' = caller[c].now /\ Goto(c, "probing")
       ELSE UNCHANGED claimed_at /\ Goto(c, "idle")
    /\ UNCHANGED <<state, opened_at, probes, is_open_fast, window, clock, checks>>

-----------------------------------------------------------------------------
(* The request, and record                                                 *)
Abandon(c) ==
    /\ caller[c].pc \in Requests
    /\ Goto(c, "idle")
    /\ UNCHANGED <<state, opened_at, probes, claimed_at, is_open_fast, window, clock, checks>>

Record(c, failure) ==
    /\ caller[c].pc \in Requests
    /\ caller' = [caller EXCEPT ![c].failure = failure,
          ![c].pc = CASE state = "Closed" -> "sample"
                      [] state = "Open" -> "late"
                      [] state = "HalfOpen" -> IF failure THEN "trip" ELSE "close"]
    /\ UNCHANGED <<state, opened_at, probes, claimed_at, is_open_fast, window, clock, checks>>

\* What evict, or the cap, may leave of the window.
Kept == {w \in [n : 0..window.n, f : 0..window.f] :
            w.f <= w.n /\ window.f - w.f <= window.n - w.n}
Pushed(w, failure) == [n |-> w.n + 1, f |-> w.f + (IF failure THEN 1 ELSE 0)]
\* error_rate_threshold is one half, as in both presets.
ShouldTrip(w) == w.n >= MIN_SAMPLES /\ 2 * w.f >= w.n

RecordSamples(c) ==
    /\ At(c, "sample")
    /\ \E w \in Kept : window' = Pushed(w, caller[c].failure)
    /\ Goto(c, IF ShouldTrip(window') THEN "trip" ELSE "idle")
    /\ UNCHANGED <<state, opened_at, probes, claimed_at, is_open_fast, clock, checks>>

RecordLate(c) ==
    /\ At(c, "late")
    /\ \E w \in Kept : window' = Pushed(w, caller[c].failure)
    /\ Goto(c, "idle")
    /\ UNCHANGED <<state, opened_at, probes, claimed_at, is_open_fast, clock, checks>>

\* error_rate() evicts what has expired.
ErrorRate ==
    /\ window' \in Kept
    /\ UNCHANGED <<state, opened_at, probes, claimed_at, is_open_fast, caller, clock, checks>>


Trip(c) ==
    \/ /\ At(c, "trip")
       /\ caller' = [caller EXCEPT ![c].pc = "trip_time", ![c].now = clock]
       /\ state' = "Open"
       /\ UNCHANGED <<opened_at, probes, claimed_at, is_open_fast, window, clock, checks>>
    \/ /\ At(c, "trip_time") /\ Goto(c, "trip_probes")
       /\ opened_at' \in caller[c].now..clock  \* read some time after the store above
       /\ UNCHANGED <<state, probes, claimed_at, is_open_fast, window, clock, checks>>
    \/ /\ At(c, "trip_probes") /\ Goto(c, "trip_mirror")
       /\ probes' = 0
       /\ UNCHANGED <<state, opened_at, claimed_at, is_open_fast, window, clock, checks>>
    \/ /\ At(c, "trip_mirror") /\ Goto(c, "idle")
       /\ is_open_fast' = TRUE
       /\ UNCHANGED <<state, opened_at, probes, claimed_at, window, clock, checks>>

Close(c) ==
    \/ /\ At(c, "close") /\ Goto(c, "close_window")
       /\ state' = "Closed"
       /\ UNCHANGED <<opened_at, probes, claimed_at, is_open_fast, window, clock, checks>>
    \/ /\ At(c, "close_window") /\ Goto(c, "close_probes")
       /\ window' = [n |-> 0, f |-> 0]
       /\ UNCHANGED <<state, opened_at, probes, claimed_at, is_open_fast, clock, checks>>
    \/ /\ At(c, "close_probes") /\ Goto(c, "close_mirror")
       /\ probes' = 0
       /\ UNCHANGED <<state, opened_at, claimed_at, is_open_fast, window, clock, checks>>
    \/ /\ At(c, "close_mirror") /\ Goto(c, "idle")
       /\ is_open_fast' = FALSE
       /\ UNCHANGED <<state, opened_at, probes, claimed_at, window, clock, checks>>

Tick == /\ clock < MaxTime
        /\ clock' = clock + 1
        /\ UNCHANGED <<state, opened_at, probes, claimed_at, is_open_fast, window, caller, checks>>

-----------------------------------------------------------------------------
Init ==
    /\ state = "Closed" /\ opened_at = 0 /\ probes = 0 /\ claimed_at = 0
    /\ is_open_fast = FALSE /\ window = [n |-> 0, f |-> 0]
    /\ caller = [c \in Callers |-> [pc |-> "idle", now |-> 0, seen |-> 0, failure |-> FALSE]]
    /\ clock = 0 /\ checks = 0
    /\ busyUntil = 0 /\ lone = {} /\ trippedAt = 0 /\ clean = {} /\ crossed = FALSE

Checking(c) == \/ Check(c) \/ CheckOpenLoads(c) \/ CheckOpenSwaps(c)
               \/ CheckOpenMirrors(c) \/ CheckOpenLost(c)
Probing(c) == \/ ProbeReadsClock(c) \/ ProbeClaims(c) \/ ProbeStamps(c)
              \/ ProbeUnclaims(c) \/ ProbeReadsLease(c) \/ ProbeTakesOver(c)
Recording(c) == \/ Abandon(c) \/ \E failure \in BOOLEAN : Record(c, failure)
                \/ RecordSamples(c) \/ RecordLate(c) \/ Trip(c) \/ Close(c)
Step == Tick \/ ErrorRate \/ \E c \in Callers : Checking(c) \/ Probing(c) \/ Recording(c)

\* A call of check or record is under way.
Inside(cs, c) == cs[c].pc \notin Outside
Quiet == \A c \in Callers : ~Inside(caller, c)
\* Inside check.
CheckSteps == {"opened", "elapsed", "mirror", "lost", "probe", "claim", "stamp", "unclaim",
               "lease", "takeover"}
\* Open is stored and its time is not; state is stored and its mirror is not.
Unstamped(cs) == {c \in Callers : cs[c].pc = "trip_time"}
TripPending == {"trip_time", "trip_probes", "trip_mirror"}
ClosePending == {"close_window", "close_probes", "close_mirror"}
Unmirrored(cs) == {c \in Callers : cs[c].pc \in {"mirror"} \cup TripPending \cup ClosePending}

\* The history variables, which no step reads.
Note ==
    /\ busyUntil' = IF \A c \in Callers : ~Inside(caller, c) /\ ~Inside(caller', c)
                    THEN busyUntil ELSE clock
    /\ lone' = {c \in Callers : /\ caller'[c].pc \in CheckSteps
                                /\ \A d \in Callers : Inside(caller', d) => d = c
                                /\ c \in lone \/ (Quiet /\ clock >= busyUntil + OPEN_MILLIS)}
    /\ trippedAt' = IF Unstamped(caller) = {} /\ Unstamped(caller') # {} THEN clock ELSE trippedAt
    /\ clean' = {c \in Callers : /\ caller'[c].pc \in {"opened", "elapsed"}
                                 /\ Unstamped(caller') = {}
                                 /\ c \in clean \/ At(c, "idle")}
    /\ crossed' = IF Unmirrored(caller') \subseteq Unmirrored(caller) THEN crossed
                  ELSE Unmirrored(caller) # {}
Next == Step /\ Note
Spec == Init /\ [][Next]_vars

-----------------------------------------------------------------------------
(* Properties.                                                             *)
Steps == {"idle", "opened", "elapsed", "mirror", "lost", "probe", "claim", "stamp",
          "unclaim", "lease", "takeover", "request", "probing", "sample", "late",
          "trip", "trip_time", "trip_probes", "trip_mirror",
          "close", "close_window", "close_probes", "close_mirror"}

\* The breaker's own state and the callers' locals.
AtomicsOK ==
    /\ state \in {"Closed", "Open", "HalfOpen"}
    /\ opened_at \in Nat /\ claimed_at \in Nat /\ clock \in Nat
    /\ probes \in 0..(WORD - 1)
    /\ is_open_fast \in BOOLEAN
    /\ window \in [n : Nat, f : Nat]
    /\ caller \in [Callers -> [pc : Steps, now : Nat, seen : Nat, failure : BOOLEAN]]
    /\ checks \in Nat

HistoryOK ==
    /\ busyUntil \in Nat /\ trippedAt \in Nat /\ crossed \in BOOLEAN
    /\ lone \subseteq Callers /\ clean \subseteq Callers

\* Every atomic and every caller's local has its type; the probe counter stays
\* within its word, where it wraps.
TypeOK == AtomicsOK /\ HistoryOK

\* The breaker never locks itself shut: whatever races the callers had, and
\* whoever was cancelled with a probe slot in hand, a check that begins one
\* cool-down after the last call of check or record ended, and that no other call
\* joins, is let through (the promise of the lease, breaker.rs:37).
LoneCheckAdmitted == [][\A c \in lone : caller'[c].pc # "idle"]_vars

\* is_open() mirrors state == Open (breaker.rs:41) once every change of state has
\* been mirrored.  Calls may overlap in any way; what is excluded is that the last
\* change of state began while an earlier one was still to store the mirror, and
\* the next change that begins by itself puts such a mirror right.
MirrorIsExact == Unmirrored(caller) = {} /\ ~crossed => (is_open_fast <=> state = "Open")

\* The breaker stays open for open_duration after a trip (check_open's timer), or
\* after the first of several trips that overlapped.  Calls may overlap in any way;
\* what is excluded is a check during which some trip had stored Open and not yet
\* its time (breaker.rs:249).
CoolDownKept ==
    [][\A c \in clean : At(c, "elapsed") /\ caller'[c].pc = "mirror"
                           => clock - trippedAt >= OPEN_MILLIS]_vars

\* No more probes than slots are under way that were admitted within one lease of
\* each other (half_open.rs:152).
ProbesLimited ==
    \A S \in SUBSET Callers :
        /\ \A c \in S : At(c, "probing")
        /\ \A c, d \in S : saturating_sub(caller[c].now, caller[d].now) < OPEN_MILLIS
        => Cardinality(S) <= HALF_OPEN_PROBES
=============================================================================
