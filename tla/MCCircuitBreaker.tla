-------------------------- MODULE MCCircuitBreaker --------------------------
(* Small instances of CircuitBreaker for TLC.                              *)
EXTENDS CircuitBreaker, TLC

\* Callers are interchangeable.
CallerSymmetry == Permutations(Callers)

\* The setting of cas_loss_recovery_with_mock_clock (half_open.rs:138): one failure
\* has tripped the breaker, the clock passed the cool-down and now stands still,
\* nobody ever claimed a probe slot, and every thread calls check once.
TrippedInit ==
    /\ state = "Open" /\ opened_at = 0 /\ probes = 0 /\ claimed_at = 0
    /\ is_open_fast = TRUE /\ window = [n |-> 1, f |-> 1]
    /\ caller = [c \in Callers |-> [pc |-> "idle", now |-> 0, seen |-> 0, failure |-> FALSE]]
    /\ clock = OPEN_MILLIS /\ checks = 0
    /\ busyUntil = 0 /\ lone = {} /\ trippedAt = 0 /\ clean = {} /\ crossed = FALSE
ChecksOnly == TrippedInit /\ [][(\E c \in Callers : Checking(c) \/ Probing(c)) /\ Note]_vars
=============================================================================
