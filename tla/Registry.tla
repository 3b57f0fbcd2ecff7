------------------------------ MODULE Registry ------------------------------
(***************************************************************************)
(* What the active-session registry promises: one map from sessions to the *)
(* processes that hold them, changed by one whole operation at a time.     *)
(***************************************************************************)
CONSTANTS Sessions, Procs, None
VARIABLES entry,   \* the process listed for each session, or None
          ended    \* the processes that are no more

RegistryInit == entry = [s \in Sessions |-> None] /\ ended = {}

Register(s, p) ==
    /\ p \notin ended
    /\ entry' = [entry EXCEPT ![s] = p]
    /\ UNCHANGED ended

Unregister(s) == entry' = [entry EXCEPT ![s] = None] /\ UNCHANGED ended

\* Only entries of processes that have ended are collected.
Collect(S) ==
    /\ \A s \in S : entry[s] \in ended
    /\ entry' = [s \in Sessions |-> IF s \in S THEN None ELSE entry[s]]
    /\ UNCHANGED ended

End(p) == ended' = ended \cup {p} /\ UNCHANGED entry

RegistryNext ==
    \/ \E s \in Sessions : Unregister(s) \/ \E p \in Procs : Register(s, p)
    \/ \E S \in SUBSET Sessions : Collect(S)
    \/ \E p \in Procs : End(p)

RegistrySpec == RegistryInit /\ [][RegistryNext]_<<entry, ended>>
=============================================================================
