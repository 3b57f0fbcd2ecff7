--------------------------- MODULE ActiveSessions ---------------------------
(***************************************************************************)
(* xai-grok-active-sessions: the file in which the windows of a machine    *)
(* keep the sessions they have open, to tell a crash from a clean exit.    *)
(*                                                                         *)
(* Every process is a window's: it collects the crashed entries as it      *)
(* starts, registers the sessions it opens and unregisters those it closes.*)
(* Each operation is a read, a change of the copy and a replacement of the *)
(* file by rename, under an exclusive file lock; unregistering gives up at *)
(* once when the lock is taken.  Reads and writes of the file may fail and *)
(* a process may be killed between any two steps, which frees the lock.    *)
(* Process identifiers are not reused.                                     *)
(***************************************************************************)
EXTENDS Naturals, FiniteSets

CONSTANTS Procs, Sessions,
          None,      \* no process
          Torn,      \* the content of a file that is missing or being written
          MaxOpens   \* bound: sessions opened

ASSUME SessionsAssumption ==
    Sessions # {} /\ None \notin Procs /\ Torn \notin [Sessions -> Procs \cup {None}] /\ MaxOpens \in Nat

VARIABLES data,    \* active_sessions.json
          tmp,     \* active_sessions.json.tmp
          lock,    \* the process that holds active_sessions.lock, or None
          pc,      \* where each process is in an operation
          op,      \* the operation,
          sid,     \* its session,
          copy,    \* and the list it works on
          ended,   \* processes that exited or were killed
          found,   \* the entries each process's collect_crashed took out of the file
          mine,    \* history: sessions each process has registered and not unregistered
          opened,  \* history: the processes that ever opened a session
          opens    \* sessions opened so far
vars == <<data, tmp, lock, pc, op, sid, copy, ended, found, mine, opened, opens>>

Files == [Sessions -> Procs \cup {None}]
Empty == [s \in Sessions |-> None]
Contents == Files \cup {Torn}
Ops == {"collect", "register", "unregister"}
NoSession == CHOOSE s \in Sessions : TRUE
At(p, l) == pc[p] = l
Goto(p, l) == pc' = [pc EXCEPT ![p] = l]
Call(p, o, s) == op' = [op EXCEPT ![p] = o] /\ sid' = [sid EXCEPT ![p] = s]
\* The operation is over, and its local variables with it.
Rest(p, l) == Goto(p, l) /\ Call(p, "collect", NoSession) /\ copy' = [copy EXCEPT ![p] = Empty]
locals == <<op, sid, copy>>
history == <<found, mine, opened, opens>>

Init ==
    /\ data = Empty /\ tmp = Torn /\ lock = None
    /\ pc = [p \in Procs |-> "new"] /\ op = [p \in Procs |-> "collect"]
    /\ sid = [p \in Procs |-> NoSession] /\ copy = [p \in Procs |-> Empty]
    /\ ended = {} /\ found = [p \in Procs |-> {}] /\ mine = [p \in Procs |-> {}]
    /\ opened = [s \in Sessions |-> {}] /\ opens = 0

-----------------------------------------------------------------------------
(* The window                                                              *)
\* main calls collect_crashed first of all.
Start(p) ==
    /\ At(p, "new")
    /\ Goto(p, "lock")
    /\ UNCHANGED <<locals, data, tmp, lock, ended, history>>

\* Effect::RegisterActiveSession.
Open(p, s) ==
    /\ At(p, "idle") /\ opens < MaxOpens
    /\ opens' = opens + 1
    /\ opened' = [opened EXCEPT ![s] = @ \cup {p}]
    /\ Goto(p, "lock") /\ Call(p, "register", s)
    /\ UNCHANGED <<copy, data, tmp, lock, ended, found, mine>>

\* Effect::UnregisterActiveSession, and the signal handler, which may come
\* in while the event loop waits for the lock.
Close(p, s) ==
    /\ pc[p] \in {"idle", "lock"} /\ s \in mine[p]
    /\ Goto(p, "lock") /\ Call(p, "unregister", s)
    /\ UNCHANGED <<copy, data, tmp, lock, ended, history>>

\* The process exits or is killed; the system frees its lock.
End(p) ==
    /\ p \notin ended /\ ~At(p, "new")
    /\ ended' = ended \cup {p}
    /\ Rest(p, "ended")
    /\ lock' = IF lock = p THEN None ELSE lock
    /\ UNCHANGED <<data, tmp, history>>

-----------------------------------------------------------------------------
(* with_locked_state and try_with_locked_state                             *)
Lock(p) ==
    /\ At(p, "lock") /\ lock = None
    /\ lock' = p
    /\ Goto(p, "read")
    /\ UNCHANGED <<locals, data, tmp, ended, history>>

\* try_lock_exclusive would block: the entry stays for collect_crashed.
Skip(p) ==
    /\ At(p, "lock") /\ lock # None /\ op[p] = "unregister"
    /\ Rest(p, "idle")
    /\ UNCHANGED <<data, tmp, lock, ended, history>>

\* The directory or the lock file cannot be opened.
OpenFails(p) ==
    /\ At(p, "lock")
    /\ Rest(p, "idle")
    /\ UNCHANGED <<data, tmp, lock, ended, history>>

\* read_data_file: what does not parse counts as empty.
Parsed(c) == IF c = Torn THEN Empty ELSE c
\* Fault: every entry is taken for a dead process's.
Others(c) == {s \in Sessions : c[s] # None}
\* is_pid_alive, of each entry.
Dead(c) == {s \in Sessions : c[s] \in ended}
\* The closures of register_in, try_unregister_in and collect_crashed_in.
Mutated(p, c) ==
    [s \in Sessions |->
        IF op[p] = "collect" THEN (IF s \in Dead(c) THEN None ELSE c[s])
        ELSE IF s # sid[p] THEN c[s]
        ELSE IF op[p] = "register" THEN p ELSE None]
Read(p) ==
    /\ At(p, "read")
    /\ Goto(p, "write") /\ copy' = [copy EXCEPT ![p] = Mutated(p, Parsed(data))]
    /\ UNCHANGED <<op, sid, data, tmp, lock, ended, history>>

\* write_data_file_atomic: the temporary file is written ...
WriteStarts(p) ==
    /\ At(p, "write")
    /\ tmp' = Torn
    /\ Goto(p, "writing")
    /\ UNCHANGED <<locals, data, lock, ended, history>>

\* Fault: the file itself is written.
InPlace(p) ==
    /\ At(p, "writing")
    /\ tmp' = copy[p] /\ data' = Torn
    /\ Goto(p, "rename")
    /\ UNCHANGED <<locals, lock, ended, history>>
WriteEnds(p) ==
    /\ At(p, "writing")
    /\ tmp' = copy[p]
    /\ Goto(p, "rename")
    /\ UNCHANGED <<locals, data, lock, ended, history>>

\* ... and takes the file's place; the operation has then happened.
Removed(p) == {s \in Sessions : Parsed(data)[s] # None /\ copy[p][s] = None}
Rename(p) ==
    /\ At(p, "rename")
    /\ data' = tmp /\ tmp' = Torn
    /\ Goto(p, "unlock")
    /\ mine' = [mine EXCEPT ![p] = IF op[p] = "register" THEN @ \cup {sid[p]}
                                   ELSE IF op[p] = "unregister" THEN @ \ {sid[p]} ELSE @]
    /\ found' = IF op[p] = "collect"
                THEN [found EXCEPT ![p] = {<<s, Parsed(data)[s]>> : s \in Removed(p)}] ELSE found
    /\ UNCHANGED <<locals, lock, ended, opened, opens>>

\* Fault: a collection that was not written is reported.
ReportsUnwritten(p) ==
    /\ pc[p] \in {"read", "write", "writing", "rename"}
    /\ Goto(p, "unlock")
    /\ found' = [found EXCEPT ![p] = {<<s, data[s]>> : s \in {x \in Sessions : data[x] \in ended}}]
    /\ UNCHANGED <<locals, data, tmp, lock, ended, mine, opened, opens>>
\* Fault: the error returns before the lock is given back.
FailsLocked(p) ==
    /\ pc[p] \in {"read", "write", "writing", "rename"}
    /\ Rest(p, "idle")
    /\ tmp' = IF At(p, "rename") THEN Torn ELSE tmp
    /\ UNCHANGED <<data, lock, ended, history>>
\* A read, write or rename fails: the file is as it was.  A temporary file
\* that could not be renamed is removed.
Fail(p) ==
    /\ pc[p] \in {"read", "write", "writing", "rename"}
    /\ Goto(p, "unlock")
    /\ tmp' = IF At(p, "rename") THEN Torn ELSE tmp
    /\ UNCHANGED <<locals, data, lock, ended, history>>

Unlock(p) ==
    /\ At(p, "unlock")
    /\ lock' = None
    /\ Rest(p, "idle")
    /\ UNCHANGED <<data, tmp, ended, history>>

Work(p) == Skip(p) \/ Read(p) \/ WriteStarts(p) \/ WriteEnds(p) \/ Rename(p) \/ Unlock(p)
Step(p) == Lock(p) \/ Work(p) \/ OpenFails(p) \/ Fail(p)
Next == \E p \in Procs :
    \/ Step(p) \/ Start(p) \/ End(p)
    \/ \E s \in Sessions : Open(p, s) \/ Close(p, s)

Spec == Init /\ [][Next]_vars
\* A process that runs goes on, and the system hands a free lock to those
\* that wait for it in turn.  Nothing obliges a call to fail.
FairSpec == Spec /\ \A p \in Procs : WF_vars(Work(p)) /\ SF_vars(Lock(p))

-----------------------------------------------------------------------------
\* list_in reads the file without the lock: it finds a whole list at all
\* times, whatever processes are killed while they write.
TypeOK ==
    /\ data \in Files
    /\ tmp \in Contents
    /\ lock \in Procs \cup {None}
    /\ pc \in [Procs -> {"new", "idle", "lock", "read", "write", "writing", "rename", "unlock", "ended"}]
    /\ op \in [Procs -> Ops] /\ sid \in [Procs -> Sessions] /\ copy \in [Procs -> Files]
    /\ ended \subseteq Procs
    /\ found \in [Procs -> SUBSET (Sessions \X Procs)]
    /\ mine \in [Procs -> SUBSET Sessions]
    /\ opened \in [Sessions -> SUBSET Procs]
    /\ opens \in 0..MaxOpens

\* A session only one window ever opened, registered and not unregistered,
\* is in one place: in the file, or reported to one later window as
\* crashed.  An unregistered one is in neither.
Finders(s, p) == {q \in Procs : <<s, p>> \in found[q]}
EntryAccounted ==
    \A s \in Sessions, p \in Procs : opened[s] = {p} =>
        /\ s \in mine[p] <=> data[s] = p \/ Finders(s, p) # {}
        /\ data[s] = p => Finders(s, p) = {}
        /\ \A q1, q2 \in Finders(s, p) : q1 = q2

\* Whoever reads the file sees the operations of the windows one after the
\* other, each of them whole, and only ended processes' entries collected.
Abstract == INSTANCE Registry WITH entry <- data
ImplementsRegistry == Abstract!RegistrySpec

\* Whoever waits for the lock gets through, though holders are killed and
\* their reads and writes fail.
EveryOperationEnds == \A p \in Procs : At(p, "lock") ~> pc[p] \in {"idle", "ended"}
=============================================================================
