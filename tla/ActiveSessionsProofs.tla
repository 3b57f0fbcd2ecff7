------------------------ MODULE ActiveSessionsProofs ------------------------
(***************************************************************************)
(* Theorems about the active-session registry, for any number of windows   *)
(* and sessions.                                                           *)
(***************************************************************************)
EXTENDS ActiveSessions, TLAPS

Locked == {"read", "write", "writing", "rename", "unlock"}
Copied == {"write", "writing", "rename"}

\* Who works on the file holds the lock, and what is renamed is whole.
LockHeld ==
    \A p \in Procs :
        /\ pc[p] \in Locked => lock = p
        /\ At(p, "rename") => tmp = copy[p]
        /\ At(p, "ended") <=> p \in ended

\* The holder's copy is the file as it still is, but for the one change.
CopyIsCurrent ==
    \A p \in Procs : pc[p] \in Copied => \A s \in Sessions :
        \/ copy[p][s] = data[s] /\ (op[p] # "collect" => s # sid[p])
        \/ op[p] = "collect" /\ copy[p][s] = None /\ data[s] \in ended
        \/ op[p] = "register" /\ s = sid[p] /\ copy[p][s] = p
        \/ op[p] = "unregister" /\ s = sid[p] /\ copy[p][s] = None

\* Where the entries in the file and in the reports come from.
Provenance ==
    /\ \A s \in Sessions, p \in Procs :
        /\ s \in mine[p] \/ data[s] = p \/ Finders(s, p) # {} => p \in opened[s]
        /\ Finders(s, p) # {} => p \in ended
    /\ \A p \in Procs :
        /\ pc[p] = "new" => op[p] = "collect"
        /\ pc[p] \in Copied \cup {"new", "lock", "read"} /\ op[p] = "collect" => found[p] = {}
        /\ pc[p] \in Copied \cup {"lock", "read"} /\ op[p] = "register" => p \in opened[sid[p]]
        /\ pc[p] \in Copied \cup {"lock", "read"} /\ op[p] = "unregister" => sid[p] \in mine[p]

Inv == TypeOK /\ LockHeld /\ CopyIsCurrent
IInv == Inv /\ Provenance /\ EntryAccounted

-----------------------------------------------------------------------------
\* What is parsed is what the file holds, as the file is never torn.
LEMMA ParsedIsData == ASSUME data \in Files PROVE Parsed(data) = data
BY SessionsAssumption DEF Parsed, Files

LEMMA RestType == NoSession \in Sessions /\ Empty \in Files
BY SessionsAssumption DEF NoSession, Empty, Files

LEMMA MutatedType == ASSUME TypeOK, NEW p \in Procs PROVE Mutated(p, data) \in Files
<1>1. \A s \in Sessions : data[s] \in Procs \cup {None}  BY DEF TypeOK, Files
<1> QED  BY <1>1 DEF Mutated, Files

LEMMA InitInv == Init => IInv
<1> SUFFICES ASSUME Init PROVE IInv  OBVIOUS
<1> USE DEF Init
<1>1. \A s \in Sessions : Empty[s] = None  BY DEF Empty
<1>2. \A p \in Procs : pc[p] = "new" /\ found[p] = {} /\ mine[p] = {}  OBVIOUS
<1>3. TypeOK  BY RestType, SessionsAssumption DEF TypeOK, Contents, Ops
<1>4. LockHeld  BY <1>2 DEF LockHeld, At, Locked
<1>5. CopyIsCurrent  BY <1>2 DEF CopyIsCurrent, Copied
<1>6. Provenance
  <2>1. \A s \in Sessions, p \in Procs : s \notin mine[p] /\ data[s] # p /\ Finders(s, p) = {}
    BY <1>1, <1>2, SessionsAssumption DEF Finders
  <2> QED  BY <1>2, <2>1 DEF Provenance, Copied
<1>7. EntryAccounted  BY DEF EntryAccounted
<1> QED  BY <1>3, <1>4, <1>5, <1>6, <1>7 DEF IInv, Inv

-----------------------------------------------------------------------------
(* The lock                                                                *)
LEMMA TypeStep == ASSUME Inv, [Next]_vars PROVE TypeOK'
<1> USE DEF Inv
<1>1. CASE UNCHANGED vars  BY <1>1 DEF TypeOK, vars
<1>2. ASSUME NEW p \in Procs, Start(p) PROVE TypeOK'
  BY <1>2 DEF TypeOK, Start, Goto, locals, history
<1>3. ASSUME NEW p \in Procs, NEW s \in Sessions, Open(p, s) PROVE TypeOK'
  BY <1>3, SessionsAssumption DEF TypeOK, Open, Goto, Call, Ops
<1>4. ASSUME NEW p \in Procs, NEW s \in Sessions, Close(p, s) PROVE TypeOK'
  BY <1>4 DEF TypeOK, Close, Goto, Call, Ops, history
<1>5. ASSUME NEW p \in Procs, End(p) PROVE TypeOK'
  BY <1>5, RestType DEF TypeOK, End, Rest, Goto, Call, Ops, history
<1>6. ASSUME NEW p \in Procs, Lock(p) PROVE TypeOK'
  BY <1>6 DEF TypeOK, Lock, Goto, locals, history
<1>7. ASSUME NEW p \in Procs, Skip(p) \/ OpenFails(p) PROVE TypeOK'
  BY <1>7, RestType DEF TypeOK, Skip, OpenFails, Rest, Goto, Call, Ops, history
<1>8. ASSUME NEW p \in Procs, Read(p) PROVE TypeOK'
  <2>1. Mutated(p, Parsed(data)) \in Files  BY ParsedIsData, MutatedType DEF TypeOK
  <2> QED  BY <1>8, <2>1 DEF TypeOK, Read, Goto, history
<1>9. ASSUME NEW p \in Procs, WriteStarts(p) PROVE TypeOK'
  BY <1>9 DEF TypeOK, WriteStarts, Goto, Contents, locals, history
<1>10. ASSUME NEW p \in Procs, WriteEnds(p) PROVE TypeOK'
  BY <1>10 DEF TypeOK, WriteEnds, Goto, Contents, locals, history
<1>11. ASSUME NEW p \in Procs, Rename(p) PROVE TypeOK'
  <2>1. data' \in Files /\ tmp' \in Contents  BY <1>11 DEF Rename, LockHeld, TypeOK, Contents
  <2>2. mine' \in [Procs -> SUBSET Sessions]  BY <1>11 DEF TypeOK, Rename
  <2>3. found' \in [Procs -> SUBSET (Sessions \X Procs)]
    <3>1. Parsed(data) = data  BY ParsedIsData DEF TypeOK
    <3>2. \A s \in Removed(p) : s \in Sessions /\ data[s] \in Procs  BY <3>1 DEF Removed, Files, TypeOK
    <3>3. {<<s, Parsed(data)[s]>> : s \in Removed(p)} \in SUBSET (Sessions \X Procs)  BY <3>1, <3>2
    <3> QED  BY <1>11, <3>3 DEF TypeOK, Rename
  <2> QED  BY <1>11, <2>1, <2>2, <2>3 DEF TypeOK, Rename, Goto, locals
<1>12. ASSUME NEW p \in Procs, Fail(p) PROVE TypeOK'
  BY <1>12 DEF TypeOK, Fail, Goto, Contents, locals, history
<1>13. ASSUME NEW p \in Procs, Unlock(p) PROVE TypeOK'
  BY <1>13, RestType DEF TypeOK, Unlock, Rest, Goto, Call, Ops, history
<1> QED
  BY <1>1, <1>2, <1>3, <1>4, <1>5, <1>6, <1>7, <1>8, <1>9, <1>10, <1>11, <1>12, <1>13 DEF Next, Step, Work

LEMMA LockHeldStep == ASSUME Inv, [Next]_vars PROVE LockHeld'
<1> USE DEF Inv, LockHeld, TypeOK, At, Goto, Locked
<1>1. CASE UNCHANGED vars  BY <1>1 DEF vars
<1>2. ASSUME NEW p \in Procs, Start(p) PROVE LockHeld'
  BY <1>2 DEF Start, locals
<1>3. ASSUME NEW p \in Procs, NEW s \in Sessions, Open(p, s) \/ Close(p, s) PROVE LockHeld'
  BY <1>3 DEF Open, Close, Call, history
<1>4. ASSUME NEW p \in Procs, End(p) PROVE LockHeld'
  BY <1>4 DEF End, Rest
<1>5. ASSUME NEW p \in Procs, Lock(p) PROVE LockHeld'
  BY <1>5, SessionsAssumption DEF Lock, locals
<1>6. ASSUME NEW p \in Procs, Skip(p) \/ OpenFails(p) \/ Unlock(p) PROVE LockHeld'
  BY <1>6 DEF Skip, OpenFails, Unlock, Rest
<1>7. ASSUME NEW p \in Procs, Read(p) \/ WriteStarts(p) \/ WriteEnds(p) PROVE LockHeld'
  BY <1>7 DEF Read, WriteStarts, WriteEnds, locals
<1>8. ASSUME NEW p \in Procs, Rename(p) \/ Fail(p) PROVE LockHeld'
  BY <1>8 DEF Rename, Fail, locals
<1> QED  BY <1>1, <1>2, <1>3, <1>4, <1>5, <1>6, <1>7, <1>8 DEF Next, Step, Work

\* No other process is at a step that works on the file.
LEMMA Alone ==
  ASSUME Inv, NEW p \in Procs, pc[p] \in Locked, NEW q \in Procs, pc[q] \in Locked
  PROVE q = p
BY DEF Inv, LockHeld

LEMMA CopyStep == ASSUME Inv, [Next]_vars PROVE CopyIsCurrent'
<1> USE DEF Inv, CopyIsCurrent, TypeOK, At, Goto, Copied
<1>1. CASE UNCHANGED vars  BY <1>1 DEF vars
<1>2. ASSUME NEW p \in Procs, Start(p) PROVE CopyIsCurrent'
  BY <1>2 DEF Start, locals
<1>3. ASSUME NEW p \in Procs, NEW s \in Sessions, Open(p, s) \/ Close(p, s) PROVE CopyIsCurrent'
  BY <1>3 DEF Open, Close, Call, history
<1>4. ASSUME NEW p \in Procs, End(p) PROVE CopyIsCurrent'
  BY <1>4 DEF End, Rest, Call
<1>5. ASSUME NEW p \in Procs, Lock(p) PROVE CopyIsCurrent'
  BY <1>5 DEF Lock, locals
<1>6. ASSUME NEW p \in Procs, Skip(p) \/ OpenFails(p) \/ Unlock(p) PROVE CopyIsCurrent'
  BY <1>6 DEF Skip, OpenFails, Unlock, Rest, Call
<1>7. ASSUME NEW p \in Procs, Read(p) PROVE CopyIsCurrent'
  <2>1. Parsed(data) = data  BY ParsedIsData
  <2>2. \A s \in Sessions :
          copy'[p][s] = IF op[p] = "collect" THEN (IF data[s] \in ended THEN None ELSE data[s])
                        ELSE IF s # sid[p] THEN data[s] ELSE IF op[p] = "register" THEN p ELSE None
    BY <1>7, <2>1 DEF Read, Mutated, Dead
  <2>3. op[p] \in Ops  OBVIOUS
  <2> QED  BY <1>7, <2>2, <2>3 DEF Read, Ops
<1>8. ASSUME NEW p \in Procs, WriteStarts(p) \/ WriteEnds(p) PROVE CopyIsCurrent'
  BY <1>8 DEF WriteStarts, WriteEnds, locals
<1>9. ASSUME NEW p \in Procs, Rename(p) PROVE CopyIsCurrent'
  <2>1. \A q \in Procs : pc'[q] \notin Copied  BY <1>9, Alone DEF Rename, Locked
  <2> QED  BY <2>1
<1>10. ASSUME NEW p \in Procs, Fail(p) PROVE CopyIsCurrent'
  BY <1>10 DEF Fail, locals
<1> QED  BY <1>1, <1>2, <1>3, <1>4, <1>5, <1>6, <1>7, <1>8, <1>9, <1>10 DEF Next, Step, Work

-----------------------------------------------------------------------------
(* Theorems                                                                *)
LEMMA SpecInv == Spec => []Inv
<1>1. Init => Inv  BY InitInv DEF IInv
<1>2. Inv /\ [Next]_vars => Inv'  BY TypeStep, LockHeldStep, CopyStep DEF Inv
<1> QED  BY <1>1, <1>2, PTL DEF Spec

\* The file an unlocked reader finds is a whole list, whoever is killed while
\* writing: with_locked_state and write_data_file_atomic, for any number of
\* windows.
THEOREM TypeCorrect == Spec => []TypeOK
<1>1. Inv => TypeOK  BY DEF Inv
<1> QED  BY <1>1, SpecInv, PTL

\* A rename puts one whole operation into the file.
LEMMA RenameRefines ==
  ASSUME Inv, NEW p \in Procs, Rename(p)
  PROVE Abstract!RegistryNext
<1> USE DEF Inv, TypeOK
<1>1. data' = copy[p] /\ ended' = ended  BY DEF Rename, LockHeld
<1>2. data \in Files /\ copy[p] \in Files /\ sid[p] \in Sessions /\ op[p] \in Ops  OBVIOUS
<1>3. pc[p] \in Copied /\ p \notin ended  BY DEF Rename, At, Copied, LockHeld
<1>4. CASE op[p] = "register"
  <2>1. copy[p] = [data EXCEPT ![sid[p]] = p]  BY <1>2, <1>3, <1>4 DEF CopyIsCurrent, Files
  <2>2. Abstract!Register(sid[p], p)  BY <1>1, <1>3, <2>1 DEF Abstract!Register
  <2> QED  BY <1>2, <2>2 DEF Abstract!RegistryNext
<1>5. CASE op[p] = "unregister"
  <2>1. copy[p] = [data EXCEPT ![sid[p]] = None]  BY <1>2, <1>3, <1>5 DEF CopyIsCurrent, Files
  <2>2. Abstract!Unregister(sid[p])  BY <1>1, <2>1 DEF Abstract!Unregister
  <2> QED  BY <1>2, <2>2 DEF Abstract!RegistryNext
<1>6. CASE op[p] = "collect"
  <2> DEFINE S == {s \in Sessions : copy[p][s] # data[s]}
  <2>1. \A s \in S : data[s] \in ended /\ copy[p][s] = None  BY <1>3, <1>6 DEF CopyIsCurrent
  <2>2. copy[p] = [s \in Sessions |-> IF s \in S THEN None ELSE data[s]]  BY <1>2, <2>1 DEF Files
  <2>3. Abstract!Collect(S)  BY <1>1, <2>1, <2>2 DEF Abstract!Collect
  <2> QED  BY <2>3 DEF Abstract!RegistryNext
<1> QED  BY <1>2, <1>4, <1>5, <1>6 DEF Ops

\* To whoever reads the file the locked read, change and rename of any number
\* of windows are single operations on one map, though windows are killed and
\* reads and writes fail between any two steps.
THEOREM RegistryImplemented == Spec => ImplementsRegistry
<1>1. Init => Abstract!RegistryInit  BY DEF Init, Abstract!RegistryInit, Empty
<1>2. Inv /\ [Next]_vars => [Abstract!RegistryNext]_<<data, ended>>
  <2> SUFFICES ASSUME Inv, Next PROVE Abstract!RegistryNext \/ UNCHANGED <<data, ended>>
    BY DEF vars
  <2>1. ASSUME NEW p \in Procs, Rename(p) PROVE Abstract!RegistryNext  BY <2>1, RenameRefines
  <2>2. ASSUME NEW p \in Procs, End(p) PROVE Abstract!RegistryNext
    BY <2>2 DEF End, Abstract!RegistryNext, Abstract!End
  <2>3. ASSUME NEW p \in Procs, NEW s \in Sessions, Open(p, s) \/ Close(p, s)
        PROVE UNCHANGED <<data, ended>>
    BY <2>3 DEF Open, Close
  <2>4. ASSUME NEW p \in Procs, Start(p) \/ Lock(p) \/ Skip(p) \/ OpenFails(p) \/ Read(p)
                    \/ WriteStarts(p) \/ WriteEnds(p) \/ Fail(p) \/ Unlock(p)
        PROVE UNCHANGED <<data, ended>>
    BY <2>4 DEF Start, Lock, Skip, OpenFails, Read, WriteStarts, WriteEnds, Fail, Unlock
  <2> QED  BY <2>1, <2>2, <2>3, <2>4 DEF Next, Step, Work
<1> QED  BY <1>1, <1>2, SpecInv, PTL DEF Spec, ImplementsRegistry, Abstract!RegistrySpec

-----------------------------------------------------------------------------
(* Where entries come from                                                 *)
\* A rename by p, seen from one session s.
LEMMA RenameEffect ==
  ASSUME Inv, NEW p \in Procs, Rename(p), NEW s \in Sessions
  PROVE /\ data'[s] = copy[p][s]
        /\ op[p] # "collect" /\ s # sid[p] => data'[s] = data[s]
        /\ op[p] = "register" /\ s = sid[p] => data'[s] = p
        /\ op[p] = "unregister" /\ s = sid[p] => data'[s] = None
        /\ op[p] = "collect" => \/ data'[s] = data[s]
                                \/ data'[s] = None /\ data[s] \in ended
BY DEF Inv, TypeOK, LockHeld, CopyIsCurrent, Rename, At, Copied

\* What a rename by p reports.
LEMMA RenameReports ==
  ASSUME Inv, NEW p \in Procs, Rename(p), NEW s \in Sessions, NEW x \in Procs, NEW q \in Procs
  PROVE <<s, x>> \in found'[q] <=>
            IF q = p /\ op[p] = "collect" THEN data[s] = x /\ copy[p][s] = None
            ELSE <<s, x>> \in found[q]
<1>1. Parsed(data) = data /\ data \in Files  BY ParsedIsData DEF Inv, TypeOK
<1>2. Removed(p) = {t \in Sessions : data[t] # None /\ copy[p][t] = None}  BY <1>1 DEF Removed
<1>3. found \in [Procs -> SUBSET (Sessions \X Procs)]  BY DEF Inv, TypeOK
<1>4. CASE q = p /\ op[p] = "collect"
  <2>1. found'[q] = {<<t, data[t]>> : t \in Removed(p)}  BY <1>1, <1>3, <1>4 DEF Rename
  <2>2. x # None  BY SessionsAssumption
  <2> QED  BY <1>2, <1>4, <2>1, <2>2
<1>5. CASE ~(q = p /\ op[p] = "collect")
  <2>1. found'[q] = found[q]  BY <1>3, <1>5 DEF Rename
  <2> QED  BY <1>5, <2>1
<1> QED  BY <1>4, <1>5

LEMMA ProvenanceStep == ASSUME Inv, Provenance, [Next]_vars PROVE Provenance'
<1> USE DEF Inv, Provenance, TypeOK, At, Goto, Copied, Finders
<1>1. CASE UNCHANGED vars  BY <1>1 DEF vars
<1>2. ASSUME NEW p \in Procs, Start(p) PROVE Provenance'
  BY <1>2 DEF Start, locals, history
<1>3. ASSUME NEW p \in Procs, NEW s \in Sessions, Open(p, s) PROVE Provenance'
  <2>1. UNCHANGED <<data, found, mine, ended>> /\ \A t \in Sessions : opened[t] \subseteq opened'[t]
    BY <1>3 DEF Open
  <2>2. ASSUME NEW q \in Procs
        PROVE /\ pc'[q] = "new" => op'[q] = "collect"
              /\ pc'[q] \in Copied \cup {"new", "lock", "read"} /\ op'[q] = "collect" => found'[q] = {}
              /\ pc'[q] \in Copied \cup {"lock", "read"} /\ op'[q] = "register" => q \in opened'[sid'[q]]
              /\ pc'[q] \in Copied \cup {"lock", "read"} /\ op'[q] = "unregister" => sid'[q] \in mine'[q]
    <3>1. CASE q = p  BY <1>3, <3>1 DEF Open, Call
    <3>2. CASE q # p  BY <1>3, <2>1, <3>2 DEF Open, Call
    <3> QED  BY <3>1, <3>2
  <2> QED  BY <2>1, <2>2
<1>4. ASSUME NEW p \in Procs, NEW s \in Sessions, Close(p, s) PROVE Provenance'
  BY <1>4 DEF Close, Call, history
<1>5. ASSUME NEW p \in Procs, End(p) PROVE Provenance'
  BY <1>5 DEF End, Rest, Call, history
<1>6. ASSUME NEW p \in Procs, Lock(p) PROVE Provenance'
  BY <1>6 DEF Lock, locals, history
<1>7. ASSUME NEW p \in Procs, Skip(p) \/ OpenFails(p) \/ Unlock(p) PROVE Provenance'
  BY <1>7 DEF Skip, OpenFails, Unlock, Rest, Call, history
<1>8. ASSUME NEW p \in Procs, Read(p) \/ WriteStarts(p) \/ WriteEnds(p) \/ Fail(p) PROVE Provenance'
  BY <1>8 DEF Read, WriteStarts, WriteEnds, Fail, locals, history
<1>9. ASSUME NEW p \in Procs, Rename(p) PROVE Provenance'
  <2>1. pc[p] = "rename" /\ UNCHANGED <<op, sid, ended, opened>>  BY <1>9 DEF Rename, locals
  <2>2. ASSUME NEW s \in Sessions, NEW x \in Procs, s \in mine'[x] \/ data'[s] = x \/ Finders(s, x)' # {}
        PROVE x \in opened'[s]
    <3>1. CASE s \in mine'[x]  BY <1>9, <2>1, <3>1 DEF Rename
    <3>2. CASE data'[s] = x
      <4>1. x # None /\ op[p] \in Ops  BY SessionsAssumption
      <4>2. data[s] = x \/ (op[p] = "register" /\ s = sid[p] /\ x = p)
        BY <1>9, <3>2, <4>1, RenameEffect DEF Ops
      <4> QED  BY <2>1, <4>2
    <3>3. CASE Finders(s, x)' # {}  BY <1>9, <2>1, <3>3, RenameReports
    <3> QED  BY <2>2, <3>1, <3>2, <3>3
  <2>3. ASSUME NEW s \in Sessions, NEW x \in Procs, Finders(s, x)' # {} PROVE x \in ended'
    <3>1. PICK q \in Procs : <<s, x>> \in found'[q]  BY <2>3
    <3>2. CASE q = p /\ op[p] = "collect"
      <4>1. data[s] = x /\ copy[p][s] = None  BY <1>9, <3>1, <3>2, RenameReports
      <4>2. x # None  BY SessionsAssumption
      <4> QED  BY <1>9, <2>1, <3>2, <4>1, <4>2, RenameEffect
    <3>3. CASE ~(q = p /\ op[p] = "collect")  BY <1>9, <2>1, <3>1, <3>3, RenameReports
    <3> QED  BY <3>2, <3>3
  <2>4. ASSUME NEW q \in Procs
        PROVE /\ pc'[q] = "new" => op'[q] = "collect"
              /\ pc'[q] \in Copied \cup {"new", "lock", "read"} /\ op'[q] = "collect" => found'[q] = {}
              /\ pc'[q] \in Copied \cup {"lock", "read"} /\ op'[q] = "register" => q \in opened'[sid'[q]]
              /\ pc'[q] \in Copied \cup {"lock", "read"} /\ op'[q] = "unregister" => sid'[q] \in mine'[q]
    BY <1>9, <2>1 DEF Rename
  <2> QED  BY <2>2, <2>3, <2>4
<1> QED  BY <1>1, <1>2, <1>3, <1>4, <1>5, <1>6, <1>7, <1>8, <1>9 DEF Next, Step, Work

-----------------------------------------------------------------------------
LEMMA AccountedStep == ASSUME IInv, [Next]_vars PROVE EntryAccounted'
<1> USE DEF IInv, Inv, TypeOK
<1>1. CASE UNCHANGED <<data, found, mine, opened>>
  <2>1. \A s \in Sessions, x \in Procs : Finders(s, x)' = Finders(s, x)  BY <1>1 DEF Finders
  <2> QED  BY <1>1, <2>1 DEF EntryAccounted
<1>2. ASSUME NEW p \in Procs, NEW s \in Sessions, Open(p, s) PROVE EntryAccounted'
  <2>1. UNCHANGED <<data, found, mine>> /\ opened' = [opened EXCEPT ![s] = @ \cup {p}]
    BY <1>2 DEF Open
  <2>2. \A t \in Sessions, x \in Procs : Finders(t, x)' = Finders(t, x)  BY <2>1 DEF Finders
  <2> SUFFICES ASSUME NEW t \in Sessions, NEW x \in Procs, opened'[t] = {x}
               PROVE /\ t \in mine[x] <=> data[t] = x \/ Finders(t, x) # {}
                     /\ data[t] = x => Finders(t, x) = {}
                     /\ \A q1, q2 \in Finders(t, x) : q1 = q2
    BY <2>1, <2>2 DEF EntryAccounted
  <2>3. CASE opened[t] = {x}  BY <2>3 DEF EntryAccounted
  <2>4. CASE opened[t] # {x}
    <3>1. opened[t] = {}  BY <2>1, <2>4
    <3> QED  BY <3>1 DEF Provenance
  <2> QED  BY <2>3, <2>4
<1>3. ASSUME NEW p \in Procs, Rename(p) PROVE EntryAccounted'
  <2>1. pc[p] = "rename" /\ UNCHANGED <<op, sid, ended, opened>> /\ op[p] \in Ops /\ p \notin ended
    BY <1>3 DEF Rename, locals, At, LockHeld
  <2> SUFFICES ASSUME NEW s \in Sessions, NEW x \in Procs, opened[s] = {x}
               PROVE /\ s \in mine'[x] <=> data'[s] = x \/ Finders(s, x)' # {}
                     /\ data'[s] = x => Finders(s, x)' = {}
                     /\ \A q1, q2 \in Finders(s, x)' : q1 = q2
    BY <2>1 DEF EntryAccounted
  <2>2. /\ s \in mine[x] <=> data[s] = x \/ Finders(s, x) # {}
        /\ data[s] = x => Finders(s, x) = {}
        /\ \A q1, q2 \in Finders(s, x) : q1 = q2
    BY DEF EntryAccounted
  <2>3. x # None  BY SessionsAssumption
  <2>4. CASE op[p] = "collect"
    <3>1. mine' = mine  BY <1>3, <2>4 DEF Rename
    <3>2. found[p] = {}  BY <2>1, <2>4 DEF Provenance, Copied
    <3>3. CASE data'[s] = data[s]
      <4>1. Finders(s, x)' = Finders(s, x)
        BY <1>3, <2>3, <2>4, <3>2, <3>3, RenameEffect, RenameReports DEF Finders
      <4> QED  BY <2>2, <3>1, <3>3, <4>1
    <3>4. CASE data[s] # x /\ data'[s] # data[s]
      <4>1. data'[s] # x  BY <1>3, <2>3, <2>4, <3>4, RenameEffect
      <4>2. Finders(s, x)' = Finders(s, x)
        BY <1>3, <2>4, <3>2, <3>4, RenameReports DEF Finders
      <4> QED  BY <2>2, <3>1, <3>4, <4>1, <4>2
    <3>5. CASE data[s] = x /\ data'[s] # data[s]
      <4>1. data'[s] = None /\ copy[p][s] = None  BY <1>3, <2>4, <3>5, RenameEffect
      <4>2. Finders(s, x)' = {p}
        BY <1>3, <2>2, <2>4, <3>5, <4>1, RenameReports DEF Finders
      <4> QED  BY <2>2, <2>3, <3>1, <3>5, <4>1, <4>2
    <3> QED  BY <3>3, <3>4, <3>5
  <2>5. CASE op[p] # "collect"
    <3>1. Finders(s, x)' = Finders(s, x)  BY <1>3, <2>5, RenameReports DEF Finders
    <3>2. CASE s # sid[p]
      <4>1. data'[s] = data[s]  BY <1>3, <2>5, <3>2, RenameEffect
      <4>2. s \in mine'[x] <=> s \in mine[x]  BY <1>3, <3>2 DEF Rename
      <4> QED  BY <2>2, <3>1, <4>1, <4>2
    <3>3. CASE s = sid[p]
      <4>1. p \in opened[s]  BY <2>1, <2>5, <3>3 DEF Provenance, Copied, Ops
      <4>2. p = x  BY <4>1
      <4>3. Finders(s, x) = {}  BY <2>1, <4>2 DEF Provenance
      <4>4. CASE op[p] = "register"
        <5>1. data'[s] = x /\ s \in mine'[x]  BY <1>3, <3>3, <4>2, <4>4, RenameEffect DEF Rename
        <5> QED  BY <3>1, <4>3, <5>1
      <4>5. CASE op[p] = "unregister"
        <5>1. data'[s] = None /\ s \notin mine'[x]
          BY <1>3, <3>3, <4>2, <4>5, RenameEffect DEF Rename
        <5> QED  BY <2>3, <3>1, <4>3, <5>1
      <4> QED  BY <2>1, <2>5, <4>4, <4>5 DEF Ops
    <3> QED  BY <3>2, <3>3
  <2> QED  BY <2>4, <2>5
<1>4. ASSUME NEW p \in Procs, NEW s \in Sessions, Close(p, s) PROVE EntryAccounted'
  BY <1>1, <1>4 DEF Close, history
<1>5. ASSUME NEW p \in Procs, Start(p) \/ End(p) \/ Lock(p) \/ Skip(p) \/ OpenFails(p) \/ Read(p)
                  \/ WriteStarts(p) \/ WriteEnds(p) \/ Fail(p) \/ Unlock(p)
      PROVE EntryAccounted'
  BY <1>1, <1>5 DEF Start, End, Lock, Skip, OpenFails, Read, WriteStarts, WriteEnds, Fail, Unlock, history
<1>6. CASE UNCHANGED vars  BY <1>1, <1>6 DEF vars
<1> QED  BY <1>2, <1>3, <1>4, <1>5, <1>6 DEF Next, Step, Work

\* No registration is lost and no crash is reported twice or to nobody, for
\* any number of windows and sessions: register, try_unregister and
\* collect_crashed over the one file.
THEOREM EntriesAccounted == Spec => []EntryAccounted
<1>1. IInv /\ [Next]_vars => IInv'
  BY TypeStep, LockHeldStep, CopyStep, ProvenanceStep, AccountedStep DEF IInv, Inv
<1>2. IInv => EntryAccounted  BY DEF IInv
<1> QED  BY <1>1, <1>2, InitInv, PTL DEF Spec
=============================================================================
