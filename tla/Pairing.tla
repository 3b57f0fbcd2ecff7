------------------------------- MODULE Pairing -------------------------------
(***************************************************************************)
(* Pairing of a machine with an account: handlePairAuthorize and           *)
(* handleAgentWs of cloud/src/index.ts, notifyPaired of the relay, and the *)
(* run_once loop and grokcraft.json of the machine's windows.              *)
(*                                                                         *)
(* The windows of a machine share one file that holds the machine's        *)
(* identity and token.  A window reads it each time it connects, and       *)
(* replaces it when a token arrives or is refused; the windows do not lock *)
(* each other out, and all use one temporary name.  The account's side is  *)
(* a request that stores a new token, sends it to every open socket of the *)
(* machine and marks the code as used, with an await between each two.     *)
(*                                                                         *)
(* A token is named after the request that made it.  Codes of one machine  *)
(* are told apart only by whether one of them can still be used.           *)
(***************************************************************************)
EXTENDS Naturals, Sequences, FiniteSets

CONSTANTS Windows,    \* Grok windows of the machine
          MaxAuths,   \* bound: authorizations, each with its fresh token
          MaxIds,     \* bound: machine identities ever made
          MaxFaults,  \* bound: losses, failed calls and killed windows
          Torn        \* content that does not parse

Requests == 1..MaxAuths
None == 0   \* no token
Ids == 1..MaxIds
Stores == [id : Ids, token : Requests \cup {None}]

ASSUME PairingAssumption ==
    /\ MaxAuths \in Nat /\ MaxIds \in Nat \ {0} /\ MaxFaults \in Nat
    /\ IsFiniteSet(Windows) /\ Torn \notin Stores

\* Enough inodes for the file, its temporary one and those still written to.
Inodes == 1..(Cardinality(Windows) + 2)

VARIABLES
    path, tmp,   \* the inode each name leads to, 0 if there is none
    content,     \* what each inode holds
    win,         \* each window: its place in run_once and its variables
    ids,         \* identities made so far
    relay,       \* the machine whose relay holds the window's socket, 0 if none
    down,        \* frames on their way to each window
    ghosts,      \* sockets a relay still takes for open: <<window, machine>>
    db,          \* machines.token_hash
    ready,       \* machines with a code that can be used
    auth,        \* handlePairAuthorize, per request
    faults,      \* faults so far
    disturbed,   \* history: two windows saved at once, or a read of the file failed
    sent,        \* history: what was sent to the windows last
    heard        \* history: the windows whose save of it, made or to come, must stand
disk == <<path, tmp, content>>
wires == <<relay, down, ghosts>>
cloud == <<db, ready, auth>>
history == <<disturbed, sent, heard>>
vars == <<disk, win, ids, wires, cloud, faults, history>>

Saving == {"create", "write", "rename"}
At(w, l) == win[w].pc = l
Goto(w, l) == win' = [win EXCEPT ![w].pc = l]
Fault == faults < MaxFaults /\ faults' = faults + 1
NoStore == [id |-> 1, token |-> None]
Off == [pc |-> "off", store |-> NoStore, then |-> "off", fd |-> 0]
\* Its local variables are of no more use.
Rest(w, l) == win' = [win EXCEPT ![w] = [Off EXCEPT !.pc = l]]
Overlap(ws) == Cardinality({w \in Windows : ws[w].pc \in Saving}) > 1
\* History: windows that have the frame still before them are not concerned by what becomes of the
\* file now; the others are once something else is saved too, or a save is cut short.
StillToSave == {w \in heard : down'[w] # <<>>}
NoteSave ==
    heard' = IF \A w \in Windows : win'[w].pc \in Saving => win'[w].store = sent THEN heard ELSE StillToSave

Init ==
    /\ path = 1 /\ tmp = 0 /\ content = [n \in Inodes |-> IF n = 1 THEN NoStore ELSE Torn]
    /\ win = [w \in Windows |-> Off] /\ ids = 1
    /\ relay = [w \in Windows |-> 0] /\ down = [w \in Windows |-> <<>>] /\ ghosts = {}
    /\ db = [i \in Ids |-> None] /\ ready = {}
    /\ auth = [a \in Requests |-> [pc |-> "idle", id |-> 1]]
    /\ faults = 0 /\ disturbed = FALSE /\ sent = NoStore /\ heard = {}

-----------------------------------------------------------------------------
(* grokcraft.json                                                          *)
Whole == path # 0 /\ content[path] # Torn
\* The window saves s and goes on at l.
Saves(w, s, l) == win' = [win EXCEPT ![w] = [pc |-> "create", store |-> s, then |-> l, fd |-> 0]]

\* load_or_create: whatever cannot be read is replaced by a new identity.
Load(w) ==
    /\ At(w, "off") /\ Whole
    /\ win' = [win EXCEPT ![w].pc = "dial", ![w].store = content[path]]
    /\ UNCHANGED <<disk, ids, wires, cloud, faults, history>>

MakeIdentity(w) ==
    /\ At(w, "off") /\ ids < MaxIds
    /\ IF Whole THEN Fault ELSE UNCHANGED faults
    /\ ids' = ids + 1
    /\ Saves(w, [id |-> ids + 1, token |-> None], "dial")
    /\ disturbed' = (disturbed \/ Whole \/ Overlap(win'))
    /\ UNCHANGED <<disk, wires, cloud, sent>> /\ NoteSave

\* Fault: the file itself is opened.
CreateInPlace(w) ==
    /\ At(w, "create") /\ path # 0
    /\ tmp' = path /\ content' = [content EXCEPT ![path] = Torn]
    /\ win' = [win EXCEPT ![w].pc = "write", ![w].fd = path]
    /\ UNCHANGED <<path, ids, wires, cloud, faults, history>>
\* A save that fails: load_or_create fails with it, the other callers log it.
AfterFailure(w) == IF win[w].then = "dial" THEN "off" ELSE win[w].then
InUse == {path, tmp} \cup {win[w].fd : w \in Windows}
\* Fault: create_new instead of create.
CreateExclusive(w) ==
    /\ At(w, "create")
    /\ IF tmp # 0 THEN Rest(w, AfterFailure(w)) /\ UNCHANGED disk
       ELSE \E n \in Inodes \ InUse :
              /\ tmp' = n /\ content' = [content EXCEPT ![n] = Torn] /\ UNCHANGED path
              /\ win' = [win EXCEPT ![w].pc = "write", ![w].fd = n]
    /\ UNCHANGED <<ids, wires, cloud, faults, history>>
\* store::save: File::create makes the temporary file or empties it ...
Create(w) ==
    /\ At(w, "create")
    /\ LET n == IF tmp # 0 THEN tmp ELSE CHOOSE m \in Inodes : m \notin InUse
       IN /\ tmp' = n
          /\ content' = [content EXCEPT ![n] = Torn]
          /\ win' = [win EXCEPT ![w].pc = "write", ![w].fd = n]
    /\ UNCHANGED <<path, ids, wires, cloud, faults, history>>

\* ... write_all overwrites what the file holds by then, and leaves the rest
\* of a longer text behind it ...
Written(old, new) == IF old # Torn /\ (old.token # None) /\ (new.token = None) THEN Torn ELSE new
Write(w) ==
    /\ At(w, "write")
    /\ content' = [content EXCEPT ![win[w].fd] = Written(@, win[w].store)]
    /\ win' = [win EXCEPT ![w].pc = "rename", ![w].fd = 0]
    /\ UNCHANGED <<path, tmp, ids, wires, cloud, faults, history>>

\* ... and rename fails if another window has renamed the file before.
Rename(w) ==
    /\ At(w, "rename")
    /\ IF tmp = 0 THEN Rest(w, AfterFailure(w)) /\ UNCHANGED disk
       ELSE /\ path' = tmp /\ tmp' = 0
            /\ content' = [n \in Inodes |-> IF n = tmp \/ n \in {win[v].fd : v \in Windows}
                                            THEN content[n] ELSE Torn]
            /\ IF win[w].then = "dial" THEN Goto(w, "dial") ELSE Rest(w, win[w].then)
    /\ UNCHANGED <<ids, wires, cloud, faults, history>>

SaveFails(w) ==
    /\ win[w].pc \in Saving /\ Fault
    /\ Rest(w, AfterFailure(w))
    /\ UNCHANGED <<disk, ids, wires, cloud, disturbed, sent>> /\ heard' = StillToSave

-----------------------------------------------------------------------------
(* run_once: the connection                                                *)
\* handleAgentWs with a token: the machine is looked up by it ...
Holders(t) == {i \in Ids : db[i] = t}
Admitted(w) ==
    /\ At(w, "dial") /\ win[w].store.token # None
    /\ \E i \in Holders(win[w].store.token) : relay' = [relay EXCEPT ![w] = i]
    /\ Rest(w, "accept")
    /\ UNCHANGED <<disk, ids, down, ghosts, cloud, faults, history>>

\* Fault: the refused token stays in the file.
RefusedKeeps(w) ==
    /\ At(w, "dial") /\ win[w].store.token # None /\ Holders(win[w].store.token) = {}
    /\ Rest(w, "off")
    /\ UNCHANGED <<disk, ids, wires, cloud, faults, history>>
\* ... and a refusal takes the token out of the file.
Refused(w) ==
    /\ At(w, "dial") /\ win[w].store.token # None /\ Holders(win[w].store.token) = {}
    /\ Saves(w, [win[w].store EXCEPT !.token = None], "off")
    /\ disturbed' = (disturbed \/ Overlap(win'))
    /\ UNCHANGED <<disk, ids, wires, cloud, faults, sent>> /\ NoteSave

\* Without a token: upsertPairing with a fresh code.
Offered(w) ==
    /\ At(w, "dial") /\ win[w].store.token = None
    /\ relay' = [relay EXCEPT ![w] = win[w].store.id]
    /\ ready' = ready \cup {win[w].store.id}
    /\ Rest(w, "accept")
    /\ UNCHANGED <<disk, ids, down, ghosts, db, auth, faults, history>>

\* The relay accepts the socket and closes the older one of this instance; a
\* window that was killed and started again is another instance.
Accept(w) ==
    /\ At(w, "accept")
    /\ Goto(w, "up")
    /\ ghosts' \in {ghosts, ghosts \ {<<w, relay[w]>>}}
    /\ UNCHANGED <<disk, ids, relay, down, cloud, faults, history>>

\* A paired frame.
Paired(w) ==
    /\ At(w, "up") /\ down[w] # <<>>
    /\ down' = [down EXCEPT ![w] = Tail(@)]
    /\ Saves(w, Head(down[w]), "up")
    /\ disturbed' = (disturbed \/ Overlap(win')) /\ NoteSave
    /\ UNCHANGED <<disk, ids, relay, ghosts, cloud, faults, sent>>

\* The connection is lost or the window killed, at any step.  The relay does
\* not know yet.
Connected(w) == At(w, "up") \/ (win[w].pc \in Saving /\ win[w].then = "up")
Leave(w) ==
    /\ ~At(w, "off") /\ Fault
    /\ win' = [win EXCEPT ![w] = Off]
    /\ relay' = [relay EXCEPT ![w] = 0] /\ down' = [down EXCEPT ![w] = <<>>]
    /\ ghosts' = IF Connected(w) THEN ghosts \cup {<<w, relay[w]>>} ELSE ghosts
    /\ heard' = IF win[w].pc \in Saving THEN StillToSave ELSE {v \in heard : v = w => down[v] = <<>>}
    /\ UNCHANGED <<disk, ids, cloud, disturbed, sent>>

\* webSocketClose.
GhostCloses ==
    \E g \in ghosts :
        /\ ghosts' = ghosts \ {g}
        /\ UNCHANGED <<disk, win, ids, relay, down, cloud, faults, history>>

-----------------------------------------------------------------------------
(* handlePairAuthorize                                                     *)
\* No later request has stored its token.
Newest(a) == \A b \in Requests : b > a => auth[b].pc = "idle"
\* The code is found and good, and upsertMachine stores the new token.
StoreToken(a) ==
    \E i \in ready :
        /\ auth[a].pc = "idle" /\ \A b \in 1..(a - 1) : auth[b].pc # "idle"
        /\ auth' = [auth EXCEPT ![a] = [pc |-> "stored", id |-> i]]
        /\ db' = [db EXCEPT ![i] = a]
        /\ heard' = {}
        /\ UNCHANGED <<disk, win, ids, wires, ready, faults, disturbed, sent>>

\* notifyPaired: no socket, and the answer is 409 though the token is stored.
Listeners(i) == {w \in Windows : Connected(w) /\ relay[w] = i}
notifyPaired(a) ==
    LET i == auth[a].id IN
    /\ auth[a].pc = "stored"
    /\ auth' = [auth EXCEPT ![a].pc =
                    IF Listeners(i) = {} /\ ~\E w \in Windows : <<w, i>> \in ghosts THEN "refused" ELSE "sent"]
    /\ down' = [w \in Windows |-> IF w \in Listeners(i) THEN Append(down[w], [id |-> i, token |-> a]) ELSE down[w]]
    /\ sent' = [id |-> i, token |-> a] /\ heard' = IF Newest(a) THEN Listeners(i) ELSE {}
    /\ UNCHANGED <<disk, win, ids, relay, ghosts, db, ready, faults, disturbed>>

\* consumePairing; another code of the machine may be left.  A request one of
\* whose calls fails goes no further, which every request may do.
Consume(a) ==
    /\ auth[a].pc = "sent"
    /\ auth' = [auth EXCEPT ![a].pc = "done"]
    /\ ready' \in {ready, ready \ {auth[a].id}}
    /\ UNCHANGED <<disk, win, ids, wires, db, faults, history>>

-----------------------------------------------------------------------------
Work(w) ==
    \/ Load(w) \/ (~Whole /\ MakeIdentity(w)) \/ Create(w) \/ Write(w) \/ Rename(w)
    \/ Admitted(w) \/ Refused(w) \/ Offered(w) \/ Accept(w) \/ Paired(w)
Next ==
    \/ \E w \in Windows : \/ Load(w) \/ MakeIdentity(w) \/ Create(w) \/ Write(w) \/ Rename(w) \/ SaveFails(w)
                          \/ Admitted(w) \/ Refused(w) \/ Offered(w) \/ Accept(w) \/ Paired(w) \/ Leave(w)
    \/ \E a \in Requests : StoreToken(a) \/ notifyPaired(a) \/ Consume(a)
    \/ GhostCloses
Spec == Init /\ [][Next]_vars
\* run_client retries for ever; requests and closes need not happen.
FairSpec == Spec /\ \A w \in Windows : WF_vars(Work(w))

-----------------------------------------------------------------------------
\* Unless two windows save at once or a read of the file fails, the machine
\* stays the machine it is: no kill, failure, refusal or pairing makes
\* load_or_create give it another identity.
IdentityKept ==
    [][Whole /\ ~disturbed' => Whole' /\ content'[path'].id = content[path].id]_vars

\* An authorization holds: once no save and no frame is under way, the token it stored and sent
\* is in the file, however the saves of the windows that received it overlapped on the one
\* temporary name, whoever left after its save, and whatever went wrong with the file before.
\* Not claimed, because the code does not keep it, after: a request that sends its token when a
\* later one has stored its own; a save of something else (an older frame, a refusal, a new
\* identity) during or after the last save of the token; a save cut short among them.
Settled == \A w \in Windows : down[w] = <<>> /\ win[w].pc \notin Saving
PairingHolds ==
    Settled /\ heard # {} => Whole /\ content[path] = sent /\ db[sent.id] = sent.token

\* A window that is not connected connects again, whatever became of the
\* token in its file, in the database and on the way between them.
EveryWindowReturns == \A w \in Windows : At(w, "off") ~> At(w, "up")
=============================================================================
