---------------------------- MODULE PairingProofs ----------------------------
(***************************************************************************)
(* Theorems about the pairing of a machine, for any number of windows,     *)
(* authorizations, identities and faults.                                  *)
(***************************************************************************)
EXTENDS Pairing, SequenceTheorems, FiniteSetTheorems, TLAPS

\* What the machine writes and is sent while its file can be read: its own identity is the first.
Own == [id : {1}, token : Requests \cup {None}]
Tokens == [id : {1}, token : Requests]
Places == {"off", "dial", "accept", "up"} \cup Saving
WindowState == [pc : Places, store : Own, then : {"off", "up"}, fd : Nat]

\* The file is whole, and the temporary one is what its only writer made of it.
DiskInv ==
    /\ path \in Inodes /\ tmp \in Inodes \cup {0} /\ tmp # path
    /\ content \in [Inodes -> Stores \cup {Torn}] /\ content[path] \in Own
    /\ \A w \in Windows :
          /\ win[w].pc # "write" => win[w].fd = 0
          /\ win[w].pc = "write" => win[w].fd = tmp /\ tmp # 0 /\ content[tmp] = Torn
          /\ win[w].pc = "rename" => tmp # 0 /\ content[tmp] = win[w].store
    /\ \A v, w \in Windows : win[v].pc \in Saving /\ win[w].pc \in Saving => v = w
\* Sockets, frames, tokens and requests are all of the one machine.
CloudInv ==
    /\ win \in [Windows -> WindowState]
    /\ relay \in [Windows -> {0, 1}] /\ down \in [Windows -> Seq(Tokens)]
    /\ \A w \in Windows : /\ Connected(w) \/ At(w, "accept") => relay[w] = 1
                          /\ down[w] # <<>> => Connected(w)
    /\ db \in [Ids -> Requests \cup {None}] /\ \A i \in Ids : db[i] # None => i = 1
    /\ ready \subseteq {1}
    /\ auth \in [Requests -> [pc : {"idle", "stored", "sent", "refused", "done"}, id : {1}]]

\* What holds of an undisturbed machine.
Calm == DiskInv /\ CloudInv
IInv == ~disturbed => Calm

-----------------------------------------------------------------------------
(* Windows and their places                                                *)
LEMMA Alone ==
    ASSUME NEW ws, ~Overlap(ws), NEW v \in Windows, NEW w \in Windows, ws[v].pc \in Saving, ws[w].pc \in Saving
    PROVE  v = w
<1> SUFFICES ASSUME v # w PROVE FALSE  OBVIOUS
<1> DEFINE S == {u \in Windows : ws[u].pc \in Saving}
<1>1. IsFiniteSet(S) /\ {v, w} \subseteq S  BY PairingAssumption, FS_Subset
<1>2. Cardinality({v, w}) = 2
  <2>1. IsFiniteSet({v}) /\ Cardinality({v}) = 1 /\ w \notin {v}  BY FS_Singleton
  <2>2. Cardinality({v} \cup {w}) = 1 + 1  BY <2>1, FS_AddElement
  <2>3. {v} \cup {w} = {v, w}  OBVIOUS
  <2> QED  BY <2>2, <2>3
<1>3. Cardinality({v, w}) =< Cardinality(S)  BY <1>1, FS_Subset
<1>4. Cardinality(S) \in Nat  BY <1>1, FS_CardinalityType
<1> QED  BY <1>2, <1>3, <1>4 DEF Overlap

LEMMA WinPut ==
    ASSUME CloudInv, NEW w \in Windows, NEW x \in WindowState, win' = [win EXCEPT ![w] = x]
    PROVE  /\ win' \in [Windows -> WindowState] /\ win'[w] = x
           /\ \A v \in Windows : v # w => win'[v] = win[v]
           /\ \A v \in Windows : win[v] \in WindowState
BY DEF CloudInv

Resting(l) == [Off EXCEPT !.pc = l]
LEMMA RestingKept ==
    ASSUME NEW l \in {"off", "dial", "accept", "up"}
    PROVE  /\ Resting(l) \in WindowState /\ Resting(l).pc = l /\ Resting(l).then = "off" /\ Resting(l).fd = 0
           /\ l \notin Saving
<1>1. NoStore \in Own  BY DEF NoStore, Own, None
<1>2. Resting(l) = [pc |-> l, store |-> NoStore, then |-> "off", fd |-> 0]  BY DEF Resting, Off
<1> QED  BY <1>1, <1>2 DEF WindowState, Places, Saving

LEMMA OffKept == Off \in WindowState /\ Off.pc = "off" /\ Off.then = "off" /\ Off.fd = 0 /\ "off" \notin Saving
<1>1. NoStore \in Own  BY DEF NoStore, Own, None
<1> QED  BY <1>1 DEF Off, WindowState, Places, Saving

Moved(x, l, n) == [x EXCEPT !.pc = l, !.fd = n]
LEMMA MovedKept ==
    ASSUME NEW x \in WindowState, NEW l \in Places, NEW n \in Nat
    PROVE  /\ Moved(x, l, n) \in WindowState /\ Moved(x, l, n).pc = l /\ Moved(x, l, n).fd = n
           /\ Moved(x, l, n).then = x.then /\ Moved(x, l, n).store = x.store
BY DEF Moved, WindowState

Begun(s, l) == [pc |-> "create", store |-> s, then |-> l, fd |-> 0]
LEMMA BegunKept ==
    ASSUME NEW s \in Own, NEW l \in {"off", "up"}
    PROVE  /\ Begun(s, l) \in WindowState /\ Begun(s, l).pc = "create" /\ Begun(s, l).store = s
           /\ Begun(s, l).then = l /\ Begun(s, l).fd = 0 /\ "create" \in Saving
BY DEF Begun, WindowState, Places, Saving

\* A window that saves nothing moves on: the file and the tokens on their way stay as they are.
LEMMA QuietMove ==
    ASSUME Calm, UNCHANGED <<path, tmp, content, down, db, auth>>,
           NEW w \in Windows, NEW x \in WindowState, win' = [win EXCEPT ![w] = x],
           win[w].pc \in {"off", "dial", "accept"}, x.pc \notin Saving, x.fd = 0,
           relay' \in [Windows -> {0, 1}], \A v \in Windows : v # w => relay'[v] = relay[v],
           x.pc \in {"accept", "up"} => relay'[w] = 1, ready' \subseteq {1}
    PROVE  Calm'
<1>0. /\ path' = path /\ tmp' = tmp /\ content' = content /\ down' = down /\ db' = db /\ auth' = auth
  OBVIOUS
<1>1. DiskInv /\ CloudInv  BY DEF Calm
<1>2. /\ win' \in [Windows -> WindowState] /\ win'[w] = x
      /\ \A v \in Windows : v # w => win'[v] = win[v]
  BY <1>1, WinPut
<1>3. win[w].pc \notin Saving /\ win[w].pc # "up"  BY DEF Saving
<1>4. down[w] = <<>>  BY <1>1, <1>3 DEF CloudInv, Connected, At
<1>5. DiskInv'
  <2>1. \A v \in Windows : /\ win'[v].pc # "write" => win'[v].fd = 0
                           /\ win'[v].pc = "write" => win'[v].fd = tmp /\ tmp # 0 /\ content[tmp] = Torn
                           /\ win'[v].pc = "rename" => tmp # 0 /\ content[tmp] = win'[v].store
    BY <1>1, <1>2 DEF DiskInv, Saving
  <2>2. \A u, v \in Windows : win'[u].pc \in Saving /\ win'[v].pc \in Saving => u = v
    BY <1>1, <1>2 DEF DiskInv
  <2> QED  BY <1>0, <1>1, <2>1, <2>2 DEF DiskInv
<1>6. CloudInv'
  <2>1. \A v \in Windows : /\ (Connected(v) \/ At(v, "accept"))' => relay'[v] = 1
                           /\ down[v] # <<>> => Connected(v)'
    BY <1>1, <1>2, <1>4 DEF CloudInv, Connected, At
  <2> QED  BY <1>0, <1>1, <1>2, <2>1 DEF CloudInv
<1> QED  BY <1>5, <1>6 DEF Calm

LEMMA LoadStep == ASSUME Calm, NEW w \in Windows, Load(w) PROVE Calm'
<1> DEFINE x == [win[w] EXCEPT !.pc = "dial", !.store = content[path]]
<1>1. /\ UNCHANGED <<path, tmp, content, down, db, auth>> /\ relay' = relay /\ ready' = ready
      /\ win[w].pc = "off" /\ win' = [win EXCEPT ![w] = x]
  BY DEF Load, disk, wires, cloud, history, At
<1>2. win[w] \in WindowState /\ content[path] \in Own /\ win[w].fd = 0
  BY <1>1 DEF Calm, CloudInv, DiskInv
<1>3. x \in WindowState /\ x.pc = "dial" /\ x.fd = 0 /\ x.pc \notin Saving  BY <1>2 DEF WindowState, Places, Saving
<1> HIDE DEF x
<1>4. relay' \in [Windows -> {0, 1}] /\ ready' \subseteq {1}  BY <1>1 DEF Calm, CloudInv
<1> QED  BY <1>1, <1>3, <1>4, QuietMove

LEMMA AdmittedStep == ASSUME Calm, NEW w \in Windows, Admitted(w) PROVE Calm'
<1> DEFINE x == Resting("accept")
<1>1. /\ UNCHANGED <<path, tmp, content, down, db, auth>> /\ ready' = ready
      /\ win[w].pc = "dial" /\ win' = [win EXCEPT ![w] = x] /\ win[w].store.token # None
  BY DEF Admitted, disk, cloud, history, At, Rest, Resting
<1>2. PICK i \in Holders(win[w].store.token) : relay' = [relay EXCEPT ![w] = i]  BY DEF Admitted
<1>3. i = 1  BY <1>1 DEF Holders, Calm, CloudInv
<1>4. x \in WindowState /\ x.pc = "accept" /\ x.fd = 0 /\ x.pc \notin Saving  BY RestingKept
<1> HIDE DEF x
<1>5. /\ relay' \in [Windows -> {0, 1}] /\ relay'[w] = 1 /\ ready' \subseteq {1}
      /\ \A v \in Windows : v # w => relay'[v] = relay[v]
  BY <1>1, <1>2, <1>3 DEF Calm, CloudInv
<1> QED  BY <1>1, <1>4, <1>5, QuietMove

LEMMA OfferedStep == ASSUME Calm, NEW w \in Windows, Offered(w) PROVE Calm'
<1> DEFINE x == Resting("accept")
<1>1. /\ UNCHANGED <<path, tmp, content, down, db, auth>>
      /\ ready' = ready \cup {win[w].store.id} /\ relay' = [relay EXCEPT ![w] = win[w].store.id]
      /\ win[w].pc = "dial" /\ win' = [win EXCEPT ![w] = x]
  BY DEF Offered, disk, history, At, Rest, Resting
<1>2. win[w].store.id = 1  BY DEF Calm, CloudInv, WindowState, Own
<1>4. x \in WindowState /\ x.pc = "accept" /\ x.fd = 0 /\ x.pc \notin Saving  BY RestingKept
<1> HIDE DEF x
<1>5. /\ relay' \in [Windows -> {0, 1}] /\ relay'[w] = 1 /\ ready' \subseteq {1}
      /\ \A v \in Windows : v # w => relay'[v] = relay[v]
  BY <1>1, <1>2 DEF Calm, CloudInv
<1> QED  BY <1>1, <1>4, <1>5, QuietMove

LEMMA AcceptStep == ASSUME Calm, NEW w \in Windows, Accept(w) PROVE Calm'
<1> DEFINE x == [win[w] EXCEPT !.pc = "up"]
<1>1. /\ UNCHANGED <<path, tmp, content, down, db, auth>> /\ relay' = relay /\ ready' = ready
      /\ win[w].pc = "accept" /\ win' = [win EXCEPT ![w] = x]
  BY DEF Accept, disk, cloud, history, At, Goto
<1>2. win[w] \in WindowState /\ relay[w] = 1 /\ win[w].fd = 0  BY <1>1 DEF Calm, CloudInv, DiskInv, At
<1>3. x \in WindowState /\ x.pc = "up" /\ x.fd = 0 /\ x.pc \notin Saving  BY <1>2 DEF WindowState, Places, Saving
<1> HIDE DEF x
<1>4. relay' \in [Windows -> {0, 1}] /\ relay'[w] = 1 /\ ready' \subseteq {1}  BY <1>1, <1>2 DEF Calm, CloudInv
<1> QED  BY <1>1, <1>3, <1>4, QuietMove

-----------------------------------------------------------------------------
(* Saving                                                                  *)
\* A window that saved nothing starts to: it is alone.
LEMMA SaveStarts ==
    ASSUME DiskInv, CloudInv, UNCHANGED <<path, tmp, content>>, NEW w \in Windows, NEW s \in Own, NEW l \in {"off", "up"},
           win' = [win EXCEPT ![w] = Begun(s, l)], ~Overlap(win')
    PROVE  /\ DiskInv' /\ win' \in [Windows -> WindowState] /\ win'[w] = Begun(s, l)
           /\ \A v \in Windows : v # w => win'[v] = win[v] /\ win'[v].pc \notin Saving
<1> DEFINE x == Begun(s, l)
<1>0. x \in WindowState /\ x.pc = "create" /\ x.fd = 0 /\ x.pc \in Saving  BY BegunKept
<1>1. win' = [win EXCEPT ![w] = x]  OBVIOUS
<1> HIDE DEF x
<1>2. win' \in [Windows -> WindowState] /\ win'[w] = x /\ \A v \in Windows : v # w => win'[v] = win[v]
  BY <1>0, <1>1, WinPut
<1>3. \A u, v \in Windows : win'[u].pc \in Saving /\ win'[v].pc \in Saving => u = v  BY Alone
<1>4. \A v \in Windows : v # w => win'[v].pc \notin Saving  BY <1>0, <1>2, <1>3
<1>5. DiskInv'
  <2>1. \A v \in Windows : /\ win'[v].pc # "write" => win'[v].fd = 0
                           /\ win'[v].pc = "write" => win'[v].fd = tmp /\ tmp # 0 /\ content[tmp] = Torn
                           /\ win'[v].pc = "rename" => tmp # 0 /\ content[tmp] = win'[v].store
    BY <1>0, <1>2 DEF DiskInv
  <2> QED  BY <1>3, <2>1 DEF DiskInv
<1> QED  BY <1>2, <1>4, <1>5 DEF x

LEMMA RefusedStep == ASSUME Calm, ~disturbed', NEW w \in Windows, Refused(w) PROVE Calm'
<1> DEFINE s == [win[w].store EXCEPT !.token = None]  x == Begun(s, "off")
<1>0. /\ path' = path /\ tmp' = tmp /\ content' = content /\ relay' = relay /\ down' = down
      /\ db' = db /\ ready' = ready /\ auth' = auth
      /\ win[w].pc = "dial" /\ win' = [win EXCEPT ![w] = x] /\ ~Overlap(win')
  BY DEF Refused, disk, wires, cloud, At, Saves, Begun
<1>1. DiskInv /\ CloudInv  BY DEF Calm
<1>2. s \in Own
  <2>1. win[w].store \in Own  BY <1>1 DEF CloudInv, WindowState
  <2> QED  BY <2>1 DEF Own
<1> HIDE DEF s
<1>3. /\ DiskInv' /\ win' \in [Windows -> WindowState] /\ win'[w] = x
      /\ \A v \in Windows : v # w => win'[v] = win[v] /\ win'[v].pc \notin Saving
  BY <1>0, <1>1, <1>2, SaveStarts
<1>4. x.pc = "create" /\ x.then = "off"  BY <1>2, BegunKept
<1> HIDE DEF x
<1>5. CloudInv'
  <2>1. down[w] = <<>>  BY <1>0, <1>1 DEF CloudInv, Connected, At, Saving
  <2>2. \A v \in Windows : /\ (Connected(v) \/ At(v, "accept"))' => relay'[v] = 1
                           /\ down[v] # <<>> => Connected(v)'
    BY <1>0, <1>1, <1>3, <1>4, <2>1 DEF CloudInv, Connected, At, Saving
  <2> QED  BY <1>0, <1>1, <1>3, <2>2 DEF CloudInv
<1> QED  BY <1>3, <1>5 DEF Calm

LEMMA PairedStep == ASSUME Calm, ~disturbed', NEW w \in Windows, Paired(w) PROVE Calm'
<1> DEFINE s == Head(down[w])  x == Begun(s, "up")
<1>0. /\ path' = path /\ tmp' = tmp /\ content' = content /\ relay' = relay
      /\ db' = db /\ ready' = ready /\ auth' = auth
      /\ down[w] # <<>> /\ down' = [down EXCEPT ![w] = Tail(down[w])]
      /\ win[w].pc = "up" /\ win' = [win EXCEPT ![w] = x] /\ ~Overlap(win')
  BY DEF Paired, disk, cloud, At, Saves, Begun
<1>1. DiskInv /\ CloudInv  BY DEF Calm
<1>2. down[w] \in Seq(Tokens) /\ down \in [Windows -> Seq(Tokens)] /\ relay[w] = 1
  BY <1>0, <1>1 DEF CloudInv, Connected, At
<1>3. /\ s \in Tokens /\ Tail(down[w]) \in Seq(Tokens) /\ Len(Tail(down[w])) = Len(down[w]) - 1
      /\ \A k \in 1..Len(Tail(down[w])) : Tail(down[w])[k] = down[w][k + 1]
  BY <1>0, <1>2, HeadTailProperties
<1>4. s = down[w][1] /\ Len(down[w]) \in Nat \ {0}  BY <1>0, <1>2, EmptySeq
<1> HIDE DEF s
<1>5. s \in Own  BY <1>3 DEF Tokens, Own
<1>6. /\ DiskInv' /\ win' \in [Windows -> WindowState] /\ win'[w] = x
      /\ \A v \in Windows : v # w => win'[v] = win[v] /\ win'[v].pc \notin Saving
  BY <1>0, <1>1, <1>5, SaveStarts
<1>7. x.pc = "create" /\ x.then = "up" /\ x.store = s /\ x.pc \in Saving  BY <1>5, BegunKept
<1> HIDE DEF x
<1>8. /\ down' \in [Windows -> Seq(Tokens)] /\ down'[w] = Tail(down[w])
      /\ \A v \in Windows : v # w => down'[v] = down[v]
  BY <1>0, <1>2, <1>3
<1>9. CloudInv'
  <2>2. \A v \in Windows : /\ (Connected(v) \/ At(v, "accept"))' => relay'[v] = 1
                           /\ down'[v] # <<>> => Connected(v)'
    BY <1>0, <1>1, <1>2, <1>6, <1>7, <1>8 DEF CloudInv, Connected, At
  <2> QED  BY <1>0, <1>1, <1>6, <1>8, <2>2 DEF CloudInv
<1> QED  BY <1>6, <1>9 DEF Calm

\* A saving window goes on to save, with the file itself as it was.
LEMMA SaveGoesOn ==
    ASSUME Calm, NEW w \in Windows, win[w].pc \in Saving, NEW l \in Saving, NEW n \in Nat,
           win' = [win EXCEPT ![w] = Moved(win[w], l, n)],
           UNCHANGED <<path, relay, down, db, ready, auth>>, content'[path] = content[path]
    PROVE  /\ CloudInv'
           /\ win'[w].pc = l /\ win'[w].fd = n /\ win'[w].store = win[w].store
           /\ \A v \in Windows : v # w => win'[v].pc \notin Saving /\ win'[v].fd = 0
<1> DEFINE x == Moved(win[w], l, n)
<1>0. /\ path' = path /\ relay' = relay /\ down' = down /\ db' = db /\ ready' = ready /\ auth' = auth
  OBVIOUS
<1>1. DiskInv /\ CloudInv /\ win[w] \in WindowState  BY DEF Calm, CloudInv
<1>2. x \in WindowState /\ x.pc = l /\ x.fd = n /\ x.then = win[w].then /\ x.store = win[w].store
  <2>1. l \in Places  BY DEF Places
  <2> QED  BY <1>1, <2>1, MovedKept
<1> HIDE DEF x
<1>3. win' \in [Windows -> WindowState] /\ win'[w] = x /\ \A v \in Windows : v # w => win'[v] = win[v]
  BY <1>1, <1>2, WinPut DEF x
<1>4. \A v \in Windows : v # w => win[v].pc \notin Saving  BY <1>1 DEF DiskInv
<1>5. \A v \in Windows : v # w => win'[v].pc \notin Saving /\ win'[v].fd = 0
  BY <1>1, <1>3, <1>4 DEF DiskInv, Saving
<1>6. \A v \in Windows : /\ win'[v].pc \in Saving <=> win[v].pc \in Saving
                         /\ win'[v].then = win[v].then /\ win'[v].store = win[v].store
                         /\ win[v].pc \notin Saving => win'[v] = win[v]
  BY <1>2, <1>3
<1>7. CloudInv'
  <2>1. \A v \in Windows : /\ (Connected(v) \/ At(v, "accept"))' => Connected(v) \/ At(v, "accept")
                           /\ Connected(v) => Connected(v)'
    BY <1>2, <1>3, <1>6 DEF Connected, At, Saving
  <2> QED  BY <1>0, <1>1, <1>3, <2>1 DEF CloudInv
<1> QED  BY <1>2, <1>3, <1>5, <1>7

\* There is an inode for the temporary file.
LEMMA FreeInode ==
    ASSUME DiskInv, tmp = 0, \A v \in Windows : win[v].fd = 0
    PROVE  LET n == CHOOSE m \in Inodes : m \notin InUse IN n \in Inodes /\ n # path
<1>1. Cardinality(Windows) \in Nat  BY PairingAssumption, FS_CardinalityType
<1>2. 1 \in Inodes /\ 2 \in Inodes /\ 0 \notin Inodes  BY <1>1 DEF Inodes
<1>3. InUse \subseteq {path, 0}  BY DEF InUse
<1>4. \E m \in Inodes : m \notin InUse  BY <1>2, <1>3
<1>5. path \in InUse  BY DEF InUse
<1> QED  BY <1>4, <1>5

LEMMA CreateStep == ASSUME Calm, NEW w \in Windows, Create(w) PROVE Calm'
<1> DEFINE n == IF tmp # 0 THEN tmp ELSE CHOOSE m \in Inodes : m \notin InUse
<1>0. /\ UNCHANGED <<path, relay, down, db, ready, auth>> /\ path' = path
      /\ win[w].pc = "create" /\ tmp' = n /\ content' = [content EXCEPT ![n] = Torn]
      /\ win' = [win EXCEPT ![w] = Moved(win[w], "write", n)]
  <2>1. /\ tmp' = n /\ content' = [content EXCEPT ![n] = Torn]
        /\ win' = [win EXCEPT ![w].pc = "write", ![w].fd = n]
    BY Zenon DEF Create
  <2>2. UNCHANGED <<path, relay, down, db, ready, auth>> /\ path' = path /\ win[w].pc = "create"
    BY DEF Create, wires, cloud, history, At
  <2> HIDE DEF n
  <2>3. win' = [win EXCEPT ![w] = Moved(win[w], "write", n)]  BY <2>1 DEF Moved
  <2> QED  BY <2>1, <2>2, <2>3
<1>1. DiskInv /\ CloudInv  BY DEF Calm
<1>2. win[w].pc \in Saving /\ "write" \in Saving  BY <1>0 DEF Saving
<1>3. \A v \in Windows : win[v].pc # "write"  BY <1>0, <1>1, <1>2 DEF DiskInv, Saving
<1>4. n \in Inodes /\ n # path
  <2>1. CASE tmp # 0  BY <1>1, <2>1 DEF DiskInv
  <2>2. CASE tmp = 0
    <3>1. \A v \in Windows : win[v].fd = 0  BY <1>1, <1>3 DEF DiskInv
    <3> QED  BY <1>1, <2>2, <3>1, FreeInode
  <2> QED  BY <2>1, <2>2
<1> HIDE DEF n
<1>5. n \in Nat /\ n # 0 /\ path \in Inodes
  <2>1. Cardinality(Windows) \in Nat  BY PairingAssumption, FS_CardinalityType
  <2> QED  BY <1>1, <1>4, <2>1 DEF Inodes, DiskInv
<1>6. /\ content' \in [Inodes -> Stores \cup {Torn}] /\ content'[n] = Torn /\ content'[path] = content[path]
  BY <1>0, <1>1, <1>4, <1>5 DEF DiskInv
<1>7. /\ CloudInv'
      /\ win'[w].pc = "write" /\ win'[w].fd = n
      /\ \A v \in Windows : v # w => win'[v].pc \notin Saving /\ win'[v].fd = 0
  BY <1>0, <1>2, <1>5, <1>6, SaveGoesOn
<1>8. DiskInv'
  <2>1. path' \in Inodes /\ tmp' \in Inodes \cup {0} /\ tmp' # path' /\ content'[path'] \in Own
    BY <1>0, <1>1, <1>4, <1>5, <1>6 DEF DiskInv
  <2>2. \A v \in Windows : /\ win'[v].pc # "write" => win'[v].fd = 0
                           /\ win'[v].pc = "write" => win'[v].fd = tmp' /\ tmp' # 0 /\ content'[tmp'] = Torn
                           /\ win'[v].pc = "rename" => tmp' # 0 /\ content'[tmp'] = win'[v].store
    BY <1>0, <1>5, <1>6, <1>7 DEF Saving
  <2> QED  BY <1>6, <1>7, <2>1, <2>2 DEF DiskInv
<1> QED  BY <1>7, <1>8 DEF Calm

LEMMA WriteStep == ASSUME Calm, NEW w \in Windows, Write(w) PROVE Calm'
<1> DEFINE n == win[w].fd  s == win[w].store
<1>0. /\ UNCHANGED <<path, relay, down, db, ready, auth>> /\ path' = path /\ tmp' = tmp
      /\ win[w].pc = "write" /\ content' = [content EXCEPT ![n] = Written(content[n], s)]
      /\ win' = [win EXCEPT ![w] = Moved(win[w], "rename", 0)]
  BY DEF Write, wires, cloud, history, At, Moved
<1>1. DiskInv /\ CloudInv  BY DEF Calm
<1>2. win[w].pc \in Saving /\ "rename" \in Saving /\ 0 \in Nat  BY <1>0 DEF Saving
<1>3. n = tmp /\ tmp # 0 /\ tmp \in Inodes /\ tmp # path /\ content[tmp] = Torn /\ path \in Inodes
  BY <1>0, <1>1 DEF DiskInv
<1>4. Written(content[n], s) = s  BY <1>3 DEF Written
<1>5. s \in Own /\ s \in Stores
  <2>1. s \in Own  BY <1>1 DEF CloudInv, WindowState
  <2>2. 1 \in Ids  BY PairingAssumption DEF Ids
  <2> QED  BY <2>1, <2>2 DEF Own, Stores
<1> HIDE DEF s
<1>6. /\ content' \in [Inodes -> Stores \cup {Torn}] /\ content'[tmp] = s /\ content'[path] = content[path]
  BY <1>0, <1>1, <1>3, <1>4, <1>5 DEF DiskInv
<1>7. /\ CloudInv'
      /\ win'[w].pc = "rename" /\ win'[w].fd = 0 /\ win'[w].store = s
      /\ \A v \in Windows : v # w => win'[v].pc \notin Saving /\ win'[v].fd = 0
  BY <1>0, <1>2, <1>6, SaveGoesOn DEF s
<1>8. DiskInv'
  <2>1. path' \in Inodes /\ tmp' \in Inodes \cup {0} /\ tmp' # path' /\ content'[path'] \in Own
    BY <1>0, <1>1, <1>3, <1>6 DEF DiskInv
  <2>2. \A v \in Windows : /\ win'[v].pc # "write" => win'[v].fd = 0
                           /\ win'[v].pc = "write" => win'[v].fd = tmp' /\ tmp' # 0 /\ content'[tmp'] = Torn
                           /\ win'[v].pc = "rename" => tmp' # 0 /\ content'[tmp'] = win'[v].store
    BY <1>0, <1>3, <1>6, <1>7 DEF Saving
  <2> QED  BY <1>6, <1>7, <2>1, <2>2 DEF DiskInv
<1> QED  BY <1>7, <1>8 DEF Calm

\* A window stops saving, with or without the file: nobody saves any more.
LEMMA SaveEnds ==
    ASSUME DiskInv, CloudInv, NEW w \in Windows, win[w].pc \in Saving, NEW x \in WindowState,
           win' = [win EXCEPT ![w] = x], x.pc \in {win[w].then, "off"}, x.fd = 0
    PROVE  /\ win' \in [Windows -> WindowState] /\ win'[w] = x
           /\ \A v \in Windows : v # w => win'[v] = win[v]
           /\ \A v \in Windows : win'[v].pc \notin Saving /\ win'[v].fd = 0
<1>1. win' \in [Windows -> WindowState] /\ win'[w] = x /\ \A v \in Windows : v # w => win'[v] = win[v]
  BY WinPut
<1>2. win[w].then \in {"off", "up"}  BY DEF CloudInv, WindowState
<1>3. x.pc \notin Saving  BY <1>2 DEF Saving
<1>4. \A v \in Windows : v # w => win[v].pc \notin Saving  BY DEF DiskInv
<1>5. \A v \in Windows : v # w => win[v].fd = 0  BY <1>4 DEF DiskInv, Saving
<1> QED  BY <1>1, <1>3, <1>4, <1>5

LEMMA RenameStep == ASSUME Calm, NEW w \in Windows, Rename(w) PROVE Calm'
<1> DEFINE l == win[w].then  x == Resting(l)  s == win[w].store
<1>1. DiskInv /\ CloudInv /\ win[w].pc = "rename" /\ win[w].pc \in Saving  BY DEF Calm, Rename, At, Saving
<1>2. tmp # 0 /\ tmp \in Inodes /\ content[tmp] = s  BY <1>1 DEF DiskInv
<1>3. l \in {"off", "up"} /\ s \in Own  BY <1>1 DEF CloudInv, WindowState
<1>4. /\ path' = tmp /\ tmp' = 0
      /\ content' = [n \in Inodes |-> IF n = tmp \/ n \in {win[v].fd : v \in Windows} THEN content[n] ELSE Torn]
      /\ relay' = relay /\ down' = down /\ db' = db /\ ready' = ready /\ auth' = auth
      /\ win' = [win EXCEPT ![w] = x]
  BY <1>2, <1>3 DEF Rename, wires, cloud, history, Rest, Resting
<1>5. x \in WindowState /\ x.pc = l /\ x.then = "off" /\ x.fd = 0  BY <1>3, RestingKept
<1> HIDE DEF x
<1>6. /\ win' \in [Windows -> WindowState] /\ win'[w] = x
      /\ \A v \in Windows : v # w => win'[v] = win[v]
      /\ \A v \in Windows : win'[v].pc \notin Saving /\ win'[v].fd = 0
  BY <1>1, <1>4, <1>5, SaveEnds
<1>7. content' \in [Inodes -> Stores \cup {Torn}] /\ content'[path'] = s
  <2>1. content \in [Inodes -> Stores \cup {Torn}]  BY <1>1 DEF DiskInv
  <2> QED  BY <1>2, <1>4, <2>1
<1>8. DiskInv'
  <2>1. \A v \in Windows : win'[v].pc # "write" /\ win'[v].pc # "rename"  BY <1>6 DEF Saving
  <2>2. 0 \notin Inodes  BY DEF Inodes
  <2> QED  BY <1>2, <1>3, <1>4, <1>6, <1>7, <2>1, <2>2 DEF DiskInv
<1>9. CloudInv'
  <2>1. \A v \in Windows : /\ (Connected(v) \/ At(v, "accept"))' => Connected(v) \/ At(v, "accept")
                           /\ Connected(v) => Connected(v)'
    BY <1>1, <1>3, <1>5, <1>6 DEF Connected, At
  <2> QED  BY <1>1, <1>4, <1>6, <2>1 DEF CloudInv
<1> QED  BY <1>8, <1>9 DEF Calm

LEMMA SaveFailsStep == ASSUME Calm, NEW w \in Windows, SaveFails(w) PROVE Calm'
<1> DEFINE l == win[w].then  x == Resting(l)
<1>1. DiskInv /\ CloudInv /\ win[w].pc \in Saving  BY DEF Calm, SaveFails
<1>2. l \in {"off", "up"}  BY <1>1 DEF CloudInv, WindowState
<1>3. AfterFailure(w) = l  BY <1>2 DEF AfterFailure
<1>4. /\ path' = path /\ tmp' = tmp /\ content' = content
      /\ relay' = relay /\ down' = down /\ db' = db /\ ready' = ready /\ auth' = auth
      /\ win' = [win EXCEPT ![w] = x]
  BY <1>3 DEF SaveFails, disk, wires, cloud, Rest, Resting
<1>5. x \in WindowState /\ x.pc = l /\ x.then = "off" /\ x.fd = 0  BY <1>2, RestingKept
<1> HIDE DEF x
<1>6. /\ win' \in [Windows -> WindowState] /\ win'[w] = x
      /\ \A v \in Windows : v # w => win'[v] = win[v]
      /\ \A v \in Windows : win'[v].pc \notin Saving /\ win'[v].fd = 0
  BY <1>1, <1>4, <1>5, SaveEnds
<1>8. DiskInv'
  <2>1. \A v \in Windows : win'[v].pc # "write" /\ win'[v].pc # "rename"  BY <1>6 DEF Saving
  <2> QED  BY <1>1, <1>4, <1>6, <2>1 DEF DiskInv
<1>9. CloudInv'
  <2>1. \A v \in Windows : /\ (Connected(v) \/ At(v, "accept"))' => Connected(v) \/ At(v, "accept")
                           /\ Connected(v) => Connected(v)'
    BY <1>1, <1>2, <1>5, <1>6 DEF Connected, At, Saving
  <2> QED  BY <1>1, <1>4, <1>6, <2>1 DEF CloudInv
<1> QED  BY <1>8, <1>9 DEF Calm

LEMMA LeaveStep == ASSUME Calm, NEW w \in Windows, Leave(w) PROVE Calm'
<1>0. /\ path' = path /\ tmp' = tmp /\ content' = content
      /\ db' = db /\ ready' = ready /\ auth' = auth
      /\ win' = [win EXCEPT ![w] = Off]
      /\ relay' = [relay EXCEPT ![w] = 0] /\ down' = [down EXCEPT ![w] = <<>>]
  BY DEF Leave, disk, cloud
<1>1. DiskInv /\ CloudInv  BY DEF Calm
<1>2. /\ Off \in WindowState /\ Off.pc = "off" /\ Off.then = "off" /\ Off.fd = 0 /\ "off" \notin Saving
  BY OffKept
<1>3. /\ win' \in [Windows -> WindowState] /\ win'[w] = Off
      /\ \A v \in Windows : v # w => win'[v] = win[v]
  BY <1>0, <1>1, <1>2, WinPut
<1>4. /\ relay' \in [Windows -> {0, 1}] /\ down' \in [Windows -> Seq(Tokens)] /\ down'[w] = <<>>
      /\ \A v \in Windows : v # w => relay'[v] = relay[v] /\ down'[v] = down[v]
  <2>1. relay \in [Windows -> {0, 1}] /\ down \in [Windows -> Seq(Tokens)]  BY <1>1 DEF CloudInv
  <2>2. <<>> \in Seq(Tokens)  OBVIOUS
  <2> QED  BY <1>0, <2>1, <2>2
<1>5. DiskInv'
  <2>1. \A v \in Windows : /\ win'[v].pc # "write" => win'[v].fd = 0
                           /\ win'[v].pc = "write" => win'[v].fd = tmp /\ tmp # 0 /\ content[tmp] = Torn
                           /\ win'[v].pc = "rename" => tmp # 0 /\ content[tmp] = win'[v].store
    BY <1>1, <1>2, <1>3 DEF DiskInv
  <2>2. \A u, v \in Windows : win'[u].pc \in Saving /\ win'[v].pc \in Saving => u = v
    BY <1>1, <1>2, <1>3 DEF DiskInv
  <2> QED  BY <1>0, <1>1, <2>1, <2>2 DEF DiskInv
<1>6. CloudInv'
  <2>1. \A v \in Windows : /\ (Connected(v) \/ At(v, "accept"))' => relay'[v] = 1
                           /\ down'[v] # <<>> => Connected(v)'
    <3>3. \A v \in Windows : /\ Connected(v) \/ At(v, "accept") => relay[v] = 1
                             /\ down[v] # <<>> => Connected(v)
      BY <1>1 DEF CloudInv
    <3> TAKE v \in Windows
    <3>4. CASE v = w
      <4>1. win'[v].pc = "off" /\ win'[v].pc \notin Saving /\ down'[v] = <<>>  BY <1>2, <1>3, <1>4, <3>4
      <4>2. ~(Connected(v) \/ At(v, "accept"))'  BY <4>1 DEF Connected, At
      <4> QED  BY <4>1, <4>2
    <3>5. CASE v # w
      <4>1. win'[v] = win[v] /\ relay'[v] = relay[v] /\ down'[v] = down[v]  BY <1>3, <1>4, <3>5
      <4> QED  BY <3>3, <4>1 DEF Connected, At
    <3> QED  BY <3>4, <3>5
  <2> QED  BY <1>0, <1>1, <1>3, <1>4, <2>1 DEF CloudInv
<1> QED  BY <1>5, <1>6 DEF Calm

-----------------------------------------------------------------------------
(* Requests                                                                *)
LEMMA StoreStep == ASSUME Calm, NEW a \in Requests, StoreToken(a) PROVE Calm'
<1>1. PICK i \in ready : /\ auth' = [auth EXCEPT ![a] = [pc |-> "stored", id |-> i]]
                         /\ db' = [db EXCEPT ![i] = a]
  BY DEF StoreToken
<1>2. /\ path' = path /\ tmp' = tmp /\ content' = content /\ win' = win /\ relay' = relay /\ down' = down
      /\ ready' = ready
  BY DEF StoreToken, disk, wires
<1>3. DiskInv /\ CloudInv  BY DEF Calm
<1>4. i = 1 /\ 1 \in Ids
  <2>1. 1 \in Ids  BY PairingAssumption DEF Ids
  <2> QED  BY <1>3, <2>1 DEF CloudInv
<1>5. /\ db' \in [Ids -> Requests \cup {None}] /\ db'[1] = a /\ \A j \in Ids : db'[j] # None => j = 1
      /\ auth' \in [Requests -> [pc : {"idle", "stored", "sent", "refused", "done"}, id : {1}]]
      /\ \A b \in Requests : b # a => auth'[b] = auth[b]
  BY <1>1, <1>3, <1>4 DEF CloudInv
<1>6. DiskInv'  BY <1>2, <1>3 DEF DiskInv
<1>7. CloudInv'  BY <1>2, <1>3, <1>5 DEF CloudInv, Connected, At
<1> QED  BY <1>6, <1>7 DEF Calm

\* Every window on the machine's relay is sent the token that was stored last, behind whatever
\* it was sent before.
LEMMA NotifyStep == ASSUME Calm, NEW a \in Requests, notifyPaired(a) PROVE Calm'
<1> DEFINE t == [id |-> 1, token |-> a]
           r == IF Listeners(1) = {} /\ ~\E w \in Windows : <<w, 1>> \in ghosts THEN "refused" ELSE "sent"
<1>1. DiskInv /\ CloudInv  BY DEF Calm
<1>2. auth[a].id = 1  BY <1>1 DEF CloudInv
<1>3. /\ path' = path /\ tmp' = tmp /\ content' = content /\ win' = win /\ relay' = relay
      /\ db' = db /\ ready' = ready
      /\ auth[a].pc = "stored"
      /\ auth' = [auth EXCEPT ![a].pc = r]
      /\ down' = [w \in Windows |-> IF w \in Listeners(1) THEN Append(down[w], t) ELSE down[w]]
  BY <1>2 DEF notifyPaired, disk
<1>4. \A w \in Windows : w \in Listeners(1) <=> Connected(w)  BY <1>1 DEF CloudInv, Listeners
<1>5. t \in Tokens  BY DEF Tokens
<1>6. r \in {"refused", "sent"}  OBVIOUS
<1> HIDE DEF t, r
<1>7. /\ auth' \in [Requests -> [pc : {"idle", "stored", "sent", "refused", "done"}, id : {1}]]
      /\ auth'[a].pc # "stored" /\ \A b \in Requests : b # a => auth'[b] = auth[b]
  BY <1>1, <1>3, <1>6 DEF CloudInv
<1>8. /\ down' \in [Windows -> Seq(Tokens)]
      /\ \A w \in Windows : /\ Connected(w) => /\ Len(down'[w]) = Len(down[w]) + 1
                                               /\ down'[w][Len(down[w]) + 1] = t
                                               /\ down'[w] # <<>>
                            /\ ~Connected(w) => down'[w] = <<>>
  <2>1. down \in [Windows -> Seq(Tokens)]  BY <1>1 DEF CloudInv
  <2>2. \A q \in Seq(Tokens) : /\ Append(q, t) \in Seq(Tokens) /\ Len(Append(q, t)) = Len(q) + 1
                               /\ Append(q, t)[Len(q) + 1] = t
    BY <1>5
  <2>3. \A q \in Seq(Tokens) : Append(q, t) # <<>>
    <3> TAKE q \in Seq(Tokens)
    <3>1. Len(Append(q, t)) = Len(q) + 1 /\ Len(q) \in Nat  BY <2>2
    <3>2. Len(q) + 1 # 0 /\ Len(<<>>) = 0  BY <3>1
    <3> QED  BY <3>1, <3>2
  <2>4. down' \in [Windows -> Seq(Tokens)]  BY <1>3, <2>1, <2>2
  <2>5. \A w \in Windows : Connected(w) => down'[w] = Append(down[w], t)  BY <1>3, <1>4
  <2>6. \A w \in Windows : ~Connected(w) => down'[w] = <<>>  BY <1>1, <1>3, <1>4 DEF CloudInv
  <2> QED  BY <2>1, <2>2, <2>3, <2>4, <2>5, <2>6
<1>9. DiskInv'  BY <1>1, <1>3 DEF DiskInv
<1>10. \A w \in Windows : Connected(w)' <=> Connected(w)  BY <1>3 DEF Connected, At
<1>11. CloudInv'
  <2>1. \A w \in Windows : /\ (Connected(w) \/ At(w, "accept"))' => relay'[w] = 1
                           /\ down'[w] # <<>> => Connected(w)'
    BY <1>1, <1>3, <1>8, <1>10 DEF CloudInv, At
  <2> QED  BY <1>1, <1>3, <1>7, <1>8, <2>1 DEF CloudInv
<1> QED  BY <1>9, <1>11 DEF Calm

LEMMA ConsumeStep == ASSUME Calm, NEW a \in Requests, Consume(a) PROVE Calm'
<1>1. DiskInv /\ CloudInv  BY DEF Calm
<1>2. /\ path' = path /\ tmp' = tmp /\ content' = content /\ win' = win /\ relay' = relay /\ down' = down
      /\ db' = db
      /\ ready' \subseteq {1} /\ auth[a].pc = "sent" /\ auth' = [auth EXCEPT ![a].pc = "done"]
  BY <1>1 DEF Consume, disk, wires, history, CloudInv
<1>3. /\ auth' \in [Requests -> [pc : {"idle", "stored", "sent", "refused", "done"}, id : {1}]]
      /\ auth'[a].pc = "done" /\ \A b \in Requests : b # a => auth'[b] = auth[b]
  BY <1>1, <1>2 DEF CloudInv
<1>4. DiskInv'  BY <1>1, <1>2 DEF DiskInv
<1>5. CloudInv'  BY <1>1, <1>2, <1>3 DEF CloudInv, Connected, At
<1> QED  BY <1>4, <1>5 DEF Calm

\* A step that touches none of it.
LEMMA NothingMoved ==
    ASSUME Calm, UNCHANGED <<path, tmp, content, win, relay, down, db, ready, auth>>
    PROVE  Calm'
<1>0. /\ path' = path /\ tmp' = tmp /\ content' = content /\ win' = win /\ relay' = relay /\ down' = down
      /\ db' = db /\ ready' = ready /\ auth' = auth
  OBVIOUS
<1>1. DiskInv /\ CloudInv  BY DEF Calm
<1>2. DiskInv'  BY <1>0, <1>1 DEF DiskInv
<1>3. CloudInv'  BY <1>0, <1>1 DEF CloudInv, Connected, At
<1> QED  BY <1>2, <1>3 DEF Calm

-----------------------------------------------------------------------------
(* Steps                                                                   *)
\* While the file is whole, no window makes an identity unless a read failed.
LEMMA NoNewIdentity == ASSUME Calm, ~disturbed', NEW w \in Windows, MakeIdentity(w) PROVE FALSE
<1>1. content[path] \in Own /\ path \in Inodes  BY DEF Calm, DiskInv
<1>2. path # 0
  <2>1. 0 \notin Inodes  BY DEF Inodes
  <2> QED  BY <1>1, <2>1
<1>3. content[path] \in Stores
  <2>1. 1 \in Ids  BY PairingAssumption DEF Ids
  <2> QED  BY <1>1, <2>1 DEF Own, Stores
<1>4. Whole  BY <1>2, <1>3, PairingAssumption DEF Whole
<1> QED  BY <1>4 DEF MakeIdentity

LEMMA StayCalm == ASSUME Calm, ~disturbed', [Next]_vars PROVE Calm'
<1>1. ASSUME NEW w \in Windows,
             \/ Load(w) \/ MakeIdentity(w) \/ Create(w) \/ Write(w) \/ Rename(w) \/ SaveFails(w)
             \/ Admitted(w) \/ Refused(w) \/ Offered(w) \/ Accept(w) \/ Paired(w) \/ Leave(w)
      PROVE  Calm'
  BY <1>1, LoadStep, NoNewIdentity, CreateStep, WriteStep, RenameStep, SaveFailsStep, AdmittedStep,
     RefusedStep, OfferedStep, AcceptStep, PairedStep, LeaveStep
<1>2. ASSUME NEW a \in Requests, StoreToken(a) \/ notifyPaired(a) \/ Consume(a) PROVE Calm'
  BY <1>2, StoreStep, NotifyStep, ConsumeStep
<1>3. CASE GhostCloses
  <2>1. UNCHANGED <<path, tmp, content, win, relay, down, db, ready, auth>>
    BY <1>3 DEF GhostCloses, disk, cloud, history
  <2> QED  BY <2>1, NothingMoved
<1>4. CASE UNCHANGED vars
  <2>1. UNCHANGED <<path, tmp, content, win, relay, down, db, ready, auth>>
    BY <1>4 DEF vars, disk, wires, cloud, history
  <2> QED  BY <2>1, NothingMoved
<1> QED  BY <1>1, <1>2, <1>3, <1>4 DEF Next

\* What disturbed the machine stays on record.
LEMMA DisturbedStays == ASSUME disturbed, [Next]_vars PROVE disturbed'
<1>1. ASSUME NEW w \in Windows,
             \/ Load(w) \/ MakeIdentity(w) \/ Create(w) \/ Write(w) \/ Rename(w) \/ SaveFails(w)
             \/ Admitted(w) \/ Refused(w) \/ Offered(w) \/ Accept(w) \/ Paired(w) \/ Leave(w)
      PROVE  disturbed'
  BY <1>1 DEF Load, MakeIdentity, Create, Write, Rename, SaveFails, Admitted, Refused, Offered, Accept,
     Paired, Leave, history
<1>2. ASSUME NEW a \in Requests, StoreToken(a) \/ notifyPaired(a) \/ Consume(a) PROVE disturbed'
  BY <1>2 DEF StoreToken, notifyPaired, Consume, history
<1>3. CASE GhostCloses  BY <1>3 DEF GhostCloses, history
<1>4. CASE UNCHANGED vars  BY <1>4 DEF vars, history
<1> QED  BY <1>1, <1>2, <1>3, <1>4 DEF Next

LEMMA InitCalm == Init => Calm
<1> SUFFICES ASSUME Init PROVE Calm  OBVIOUS
<1>1. Cardinality(Windows) \in Nat  BY PairingAssumption, FS_CardinalityType
<1>2. 1 \in Inodes /\ 0 \notin Inodes /\ 1 \in Ids  BY <1>1, PairingAssumption DEF Inodes, Ids
<1>3. NoStore \in Own /\ NoStore \in Stores  BY <1>2 DEF NoStore, Own, Stores, None
<1>4. Off \in WindowState /\ Off.pc = "off" /\ Off.then = "off" /\ Off.fd = 0 /\ "off" \notin Saving
  BY OffKept
<1>5. DiskInv
  <2>1. content \in [Inodes -> Stores \cup {Torn}] /\ content[1] = NoStore  BY <1>2, <1>3 DEF Init
  <2>2. \A w \in Windows : win[w] = Off  BY DEF Init
  <2> QED  BY <1>2, <1>3, <1>4, <2>1, <2>2 DEF Init, DiskInv
<1>6. CloudInv
  <2>1. <<>> \in Seq(Tokens)  OBVIOUS
  <2>2. win \in [Windows -> WindowState] /\ \A w \in Windows : win[w].pc = "off" /\ down[w] = <<>>
    BY <1>4 DEF Init
  <2>3. \A w \in Windows : ~Connected(w) /\ ~At(w, "accept")  BY <1>4, <2>2 DEF Connected, At
  <2>4. relay \in [Windows -> {0, 1}] /\ down \in [Windows -> Seq(Tokens)]  BY <2>1 DEF Init
  <2>5. auth \in [Requests -> [pc : {"idle", "stored", "sent", "refused", "done"}, id : {1}]]  BY DEF Init
  <2>6. db \in [Ids -> Requests \cup {None}] /\ \A i \in Ids : db[i] = None  BY DEF Init
  <2>7. ready = {}  BY DEF Init
  <2> QED  BY <2>2, <2>3, <2>4, <2>5, <2>6, <2>7 DEF CloudInv
<1> QED  BY <1>5, <1>6 DEF Calm

-----------------------------------------------------------------------------
\* The inductive invariant: unless the machine was disturbed, its one identity is in the file, on
\* every socket and in every request.
THEOREM PairingInvariant == Spec => []IInv
<1>1. Init => IInv  BY InitCalm DEF IInv
<1>2. IInv /\ [Next]_vars => IInv'  BY StayCalm, DisturbedStays DEF IInv
<1> QED  BY <1>1, <1>2, PTL DEF Spec

\* load_or_create keeps the machine's identity through kills, failed saves, refusals and pairings,
\* unless two windows save at once or a read of grokcraft.json fails.
THEOREM IdentityStays == Spec => IdentityKept
<1>1. ASSUME IInv, IInv', [Next]_vars
      PROVE  [Whole /\ ~disturbed' => Whole' /\ content'[path'].id = content[path].id]_vars
  <2> SUFFICES ASSUME Whole, ~disturbed' PROVE Whole' /\ content'[path'].id = content[path].id
    OBVIOUS
  <2>1. Calm /\ Calm'  BY <1>1, DisturbedStays DEF IInv
  <2>2. content[path] \in Own /\ content'[path'] \in Own /\ path' \in Inodes  BY <2>1 DEF Calm, DiskInv
  <2>3. 1 \in Ids /\ 0 \notin Inodes  BY PairingAssumption DEF Ids, Inodes
  <2>4. content'[path'] \in Stores  BY <2>2, <2>3 DEF Own, Stores
  <2>5. Whole'  BY <2>2, <2>3, <2>4, PairingAssumption DEF Whole
  <2> QED  BY <2>2, <2>5 DEF Own
<1> QED  BY <1>1, PairingInvariant, PTL DEF Spec, IdentityKept

-----------------------------------------------------------------------------
(* What holds however the saves overlapped                                 *)
AnyWindow == [pc : Places, store : Stores, then : {"off", "up", "dial"}, fd : Inodes \cup {0}]
Frames == [id : Ids, token : Requests]
Stages == {"idle", "stored", "sent", "refused", "done"}
FileTypes ==
    /\ path \in Inodes /\ tmp \in Inodes \cup {0} /\ content \in [Inodes -> Stores \cup {Torn}]
    /\ win \in [Windows -> AnyWindow] /\ \A w \in Windows : win[w].pc = "write" <=> win[w].fd # 0
CloudTypes ==
    /\ ids \in Ids /\ ready \subseteq Ids /\ db \in [Ids -> Requests \cup {None}]
    /\ auth \in [Requests -> [pc : Stages, id : Ids]] /\ down \in [Windows -> Seq(Frames)]
    /\ sent \in Stores /\ heard \subseteq Windows
\* Requests store their tokens one after the other, and the last of them is in the database until it is sent.
RequestsInOrder ==
    /\ \A a, b \in Requests : auth[a].pc # "idle" /\ b < a => auth[b].pc # "idle"
    /\ \A a \in Requests : auth[a].pc = "stored" /\ Newest(a) => db[auth[a].id] = a

\* A window took the token from its socket, and what becomes of the file matters.
Due == \E v \in heard : down[v] = <<>>
AllSaveIt == \A w \in Windows : win[w].pc \in Saving => win[w].store = sent
Beginning == \E w \in Windows : win[w].pc = "create"
\* The inode the name of the file leads to once those who write and rename are done ...
Leading == IF tmp # 0 /\ \E w \in Windows : win[w].pc \in {"write", "rename"} THEN tmp ELSE path
\* ... and whether it holds the token then.
Good(n) == content[n] = sent \/ \E w \in Windows : win[w].pc = "write" /\ win[w].fd = n
InHand == Due => AllSaveIt /\ (Beginning \/ Good(Leading))
FramesEnd == \A v \in heard : down[v] # <<>> => down[v][Len(down[v])] = sent
TokenKept == heard # {} => db[sent.id] = sent.token /\ sent.token # None
Delivery == InHand /\ FramesEnd /\ TokenKept

Stands == FileTypes /\ CloudTypes /\ RequestsInOrder /\ Delivery

\* Whoever moves, no file and no save: the token is where it was.
LEMMA Untouched ==
    ASSUME Delivery, UNCHANGED <<path, tmp, content, sent, db>>, heard' \subseteq heard,
           \A v \in heard' : down'[v] = down[v],
           \A v \in Windows : win'[v] = win[v] \/ (win[v].pc \notin Saving /\ win'[v].pc \notin Saving)
    PROVE  Delivery'
<1>0. path' = path /\ tmp' = tmp /\ content' = content /\ sent' = sent /\ db' = db  OBVIOUS
<1>1. FramesEnd' /\ TokenKept'  BY <1>0 DEF Delivery, FramesEnd, TokenKept
<1>2. ASSUME Due' PROVE (AllSaveIt /\ (Beginning \/ Good(Leading)))'
  <2>1. Due  BY <1>2 DEF Due
  <2>2. AllSaveIt /\ (Beginning \/ Good(Leading))  BY <2>1 DEF Delivery, InHand
  <2>3. \A v \in Windows, l \in Saving : win[v].pc = l <=> win'[v].pc = l  OBVIOUS
  <2>4. \A v \in Windows : win'[v].pc \in Saving => win'[v] = win[v]  OBVIOUS
  <2>5. \A v \in Windows : win[v].pc \in Saving => win'[v] = win[v]  OBVIOUS
  <2>6. AllSaveIt'  BY <1>0, <2>2, <2>4 DEF AllSaveIt
  <2>7. Beginning' <=> Beginning  BY <2>3 DEF Beginning, Saving
  <2>8. Leading' = Leading  BY <1>0, <2>3 DEF Leading, Saving
  <2>9. ASSUME NEW n, Good(n) PROVE Good(n)'  BY <1>0, <2>5, <2>9 DEF Good, Saving
  <2> QED  BY <2>2, <2>6, <2>7, <2>8, <2>9
<1> QED  BY <1>1, <1>2 DEF Delivery, InHand

\* A window starts to save: the token, or no window is due any more.
LEMMA SaveBegins ==
    ASSUME Delivery, NoteSave, sent' = sent, db' = db, NEW w \in Windows, win'[w].pc = "create",
           \A v \in heard : down'[v] # <<>> => down[v] # <<>> /\ down'[v][Len(down'[v])] = down[v][Len(down[v])]
    PROVE  Delivery'
<1>1. heard' \subseteq heard  BY DEF NoteSave, StillToSave
<1>2. FramesEnd' /\ TokenKept'  BY <1>1 DEF Delivery, FramesEnd, TokenKept
<1>3. Beginning'  BY DEF Beginning
<1>4. CASE \A v \in Windows : win'[v].pc \in Saving => win'[v].store = sent
  BY <1>2, <1>3, <1>4 DEF Delivery, InHand, AllSaveIt
<1>5. CASE ~ \A v \in Windows : win'[v].pc \in Saving => win'[v].store = sent
  <2>1. heard' = StillToSave  BY <1>5, Zenon DEF NoteSave
  <2>2. ~Due'  BY <2>1 DEF StillToSave, Due
  <2> QED  BY <1>2, <2>2 DEF Delivery, InHand
<1> QED  BY <1>4, <1>5

\* A save is cut short: no window is due any more.
LEMMA SaveCut ==
    ASSUME Delivery, heard' = StillToSave, sent' = sent, db' = db,
           \A v \in heard : down'[v] # <<>> => down'[v] = down[v]
    PROVE  Delivery'
<1>1. ~Due' /\ heard' \subseteq heard  BY DEF StillToSave, Due
<1> QED  BY <1>1 DEF Delivery, InHand, FramesEnd, TokenKept

LEMMA OneMoves ==
    ASSUME FileTypes, NEW w \in Windows, NEW x \in AnyWindow, x.pc = "write" <=> x.fd # 0,
           win' = [win EXCEPT ![w] = x],
           path' \in Inodes, tmp' \in Inodes \cup {0}, content' \in [Inodes -> Stores \cup {Torn}]
    PROVE  FileTypes' /\ win'[w] = x /\ \A v \in Windows : v # w => win'[v] = win[v]
BY DEF FileTypes

LEMMA AnyBegun ==
    ASSUME NEW s \in Stores, NEW l \in {"off", "up", "dial"}
    PROVE  /\ Begun(s, l) \in AnyWindow /\ Begun(s, l).pc = "create"
           /\ Begun(s, l).pc = "write" <=> Begun(s, l).fd # 0
BY DEF Begun, AnyWindow, Places, Saving

LEMMA AnyResting ==
    ASSUME NEW l \in {"off", "dial", "accept", "up"}
    PROVE  /\ Resting(l) \in AnyWindow /\ Resting(l).pc = l /\ l \notin Saving
           /\ Resting(l).pc = "write" <=> Resting(l).fd # 0
<1>1. NoStore \in Stores
  <2>1. 1 \in Ids  BY PairingAssumption DEF Ids
  <2> QED  BY <2>1 DEF NoStore, Stores, None
<1>2. Resting(l) = [pc |-> l, store |-> NoStore, then |-> "off", fd |-> 0]  BY DEF Resting, Off
<1> QED  BY <1>1, <1>2 DEF AnyWindow, Places, Saving

\* Nothing of the cloud but what a window's own step changes.
LEMMA SameCloud ==
    ASSUME CloudTypes, RequestsInOrder, db' = db, auth' = auth, sent' = sent, heard' \subseteq heard,
           ids' \in Ids, ready' \subseteq Ids, down' \in [Windows -> Seq(Frames)]
    PROVE  CloudTypes' /\ RequestsInOrder'
BY DEF CloudTypes, RequestsInOrder, Newest

\* A window that saves nothing goes from place to place.
LEMMA GoesOn ==
    ASSUME Stands, UNCHANGED <<path, tmp, content, sent, db, auth, heard, down, ids>>, ready' \subseteq Ids,
           NEW w \in Windows, NEW x \in AnyWindow, x.pc = "write" <=> x.fd # 0,
           win' = [win EXCEPT ![w] = x], win[w].pc \notin Saving, x.pc \notin Saving
    PROVE  Stands'
<1>0. /\ path' = path /\ tmp' = tmp /\ content' = content /\ sent' = sent /\ db' = db /\ auth' = auth
      /\ heard' = heard /\ down' = down /\ ids' = ids
  OBVIOUS
<1>1. FileTypes /\ CloudTypes /\ RequestsInOrder /\ Delivery  BY DEF Stands
<1>2. path' \in Inodes /\ tmp' \in Inodes \cup {0} /\ content' \in [Inodes -> Stores \cup {Torn}]
  BY <1>0, <1>1 DEF FileTypes
<1>3. FileTypes' /\ win'[w] = x /\ \A v \in Windows : v # w => win'[v] = win[v]  BY <1>1, <1>2, OneMoves
<1>4. CloudTypes' /\ RequestsInOrder'
  <2>1. ids' \in Ids /\ down' \in [Windows -> Seq(Frames)]  BY <1>0, <1>1 DEF CloudTypes
  <2> QED  BY <1>0, <1>1, <2>1, SameCloud
<1>5. Delivery'  BY <1>0, <1>1, <1>3, Untouched
<1> QED  BY <1>3, <1>4, <1>5 DEF Stands

LEMMA LoadStands == ASSUME Stands, NEW w \in Windows, Load(w) PROVE Stands'
<1> DEFINE x == [win[w] EXCEPT !.pc = "dial", !.store = content[path]]
<1>1. /\ UNCHANGED <<path, tmp, content, sent, db, auth, heard, down, ids>> /\ ready' = ready
      /\ win[w].pc = "off" /\ win' = [win EXCEPT ![w] = x] /\ content[path] # Torn
  BY DEF Load, disk, wires, cloud, history, At, Whole
<1>2. /\ win[w] \in AnyWindow /\ content[path] \in Stores /\ win[w].fd = 0 /\ ready' \subseteq Ids
  BY <1>1 DEF Stands, FileTypes, CloudTypes
<1>3. x \in AnyWindow /\ x.pc = "dial" /\ x.fd = 0  BY <1>2 DEF AnyWindow, Places
<1> HIDE DEF x
<1>4. win[w].pc \notin Saving /\ x.pc \notin Saving /\ (x.pc = "write" <=> x.fd # 0)  BY <1>1, <1>3 DEF Saving
<1> QED  BY <1>1, <1>2, <1>3, <1>4, GoesOn

LEMMA AdmittedStands == ASSUME Stands, NEW w \in Windows, Admitted(w) PROVE Stands'
<1> DEFINE x == Resting("accept")
<1>1. /\ UNCHANGED <<path, tmp, content, sent, db, auth, heard, down, ids>> /\ ready' = ready
      /\ win[w].pc = "dial" /\ win' = [win EXCEPT ![w] = x]
  BY DEF Admitted, disk, cloud, history, At, Rest, Resting
<1>2. x \in AnyWindow /\ x.pc \notin Saving /\ (x.pc = "write" <=> x.fd # 0)  BY AnyResting
<1> HIDE DEF x
<1>3. ready' \subseteq Ids /\ win[w].pc \notin Saving  BY <1>1 DEF Stands, CloudTypes, Saving
<1> QED  BY <1>1, <1>2, <1>3, GoesOn

LEMMA OfferedStands == ASSUME Stands, NEW w \in Windows, Offered(w) PROVE Stands'
<1> DEFINE x == Resting("accept")
<1>1. /\ UNCHANGED <<path, tmp, content, sent, db, auth, heard, down, ids>>
      /\ ready' = ready \cup {win[w].store.id} /\ win[w].pc = "dial" /\ win' = [win EXCEPT ![w] = x]
  BY DEF Offered, disk, cloud, history, At, Rest, Resting
<1>2. x \in AnyWindow /\ x.pc \notin Saving /\ (x.pc = "write" <=> x.fd # 0)  BY AnyResting
<1> HIDE DEF x
<1>3. win[w].store.id \in Ids  BY DEF Stands, FileTypes, AnyWindow, Stores
<1>4. ready' \subseteq Ids /\ win[w].pc \notin Saving  BY <1>1, <1>3 DEF Stands, CloudTypes, Saving
<1> QED  BY <1>1, <1>2, <1>4, GoesOn

LEMMA AcceptStands == ASSUME Stands, NEW w \in Windows, Accept(w) PROVE Stands'
<1> DEFINE x == [win[w] EXCEPT !.pc = "up"]
<1>1. /\ UNCHANGED <<path, tmp, content, sent, db, auth, heard, down, ids>> /\ ready' = ready
      /\ win[w].pc = "accept" /\ win' = [win EXCEPT ![w] = x]
  BY DEF Accept, disk, cloud, history, At, Goto
<1>2. win[w] \in AnyWindow /\ win[w].fd = 0 /\ ready' \subseteq Ids
  BY <1>1 DEF Stands, FileTypes, CloudTypes
<1>3. x \in AnyWindow /\ x.pc = "up" /\ x.fd = 0  BY <1>2 DEF AnyWindow, Places
<1> HIDE DEF x
<1>4. win[w].pc \notin Saving /\ x.pc \notin Saving /\ (x.pc = "write" <=> x.fd # 0)  BY <1>1, <1>3 DEF Saving
<1> QED  BY <1>1, <1>2, <1>3, <1>4, GoesOn

\* A window starts to save what it made, cleared or received.
LEMMA BeginsStands ==
    ASSUME Stands, UNCHANGED <<path, tmp, content, sent, db, auth, ready>>, NoteSave, ids' \in Ids,
           NEW w \in Windows, NEW s \in Stores, NEW l \in {"off", "up", "dial"},
           win' = [win EXCEPT ![w] = Begun(s, l)], down' \in [Windows -> Seq(Frames)],
           \A v \in heard : down'[v] # <<>> => down[v] # <<>> /\ down'[v][Len(down'[v])] = down[v][Len(down[v])]
    PROVE  Stands'
<1> DEFINE x == Begun(s, l)
<1>0. /\ path' = path /\ tmp' = tmp /\ content' = content /\ sent' = sent /\ db' = db /\ auth' = auth /\ ready' = ready
      /\ win' = [win EXCEPT ![w] = x]
  OBVIOUS
<1>1. FileTypes /\ CloudTypes /\ RequestsInOrder /\ Delivery  BY DEF Stands
<1>2. path' \in Inodes /\ tmp' \in Inodes \cup {0} /\ content' \in [Inodes -> Stores \cup {Torn}]
  BY <1>0, <1>1 DEF FileTypes
<1>3. x \in AnyWindow /\ x.pc = "create" /\ (x.pc = "write" <=> x.fd # 0)  BY AnyBegun
<1> HIDE DEF x
<1>4. FileTypes' /\ win'[w] = x  BY <1>0, <1>1, <1>2, <1>3, OneMoves
<1>5. heard' \subseteq heard  BY DEF NoteSave, StillToSave
<1>6. CloudTypes' /\ RequestsInOrder'
  <2>1. ready' \subseteq Ids  BY <1>0, <1>1 DEF CloudTypes
  <2> QED  BY <1>0, <1>1, <1>5, <2>1, SameCloud
<1>7. Delivery'  BY <1>0, <1>1, <1>3, <1>4, SaveBegins
<1> QED  BY <1>4, <1>6, <1>7 DEF Stands

LEMMA MakeStands == ASSUME Stands, NEW w \in Windows, MakeIdentity(w) PROVE Stands'
<1> DEFINE s == [id |-> ids + 1, token |-> None]
<1>1. /\ UNCHANGED <<path, tmp, content, sent, db, auth, ready>> /\ NoteSave /\ down' = down
      /\ ids < MaxIds /\ ids' = ids + 1 /\ win' = [win EXCEPT ![w] = Begun(s, "dial")]
  BY DEF MakeIdentity, Saves, Begun, disk, wires, cloud
<1>2. ids \in Ids /\ down \in [Windows -> Seq(Frames)]  BY DEF Stands, CloudTypes
<1>3. ids + 1 \in Ids  BY <1>1, <1>2, PairingAssumption DEF Ids
<1>4. s \in Stores  BY <1>3 DEF Stores
<1> HIDE DEF s
<1> QED  BY <1>1, <1>2, <1>3, <1>4, BeginsStands

LEMMA RefusedStands == ASSUME Stands, NEW w \in Windows, Refused(w) PROVE Stands'
<1> DEFINE s == [win[w].store EXCEPT !.token = None]
<1>1. /\ UNCHANGED <<path, tmp, content, sent, db, auth, ready>> /\ NoteSave /\ down' = down /\ ids' = ids
      /\ win' = [win EXCEPT ![w] = Begun(s, "off")]
  BY DEF Refused, Saves, Begun, disk, wires, cloud
<1>2. ids \in Ids /\ down \in [Windows -> Seq(Frames)] /\ win[w].store \in Stores
  BY DEF Stands, CloudTypes, FileTypes, AnyWindow
<1>3. s \in Stores  BY <1>2 DEF Stores
<1> HIDE DEF s
<1> QED  BY <1>1, <1>2, <1>3, BeginsStands

LEMMA PairedStands == ASSUME Stands, NEW w \in Windows, Paired(w) PROVE Stands'
<1> DEFINE s == Head(down[w])  q == Tail(down[w])
<1>1. /\ UNCHANGED <<path, tmp, content, sent, db, auth, ready>> /\ NoteSave /\ ids' = ids
      /\ down[w] # <<>> /\ down' = [down EXCEPT ![w] = q] /\ win' = [win EXCEPT ![w] = Begun(s, "up")]
  BY DEF Paired, Saves, Begun, disk, cloud
<1>2. ids \in Ids /\ down \in [Windows -> Seq(Frames)] /\ down[w] \in Seq(Frames)  BY DEF Stands, CloudTypes
<1>3. /\ s \in Frames /\ q \in Seq(Frames) /\ Len(q) = Len(down[w]) - 1 /\ Len(down[w]) \in Nat
      /\ \A k \in 1..Len(q) : q[k] = down[w][k + 1]
  BY <1>1, <1>2, HeadTailProperties
<1>4. s \in Stores  BY <1>3 DEF Frames, Stores
<1>5. q # <<>> => q[Len(q)] = down[w][Len(down[w])]
  <2> SUFFICES ASSUME q # <<>> PROVE q[Len(q)] = down[w][Len(down[w])]  OBVIOUS
  <2>1. Len(q) \in Nat \ {0}  BY <1>3, EmptySeq
  <2>2. Len(q) \in 1..Len(q) /\ Len(q) + 1 = Len(down[w])  BY <1>3, <2>1
  <2> QED  BY <1>3, <2>2
<1> HIDE DEF s, q
<1>6. /\ down' \in [Windows -> Seq(Frames)] /\ down'[w] = q /\ \A v \in Windows : v # w => down'[v] = down[v]
  BY <1>1, <1>2, <1>3
<1>7. heard \subseteq Windows  BY DEF Stands, CloudTypes
<1>8. \A v \in heard : down'[v] # <<>> => down[v] # <<>> /\ down'[v][Len(down'[v])] = down[v][Len(down[v])]
  BY <1>1, <1>5, <1>6, <1>7
<1> QED  BY <1>1, <1>2, <1>4, <1>6, <1>8, BeginsStands

\* The windows and the two names leave an inode for a new temporary file.
LEMMA SpareInode == ASSUME tmp = 0 PROVE \E m \in Inodes : m \notin InUse
<1> DEFINE F == {win[w].fd : w \in Windows}  g == [w \in Windows |-> win[w].fd]  c == Cardinality(Windows)
<1>1. c \in Nat /\ IsFiniteSet(Windows)  BY PairingAssumption, FS_CardinalityType
<1>2. IsFiniteSet(F) /\ Cardinality(F) =< c
  <2>1. g \in Surjection(Windows, F)  BY DEF Surjection
  <2> HIDE DEF F, g
  <2> QED  BY <1>1, <2>1, FS_Surjection
<1>3. IsFiniteSet(F \cup {path}) /\ Cardinality(F \cup {path}) =< c + 1
  <2> HIDE DEF F
  <2>1. /\ IsFiniteSet(F \cup {path})
        /\ Cardinality(F \cup {path}) = IF path \in F THEN Cardinality(F) ELSE Cardinality(F) + 1
    BY <1>2, FS_AddElement
  <2>2. Cardinality(F) \in Nat  BY <1>2, FS_CardinalityType
  <2> QED  BY <1>1, <1>2, <2>1, <2>2
<1>4. IsFiniteSet(Inodes) /\ Cardinality(Inodes) = c + 2 /\ 0 \notin Inodes
  <2>1. IsFiniteSet(1..(c + 2)) /\ Cardinality(1..(c + 2)) = c + 2  BY <1>1, FS_Interval
  <2> QED  BY <1>1, <2>1 DEF Inodes
<1>5. InUse \subseteq (F \cup {path}) \cup {0}  BY DEF InUse
<1> HIDE DEF F, c
<1> SUFFICES ASSUME Inodes \subseteq InUse PROVE FALSE  OBVIOUS
<1>6. Inodes \subseteq F \cup {path}  BY <1>4, <1>5
<1>7. Cardinality(Inodes) =< Cardinality(F \cup {path})  BY <1>3, <1>6, FS_Subset
<1>8. Cardinality(F \cup {path}) \in Nat  BY <1>3, FS_CardinalityType
<1> QED  BY <1>1, <1>3, <1>4, <1>7, <1>8

\* The temporary file has a writer who writes the token.
LEMMA CreateStands == ASSUME Stands, NEW w \in Windows, Create(w) PROVE Stands'
<1> DEFINE n == IF tmp # 0 THEN tmp ELSE CHOOSE m \in Inodes : m \notin InUse
           x == Moved(win[w], "write", n)
<1>0. /\ UNCHANGED <<sent, db, auth, heard, down, ids, ready>> /\ path' = path
      /\ win[w].pc = "create" /\ tmp' = n /\ content' = [content EXCEPT ![n] = Torn] /\ win' = [win EXCEPT ![w] = x]
  <2>1. /\ tmp' = n /\ content' = [content EXCEPT ![n] = Torn]
        /\ win' = [win EXCEPT ![w].pc = "write", ![w].fd = n]
    BY Zenon DEF Create
  <2>2. UNCHANGED <<sent, db, auth, heard, down, ids, ready>> /\ path' = path /\ win[w].pc = "create"
    BY DEF Create, wires, cloud, history, At
  <2> HIDE DEF n
  <2>3. win' = [win EXCEPT ![w] = x]  BY <2>1 DEF Moved
  <2> QED  BY <2>1, <2>2, <2>3
<1>1. FileTypes /\ CloudTypes /\ RequestsInOrder /\ Delivery  BY DEF Stands
<1>2. n \in Inodes
  <2>1. CASE tmp # 0  BY <1>1, <2>1 DEF FileTypes
  <2>2. CASE tmp = 0
    <3>1. \E m \in Inodes : m \notin InUse  BY <2>2, SpareInode
    <3> QED  BY <2>2, <3>1
  <2> QED  BY <2>1, <2>2
<1> HIDE DEF n
<1>3. n # 0  BY <1>2 DEF Inodes
<1>4. x \in AnyWindow /\ x.pc = "write" /\ x.fd = n /\ x.store = win[w].store
  <2>1. win[w] \in AnyWindow  BY <1>1 DEF FileTypes
  <2> QED  BY <1>2, <2>1 DEF Moved, AnyWindow, Places, Saving
<1> HIDE DEF x
<1>5. path' \in Inodes /\ tmp' \in Inodes \cup {0} /\ content' \in [Inodes -> Stores \cup {Torn}]
  BY <1>0, <1>1, <1>2 DEF FileTypes
<1>6. FileTypes' /\ win'[w] = x /\ \A v \in Windows : v # w => win'[v] = win[v]
  BY <1>0, <1>1, <1>3, <1>4, <1>5, OneMoves
<1>7. CloudTypes' /\ RequestsInOrder'
  <2>1. ids' \in Ids /\ ready' \subseteq Ids /\ down' \in [Windows -> Seq(Frames)]  BY <1>0, <1>1 DEF CloudTypes
  <2> QED  BY <1>0, <1>1, <2>1, SameCloud
<1>8. FramesEnd' /\ TokenKept'  BY <1>0, <1>1 DEF Delivery, FramesEnd, TokenKept
<1>9. ASSUME Due' PROVE (AllSaveIt /\ Good(Leading))'
  <2>1. Due  BY <1>0, <1>9 DEF Due
  <2>2. AllSaveIt /\ win[w].pc \in Saving  BY <1>0, <1>1, <2>1 DEF Delivery, InHand, Saving
  <2>3. AllSaveIt'  BY <1>0, <1>4, <1>6, <2>2 DEF AllSaveIt
  <2>4. Leading' = tmp'  BY <1>0, <1>3, <1>4, <1>6 DEF Leading
  <2>5. Good(Leading)'  BY <1>0, <1>4, <1>6, <2>4 DEF Good
  <2> QED  BY <2>3, <2>5
<1> QED  BY <1>6, <1>7, <1>8, <1>9 DEF Stands, Delivery, InHand

\* Whoever writes now writes the token, over whatever another window left in the inode.
LEMMA WriteStands == ASSUME Stands, NEW w \in Windows, Write(w) PROVE Stands'
<1> DEFINE n == win[w].fd  s == win[w].store  x == Moved(win[w], "rename", 0)
<1>0. /\ UNCHANGED <<sent, db, auth, heard, down, ids, ready>> /\ path' = path /\ tmp' = tmp
      /\ win[w].pc = "write" /\ content' = [content EXCEPT ![n] = Written(content[n], s)]
      /\ win' = [win EXCEPT ![w] = x]
  BY DEF Write, wires, cloud, history, At, Moved
<1>1. FileTypes /\ CloudTypes /\ RequestsInOrder /\ Delivery  BY DEF Stands
<1>2. win[w] \in AnyWindow /\ n \in Inodes /\ s \in Stores  BY <1>0, <1>1 DEF FileTypes, AnyWindow
<1>3. x \in AnyWindow /\ x.pc = "rename" /\ x.fd = 0 /\ x.store = s  BY <1>2 DEF Moved, AnyWindow, Places, Saving
<1> HIDE DEF x
<1>4. Written(content[n], s) \in Stores \cup {Torn}  BY <1>2 DEF Written
<1>5. path' \in Inodes /\ tmp' \in Inodes \cup {0} /\ content' \in [Inodes -> Stores \cup {Torn}]
  BY <1>0, <1>1, <1>2, <1>4 DEF FileTypes
<1>6. FileTypes' /\ win'[w] = x /\ \A v \in Windows : v # w => win'[v] = win[v]
  BY <1>0, <1>1, <1>3, <1>5, OneMoves
<1>7. CloudTypes' /\ RequestsInOrder'
  <2>1. ids' \in Ids /\ ready' \subseteq Ids /\ down' \in [Windows -> Seq(Frames)]  BY <1>0, <1>1 DEF CloudTypes
  <2> QED  BY <1>0, <1>1, <2>1, SameCloud
<1>8. FramesEnd' /\ TokenKept'  BY <1>0, <1>1 DEF Delivery, FramesEnd, TokenKept
<1>9. ASSUME Due' PROVE (AllSaveIt /\ (Beginning \/ Good(Leading)))'
  <2>1. Due  BY <1>0, <1>9 DEF Due
  <2>2. AllSaveIt /\ (Beginning \/ Good(Leading)) /\ win[w].pc \in Saving
    BY <1>0, <1>1, <2>1 DEF Delivery, InHand, Saving
  <2>3. AllSaveIt'  BY <1>0, <1>3, <1>6, <2>2 DEF AllSaveIt
  <2>4. s = sent /\ s.token # None  BY <1>1, <2>1, <2>2 DEF AllSaveIt, Delivery, TokenKept, Due
  <2>5. content'[n] = sent
    <3>1. Written(content[n], s) = s  BY <2>4 DEF Written
    <3> QED  BY <1>0, <1>1, <1>2, <2>4, <3>1 DEF FileTypes
  <2>6. Leading' = Leading
    <3>1. win'[w].pc \in {"write", "rename"} /\ win[w].pc \in {"write", "rename"}  BY <1>0, <1>3, <1>6
    <3> QED  BY <1>0, <3>1 DEF Leading
  <2>7. Beginning => Beginning'  BY <1>0, <1>6 DEF Beginning
  <2>8. ASSUME NEW m, Good(m) PROVE Good(m)'
    <3>1. CASE m = n  BY <1>0, <2>5, <3>1 DEF Good
    <3>2. CASE m # n
      <4>1. content'[m] = content[m]  BY <1>0, <1>1, <3>2 DEF FileTypes
      <4> QED  BY <1>0, <1>6, <2>8, <3>2, <4>1 DEF Good
    <3> QED  BY <3>1, <3>2
  <2> QED  BY <2>2, <2>3, <2>6, <2>7, <2>8
<1> QED  BY <1>6, <1>7, <1>8, <1>9 DEF Stands, Delivery, InHand

\* What is renamed is what led already; a rename that finds nothing leaves the file as it is.
LEMMA RenameStands == ASSUME Stands, NEW w \in Windows, Rename(w) PROVE Stands'
<1> DEFINE fds == {win[v].fd : v \in Windows}
<1>0. /\ sent' = sent /\ db' = db /\ auth' = auth /\ heard' = heard /\ down' = down /\ ids' = ids /\ ready' = ready
      /\ win[w].pc = "rename"
  BY DEF Rename, wires, cloud, history, At
<1>1. FileTypes /\ CloudTypes /\ RequestsInOrder /\ Delivery  BY DEF Stands
<1>2. win[w] \in AnyWindow /\ win[w].then \in {"off", "up", "dial"} /\ win[w].fd = 0
  BY <1>0, <1>1 DEF FileTypes, AnyWindow
<1>3. CloudTypes' /\ RequestsInOrder'
  <2>1. ids' \in Ids /\ ready' \subseteq Ids /\ down' \in [Windows -> Seq(Frames)]  BY <1>0, <1>1 DEF CloudTypes
  <2> QED  BY <1>0, <1>1, <2>1, SameCloud
<1>4. FramesEnd' /\ TokenKept'  BY <1>0, <1>1 DEF Delivery, FramesEnd, TokenKept
<1>5. PICK x \in AnyWindow : win' = [win EXCEPT ![w] = x] /\ x.pc \in {"off", "up", "dial"} /\ x.fd = 0
  <2>1. CASE tmp = 0
    <3>1. win' = [win EXCEPT ![w] = Resting(AfterFailure(w))]  BY <2>1 DEF Rename, Rest, Resting
    <3>2. AfterFailure(w) \in {"off", "up"}  BY <1>2 DEF AfterFailure
    <3>3. Resting(AfterFailure(w)) \in AnyWindow /\ Resting(AfterFailure(w)).pc = AfterFailure(w)
          /\ Resting(AfterFailure(w)).fd = 0
      BY <3>2, AnyResting
    <3> QED  BY <3>1, <3>2, <3>3
  <2>2. CASE tmp # 0 /\ win[w].then = "dial"
    <3> DEFINE y == [win[w] EXCEPT !.pc = "dial"]
    <3>1. win' = [win EXCEPT ![w] = y]  BY <2>2 DEF Rename, Goto
    <3>2. y \in AnyWindow /\ y.pc = "dial" /\ y.fd = 0  BY <1>2 DEF AnyWindow, Places
    <3> HIDE DEF y
    <3> QED  BY <3>1, <3>2
  <2>3. CASE tmp # 0 /\ win[w].then # "dial"
    <3> DEFINE y == Resting(win[w].then)
    <3>1. win' = [win EXCEPT ![w] = y]  BY <2>3 DEF Rename, Rest, Resting
    <3>2. y \in AnyWindow /\ y.pc = win[w].then /\ (y.pc = "write" <=> y.fd # 0)  BY <1>2, <2>3, AnyResting
    <3> HIDE DEF y
    <3> QED  BY <1>2, <3>1, <3>2
  <2> QED  BY <2>1, <2>2, <2>3
<1>6. /\ \/ tmp = 0 /\ path' = path /\ tmp' = tmp /\ content' = content
         \/ /\ tmp # 0 /\ path' = tmp /\ tmp' = 0
            /\ content' = [n \in Inodes |-> IF n = tmp \/ n \in fds THEN content[n] ELSE Torn]
  BY DEF Rename, disk
<1> HIDE DEF fds
<1>7. path' \in Inodes /\ tmp' \in Inodes \cup {0} /\ content' \in [Inodes -> Stores \cup {Torn}]
  BY <1>1, <1>6 DEF FileTypes
<1>8. FileTypes' /\ win'[w] = x /\ \A v \in Windows : v # w => win'[v] = win[v]
  BY <1>1, <1>5, <1>7, OneMoves
<1>9. ASSUME Due' PROVE (AllSaveIt /\ (Beginning \/ Good(Leading)))'
  <2>1. Due  BY <1>0, <1>9 DEF Due
  <2>2. AllSaveIt /\ (Beginning \/ Good(Leading))  BY <1>1, <2>1 DEF Delivery, InHand
  <2>3. AllSaveIt'  BY <1>0, <1>5, <1>8, <2>2 DEF AllSaveIt, Saving
  <2>4. Beginning => Beginning'  BY <1>0, <1>8 DEF Beginning
  <2>5. Leading' = Leading /\ content'[Leading] = content[Leading]
    <3>1. CASE tmp = 0  BY <1>6, <3>1 DEF Leading
    <3>2. CASE tmp # 0
      <4>1. Leading = tmp /\ Leading' = tmp  BY <1>0, <1>6, <3>2 DEF Leading
      <4>2. tmp \in Inodes  BY <1>1, <3>2 DEF FileTypes
      <4> QED  BY <1>6, <3>2, <4>1, <4>2
    <3> QED  BY <3>1, <3>2
  <2>6. ASSUME Good(Leading) PROVE Good(Leading)'
    <3>1. CASE content[Leading] = sent  BY <1>0, <2>5, <3>1 DEF Good
    <3>2. CASE content[Leading] # sent
      <4>1. PICK v \in Windows : win[v].pc = "write" /\ win[v].fd = Leading  BY <2>6, <3>2 DEF Good
      <4>2. win'[v] = win[v]  BY <1>0, <1>8, <4>1
      <4> QED  BY <2>5, <4>1, <4>2 DEF Good
    <3> QED  BY <3>1, <3>2
  <2> QED  BY <2>2, <2>3, <2>4, <2>6
<1> QED  BY <1>3, <1>4, <1>8, <1>9 DEF Stands, Delivery, InHand

LEMMA SaveFailsStands == ASSUME Stands, NEW w \in Windows, SaveFails(w) PROVE Stands'
<1> DEFINE x == Resting(AfterFailure(w))
<1>0. /\ path' = path /\ tmp' = tmp /\ content' = content /\ sent' = sent /\ db' = db /\ auth' = auth
      /\ down' = down /\ ids' = ids /\ ready' = ready /\ heard' = StillToSave /\ win' = [win EXCEPT ![w] = x]
  BY DEF SaveFails, disk, wires, cloud, Rest, Resting
<1>1. FileTypes /\ CloudTypes /\ RequestsInOrder /\ Delivery  BY DEF Stands
<1>2. AfterFailure(w) \in {"off", "up"}
  <2>1. win[w].then \in {"off", "up", "dial"}  BY <1>1 DEF FileTypes, AnyWindow
  <2> QED  BY <2>1 DEF AfterFailure
<1>3. x \in AnyWindow /\ (x.pc = "write" <=> x.fd # 0)  BY <1>2, AnyResting
<1> HIDE DEF x
<1>4. path' \in Inodes /\ tmp' \in Inodes \cup {0} /\ content' \in [Inodes -> Stores \cup {Torn}]
  BY <1>0, <1>1 DEF FileTypes
<1>5. FileTypes'  BY <1>0, <1>1, <1>3, <1>4, OneMoves
<1>6. CloudTypes' /\ RequestsInOrder'
  <2>1. ids' \in Ids /\ ready' \subseteq Ids /\ down' \in [Windows -> Seq(Frames)]  BY <1>0, <1>1 DEF CloudTypes
  <2>2. heard' \subseteq heard  BY <1>0 DEF StillToSave
  <2> QED  BY <1>0, <1>1, <2>1, <2>2, SameCloud
<1>7. Delivery'  BY <1>0, <1>1, SaveCut
<1> QED  BY <1>5, <1>6, <1>7 DEF Stands

\* A window that leaves with the token before it is out of the count, one that leaves during a save ends it.
LEMMA LeaveStands == ASSUME Stands, NEW w \in Windows, Leave(w) PROVE Stands'
<1>0. /\ path' = path /\ tmp' = tmp /\ content' = content /\ sent' = sent /\ db' = db /\ auth' = auth
      /\ ids' = ids /\ ready' = ready /\ win' = [win EXCEPT ![w] = Off] /\ down' = [down EXCEPT ![w] = <<>>]
      /\ heard' = IF win[w].pc \in Saving THEN StillToSave ELSE {v \in heard : v = w => down[v] = <<>>}
  BY DEF Leave, disk, cloud
<1>1. FileTypes /\ CloudTypes /\ RequestsInOrder /\ Delivery  BY DEF Stands
<1>2. Off \in AnyWindow /\ Off.pc = "off" /\ Off.fd = 0 /\ Off.pc \notin Saving
  <2>1. 1 \in Ids  BY PairingAssumption DEF Ids
  <2>2. NoStore \in Stores  BY <2>1 DEF NoStore, Stores, None
  <2> QED  BY <2>2 DEF Off, AnyWindow, Places, Saving
<1>3. path' \in Inodes /\ tmp' \in Inodes \cup {0} /\ content' \in [Inodes -> Stores \cup {Torn}]
  BY <1>0, <1>1 DEF FileTypes
<1>4. FileTypes' /\ win'[w] = Off /\ \A v \in Windows : v # w => win'[v] = win[v]
  BY <1>0, <1>1, <1>2, <1>3, OneMoves
<1>5. heard' \subseteq heard /\ heard \subseteq Windows  BY <1>0, <1>1 DEF StillToSave, CloudTypes
<1>6. /\ down' \in [Windows -> Seq(Frames)] /\ down'[w] = <<>> /\ \A v \in Windows : v # w => down'[v] = down[v]
  <2>1. <<>> \in Seq(Frames) /\ down \in [Windows -> Seq(Frames)]  BY <1>1 DEF CloudTypes
  <2> QED  BY <1>0, <2>1
<1>7. CloudTypes' /\ RequestsInOrder'
  <2>1. ids' \in Ids /\ ready' \subseteq Ids  BY <1>0, <1>1 DEF CloudTypes
  <2> QED  BY <1>0, <1>1, <1>5, <1>6, <2>1, SameCloud
<1>8. Delivery'
  <2>1. CASE win[w].pc \in Saving
    <3>1. \A v \in heard : down'[v] # <<>> => down'[v] = down[v]  BY <1>5, <1>6
    <3>2. heard' = StillToSave  BY <1>0, <2>1
    <3> QED  BY <1>0, <1>1, <3>1, <3>2, SaveCut
  <2>2. CASE win[w].pc \notin Saving
    <3>1. heard' = {v \in heard : v = w => down[v] = <<>>}  BY <1>0, <2>2
    <3>2. \A v \in heard' : down'[v] = down[v]  BY <1>5, <1>6, <3>1
    <3>3. \A v \in Windows : win'[v] = win[v] \/ (win[v].pc \notin Saving /\ win'[v].pc \notin Saving)
      BY <1>2, <1>4, <2>2
    <3> QED  BY <1>0, <1>1, <1>5, <3>2, <3>3, Untouched
  <2> QED  BY <2>1, <2>2
<1> QED  BY <1>4, <1>7, <1>8 DEF Stands

\* The request that stores last has its token in the database, and nothing is asked of the file.
LEMMA StoreStands == ASSUME Stands, NEW a \in Requests, StoreToken(a) PROVE Stands'
<1>1. PICK i \in ready : /\ auth[a].pc = "idle" /\ \A b \in 1..(a - 1) : auth[b].pc # "idle"
                         /\ auth' = [auth EXCEPT ![a] = [pc |-> "stored", id |-> i]]
                         /\ db' = [db EXCEPT ![i] = a]
  BY DEF StoreToken
<1>2. /\ path' = path /\ tmp' = tmp /\ content' = content /\ win' = win /\ sent' = sent /\ ids' = ids
      /\ down' = down /\ ready' = ready /\ heard' = {}
  BY DEF StoreToken, disk, wires
<1>3. FileTypes /\ CloudTypes /\ RequestsInOrder /\ i \in Ids  BY DEF Stands, CloudTypes
<1>4. /\ auth' \in [Requests -> [pc : Stages, id : Ids]] /\ auth'[a].pc = "stored" /\ auth'[a].id = i
      /\ \A b \in Requests : b # a => auth'[b] = auth[b]
      /\ db' \in [Ids -> Requests \cup {None}] /\ db'[i] = a
  BY <1>1, <1>3 DEF CloudTypes, Stages
<1>5. FileTypes'  BY <1>2, <1>3 DEF FileTypes
<1>6. CloudTypes'  BY <1>2, <1>3, <1>4 DEF CloudTypes
<1>7. RequestsInOrder'
  <2>1. ASSUME NEW b \in Requests, NEW c \in Requests, auth'[b].pc # "idle", c < b PROVE auth'[c].pc # "idle"
    <3>1. CASE b = a
      <4>1. c \in 1..(a - 1)  BY <2>1, <3>1 DEF Requests
      <4> QED  BY <1>1, <1>4, <4>1
    <3>2. CASE b # a  BY <1>3, <1>4, <2>1, <3>2 DEF RequestsInOrder
    <3> QED  BY <3>1, <3>2
  <2>2. ASSUME NEW b \in Requests, auth'[b].pc = "stored", Newest(b)' PROVE db'[auth'[b].id] = b
    <3>1. CASE b = a  BY <1>4, <3>1
    <3>2. CASE a > b  BY <1>4, <2>2, <3>2 DEF Newest
    <3>3. CASE a < b
      <4>0. b # a  BY <3>3 DEF Requests
      <4>1. auth[b].pc = "stored"  BY <1>4, <2>2, <4>0
      <4> QED  BY <1>1, <1>3, <3>3, <4>1 DEF RequestsInOrder
    <3> QED  BY <3>1, <3>2, <3>3 DEF Requests
  <2> QED  BY <2>1, <2>2 DEF RequestsInOrder
<1>8. Delivery'  BY <1>2 DEF Delivery, InHand, Due, FramesEnd, TokenKept
<1> QED  BY <1>5, <1>6, <1>7, <1>8 DEF Stands

\* A request goes on: no request is idle or stored that was not.
LEMMA RequestMoves ==
    ASSUME CloudTypes, RequestsInOrder, db' = db, NEW a \in Requests, auth[a].pc # "idle",
           NEW r \in {"sent", "refused", "done"}, auth' = [auth EXCEPT ![a].pc = r]
    PROVE  auth' \in [Requests -> [pc : Stages, id : Ids]] /\ RequestsInOrder'
<1>1. /\ auth' \in [Requests -> [pc : Stages, id : Ids]] /\ auth'[a].pc = r
      /\ \A b \in Requests : b # a => auth'[b] = auth[b]
  BY DEF CloudTypes, Stages
<1>2. \A b \in Requests : auth'[b].pc = "idle" <=> auth[b].pc = "idle"  BY <1>1
<1>3. \A b \in Requests : auth'[b].pc = "stored" => auth'[b] = auth[b]  BY <1>1
<1>4. \A b \in Requests : Newest(b)' <=> Newest(b)  BY <1>2 DEF Newest
<1> QED  BY <1>1, <1>2, <1>3, <1>4 DEF RequestsInOrder

\* Every window that is sent the token has it before it.
LEMMA NotifyStands == ASSUME Stands, NEW a \in Requests, notifyPaired(a) PROVE Stands'
<1> DEFINE i == auth[a].id  t == [id |-> i, token |-> a]
           r == IF Listeners(i) = {} /\ ~\E w \in Windows : <<w, i>> \in ghosts THEN "refused" ELSE "sent"
<1>1. FileTypes /\ CloudTypes /\ RequestsInOrder  BY DEF Stands
<1>2. /\ path' = path /\ tmp' = tmp /\ content' = content /\ win' = win /\ ids' = ids
      /\ db' = db /\ ready' = ready /\ auth[a].pc = "stored" /\ auth' = [auth EXCEPT ![a].pc = r] /\ sent' = t
      /\ heard' = IF Newest(a) THEN Listeners(i) ELSE {}
      /\ down' = [w \in Windows |-> IF w \in Listeners(i) THEN Append(down[w], t) ELSE down[w]]
  BY DEF notifyPaired, disk
<1>3. i \in Ids /\ t \in Frames /\ t \in Stores /\ t.id = i /\ t.token = a /\ a # None
  BY <1>1 DEF CloudTypes, Frames, Stores, Requests, None
<1>4. r \in {"sent", "refused", "done"} /\ auth[a].pc # "idle"  BY <1>2
<1> HIDE DEF r, t
<1>5. auth' \in [Requests -> [pc : Stages, id : Ids]] /\ RequestsInOrder'  BY <1>1, <1>2, <1>4, RequestMoves
<1>6. FileTypes'  BY <1>1, <1>2 DEF FileTypes
<1>7. Listeners(i) \subseteq Windows  BY DEF Listeners
<1>8. /\ down' \in [Windows -> Seq(Frames)]
      /\ \A w \in Listeners(i) : down'[w] # <<>> /\ down'[w][Len(down'[w])] = t
  <2>1. down \in [Windows -> Seq(Frames)]  BY <1>1 DEF CloudTypes
  <2>2. \A q \in Seq(Frames) : /\ Append(q, t) \in Seq(Frames) /\ Len(Append(q, t)) = Len(q) + 1
                               /\ Append(q, t)[Len(q) + 1] = t /\ Len(q) \in Nat
    BY <1>3
  <2>3. \A q \in Seq(Frames) : Append(q, t) # <<>>
    <3> TAKE q \in Seq(Frames)
    <3>1. Len(q) + 1 # 0 /\ Len(<<>>) = 0  BY <2>2
    <3> QED  BY <2>2, <3>1
  <2>4. down' \in [Windows -> Seq(Frames)]  BY <1>2, <2>1, <2>2
  <2>5. \A w \in Listeners(i) : down'[w] = Append(down[w], t)  BY <1>2, <1>7
  <2> QED  BY <1>7, <2>1, <2>2, <2>3, <2>4, <2>5
<1>9. heard' \subseteq Listeners(i)  BY <1>2
<1>10. CloudTypes'  BY <1>1, <1>2, <1>3, <1>5, <1>7, <1>8, <1>9 DEF CloudTypes
<1>11. ~Due' /\ FramesEnd'  BY <1>2, <1>8, <1>9 DEF Due, FramesEnd
<1>12. TokenKept'
  <2>1. Newest(a) => db[i] = a  BY <1>1, <1>2 DEF RequestsInOrder
  <2> QED  BY <1>2, <1>3, <2>1 DEF TokenKept
<1> QED  BY <1>5, <1>6, <1>10, <1>11, <1>12 DEF Stands, Delivery, InHand

LEMMA ConsumeStands == ASSUME Stands, NEW a \in Requests, Consume(a) PROVE Stands'
<1>1. FileTypes /\ CloudTypes /\ RequestsInOrder /\ Delivery  BY DEF Stands
<1>2. /\ path' = path /\ tmp' = tmp /\ content' = content /\ win' = win /\ ids' = ids /\ db' = db
      /\ down' = down /\ sent' = sent /\ heard' = heard
      /\ ready' \subseteq ready /\ auth[a].pc = "sent" /\ auth' = [auth EXCEPT ![a].pc = "done"]
  BY DEF Consume, disk, wires, history
<1>3. auth' \in [Requests -> [pc : Stages, id : Ids]] /\ RequestsInOrder'  BY <1>1, <1>2, RequestMoves
<1>4. FileTypes' /\ CloudTypes'  BY <1>1, <1>2, <1>3 DEF FileTypes, CloudTypes
<1>5. Delivery'  BY <1>1, <1>2, Untouched
<1> QED  BY <1>3, <1>4, <1>5 DEF Stands

LEMMA IdleStands ==
    ASSUME Stands, UNCHANGED <<path, tmp, content, win, ids, down, db, ready, auth, sent, heard>> PROVE Stands'
<1>0. /\ path' = path /\ tmp' = tmp /\ content' = content /\ win' = win /\ ids' = ids /\ db' = db
      /\ down' = down /\ sent' = sent /\ heard' = heard /\ ready' = ready /\ auth' = auth
  OBVIOUS
<1>1. FileTypes /\ CloudTypes /\ RequestsInOrder /\ Delivery  BY DEF Stands
<1>2. FileTypes' /\ CloudTypes' /\ RequestsInOrder'  BY <1>0, <1>1 DEF FileTypes, CloudTypes, RequestsInOrder, Newest
<1>3. Delivery'  BY <1>0, <1>1, Untouched
<1> QED  BY <1>2, <1>3 DEF Stands

LEMMA InitStands == Init => Stands
<1> SUFFICES ASSUME Init PROVE Stands  OBVIOUS
<1>1. Cardinality(Windows) \in Nat  BY PairingAssumption, FS_CardinalityType
<1>2. 1 \in Inodes /\ 1 \in Ids  BY <1>1, PairingAssumption DEF Inodes, Ids
<1>3. NoStore \in Stores  BY <1>2 DEF NoStore, Stores, None
<1>4. Off \in AnyWindow /\ Off.pc = "off" /\ Off.fd = 0  BY <1>3 DEF Off, AnyWindow, Places
<1>5. FileTypes
  <2>1. content \in [Inodes -> Stores \cup {Torn}]  BY <1>2, <1>3 DEF Init
  <2>2. win \in [Windows -> AnyWindow] /\ \A w \in Windows : win[w] = Off  BY <1>4 DEF Init
  <2> QED  BY <1>2, <1>4, <2>1, <2>2 DEF Init, FileTypes
<1>6. CloudTypes
  <2>1. auth \in [Requests -> [pc : Stages, id : Ids]]  BY <1>2 DEF Init, Stages
  <2>2. down \in [Windows -> Seq(Frames)]
    <3>1. <<>> \in Seq(Frames)  OBVIOUS
    <3> QED  BY <3>1 DEF Init
  <2>3. db \in [Ids -> Requests \cup {None}]  BY DEF Init
  <2> QED  BY <1>2, <1>3, <2>1, <2>2, <2>3 DEF Init, CloudTypes
<1>7. RequestsInOrder  BY DEF Init, RequestsInOrder
<1>8. Delivery  BY DEF Init, Delivery, InHand, Due, FramesEnd, TokenKept
<1> QED  BY <1>5, <1>6, <1>7, <1>8 DEF Stands

\* The second inductive invariant needs no undisturbed machine: however the saves overlap on the
\* one temporary name, once a window took the token that was sent last, the inode the file's name
\* will lead to holds it or has a writer who writes it.
THEOREM TokenInHand == Spec => []Stands
<1>1. ASSUME Stands, [Next]_vars PROVE Stands'
  <2>1. ASSUME NEW w \in Windows,
               \/ Load(w) \/ MakeIdentity(w) \/ Create(w) \/ Write(w) \/ Rename(w) \/ SaveFails(w)
               \/ Admitted(w) \/ Refused(w) \/ Offered(w) \/ Accept(w) \/ Paired(w) \/ Leave(w)
        PROVE  Stands'
    BY <1>1, <2>1, LoadStands, MakeStands, CreateStands, WriteStands, RenameStands, SaveFailsStands,
       AdmittedStands, RefusedStands, OfferedStands, AcceptStands, PairedStands, LeaveStands
  <2>2. ASSUME NEW a \in Requests, StoreToken(a) \/ notifyPaired(a) \/ Consume(a) PROVE Stands'
    BY <1>1, <2>2, StoreStands, NotifyStands, ConsumeStands
  <2>3. CASE GhostCloses
    <3>1. UNCHANGED <<path, tmp, content, win, ids, down, db, ready, auth, sent, heard>>
      BY <2>3 DEF GhostCloses, disk, cloud, history
    <3> QED  BY <1>1, <3>1, IdleStands
  <2>4. CASE UNCHANGED vars
    <3>1. UNCHANGED <<path, tmp, content, win, ids, down, db, ready, auth, sent, heard>>
      BY <2>4 DEF vars, disk, wires, cloud, history
    <3> QED  BY <1>1, <3>1, IdleStands
  <2> QED  BY <1>1, <2>1, <2>2, <2>3, <2>4 DEF Next
<1> QED  BY <1>1, InitStands, PTL DEF Spec

\* An authorization holds: once nothing is on its way, the token notifyPaired sent last is in
\* grokcraft.json and in the database, however the windows' saves of it overlapped and whatever
\* happened to the file before, unless a later request had stored its token before this one was
\* sent, something else was saved during or after the last save of the token, or a save of it was
\* cut short.
THEOREM PairingStands == Spec => []PairingHolds
<1>1. Stands => PairingHolds
  <2> SUFFICES ASSUME Stands, Settled, heard # {}
               PROVE  Whole /\ content[path] = sent /\ db[sent.id] = sent.token
    BY DEF PairingHolds
  <2>1. FileTypes /\ CloudTypes /\ Delivery  BY DEF Stands
  <2>2. \A w \in Windows : down[w] = <<>> /\ win[w].pc \notin {"create", "write", "rename"}
    BY DEF Settled, Saving
  <2>3. Due  BY <2>1, <2>2 DEF CloudTypes, Due
  <2>4. Good(path)  BY <2>1, <2>2, <2>3 DEF Delivery, InHand, Beginning, Leading
  <2>5. content[path] = sent  BY <2>2, <2>4 DEF Good
  <2>6. path # 0  BY <2>1 DEF FileTypes, Inodes
  <2>7. Whole  BY <2>1, <2>5, <2>6, PairingAssumption DEF Whole, CloudTypes
  <2> QED  BY <2>1, <2>5, <2>7 DEF Delivery, TokenKept
<1> QED  BY <1>1, TokenInHand, PTL

=============================================================================
