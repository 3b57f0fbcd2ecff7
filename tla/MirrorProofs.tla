---------------------------- MODULE MirrorProofs ----------------------------
(***************************************************************************)
(* Theorems about the relay, the windows and the pages it joins, for any   *)
(* number of each, of connections and of frames under way.                 *)
(***************************************************************************)
EXTENDS LiveMirror, SequenceTheorems, FiniteSetTheorems, TLAPS

Socket == [inst : Instances, code : BOOLEAN, st : {"open", "closing", "closed"},
           live : BOOLEAN, hello : {"none", "meta", "touch", "done", "failed"},
           up : Seq(UpFrames), down : Seq(DownFrames)]
TabFrameUp == [type : {"watch", "prompt"}, inst : Instances]
Browser == [page : Pages, st : {"open", "closed"}, live : BOOLEAN, watch : Instances \cup {None},
            up : Seq(TabFrameUp), down : Seq(TabFrames)]
Views == [inst : Instances, text : 0..MaxText]
SessionIds == {"", "live", "real"}
PageState == [ws : Nat, sel : Instances \cup {None}, sess : SessionIds, online : BOOLEAN,
              known : Entries, view : {None} \cup Views]
HubState == [conn : Nat, watching : BOOLEAN, key : Versions \cup {None},
             out : Seq(UpFrames), in : Seq(Events)]

PagerState == [list : Versions, text : 0..MaxText]

\* The prompts on the wire to a window are for it.
Addressed(a) == \A k \in 1..Len(a.down) : a.down[k].type = "prompt" => a.down[k].inst = a.inst
\* After k frames of browser b the relay will have it watch i: the last watch frame among them
\* says so, or there is none and it watches i already.
Governs(b, k, i) ==
    \/ \E m \in 1..k : /\ b.up[m].type = "watch" /\ b.up[m].inst = i
                       /\ \A n \in 1..k : n > m => b.up[n].type # "watch"
    \/ b.watch = i /\ \A n \in 1..k : b.up[n].type # "watch"
\* By then each prompt of the browser finds its own window watched.
Ordered(b) == \A k \in 1..Len(b.up) : b.up[k].type = "prompt" => Governs(b, k, b.up[k].inst)
\* The transcript is that of the selection.
Consistent(g) == g.sel # None /\ g.view # None => g.view.inst = g.sel

Sockets == {a \in Socket : Addressed(a)}
Browsers == {b \in Browser : Ordered(b)}
PageStates == {g \in PageState : Consistent(g)}

WiresInv ==
    /\ agents \in Seq(Sockets) /\ tabs \in Seq(Browsers) /\ catalog \in Entries
    /\ hub \in [Instances -> HubState] /\ page \in [Pages -> PageStates]
    /\ pager \in [Instances -> PagerState] /\ pushed \in [Instances -> PagerState]
    /\ inputs \in 0..MaxInputs /\ drops \in 0..MaxDrops

\* A page's socket is its own, and what it sent last is a watch of its selection.
PageInv ==
    \A p \in Pages : page[p].ws # 0 =>
        /\ page[p].ws \in 1..Len(tabs) /\ tabs[page[p].ws].page = p
        /\ page[p].sel # None => Governs(tabs[page[p].ws], Len(tabs[page[p].ws].up), page[p].sel)

\* A window has one open socket at most: the relay closes the older ones.
OneOpen(A) ==
    \A c \in 1..Len(A), d \in 1..Len(A) :
        A[c].st = "open" /\ A[d].st = "open" /\ A[c].inst = A[d].inst => c = d
\* A window's socket is its own, and is the only one of its that is alive.
SocketInv ==
    /\ OneOpen(agents)
    /\ \A i \in Instances : hub[i].conn # 0 =>
          hub[i].conn \in 1..Len(agents) /\ agents[hub[i].conn].inst = i /\ agents[hub[i].conn].live
    /\ \A c \in 1..Len(agents) :
          /\ agents[c].live => agents[c].st = "open" /\ hub[agents[c].inst].conn = c
          /\ agents[c].hello = "meta" => agents[c].code

IInv == WiresInv /\ PageInv /\ SocketInv /\ CatalogMatchesSockets

-----------------------------------------------------------------------------
(* Sockets and wires                                                       *)
LEMMA MapSeq ==
    ASSUME NEW S, NEW A \in Seq(S), NEW T, NEW B, B = [c \in DOMAIN A |-> B[c]], \A c \in 1..Len(A) : B[c] \in T
    PROVE  B \in Seq(T) /\ Len(B) = Len(A) /\ DOMAIN B = DOMAIN A
<1>1. Len(A) \in Nat /\ DOMAIN A = 1..Len(A)  BY LenProperties
<1>2. B \in [1..Len(A) -> T]  BY <1>1
<1> QED  BY <1>1, <1>2

\* Everything of a socket but its wires.
SameEnd(a, b) == b.inst = a.inst /\ b.code = a.code /\ b.st = a.st /\ b.live = a.live /\ b.hello = a.hello
SameEnds(A, B) == /\ B \in Seq(Sockets) /\ Len(B) = Len(A)
                  /\ \A c \in 1..Len(A) : SameEnd(A[c], B[c])

WithUp(a, u) == [a EXCEPT !.up = u]
WithDown(a, d) == [a EXCEPT !.down = d]
WithHello(a, h) == [a EXCEPT !.hello = h]
WithSt(a, s) == [a EXCEPT !.st = s]

LEMMA UpKept ==
    ASSUME NEW a \in Sockets, NEW u \in Seq(UpFrames)
    PROVE  WithUp(a, u) \in Sockets /\ SameEnd(a, WithUp(a, u)) /\ WithUp(a, u).up = u
<1>1. a \in Socket /\ Addressed(a)  BY DEF Sockets
<1>2. WithUp(a, u) \in Socket  BY <1>1 DEF Socket, WithUp
<1>3. SameEnd(a, WithUp(a, u)) /\ WithUp(a, u).down = a.down /\ WithUp(a, u).up = u
  BY <1>1 DEF Socket, WithUp, SameEnd
<1>4. Addressed(WithUp(a, u))  BY <1>1, <1>3 DEF Addressed, SameEnd
<1> QED  BY <1>2, <1>3, <1>4 DEF Sockets

LEMMA DownKept ==
    ASSUME NEW a \in Sockets, NEW d \in Seq(DownFrames),
           \A k \in 1..Len(d) : d[k].type = "prompt" => d[k].inst = a.inst
    PROVE  WithDown(a, d) \in Sockets /\ SameEnd(a, WithDown(a, d)) /\ WithDown(a, d).up = a.up
<1>1. a \in Socket  BY DEF Sockets
<1>2. WithDown(a, d) \in Socket  BY <1>1 DEF Socket, WithDown
<1>3. SameEnd(a, WithDown(a, d)) /\ WithDown(a, d).down = d /\ WithDown(a, d).up = a.up
  BY <1>1 DEF Socket, WithDown, SameEnd
<1>4. Addressed(WithDown(a, d))  BY <1>3 DEF Addressed, SameEnd
<1> QED  BY <1>2, <1>3, <1>4 DEF Sockets

LEMMA HelloKept ==
    ASSUME NEW a \in Sockets, NEW h \in {"none", "meta", "touch", "done", "failed"}
    PROVE  /\ WithHello(a, h) \in Sockets /\ WithHello(a, h).hello = h
           /\ WithHello(a, h).inst = a.inst /\ WithHello(a, h).code = a.code
           /\ WithHello(a, h).st = a.st /\ WithHello(a, h).live = a.live
<1>1. a \in Socket /\ Addressed(a)  BY DEF Sockets
<1>2. WithHello(a, h) \in Socket  BY <1>1 DEF Socket, WithHello
<1>3. /\ WithHello(a, h).down = a.down /\ WithHello(a, h).inst = a.inst /\ WithHello(a, h).hello = h
      /\ WithHello(a, h).code = a.code /\ WithHello(a, h).st = a.st /\ WithHello(a, h).live = a.live
  BY <1>1 DEF Socket, WithHello
<1>4. Addressed(WithHello(a, h))  BY <1>1, <1>3 DEF Addressed
<1> QED  BY <1>2, <1>3, <1>4 DEF Sockets

LEMMA StKept ==
    ASSUME NEW a \in Sockets, NEW s \in {"open", "closing", "closed"}
    PROVE  /\ WithSt(a, s) \in Sockets /\ WithSt(a, s).hello = a.hello /\ WithSt(a, s).st = s
           /\ WithSt(a, s).inst = a.inst /\ WithSt(a, s).code = a.code /\ WithSt(a, s).live = a.live
<1>1. a \in Socket /\ Addressed(a)  BY DEF Sockets
<1>2. WithSt(a, s) \in Socket  BY <1>1 DEF Socket, WithSt
<1>3. /\ WithSt(a, s).down = a.down /\ WithSt(a, s).inst = a.inst /\ WithSt(a, s).hello = a.hello
      /\ WithSt(a, s).code = a.code /\ WithSt(a, s).st = s /\ WithSt(a, s).live = a.live
  BY <1>1 DEF Socket, WithSt
<1>4. Addressed(WithSt(a, s))  BY <1>1, <1>3 DEF Addressed
<1> QED  BY <1>2, <1>3, <1>4 DEF Sockets

LEMMA SentSocket ==
    ASSUME NEW a \in Sockets, NEW f \in DownFrames, f.type = "prompt" => f.inst = a.inst
    PROVE  Sent(a, <<f>>) \in Sockets /\ SameEnd(a, Sent(a, <<f>>))
<1>1. CASE ~a.live  BY <1>1 DEF Sent, SameEnd
<1>2. CASE a.live
  <2> DEFINE d == a.down \o <<f>>
  <2>1. a.down \in Seq(DownFrames) /\ Addressed(a)  BY DEF Sockets, Socket
  <2>2. d \in Seq(DownFrames) /\ Len(d) = Len(a.down) + 1 /\ Len(a.down) \in Nat
    BY <2>1
  <2>3. \A k \in 1..Len(d) : d[k] = IF k <= Len(a.down) THEN a.down[k] ELSE f
    BY <2>1
  <2>4. \A k \in 1..Len(d) : d[k].type = "prompt" => d[k].inst = a.inst
    BY <2>1, <2>2, <2>3 DEF Addressed
  <2>5. Sent(a, <<f>>) = WithDown(a, d)  BY <1>2 DEF Sent, WithDown
  <2> HIDE DEF d
  <2> QED  BY <2>2, <2>4, <2>5, DownKept
<1> QED  BY <1>1, <1>2

\* A browser is sent frames: nothing else of it changes.
SameTab(b, d) == d.page = b.page /\ d.st = b.st /\ d.live = b.live /\ d.watch = b.watch /\ d.up = b.up
SameTabs(T, U) == /\ U \in Seq(Browsers) /\ Len(U) = Len(T)
                  /\ \A t \in 1..Len(T) : SameTab(T[t], U[t])

LEMMA BrowserDown ==
    ASSUME NEW b \in Browsers, NEW d \in Seq(TabFrames)
    PROVE  WithDown(b, d) \in Browsers /\ SameTab(b, WithDown(b, d))
<1>1. b \in Browser /\ Ordered(b)  BY DEF Browsers
<1>2. WithDown(b, d) \in Browser  BY <1>1 DEF Browser, WithDown
<1>3. SameTab(b, WithDown(b, d))  BY <1>1 DEF Browser, WithDown, SameTab
<1>4. Ordered(WithDown(b, d))  BY <1>1, <1>3 DEF Ordered, Governs, SameTab
<1> QED  BY <1>2, <1>3, <1>4 DEF Browsers

LEMMA SentBrowser ==
    ASSUME NEW b \in Browsers, NEW fs \in Seq(TabFrames)
    PROVE  Sent(b, fs) \in Browsers /\ SameTab(b, Sent(b, fs))
<1>1. CASE ~b.live  BY <1>1 DEF Sent, SameTab
<1>2. CASE b.live
  <2>1. b.down \o fs \in Seq(TabFrames)  BY DEF Browsers, Browser
  <2>2. Sent(b, fs) = WithDown(b, b.down \o fs)  BY <1>2 DEF Sent, WithDown
  <2> QED  BY <2>1, <2>2, BrowserDown
<1> QED  BY <1>1, <1>2

LEMMA Broadcast ==
    ASSUME NEW T \in Seq(Browsers), NEW fs \in Seq(TabFrames)
    PROVE  SameTabs(T, broadcastBrowsers(T, fs))
<1> DEFINE B == broadcastBrowsers(T, fs)
<1>1. DOMAIN T = 1..Len(T) /\ \A t \in 1..Len(T) : T[t] \in Browsers  BY LenProperties, ElementOfSeq
<1>2. \A t \in 1..Len(T) : B[t] \in Browsers /\ SameTab(T[t], B[t])
  BY <1>1, SentBrowser DEF broadcastBrowsers, SameTab
<1>3. B = [t \in DOMAIN T |-> B[t]]  BY DEF broadcastBrowsers
<1> HIDE DEF B
<1>4. B \in Seq(Browsers) /\ Len(B) = Len(T)  BY <1>2, <1>3, MapSeq
<1> QED  BY <1>2, <1>4 DEF SameTabs, B

LEMMA Recompute ==
    ASSUME NEW A \in Seq(Sockets), NEW T PROVE SameEnds(A, recomputeSubscriptions(A, T))
<1> DEFINE B == recomputeSubscriptions(A, T)
<1>0. Frame("subscribe") \in DownFrames /\ Frame("unsubscribe") \in DownFrames  BY DEF DownFrames
<1>f. Frame("subscribe").type # "prompt" /\ Frame("unsubscribe").type # "prompt"  BY DEF Frame
<1>1. DOMAIN A = 1..Len(A) /\ \A c \in 1..Len(A) : A[c] \in Sockets  BY LenProperties, ElementOfSeq
<1>2. \A c \in 1..Len(A) : B[c] \in Sockets /\ SameEnd(A[c], B[c])
  <2> TAKE c \in 1..Len(A)
  <2>1. \/ B[c] = A[c] \/ B[c] = Sent(A[c], <<Frame("subscribe")>>) \/ B[c] = Sent(A[c], <<Frame("unsubscribe")>>)
    BY <1>1 DEF recomputeSubscriptions
  <2>2. CASE B[c] = A[c]  BY <1>1, <2>2 DEF SameEnd
  <2> QED  BY <1>0, <1>f, <1>1, <2>1, <2>2, SentSocket
<1>3. B = [c \in DOMAIN A |-> B[c]]  BY DEF recomputeSubscriptions
<1> HIDE DEF B
<1>4. B \in Seq(Sockets) /\ Len(B) = Len(A)  BY <1>2, <1>3, MapSeq
<1> QED  BY <1>2, <1>4 DEF SameEnds, B

LEMMA SameOpen ==
    ASSUME NEW A \in Seq(Sockets), NEW B, SameEnds(A, B), OneOpen(A)
    PROVE  /\ OneOpen(B) /\ B \in Seq(Sockets)
           /\ OpenAgents(B) = OpenAgents(A) /\ \A i : AgentsOf(B, i) = AgentsOf(A, i)
<1>1. B \in Seq(Sockets) /\ DOMAIN A = 1..Len(A) /\ DOMAIN B = 1..Len(A) /\ Len(B) = Len(A)
  BY LenProperties DEF SameEnds
<1>2. \A c \in 1..Len(A) : B[c].st = A[c].st /\ B[c].inst = A[c].inst  BY DEF SameEnds, SameEnd
<1>3. OpenAgents(B) = OpenAgents(A)  BY <1>1, <1>2 DEF OpenAgents
<1>4. \A c \in OpenAgents(A) : c \in 1..Len(A)  BY <1>1 DEF OpenAgents
<1>5. \A i : AgentsOf(B, i) = AgentsOf(A, i)  BY <1>2, <1>3, <1>4 DEF AgentsOf
<1>6. OneOpen(B)  BY <1>1, <1>2 DEF OneOpen
<1> QED  BY <1>1, <1>3, <1>5, <1>6

\* A frame for a window goes to its socket.
LEMMA ChosenAgent ==
    ASSUME NEW A \in Seq(Sockets), OneOpen(A), NEW i, AgentsOf(A, i) # {}
    PROVE  AgentByInstance(A, i) \in AgentsOf(A, i)
<1>1. PICK c : c \in AgentsOf(A, i)  OBVIOUS
<1>2. \A d \in AgentsOf(A, i) : d \in 1..Len(A) /\ A[d].st = "open" /\ A[d].inst = i
  BY LenProperties DEF AgentsOf, OpenAgents
<1>3. \A d \in AgentsOf(A, i) : d = c  BY <1>1, <1>2 DEF OneOpen
<1>4. Len(A) \in Nat  BY LenProperties
<1>5. \A d \in AgentsOf(A, i) : d =< c  BY <1>1, <1>2, <1>3, <1>4
<1>6. \E e \in AgentsOf(A, i) : \A d \in AgentsOf(A, i) : d =< e  BY <1>1, <1>5
<1> QED  BY <1>6 DEF AgentByInstance

LEMMA SendToAgent ==
    ASSUME NEW A \in Seq(Sockets), OneOpen(A), NEW i, NEW f \in DownFrames, f.type = "prompt" => f.inst = i
    PROVE  SameEnds(A, sendAgentInstance(A, i, f))
<1> DEFINE B == sendAgentInstance(A, i, f)
<1>1. DOMAIN A = 1..Len(A) /\ \A c \in 1..Len(A) : A[c] \in Sockets  BY LenProperties, ElementOfSeq
<1>2. \A c \in 1..Len(A) : B[c] \in Sockets /\ SameEnd(A[c], B[c])
  <2> TAKE c \in 1..Len(A)
  <2>1. B[c] = IF AgentsOf(A, i) # {} /\ c = AgentByInstance(A, i) THEN Sent(A[c], <<f>>) ELSE A[c]
    BY <1>1 DEF sendAgentInstance
  <2>2. CASE AgentsOf(A, i) # {} /\ c = AgentByInstance(A, i)
    <3>1. A[c].inst = i  BY <2>2, ChosenAgent DEF AgentsOf
    <3>2. f.type = "prompt" => f.inst = A[c].inst  BY <3>1
    <3>3. A[c] \in Sockets /\ B[c] = Sent(A[c], <<f>>)  BY <1>1, <2>1, <2>2
    <3> QED  BY <3>2, <3>3, SentSocket
  <2>3. CASE ~(AgentsOf(A, i) # {} /\ c = AgentByInstance(A, i))  BY <1>1, <2>1, <2>3 DEF SameEnd
  <2> QED  BY <2>2, <2>3
<1>3. B = [c \in DOMAIN A |-> B[c]]  BY DEF sendAgentInstance
<1> HIDE DEF B
<1>4. B \in Seq(Sockets) /\ Len(B) = Len(A)  BY <1>2, <1>3, MapSeq
<1> QED  BY <1>2, <1>4 DEF SameEnds, B

LEMMA EndsTrans ==
    ASSUME NEW A, NEW B, NEW C, SameEnds(A, B), SameEnds(B, C) PROVE SameEnds(A, C)
BY DEF SameEnds, SameEnd

LEMMA EndsPut ==
    ASSUME NEW A \in Seq(Sockets), NEW c \in DOMAIN A, NEW x \in Sockets, SameEnd(A[c], x)
    PROVE  SameEnds(A, [A EXCEPT ![c] = x])
<1>1. c \in 1..Len(A) /\ \A d \in 1..Len(A) : SameEnd(A[d], A[d])  BY LenProperties DEF SameEnd
<1> QED  BY <1>1, ExceptSeq DEF SameEnds

LEMMA TabsPut ==
    ASSUME NEW T \in Seq(Browsers), NEW t \in DOMAIN T, NEW x \in Browsers, SameTab(T[t], x)
    PROVE  SameTabs(T, [T EXCEPT ![t] = x])
<1>1. t \in 1..Len(T) /\ \A d \in 1..Len(T) : SameTab(T[d], T[d])  BY LenProperties DEF SameTab
<1> QED  BY <1>1, ExceptSeq DEF SameTabs

-----------------------------------------------------------------------------
(* The frames of a browser: what the watch frames among them come to.      *)
WithWatch(b, i) == [b EXCEPT !.watch = i]
\* The relay takes the first frame of a browser.
Taken(b) == IF Head(b.up).type = "watch" THEN WithWatch(WithUp(b, Tail(b.up)), Head(b.up).inst)
            ELSE WithUp(b, Tail(b.up))

LEMMA TakenKept ==
    ASSUME NEW b \in Browsers, b.up # <<>>
    PROVE  /\ Taken(b) \in Browsers /\ Taken(b).page = b.page
           /\ \A i \in Instances : Governs(b, Len(b.up), i) => Governs(Taken(b), Len(Taken(b).up), i)
           /\ Head(b.up) \in TabFrameUp
           /\ Head(b.up).type = "prompt" => b.watch = Head(b.up).inst
<1> DEFINE d == Taken(b)  n == Len(b.up)
<1>1. b \in Browser /\ Ordered(b)  BY DEF Browsers
<1>2. b.up \in Seq(TabFrameUp)  BY <1>1 DEF Browser
<1>3. n \in Nat \ {0}  BY <1>2, EmptySeq
<1>4. /\ Head(b.up) \in TabFrameUp /\ Tail(b.up) \in Seq(TabFrameUp) /\ Len(Tail(b.up)) = n - 1
      /\ \A k \in 1..n - 1 : Tail(b.up)[k] = b.up[k + 1]
  BY <1>2, HeadTailProperties
<1>5. Head(b.up) = b.up[1]  BY <1>2
<1>6. /\ d \in Browser /\ d.page = b.page /\ d.up = Tail(b.up)
      /\ d.watch = IF b.up[1].type = "watch" THEN b.up[1].inst ELSE b.watch
  BY <1>1, <1>4, <1>5 DEF Browser, Taken, WithUp, WithWatch, TabFrameUp
<1>7. Len(d.up) = n - 1 /\ \A k \in 1..n - 1 : d.up[k] = b.up[k + 1]  BY <1>4, <1>6
<1> HIDE DEF d
<1>8. \A i : \A k \in 0..n - 1 : Governs(b, k + 1, i) => Governs(d, k, i)
  <2> SUFFICES ASSUME NEW k \in 0..n - 1, NEW i, Governs(b, k + 1, i) PROVE Governs(d, k, i)  OBVIOUS
  <2>0. k \in Nat /\ k =< n - 1  BY <1>3
  <2>1. CASE \E m \in 1..k + 1 : /\ b.up[m].type = "watch" /\ b.up[m].inst = i
                                 /\ \A j \in 1..k + 1 : j > m => b.up[j].type # "watch"
    <3>1. PICK m \in 1..k + 1 : /\ b.up[m].type = "watch" /\ b.up[m].inst = i
                                /\ \A j \in 1..k + 1 : j > m => b.up[j].type # "watch"
      BY <2>1
    <3>2. \A j \in 1..k : j + 1 > m => d.up[j].type # "watch"
      <4> SUFFICES ASSUME NEW j \in 1..k, j + 1 > m PROVE d.up[j].type # "watch"  OBVIOUS
      <4>1. j + 1 \in 1..k + 1 /\ j \in 1..n - 1  BY <2>0, <1>3
      <4> QED  BY <3>1, <4>1, <1>7
    <3>3. CASE m = 1
      <4>1. d.watch = i  BY <1>6, <3>1, <3>3
      <4>2. \A j \in 1..k : d.up[j].type # "watch"  BY <3>2, <3>3
      <4> QED  BY <4>1, <4>2 DEF Governs
    <3>4. CASE m # 1
      <4>1. m - 1 \in 1..k /\ m - 1 \in 1..n - 1  BY <3>4, <2>0, <1>3
      <4>2. d.up[m - 1] = b.up[m]
        <5>1. (m - 1) + 1 = m  OBVIOUS
        <5> QED  BY <4>1, <5>1, <1>7
      <4>3. \A j \in 1..k : j > m - 1 => d.up[j].type # "watch"  BY <3>2
      <4> QED  BY <3>1, <4>1, <4>2, <4>3 DEF Governs
    <3> QED  BY <3>3, <3>4
  <2>2. CASE b.watch = i /\ \A j \in 1..k + 1 : b.up[j].type # "watch"
    <3>1. 1 \in 1..k + 1  BY <2>0
    <3>2. d.watch = i  BY <3>1, <2>2, <1>6
    <3>3. \A j \in 1..k : d.up[j].type # "watch"
      <4> SUFFICES ASSUME NEW j \in 1..k PROVE d.up[j].type # "watch"  OBVIOUS
      <4>1. j + 1 \in 1..k + 1 /\ j \in 1..n - 1  BY <2>0, <1>3
      <4> QED  BY <2>2, <4>1, <1>7
    <3> QED  BY <3>2, <3>3 DEF Governs
  <2> QED  BY <2>1, <2>2 DEF Governs
<1>9. Ordered(d)
  <2> SUFFICES ASSUME NEW k \in 1..n - 1, d.up[k].type = "prompt" PROVE Governs(d, k, d.up[k].inst)
    BY <1>7 DEF Ordered
  <2>1. k + 1 \in 1..n /\ k \in 0..n - 1 /\ d.up[k] = b.up[k + 1]  BY <1>3, <1>7
  <2>2. Governs(b, k + 1, b.up[k + 1].inst)  BY <1>1, <2>1 DEF Ordered
  <2> QED  BY <2>1, <2>2, <1>8
<1>10. d \in Browsers  BY <1>6, <1>9 DEF Browsers
<1>11. \A i \in Instances : Governs(b, n, i) => Governs(d, Len(d.up), i)
  <2>1. n - 1 \in 0..n - 1 /\ (n - 1) + 1 = n  BY <1>3
  <2> QED  BY <2>1, <1>7, <1>8
<1>12. b.up[1].type = "prompt" => b.watch = b.up[1].inst
  <2> SUFFICES ASSUME b.up[1].type = "prompt" PROVE b.watch = b.up[1].inst  OBVIOUS
  <2>1. Governs(b, 1, b.up[1].inst)  BY <1>1, <1>3 DEF Ordered
  <2>2. \A m \in 1..1 : b.up[m].type # "watch"  OBVIOUS
  <2> QED  BY <2>1, <2>2 DEF Governs
<1> QED  BY <1>4, <1>5, <1>6, <1>10, <1>11, <1>12 DEF d

\* The page sends a frame: a watch, or a prompt for what the last watch asked.
LEMMA FrameAdded ==
    ASSUME NEW b \in Browsers, NEW f \in TabFrameUp, f.type = "prompt" => Governs(b, Len(b.up), f.inst)
    PROVE  LET d == WithUp(b, b.up \o <<f>>)
           IN  d \in Browsers /\ d.page = b.page /\ Governs(d, Len(d.up), f.inst)
<1> DEFINE u == b.up \o <<f>>  d == WithUp(b, u)  n == Len(b.up)
<1>1. b \in Browser /\ Ordered(b)  BY DEF Browsers
<1>2. b.up \in Seq(TabFrameUp) /\ n \in Nat  BY <1>1 DEF Browser
<1>3. u \in Seq(TabFrameUp) /\ Len(u) = n + 1  BY <1>2
<1>4. \A k \in 1..n + 1 : u[k] = IF k =< n THEN b.up[k] ELSE f  BY <1>2
<1> HIDE DEF u, n
<1>5. d \in Browser /\ d.page = b.page /\ d.up = u /\ d.watch = b.watch
  BY <1>1, <1>3 DEF Browser, WithUp
<1> HIDE DEF d
<1>6. \A i : \A k \in 0..n : Governs(b, k, i) => Governs(d, k, i)
  <2> SUFFICES ASSUME NEW k \in 0..n, NEW i, Governs(b, k, i) PROVE Governs(d, k, i)  OBVIOUS
  <2>1. \A j \in 1..k : d.up[j] = b.up[j]
    <3> TAKE j \in 1..k
    <3>1. j \in 1..n + 1 /\ j =< n  BY <1>2
    <3> QED  BY <3>1, <1>4, <1>5
  <2> QED  BY <2>1, <1>5 DEF Governs
<1>7. d.up[n + 1] = f  BY <1>2, <1>4, <1>5
<1>8. Governs(d, n + 1, f.inst)
  <2>1. CASE f.type = "watch"
    <3>1. n + 1 \in 1..n + 1 /\ \A j \in 1..n + 1 : ~(j > n + 1)  BY <1>2
    <3> QED  BY <2>1, <3>1, <1>7 DEF Governs
  <2>2. CASE f.type = "prompt"
    <3>1. Governs(d, n, f.inst)
      <4>1. n \in 0..n /\ Governs(b, n, f.inst)  BY <1>2, <2>2 DEF n
      <4> QED  BY <4>1, <1>6
    <3>2. \A j \in 1..n + 1 : j \in 1..n \/ d.up[j].type # "watch"
      <4> TAKE j \in 1..n + 1
      <4>1. j \in 1..n \/ j = n + 1  BY <1>2
      <4> QED  BY <4>1, <1>7, <2>2
    <3>3. \A j \in 1..n : j \in 1..n + 1  BY <1>2
    <3> QED  BY <3>1, <3>2, <3>3 DEF Governs
  <2> QED  BY <2>1, <2>2 DEF TabFrameUp
<1>9. Ordered(d)
  <2> SUFFICES ASSUME NEW k \in 1..n + 1, d.up[k].type = "prompt" PROVE Governs(d, k, d.up[k].inst)
    BY <1>3, <1>5 DEF Ordered
  <2>1. CASE k = n + 1  BY <2>1, <1>7, <1>8
  <2>2. CASE k # n + 1
    <3>1. k \in 1..n /\ k \in 0..n /\ d.up[k] = b.up[k]  BY <2>2, <1>2, <1>4, <1>5
    <3>2. Governs(b, k, b.up[k].inst)  BY <3>1, <1>1 DEF Ordered, n
    <3> QED  BY <3>1, <3>2, <1>6
  <2> QED  BY <2>1, <2>2
<1>10. d \in Browsers  BY <1>5, <1>9 DEF Browsers
<1>11. Governs(d, Len(d.up), f.inst)  BY <1>3, <1>5, <1>8
<1> QED  BY <1>5, <1>10, <1>11 DEF d, u

\* What a browser still delivers of its frames when its connection breaks.
Broken(b, m) == [b EXCEPT !.live = FALSE, !.down = <<>>, !.up = SubSeq(@, 1, m)]

LEMMA BrokenKept ==
    ASSUME NEW b \in Browsers, NEW m \in 0..Len(b.up)
    PROVE  Broken(b, m) \in Browsers /\ Broken(b, m).page = b.page
<1> DEFINE u == SubSeq(b.up, 1, m)  d == Broken(b, m)
<1>1. b \in Browser /\ Ordered(b)  BY DEF Browsers
<1>2. b.up \in Seq(TabFrameUp) /\ Len(b.up) \in Nat  BY <1>1 DEF Browser
<1>3. \A k \in 1..m : b.up[k] \in TabFrameUp
  <2> TAKE k \in 1..m
  <2>1. k \in 1..Len(b.up)  BY <1>2
  <2> QED  BY <2>1, <1>2, ElementOfSeq
<1>4. u \in Seq(TabFrameUp) /\ Len(u) = m /\ \A k \in 1..m : u[k] = b.up[k]
  <2>1. 1 \in Int /\ m \in Int /\ (IF 1 =< m THEN m - 1 + 1 ELSE 0) = m /\ 1..m - 1 + 1 = 1..m
        /\ \A k \in 1..m : 1 + k - 1 = k
    BY <1>2
  <2> QED  BY <2>1, <1>3, SubSeqProperties
<1> HIDE DEF u
<1>5. d \in Browser /\ d.page = b.page /\ d.up = u /\ d.watch = b.watch
  <2>1. d = [b EXCEPT !.live = FALSE, !.down = <<>>, !.up = u]  BY DEF Broken, u
  <2>2. <<>> \in Seq(TabFrames)  OBVIOUS
  <2> HIDE DEF d
  <2> QED  BY <1>1, <1>4, <2>1, <2>2 DEF Browser
<1> HIDE DEF d
<1>6. Ordered(d)
  <2> SUFFICES ASSUME NEW k \in 1..m, d.up[k].type = "prompt" PROVE Governs(d, k, d.up[k].inst)
    BY <1>4, <1>5 DEF Ordered
  <2>1. k \in 1..Len(b.up) /\ \A j \in 1..k : d.up[j] = b.up[j]  BY <1>2, <1>4, <1>5
  <2>2. d.up[k] = b.up[k]  BY <1>4, <1>5
  <2>3. Governs(b, k, b.up[k].inst)  BY <2>1, <2>2, <1>1 DEF Ordered
  <2> QED  BY <2>1, <2>2, <2>3, <1>5 DEF Governs
<1> QED  BY <1>5, <1>6 DEF Browsers, d

\* A browser the relay accepts, with the watch of its page's selection.
Joined(p, u, d) == [page |-> p, st |-> "open", live |-> TRUE, watch |-> None, up |-> u, down |-> d]

LEMMA JoinedKept ==
    ASSUME NEW p \in Pages, NEW i \in Instances \cup {None}, NEW d \in Seq(TabFrames)
    PROVE  LET b == Joined(p, IF i # None THEN <<Watch(i)>> ELSE <<>>, d)
           IN  b \in Browsers /\ b.page = p /\ (i # None => Governs(b, Len(b.up), i))
<1> DEFINE u == IF i # None THEN <<Watch(i)>> ELSE <<>>  b == Joined(p, u, d)
<1>1. i # None => Watch(i) \in TabFrameUp  BY DEF Watch, TabFrameUp
<1>2. u \in Seq(TabFrameUp) /\ Len(u) \in 0..1 /\ (i # None => Len(u) = 1)  BY <1>1
<1>3. i # None => u[1] = Watch(i)  OBVIOUS
<1>4. \A k \in 1..Len(u) : i # None /\ k = 1  BY <1>2
<1> HIDE DEF u
<1>5. b \in Browser /\ b.page = p /\ b.up = u  BY <1>2 DEF Joined, Browser
<1>6. \A k \in 1..Len(u) : u[k].type = "watch"  BY <1>3, <1>4 DEF Watch
<1>7. Ordered(b)  BY <1>5, <1>6 DEF Ordered
<1>8. ASSUME i # None PROVE Governs(b, Len(b.up), i)
  <2>1. 1 \in 1..1 /\ \A j \in 1..1 : ~(j > 1)  OBVIOUS
  <2>2. u[1].type = "watch" /\ u[1].inst = i /\ Len(u) = 1  BY <1>2, <1>3, <1>8 DEF Watch
  <2> QED  BY <2>1, <2>2, <1>5 DEF Governs
<1> QED  BY <1>5, <1>7, <1>8 DEF Browsers, u

-----------------------------------------------------------------------------
(* The page                                                                *)
LEMMA SelectedKept ==
    ASSUME NEW g \in PageStates, NEW i \in Instances, NEW s \in SessionIds
    PROVE  /\ Selected(g, i, s) \in PageStates
           /\ Selected(g, i, s).ws = g.ws /\ Selected(g, i, s).sel = i
<1> DEFINE v == IF g.sel = i /\ g.sess = s THEN g.view ELSE None  d == Selected(g, i, s)
<1>1. g \in PageState /\ Consistent(g)  BY DEF PageStates
<1>2. v \in {None} \cup Views  BY <1>1 DEF PageState
<1>3. d = [g EXCEPT !.sel = i, !.sess = s, !.view = v]  BY DEF Selected
<1>4. v # None => v.inst = i  BY <1>1, RelayAssumption DEF Consistent
<1> HIDE DEF d, v
<1>5. d \in PageState /\ d.ws = g.ws /\ d.sel = i /\ d.view = v
  BY <1>1, <1>2, <1>3 DEF PageState
<1>6. Consistent(d)  BY <1>4, <1>5 DEF Consistent
<1> QED  BY <1>5, <1>6 DEF PageStates, d

LEMMA FirstSession == ASSUME NEW x PROVE firstSessionId(x) \in SessionIds
BY DEF firstSessionId, SessionIds

\* The page once the catalog is in, before it picks a window.
Cleared(g, es, online, gone) ==
    [g EXCEPT !.known = es, !.online = online,
              !.sel = IF gone THEN None ELSE @, !.sess = IF gone THEN "" ELSE @,
              !.view = IF gone THEN None ELSE @]

LEMMA ClearedKept ==
    ASSUME NEW g \in PageStates, NEW es \in Entries, NEW online \in BOOLEAN, NEW gone \in BOOLEAN
    PROVE  /\ Cleared(g, es, online, gone) \in PageStates
           /\ Cleared(g, es, online, gone).ws = g.ws
           /\ Cleared(g, es, online, gone).sel = IF gone THEN None ELSE g.sel
<1>1. g \in PageState /\ Consistent(g)  BY DEF PageStates
<1>2. CASE gone
  <2>1. Cleared(g, es, online, gone) = [g EXCEPT !.known = es, !.online = online, !.sel = None, !.sess = "", !.view = None]
    BY <1>2 DEF Cleared
  <2> QED  BY <1>1, <1>2, <2>1 DEF PageStates, PageState, Consistent, SessionIds
<1>3. CASE ~gone
  <2>1. Cleared(g, es, online, gone) = [g EXCEPT !.known = es, !.online = online, !.sel = g.sel, !.sess = g.sess, !.view = g.view]
    BY <1>3 DEF Cleared
  <2> QED  BY <1>1, <1>3, <2>1 DEF PageStates, PageState, Consistent, SessionIds
<1> QED  BY <1>2, <1>3

\* A page after a frame: it keeps its socket, and its selection unless it drops or picks one.
PageStep(g, r) == /\ r.page \in PageStates /\ r.page.ws = g.ws
                  /\ r.picks \in BOOLEAN
                  /\ r.picks => r.page.sel \in Instances
                  /\ ~r.picks => r.page.sel \in {None, g.sel}

LEMMA CatalogApplied ==
    ASSUME NEW g \in PageStates, NEW f \in [type : {"catalog"}, entries : Entries, online : BOOLEAN]
    PROVE  PageStep(g, applyCatalog(g, f))
<1> DEFINE known == {j \in Instances : f.entries[j] # None}
           gone == g.sel # None /\ g.sel \notin known
           h == Cleared(g, f.entries, f.online /\ known # {}, gone)
           first == firstSessionId(f.entries[h.sel])
           only == CHOOSE j \in known : TRUE
           r == applyCatalog(g, f)
<1>1. f.entries \in Entries /\ f.online \in BOOLEAN  OBVIOUS
<1>2. (f.online /\ known # {}) \in BOOLEAN /\ gone \in BOOLEAN  BY Zenon
<1>3. r = IF h.sel = None /\ Cardinality(known) = 1
          THEN [page |-> Selected(h, only, firstSessionId(f.entries[only])), picks |-> TRUE]
          ELSE IF h.sel # None /\ h.sess \in {"", "live"} /\ first \notin {"", h.sess}
          THEN [page |-> Selected(h, h.sel, first), picks |-> TRUE]
          ELSE [page |-> h, picks |-> FALSE]
  BY Zenon DEF applyCatalog, Cleared
<1>4. Cardinality(known) = 1 => only \in Instances
  <2>1. Cardinality(known) = 1 => known # {}  BY FS_EmptySet
  <2>2. known # {} => only \in known  OBVIOUS
  <2> QED  BY <2>1, <2>2
<1> HIDE DEF known, gone, only, r
<1>5. h \in PageStates /\ h.ws = g.ws /\ h.sel = IF gone THEN None ELSE g.sel
  BY <1>1, <1>2, ClearedKept
<1>6. h.sel \in Instances \cup {None}  BY <1>5 DEF PageStates, PageState
<1> HIDE DEF h
<1>7. CASE h.sel = None /\ Cardinality(known) = 1
  <2>1. firstSessionId(f.entries[only]) \in SessionIds  BY FirstSession
  <2>2. r.page = Selected(h, only, firstSessionId(f.entries[only])) /\ r.picks = TRUE  BY <1>3, <1>7
  <2>3. only \in Instances  BY <1>4, <1>7
  <2> DEFINE s == firstSessionId(f.entries[only])
  <2> HIDE DEF s
  <2>a. Selected(h, only, s) \in PageStates /\ Selected(h, only, s).ws = h.ws /\ Selected(h, only, s).sel = only
    BY <1>5, <2>1, <2>3, SelectedKept, Zenon DEF s
  <2>4. r.page \in PageStates /\ r.page.ws = h.ws /\ r.page.sel = only
    BY <2>2, <2>a DEF s
  <2> QED  BY <1>5, <2>2, <2>3, <2>4 DEF PageStep, r
<1>8. CASE ~(h.sel = None /\ Cardinality(known) = 1) /\ h.sel # None /\ h.sess \in {"", "live"} /\ first \notin {"", h.sess}
  <2>1. first \in SessionIds  BY FirstSession
  <2>2. r.page = Selected(h, h.sel, first) /\ r.picks = TRUE  BY <1>3, <1>8
  <2>3. h.sel \in Instances  BY <1>6, <1>8
  <2> HIDE DEF first
  <2>a. Selected(h, h.sel, first) \in PageStates /\ Selected(h, h.sel, first).ws = h.ws /\ Selected(h, h.sel, first).sel = h.sel
    BY <1>5, <2>1, <2>3, SelectedKept, Zenon
  <2>4. r.page \in PageStates /\ r.page.ws = h.ws /\ r.page.sel = h.sel
    BY <2>2, <2>a
  <2> QED  BY <1>5, <2>2, <2>3, <2>4 DEF PageStep, r
<1>9. CASE /\ ~(h.sel = None /\ Cardinality(known) = 1)
           /\ ~(h.sel # None /\ h.sess \in {"", "live"} /\ first \notin {"", h.sess})
  <2>1. r = [page |-> h, picks |-> FALSE]  BY <1>3, <1>9, Zenon
  <2>2. r.page = h /\ r.picks = FALSE  BY <2>1
  <2> QED  BY <1>5, <2>2 DEF PageStep, r
<1> QED  BY <1>7, <1>8, <1>9

LEMMA FrameShown ==
    ASSUME NEW g \in PageStates, NEW f \in TabFrames, f.type # "catalog"
    PROVE  PageStep(g, [page |-> Shown(g, f), picks |-> FALSE])
<1>1. g \in PageState /\ Consistent(g)  BY DEF PageStates
<1>2. \/ f = Frame("machine_online") \/ f = Frame("machine_offline")
      \/ f \in [type : {"instance_offline"}, inst : Instances]
      \/ f \in [type : {"snapshot"}, inst : Instances, text : 0..MaxText, active : {"", "real"}]
  BY DEF TabFrames
<1> SUFFICES /\ Shown(g, f) \in PageState /\ Consistent(Shown(g, f))
             /\ Shown(g, f).ws = g.ws /\ Shown(g, f).sel \in {None, g.sel}
  BY DEF PageStep, PageStates
<1>3. CASE f = Frame("machine_online")
  <2>1. Shown(g, f) = [g EXCEPT !.online = TRUE]  BY <1>3 DEF Shown, Frame
  <2> QED  BY <1>1, <2>1 DEF PageState, Consistent, SessionIds
<1>4. CASE f = Frame("machine_offline")
  <2>1. Shown(g, f) = [g EXCEPT !.online = FALSE]  BY <1>4 DEF Shown, Frame
  <2> QED  BY <1>1, <2>1 DEF PageState, Consistent, SessionIds
<1>5. CASE f \in [type : {"instance_offline"}, inst : Instances]
  <2>1. Shown(g, f) = IF f.inst = g.sel THEN [g EXCEPT !.sel = None, !.sess = ""] ELSE g
    BY <1>5 DEF Shown
  <2> QED  BY <1>1, <2>1 DEF PageState, Consistent, SessionIds
<1>6. CASE f \in [type : {"snapshot"}, inst : Instances, text : 0..MaxText, active : {"", "real"}]
  <2> DEFINE v == [inst |-> f.inst, text |-> f.text]  s == IF g.sess = "" THEN f.active ELSE g.sess
  <2>1. Shown(g, f) = IF ~forSelectedInstance(g, f) THEN g
                      ELSE [g EXCEPT !.online = TRUE, !.sess = s, !.view = v]
    BY <1>6 DEF Shown
  <2>2. v \in Views /\ v.inst = f.inst /\ s \in SessionIds  BY <1>1, <1>6 DEF Views, PageState, SessionIds
  <2> HIDE DEF v, s
  <2> QED  BY <1>1, <2>1, <2>2 DEF PageState, Consistent, forSelectedInstance
<1> QED  BY <1>2, <1>3, <1>4, <1>5, <1>6

-----------------------------------------------------------------------------
(* The window's hub                                                        *)
LEMMA EmitKept ==
    ASSUME NEW out \in Seq(UpFrames), NEW f \in UpFrames PROVE Emit(out, <<f>>) \in Seq(UpFrames)
<1> DEFINE all == out \o <<f>>  m == 1 + (IF Len(all) > OUTBOUND_CAP THEN Len(all) - OUTBOUND_CAP ELSE 0)
<1>1. all \in Seq(UpFrames) /\ Len(all) \in Nat  OBVIOUS
<1> HIDE DEF all
<1>2. m \in Int /\ m >= 1  BY <1>1, MirrorAssumption
<1> HIDE DEF m
<1>3. \A k \in m..Len(all) : all[k] \in UpFrames
  <2> TAKE k \in m..Len(all)
  <2>1. k \in 1..Len(all)  BY <1>1, <1>2
  <2> QED  BY <1>1, <2>1, ElementOfSeq
<1>4. SubSeq(all, m, Len(all)) \in Seq(UpFrames)  BY <1>1, <1>2, <1>3, SubSeqProperties
<1> QED  BY <1>4 DEF Emit, all, m

LEMMA PagerFrames ==
    ASSUME NEW x \in PagerState
    PROVE  SessionCatalog(x) \in UpFrames /\ Snapshot(x) \in UpFrames /\ x.list \in Versions
BY DEF PagerState, SessionCatalog, Snapshot, UpFrames

\* Only the client changes the socket of a hub.
Pushed(h, k) == k \in HubState /\ k.conn = h.conn

LEMMA CatalogPushed ==
    ASSUME NEW h \in HubState, NEW x \in PagerState PROVE Pushed(h, push_catalog_if_connected(h, x))
<1>1. CASE h.conn = 0 \/ h.key = x.list  BY <1>1 DEF push_catalog_if_connected, Pushed
<1>2. CASE ~(h.conn = 0 \/ h.key = x.list)
  <2>0. h.out \in Seq(UpFrames)  BY DEF HubState
  <2>1. Emit(h.out, <<SessionCatalog(x)>>) \in Seq(UpFrames)  BY <2>0, EmitKept, PagerFrames
  <2>2. push_catalog_if_connected(h, x) = [h EXCEPT !.key = x.list, !.out = Emit(h.out, <<SessionCatalog(x)>>)]
    BY <1>2 DEF push_catalog_if_connected
  <2> QED  BY <2>1, <2>2, PagerFrames DEF HubState, Pushed
<1> QED  BY <1>1, <1>2

LEMMA SnapshotPushed ==
    ASSUME NEW h \in HubState, NEW x \in PagerState PROVE Pushed(h, push_snapshot_if_connected(h, x))
<1> DEFINE g == push_catalog_if_connected(h, x)
<1>1. Pushed(h, g)  BY CatalogPushed
<1>2. push_snapshot_if_connected(h, x) = IF g.conn = 0 \/ ~g.watching THEN g
                                         ELSE [g EXCEPT !.out = Emit(g.out, <<Snapshot(x)>>)]
  BY DEF push_snapshot_if_connected
<1> HIDE DEF g
<1>3. CASE g.conn = 0 \/ ~g.watching  BY <1>1, <1>2, <1>3
<1>4. CASE ~(g.conn = 0 \/ ~g.watching)
  <2>0. g.out \in Seq(UpFrames)  BY <1>1 DEF HubState, Pushed
  <2>1. Emit(g.out, <<Snapshot(x)>>) \in Seq(UpFrames)  BY <2>0, EmitKept, PagerFrames
  <2>2. push_snapshot_if_connected(h, x) = [g EXCEPT !.out = Emit(g.out, <<Snapshot(x)>>)]
    BY <1>2, <1>4
  <2> QED  BY <1>1, <2>1, <2>2 DEF HubState, Pushed
<1> QED  BY <1>3, <1>4

-----------------------------------------------------------------------------
(* What a step leaves of the invariant                                     *)
CatalogGrows ==
    /\ catalog' \in Entries
    /\ \A i \in Instances : /\ catalog[i] # None => catalog'[i] # None
                            /\ catalog'[i] # None => catalog[i] # None \/ AgentsOf(agents, i) # {}

LEMMA CatalogStays == ASSUME WiresInv, catalog' = catalog PROVE CatalogGrows
BY DEF WiresInv, CatalogGrows

\* The frames on the wires of the agents are nothing to their sockets and the catalog.
LEMMA SocketsSame ==
    ASSUME WiresInv, SocketInv, CatalogMatchesSockets, SameEnds(agents, agents'), CatalogGrows,
           \A i \in Instances : hub'[i].conn = hub[i].conn
    PROVE  SocketInv' /\ CatalogMatchesSockets' /\ agents' \in Seq(Sockets) /\ catalog' \in Entries
<1>1. agents \in Seq(Sockets)  BY DEF WiresInv
<1>2. /\ OneOpen(agents') /\ agents' \in Seq(Sockets)
      /\ OpenAgents(agents') = OpenAgents(agents) /\ \A i : AgentsOf(agents', i) = AgentsOf(agents, i)
  BY <1>1, SameOpen DEF SocketInv
<1>3. /\ Len(agents') = Len(agents) /\ DOMAIN agents = 1..Len(agents) /\ DOMAIN agents' = 1..Len(agents)
      /\ \A c \in 1..Len(agents) : SameEnd(agents[c], agents'[c])
  BY <1>1, <1>2, LenProperties DEF SameEnds
<1>4. \A c \in 1..Len(agents) : agents[c].inst \in Instances
  BY <1>1, ElementOfSeq DEF Sockets, Socket
<1>5. SocketInv'
  <2>1. \A i \in Instances : hub'[i].conn # 0 =>
           hub'[i].conn \in 1..Len(agents') /\ agents'[hub'[i].conn].inst = i /\ agents'[hub'[i].conn].live
    BY <1>3 DEF SocketInv, SameEnd
  <2>2. \A c \in 1..Len(agents') :
          /\ agents'[c].live => agents'[c].st = "open" /\ hub'[agents'[c].inst].conn = c
          /\ agents'[c].hello = "meta" => agents'[c].code
    BY <1>3, <1>4 DEF SocketInv, SameEnd
  <2> QED  BY <1>2, <2>1, <2>2 DEF SocketInv
<1>6. \A i : LateHello(i) => LateHello(i)'  BY <1>3 DEF LateHello, SameEnd
<1>7. \A i \in Instances : catalog'[i] # None => AgentsOf(agents', i) # {} \/ LateHello(i)'
  BY <1>2, <1>6 DEF CatalogMatchesSockets, CatalogGrows
<1>8. \A c \in OpenAgents(agents') :
          agents'[c].hello \in {"touch", "done"} => catalog'[agents'[c].inst] # None
  <2> SUFFICES ASSUME NEW c \in OpenAgents(agents), agents'[c].hello \in {"touch", "done"}
               PROVE  catalog'[agents'[c].inst] # None
    BY <1>2
  <2>1. c \in 1..Len(agents)  BY <1>3 DEF OpenAgents
  <2>2. agents[c].hello \in {"touch", "done"} /\ agents'[c].inst = agents[c].inst /\ agents[c].inst \in Instances
    BY <1>3, <1>4, <2>1 DEF SameEnd
  <2> QED  BY <2>2 DEF CatalogMatchesSockets, CatalogGrows
<1> QED  BY <1>2, <1>5, <1>7, <1>8 DEF CatalogMatchesSockets, CatalogGrows

\* The relay served a browser: what its frames ask in the end has not changed.
Served(b, d) == /\ d.page = b.page
                /\ \A i \in Instances : Governs(b, Len(b.up), i) => Governs(d, Len(d.up), i)
TabsServed(T, U) == U \in Seq(Browsers) /\ Len(U) = Len(T) /\ \A t \in 1..Len(T) : Served(T[t], U[t])

LEMMA SameServed == ASSUME NEW T, NEW U, SameTabs(T, U) PROVE TabsServed(T, U)
BY DEF SameTabs, SameTab, TabsServed, Served, Governs

LEMMA ServedTrans ==
    ASSUME NEW A, NEW B, NEW C, TabsServed(A, B), TabsServed(B, C) PROVE TabsServed(A, C)
BY DEF TabsServed, Served

LEMMA ServedPut ==
    ASSUME NEW T \in Seq(Browsers), NEW t \in DOMAIN T, NEW x \in Browsers, Served(T[t], x)
    PROVE  TabsServed(T, [T EXCEPT ![t] = x])
<1>1. t \in 1..Len(T) /\ \A d \in 1..Len(T) : Served(T[d], T[d])  BY LenProperties DEF Served
<1> QED  BY <1>1, ExceptSeq DEF TabsServed

LEMMA PagesSame ==
    ASSUME WiresInv, PageInv, TabsServed(tabs, tabs'), page' = page
    PROVE  PageInv' /\ tabs' \in Seq(Browsers)
<1> SUFFICES ASSUME NEW p \in Pages, page[p].ws # 0
             PROVE  /\ page[p].ws \in 1..Len(tabs') /\ tabs'[page[p].ws].page = p
                    /\ page[p].sel # None => Governs(tabs'[page[p].ws], Len(tabs'[page[p].ws].up), page[p].sel)
  BY DEF PageInv, TabsServed
<1>1. page[p].sel \in Instances \cup {None}  BY DEF WiresInv, PageStates, PageState
<1>2. page[p].ws \in 1..Len(tabs) /\ Served(tabs[page[p].ws], tabs'[page[p].ws])  BY DEF PageInv, TabsServed
<1> QED  BY <1>1, <1>2 DEF PageInv, Served, TabsServed

LEMMA PageMoves ==
    ASSUME WiresInv, PageInv, NEW p \in Pages, NEW g \in PageStates, page' = [page EXCEPT ![p] = g],
           tabs' \in Seq(Browsers), Len(tabs') >= Len(tabs),
           \A u \in 1..Len(tabs) : u # page[p].ws => tabs'[u] = tabs[u],
           g.ws # 0 => /\ g.ws \in 1..Len(tabs') /\ tabs'[g.ws].page = p
                       /\ g.sel # None => Governs(tabs'[g.ws], Len(tabs'[g.ws].up), g.sel)
    PROVE  PageInv' /\ page' \in [Pages -> PageStates]
<1>1. page \in [Pages -> PageStates] /\ tabs \in Seq(Browsers)  BY DEF WiresInv
<1>2. page' \in [Pages -> PageStates]  BY <1>1
<1>3. Len(tabs) \in Nat /\ Len(tabs') \in Nat  BY <1>1, LenProperties
<1>4. ASSUME NEW q \in Pages, page'[q].ws # 0
      PROVE  /\ page'[q].ws \in 1..Len(tabs') /\ tabs'[page'[q].ws].page = q
             /\ page'[q].sel # None => Governs(tabs'[page'[q].ws], Len(tabs'[page'[q].ws].up), page'[q].sel)
  <2>1. CASE q = p
    <3>1. page'[q] = g  BY <1>1, <2>1
    <3> QED  BY <1>4, <2>1, <3>1
  <2>2. CASE q # p
    <3>1. page'[q] = page[q]  BY <1>1, <2>2
    <3>2. /\ page[q].ws \in 1..Len(tabs) /\ tabs[page[q].ws].page = q
          /\ page[q].sel # None => Governs(tabs[page[q].ws], Len(tabs[page[q].ws].up), page[q].sel)
      BY <1>4, <3>1 DEF PageInv
    <3>3. page[q].ws # page[p].ws
      <4> SUFFICES ASSUME page[q].ws = page[p].ws PROVE FALSE  OBVIOUS
      <4>1. tabs[page[p].ws].page = p  BY <1>4, <3>1 DEF PageInv
      <4> QED  BY <2>2, <3>2, <4>1
    <3>4. tabs'[page[q].ws] = tabs[page[q].ws] /\ page[q].ws \in 1..Len(tabs')  BY <1>3, <3>2, <3>3
    <3> QED  BY <3>1, <3>2, <3>4
  <2> QED  BY <2>1, <2>2
<1> QED  BY <1>2, <1>4 DEF PageInv

LEMMA SocketPut ==
    ASSUME NEW A \in Seq(Sockets), NEW c \in DOMAIN A, NEW x \in Sockets
    PROVE  LET B == [A EXCEPT ![c] = x]
           IN  /\ B \in Seq(Sockets) /\ Len(B) = Len(A) /\ c \in 1..Len(A)
               /\ DOMAIN A = 1..Len(A) /\ DOMAIN B = 1..Len(A)
               /\ B[c] = x /\ \A d \in 1..Len(A) : d # c => B[d] = A[d]
<1>1. c \in 1..Len(A) /\ DOMAIN A = 1..Len(A)  BY LenProperties
<1> QED  BY <1>1, ExceptSeq

\* hello of socket c goes on: the socket stays as it is.
HelloStep(c, x) ==
    /\ x.inst = agents[c].inst /\ x.code = agents[c].code /\ x.st = agents[c].st /\ x.live = agents[c].live
    /\ x.hello = "meta" => x.code
    /\ agents[c].hello \in {"touch", "done"} => x.hello \in {"touch", "done"} \/ x.st = "open"
    /\ x.hello \in {"touch", "done"} /\ x.st = "open" => catalog'[x.inst] # None
    /\ \A i \in Instances : catalog[i] # None => catalog'[i] # None
    /\ \A i \in Instances : catalog'[i] # None =>
          \/ catalog[i] # None
          \/ i = x.inst /\ x.st = "open"
          \/ i = x.inst /\ x.hello = "touch" /\ agents[c].hello = "meta"

LEMMA HelloMoves ==
    ASSUME IInv, hub' = hub, NEW c \in DOMAIN agents, NEW x \in Sockets, agents' = [agents EXCEPT ![c] = x],
           HelloStep(c, x)
    PROVE  SocketInv' /\ CatalogMatchesSockets' /\ agents' \in Seq(Sockets)
<1> USE DEF HelloStep
<1>1. agents \in Seq(Sockets) /\ SocketInv /\ CatalogMatchesSockets  BY DEF IInv, WiresInv
<1>2. /\ agents' \in Seq(Sockets) /\ Len(agents') = Len(agents) /\ c \in 1..Len(agents)
      /\ DOMAIN agents = 1..Len(agents) /\ DOMAIN agents' = 1..Len(agents)
      /\ agents'[c] = x /\ \A d \in 1..Len(agents) : d # c => agents'[d] = agents[d]
  BY <1>1, SocketPut
<1>3. \A d \in 1..Len(agents) : /\ agents'[d].inst = agents[d].inst /\ agents'[d].st = agents[d].st
                                /\ agents'[d].live = agents[d].live /\ agents'[d].code = agents[d].code
                                /\ d # c => agents'[d].hello = agents[d].hello
  BY <1>2
<1>4. \A d \in 1..Len(agents) : agents[d].inst \in Instances
  BY <1>1, ElementOfSeq DEF Sockets, Socket
<1>5. SocketInv'
  <2>1. OneOpen(agents')  BY <1>1, <1>2, <1>3 DEF SocketInv, OneOpen
  <2>2. \A i \in Instances : hub'[i].conn # 0 =>
           hub'[i].conn \in 1..Len(agents') /\ agents'[hub'[i].conn].inst = i /\ agents'[hub'[i].conn].live
    BY <1>1, <1>2, <1>3 DEF SocketInv
  <2>3. \A d \in 1..Len(agents') :
          /\ agents'[d].live => agents'[d].st = "open" /\ hub'[agents'[d].inst].conn = d
          /\ agents'[d].hello = "meta" => agents'[d].code
    BY <1>1, <1>2, <1>3, <1>4 DEF SocketInv
  <2> QED  BY <2>1, <2>2, <2>3 DEF SocketInv
<1>6. OpenAgents(agents') = OpenAgents(agents)  BY <1>2, <1>3 DEF OpenAgents
<1>7. \A i : AgentsOf(agents', i) = AgentsOf(agents, i)
  <2>1. \A d \in OpenAgents(agents) : d \in 1..Len(agents)  BY <1>2 DEF OpenAgents
  <2> QED  BY <1>3, <1>6, <2>1 DEF AgentsOf
<1>8. x.st = "open" => AgentsOf(agents, x.inst) # {}
  <2>1. x.st = "open" => c \in AgentsOf(agents, x.inst)  BY <1>2 DEF AgentsOf, OpenAgents
  <2> QED  BY <2>1
<1>9. \A i \in Instances : LateHello(i) => LateHello(i)' \/ AgentsOf(agents, i) # {}
  <2> SUFFICES ASSUME NEW i \in Instances, LateHello(i) PROVE LateHello(i)' \/ AgentsOf(agents, i) # {}
    OBVIOUS
  <2>1. PICK d \in DOMAIN agents : /\ agents[d].inst = i /\ agents[d].code /\ ~agents[d].live
                                   /\ agents[d].hello \in {"touch", "done"}
    BY DEF LateHello
  <2>2. CASE d = c /\ x.st = "open"  BY <1>8, <2>1, <2>2
  <2>3. CASE ~(d = c /\ x.st = "open")
    <3>1. agents'[d].hello \in {"touch", "done"}  BY <1>2, <2>1, <2>3
    <3> QED  BY <1>2, <1>3, <2>1, <3>1 DEF LateHello
  <2> QED  BY <2>2, <2>3
<1>10. x.hello = "touch" /\ agents[c].hello = "meta" /\ x.st # "open" => LateHello(x.inst)'
  <2> SUFFICES ASSUME x.hello = "touch", agents[c].hello = "meta", x.st # "open" PROVE LateHello(x.inst)'
    OBVIOUS
  <2>1. agents[c].code /\ ~agents[c].live  BY <1>1, <1>2 DEF SocketInv
  <2> QED  BY <1>2, <2>1 DEF LateHello
<1>11. \A i \in Instances : catalog'[i] # None => AgentsOf(agents', i) # {} \/ LateHello(i)'
  <2> SUFFICES ASSUME NEW i \in Instances, catalog'[i] # None
               PROVE  AgentsOf(agents, i) # {} \/ LateHello(i)'
    BY <1>7
  <2>1. CASE catalog[i] # None  BY <1>1, <1>9, <2>1 DEF CatalogMatchesSockets
  <2>2. CASE catalog[i] = None  BY <1>8, <1>10, <2>2
  <2> QED  BY <2>1, <2>2
<1>12. \A d \in OpenAgents(agents') :
          agents'[d].hello \in {"touch", "done"} => catalog'[agents'[d].inst] # None
  <2> SUFFICES ASSUME NEW d \in OpenAgents(agents), agents'[d].hello \in {"touch", "done"}
               PROVE  catalog'[agents'[d].inst] # None
    BY <1>6
  <2>1. d \in 1..Len(agents)  BY <1>2 DEF OpenAgents
  <2>2. CASE d = c  BY <1>2, <2>2 DEF OpenAgents
  <2>3. CASE d # c  BY <1>1, <1>2, <1>4, <2>1, <2>3 DEF CatalogMatchesSockets
  <2> QED  BY <2>2, <2>3
<1> QED  BY <1>2, <1>5, <1>11, <1>12 DEF CatalogMatchesSockets

\* Only the relay has moved.
RelayOnly == UNCHANGED <<hub, pager, pushed, page, inputs, drops>>

LEMMA RelayMoves ==
    ASSUME IInv, RelayOnly, TabsServed(tabs, tabs'), agents' \in Seq(Sockets), catalog' \in Entries,
           SocketInv', CatalogMatchesSockets'
    PROVE  IInv'
<1>1. page' = page /\ hub' = hub /\ pager' = pager /\ pushed' = pushed /\ inputs' = inputs /\ drops' = drops
  BY DEF RelayOnly
<1>2. WiresInv /\ PageInv  BY DEF IInv
<1>3. PageInv' /\ tabs' \in Seq(Browsers)  BY <1>1, <1>2, PagesSame
<1>4. WiresInv'  BY <1>1, <1>2, <1>3 DEF WiresInv
<1> QED  BY <1>3, <1>4 DEF IInv

\* Only frames went to and from the sockets.
LEMMA RelayForwards ==
    ASSUME IInv, RelayOnly, TabsServed(tabs, tabs'), SameEnds(agents, agents'), CatalogGrows
    PROVE  IInv'
<1>1. \A i \in Instances : hub'[i].conn = hub[i].conn  BY DEF RelayOnly
<1>2. SocketInv' /\ CatalogMatchesSockets' /\ agents' \in Seq(Sockets) /\ catalog' \in Entries
  BY <1>1, SocketsSame DEF IInv
<1> QED  BY <1>2, RelayMoves

LEMMA HelloEntered ==
    ASSUME catalog \in Entries, NEW i \in Instances
    PROVE  /\ HelloEntry(i) \in Entries /\ HelloEntry(i)[i] # None
           /\ \A j \in Instances : j # i => HelloEntry(i)[j] = catalog[j]
<1> DEFINE v == IF catalog[i] = None THEN 0 ELSE catalog[i]
<1>1. v \in Versions \cup {None} /\ v # None
  BY RelayAssumption, MirrorAssumption DEF Entries, Versions
<1>2. HelloEntry(i) = [catalog EXCEPT ![i] = v]  BY DEF HelloEntry
<1> HIDE DEF v
<1> QED  BY <1>1, <1>2 DEF Entries

LEMMA OpenSocket ==
    ASSUME WiresInv, NEW c \in DOMAIN agents
    PROVE  agents[c] \in Sockets /\ agents[c].inst \in Instances /\ agents[c].up \in Seq(UpFrames)
           /\ agents[c].code \in BOOLEAN /\ c \in 1..Len(agents)
<1>1. agents \in Seq(Sockets) /\ c \in 1..Len(agents)  BY LenProperties DEF WiresInv
<1>2. agents[c] \in Sockets  BY <1>1, ElementOfSeq
<1> QED  BY <1>1, <1>2 DEF Sockets, Socket

LEMMA TabsStay == ASSUME WiresInv, tabs' = tabs PROVE TabsServed(tabs, tabs')
BY DEF WiresInv, TabsServed, Served

LEMMA TabsTold ==
    ASSUME WiresInv, NEW fs \in Seq(TabFrames), tabs' = broadcastBrowsers(tabs, fs)
    PROVE  TabsServed(tabs, tabs')
BY Broadcast, SameServed DEF WiresInv

LEMMA CatalogFramed ==
    ASSUME NEW C \in Entries, NEW b \in BOOLEAN PROVE CatalogFrame(C, b) \in TabFrames
<1>1. CatalogFrame(C, b) \in [type : {"catalog"}, entries : Entries, online : BOOLEAN]  BY DEF CatalogFrame
<1> QED  BY <1>1 DEF TabFrames

LEMMA HelloSteps ==
    ASSUME IInv, RelayOnly, NEW c \in DOMAIN agents,
           OnHello(c) \/ HelloSaves(c) \/ HelloFails(c) \/ HelloBroadcasts(c)
    PROVE  IInv'
<1>0. WiresInv /\ catalog \in Entries /\ agents \in Seq(Sockets) /\ hub' = hub
  BY DEF IInv, WiresInv, RelayOnly
<1> DEFINE a == agents[c]
<1>1. a \in Sockets /\ a.inst \in Instances /\ a.up \in Seq(UpFrames) /\ a.code \in BOOLEAN  BY <1>0, OpenSocket
<1>2. ASSUME OnHello(c) PROVE IInv'
  <2> DEFINE h == IF a.code THEN "meta" ELSE "touch"  y == WithUp(a, Tail(a.up))  x == WithHello(y, h)
  <2>1. a.up # <<>> /\ a.st = "open"  BY <1>2 DEF OnHello, AgentFrame, OpenAgents
  <2>2. Tail(a.up) \in Seq(UpFrames)  BY <1>1, <2>1, HeadTailProperties
  <2>3. y \in Sockets /\ SameEnd(a, y)  BY <1>1, <2>2, UpKept
  <2>4. h \in {"none", "meta", "touch", "done", "failed"}  OBVIOUS
  <2>5. agents' = [agents EXCEPT ![c] = x]
    BY <1>0, <1>2 DEF OnHello, TakeUp, WithUp, WithHello
  <2>6. catalog' = (IF a.code THEN catalog ELSE HelloEntry(a.inst)) /\ tabs' = tabs  BY <1>2 DEF OnHello
  <2> HIDE DEF y
  <2>7. /\ x \in Sockets /\ x.hello = h /\ x.inst = a.inst /\ x.code = a.code /\ x.st = a.st /\ x.live = a.live
    BY <2>3, <2>4, HelloKept DEF SameEnd
  <2> HIDE DEF x
  <2>8. /\ catalog' \in Entries /\ (~a.code => catalog'[a.inst] # None)
        /\ \A i \in Instances : i # a.inst => catalog'[i] = catalog[i]
        /\ a.code => catalog' = catalog
    BY <1>0, <1>1, <2>6, HelloEntered
  <2>9. SocketInv' /\ CatalogMatchesSockets' /\ agents' \in Seq(Sockets)
    <3>1. HelloStep(c, x)  BY <1>0, <2>1, <2>7, <2>8 DEF HelloStep
    <3> QED  BY <1>0, <2>5, <2>7, <3>1, HelloMoves
  <2> QED  BY <1>0, <2>6, <2>8, <2>9, TabsStay, RelayMoves
<1>3. ASSUME HelloSaves(c) PROVE IInv'
  <2> DEFINE x == WithHello(a, "touch")
  <2>1. a.hello = "meta" /\ catalog' = HelloEntry(a.inst) /\ tabs' = tabs  BY <1>3 DEF HelloSaves
  <2>2. agents' = [agents EXCEPT ![c] = x]  BY <1>0, <1>3 DEF HelloSaves, WithHello
  <2>3. /\ x \in Sockets /\ x.hello = "touch" /\ x.inst = a.inst /\ x.code = a.code /\ x.st = a.st /\ x.live = a.live
    BY <1>1, HelloKept
  <2> HIDE DEF x
  <2>4. /\ catalog' \in Entries /\ catalog'[a.inst] # None
        /\ \A i \in Instances : i # a.inst => catalog'[i] = catalog[i]
    BY <1>0, <1>1, <2>1, HelloEntered
  <2>5. SocketInv' /\ CatalogMatchesSockets' /\ agents' \in Seq(Sockets)
    <3>1. HelloStep(c, x)  BY <1>0, <2>1, <2>3, <2>4 DEF HelloStep
    <3> QED  BY <1>0, <2>2, <2>3, <3>1, HelloMoves
  <2> QED  BY <1>0, <2>1, <2>4, <2>5, TabsStay, RelayMoves
<1>4. ASSUME HelloFails(c) PROVE IInv'
  <2> DEFINE x == WithHello(a, "failed")
  <2>1. a.hello = "meta" /\ catalog' = catalog /\ tabs' = tabs  BY <1>4 DEF HelloFails
  <2>2. agents' = [agents EXCEPT ![c] = x]  BY <1>0, <1>4 DEF HelloFails, WithHello
  <2>3. /\ x \in Sockets /\ x.hello = "failed" /\ x.inst = a.inst /\ x.code = a.code /\ x.st = a.st /\ x.live = a.live
    BY <1>1, HelloKept
  <2> HIDE DEF x
  <2>5. SocketInv' /\ CatalogMatchesSockets' /\ agents' \in Seq(Sockets)
    <3>1. HelloStep(c, x)  BY <1>0, <2>1, <2>3 DEF HelloStep
    <3> QED  BY <1>0, <2>2, <2>3, <3>1, HelloMoves
  <2> QED  BY <1>0, <2>1, <2>5, TabsStay, RelayMoves
<1>5. ASSUME HelloBroadcasts(c) PROVE IInv'
  <2> DEFINE x == WithHello(a, "done")
  <2>1. a.hello = "touch" /\ catalog' = catalog /\ tabs' = broadcastBrowsers(tabs, <<CatalogNow(agents)>>)
    BY <1>5 DEF HelloBroadcasts
  <2>2. agents' = [agents EXCEPT ![c] = x]  BY <1>0, <1>5 DEF HelloBroadcasts, WithHello
  <2>3. /\ x \in Sockets /\ x.hello = "done" /\ x.inst = a.inst /\ x.code = a.code /\ x.st = a.st /\ x.live = a.live
    BY <1>1, HelloKept
  <2> HIDE DEF x
  <2>4. a.st = "open" => catalog[a.inst] # None
    <3>1. a.st = "open" => c \in OpenAgents(agents)  BY DEF OpenAgents
    <3> QED  BY <2>1, <3>1 DEF IInv, CatalogMatchesSockets
  <2>5. SocketInv' /\ CatalogMatchesSockets' /\ agents' \in Seq(Sockets)
    <3>1. HelloStep(c, x)  BY <1>0, <2>1, <2>3, <2>4 DEF HelloStep
    <3> QED  BY <1>0, <2>2, <2>3, <3>1, HelloMoves
  <2>6. (OpenAgents(agents) # {}) \in BOOLEAN  OBVIOUS
  <2>7. <<CatalogNow(agents)>> \in Seq(TabFrames)  
    <3>1. CatalogNow(agents) \in TabFrames  BY <1>0, <2>6, CatalogFramed, Zenon DEF CatalogNow
    <3> QED  BY <3>1
  <2> QED  BY <1>0, <2>1, <2>5, <2>7, TabsTold, RelayMoves
<1> QED  BY <1>2, <1>3, <1>4, <1>5

LEMMA UpFrameKinds ==
    ASSUME NEW f \in UpFrames
    PROVE  /\ f.type = "session_catalog" => f.list \in Versions
           /\ f.type = "snapshot" => f.text \in 0..MaxText /\ f.active \in {"", "real"}
<1>1. CASE f = Frame("hello")
  <2>1. f.type = "hello"  BY <1>1 DEF Frame
  <2> QED  BY <2>1
<1>2. CASE f \in [type : {"session_catalog"}, list : Versions]
  <2>1. f.type = "session_catalog" /\ f.list \in Versions  BY <1>2
  <2> QED  BY <2>1
<1>3. CASE f \in [type : {"snapshot"}, text : 0..MaxText, active : {"", "real"}]
  <2>1. f.type = "snapshot" /\ f.text \in 0..MaxText /\ f.active \in {"", "real"}  BY <1>3
  <2> QED  BY <2>1
<1> QED  BY <1>1, <1>2, <1>3 DEF UpFrames

LEMMA FrameTaken ==
    ASSUME WiresInv, NEW c, NEW type, AgentFrame(c, type)
    PROVE  /\ SameEnds(agents, TakeUp(c)) /\ c \in DOMAIN agents /\ agents[c].inst \in Instances
           /\ Head(agents[c].up) \in UpFrames /\ Head(agents[c].up).type = type
           /\ AgentsOf(agents, agents[c].inst) # {}
<1>1. c \in DOMAIN agents /\ agents[c].up # <<>> /\ Head(agents[c].up).type = type  BY DEF AgentFrame, OpenAgents
<1>2. agents[c] \in Sockets /\ agents[c].inst \in Instances /\ agents[c].up \in Seq(UpFrames)
  BY <1>1, OpenSocket
<1>3. Tail(agents[c].up) \in Seq(UpFrames) /\ Head(agents[c].up) \in UpFrames
  BY <1>1, <1>2, HeadTailProperties
<1>4. WithUp(agents[c], Tail(agents[c].up)) \in Sockets /\ SameEnd(agents[c], WithUp(agents[c], Tail(agents[c].up)))
  BY <1>2, <1>3, UpKept
<1>5. TakeUp(c) = [agents EXCEPT ![c] = WithUp(agents[c], Tail(agents[c].up))]  BY DEF TakeUp, WithUp
<1>6. agents \in Seq(Sockets)  BY DEF WiresInv
<1>7. SameEnds(agents, TakeUp(c))  BY <1>1, <1>4, <1>5, <1>6, EndsPut
<1>8. c \in AgentsOf(agents, agents[c].inst)  BY DEF AgentFrame, AgentsOf
<1> QED  BY <1>1, <1>2, <1>3, <1>7, <1>8

LEMMA SessionCatalogStep ==
    ASSUME IInv, RelayOnly, NEW c, OnSessionCatalog(c) PROVE IInv'
<1> DEFINE i == agents[c].inst  f == Head(agents[c].up)
<1>0. WiresInv /\ catalog \in Entries  BY DEF IInv, WiresInv
<1>1. /\ SameEnds(agents, agents') /\ i \in Instances /\ f \in UpFrames /\ f.type = "session_catalog"
      /\ AgentsOf(agents, i) # {}
  BY <1>0, FrameTaken DEF OnSessionCatalog
<1>2. f.list \in Versions /\ f.list # None
  <2> HIDE DEF f
  <2>2. f.list \in Versions  BY <1>1, UpFrameKinds
  <2> QED  BY <2>2, RelayAssumption, MirrorAssumption DEF Versions
<1>3. catalog' = [catalog EXCEPT ![i] = f.list]
      /\ tabs' = broadcastBrowsers(tabs, <<CatalogFrame(catalog', OpenAgents(agents) # {})>>)
  BY DEF OnSessionCatalog
<1> HIDE DEF i, f
<1>4. catalog' \in Entries /\ catalog'[i] # None /\ \A j \in Instances : j # i => catalog'[j] = catalog[j]
  BY <1>0, <1>1, <1>2, <1>3 DEF Entries
<1>5. CatalogGrows  BY <1>1, <1>4 DEF CatalogGrows
<1>6. (OpenAgents(agents) # {}) \in BOOLEAN  OBVIOUS
<1>7. CatalogFrame(catalog', OpenAgents(agents) # {}) \in TabFrames  BY <1>4, <1>6, CatalogFramed, Zenon
<1>8. <<CatalogFrame(catalog', OpenAgents(agents) # {})>> \in Seq(TabFrames)  BY <1>7
<1>9. TabsServed(tabs, tabs')  BY <1>0, <1>3, <1>8, TabsTold
<1> QED  BY <1>1, <1>5, <1>9, RelayForwards

LEMMA SnapshotStep ==
    ASSUME IInv, RelayOnly, NEW c, OnSnapshot(c) PROVE IInv'
<1> DEFINE i == agents[c].inst  f == Head(agents[c].up)
           frame == [type |-> "snapshot", inst |-> i, text |-> f.text, active |-> f.active]
<1>0. WiresInv /\ catalog' = catalog  BY DEF IInv, OnSnapshot
<1>1. SameEnds(agents, agents') /\ i \in Instances /\ f \in UpFrames /\ f.type = "snapshot"
  BY <1>0, FrameTaken DEF OnSnapshot
<1>2. f.text \in 0..MaxText /\ f.active \in {"", "real"}
  <2> HIDE DEF f
  <2> QED  BY <1>1, UpFrameKinds
<1>3. tabs' = IF i \in watchedInstanceIds(tabs) THEN broadcastBrowsers(tabs, <<frame>>) ELSE tabs
  BY DEF OnSnapshot
<1> HIDE DEF i, f
<1>4. frame \in TabFrames  BY <1>1, <1>2 DEF TabFrames
<1> HIDE DEF frame
<1>5. <<frame>> \in Seq(TabFrames)  BY <1>4
<1>6. TabsServed(tabs, tabs')  BY <1>0, <1>3, <1>5, TabsTold, TabsStay
<1> QED  BY <1>0, <1>1, <1>6, CatalogStays, RelayForwards

\* The close event: the entry goes with the last socket of its window.
LEMMA AgentCloseStep ==
    ASSUME IInv, RelayOnly, NEW c, AgentClose(c) PROVE IInv'
<1> DEFINE a == agents[c]  i == agents[c].inst  x == WithSt(agents[c], "closed")
           still == AgentsOf(agents', i) # {}
           fs == (IF still THEN <<>> ELSE <<InstanceOffline(i)>>)
                 \o <<CatalogFrame(catalog', OpenAgents(agents') # {})>>
                 \o (IF OpenAgents(agents') = {} THEN <<Frame("machine_offline")>> ELSE <<>>)
<1>0. /\ WiresInv /\ catalog \in Entries /\ agents \in Seq(Sockets) /\ SocketInv /\ CatalogMatchesSockets
      /\ hub' = hub
  BY DEF IInv, WiresInv, RelayOnly
<1>1. c \in DOMAIN agents /\ ~a.live  BY DEF AgentClose
<1>2. a \in Sockets /\ i \in Instances /\ c \in 1..Len(agents)  BY <1>0, <1>1, OpenSocket
<1>3. /\ x \in Sockets /\ x.st = "closed" /\ x.hello = a.hello /\ x.inst = i /\ x.code = a.code /\ x.live = a.live
  BY <1>2, StKept
<1>4. agents' = [agents EXCEPT ![c] = x]  BY DEF AgentClose, WithSt
<1>5. catalog' = IF still THEN catalog ELSE [catalog EXCEPT ![i] = None]  BY DEF AgentClose
<1>6. tabs' = broadcastBrowsers(tabs, fs)  BY DEF AgentClose
<1>7. TabsServed(tabs, tabs') /\ catalog' \in Entries
  <2>1. catalog' \in Entries  BY <1>0, <1>2, <1>5 DEF Entries
  <2> DEFINE b == OpenAgents(agents') # {}
  <2>2. b \in BOOLEAN  OBVIOUS
  <2> HIDE DEF b
  <2>3. CatalogFrame(catalog', b) \in TabFrames  BY <2>1, <2>2, CatalogFramed, Zenon
  <2>4. Frame("machine_offline") \in TabFrames  BY DEF TabFrames
  <2>5. InstanceOffline(i) \in TabFrames
    <3>1. InstanceOffline(i) \in [type : {"instance_offline"}, inst : Instances]  BY <1>2 DEF InstanceOffline
    <3> QED  BY <3>1 DEF TabFrames
  <2>6. (IF still THEN <<>> ELSE <<InstanceOffline(i)>>) \in Seq(TabFrames)  BY <2>5
  <2>7. (IF OpenAgents(agents') = {} THEN <<Frame("machine_offline")>> ELSE <<>>) \in Seq(TabFrames)  BY <2>4
  <2>8. <<CatalogFrame(catalog', b)>> \in Seq(TabFrames)  BY <2>3
  <2>9. fs \in Seq(TabFrames)  BY <2>6, <2>7, <2>8, ConcatProperties DEF b
  <2> HIDE DEF fs
  <2> QED  BY <1>0, <1>6, <2>1, <2>9, TabsTold
<1> HIDE DEF fs, x
<1>8. /\ agents' \in Seq(Sockets) /\ Len(agents') = Len(agents) /\ c \in 1..Len(agents)
      /\ DOMAIN agents = 1..Len(agents) /\ DOMAIN agents' = 1..Len(agents)
      /\ agents'[c] = x /\ \A d \in 1..Len(agents) : d # c => agents'[d] = agents[d]
  BY <1>0, <1>1, <1>3, <1>4, SocketPut
<1>9. \A d \in 1..Len(agents) : /\ agents'[d].inst = agents[d].inst /\ agents'[d].hello = agents[d].hello
                                /\ agents'[d].live = agents[d].live /\ agents'[d].code = agents[d].code
                                /\ agents'[d].st = IF d = c THEN "closed" ELSE agents[d].st
  BY <1>3, <1>8
<1>10. \A d \in 1..Len(agents) : agents[d].inst \in Instances
  BY <1>0, ElementOfSeq DEF Sockets, Socket
<1>11. SocketInv'
  <2>1. OneOpen(agents')  BY <1>0, <1>8, <1>9 DEF SocketInv, OneOpen
  <2>2. \A j \in Instances : hub'[j].conn # 0 =>
           hub'[j].conn \in 1..Len(agents') /\ agents'[hub'[j].conn].inst = j /\ agents'[hub'[j].conn].live
    BY <1>0, <1>8, <1>9 DEF SocketInv
  <2>3. \A d \in 1..Len(agents') :
          /\ agents'[d].live => agents'[d].st = "open" /\ hub'[agents'[d].inst].conn = d
          /\ agents'[d].hello = "meta" => agents'[d].code
    BY <1>0, <1>1, <1>8, <1>9, <1>10 DEF SocketInv
  <2> QED  BY <2>1, <2>2, <2>3 DEF SocketInv
<1>12. \A d : d \in OpenAgents(agents') <=> d \in OpenAgents(agents) /\ d # c
  BY <1>8, <1>9 DEF OpenAgents
<1>13. \A j : j # i => AgentsOf(agents', j) = AgentsOf(agents, j)
  <2> SUFFICES ASSUME NEW j, j # i PROVE AgentsOf(agents', j) = AgentsOf(agents, j)  OBVIOUS
  <2>1. \A d \in OpenAgents(agents) : d \in 1..Len(agents)  BY <1>8 DEF OpenAgents
  <2> QED  BY <1>9, <1>12, <2>1 DEF AgentsOf
<1>14. \A j : LateHello(j) => LateHello(j)'  BY <1>8, <1>9 DEF LateHello
<1>15. \A j \in Instances : catalog'[j] # None => AgentsOf(agents', j) # {} \/ LateHello(j)'
  <2> SUFFICES ASSUME NEW j \in Instances, catalog'[j] # None PROVE AgentsOf(agents', j) # {} \/ LateHello(j)'
    OBVIOUS
  <2>1. CASE j = i
    <3>1. ~still => catalog'[i] = None  BY <1>0, <1>2, <1>5 DEF Entries
    <3> QED  BY <2>1, <3>1
  <2>2. CASE j # i
    <3>1. catalog[j] # None  BY <1>0, <1>2, <1>5, <2>2 DEF Entries
    <3> QED  BY <1>0, <1>13, <1>14, <2>2, <3>1 DEF CatalogMatchesSockets
  <2> QED  BY <2>1, <2>2
<1>16. \A d \in OpenAgents(agents') :
          agents'[d].hello \in {"touch", "done"} => catalog'[agents'[d].inst] # None
  <2> SUFFICES ASSUME NEW d \in OpenAgents(agents'), agents'[d].hello \in {"touch", "done"}
               PROVE  catalog'[agents'[d].inst] # None
    OBVIOUS
  <2>1. d \in OpenAgents(agents) /\ d \in 1..Len(agents)  BY <1>8, <1>12 DEF OpenAgents
  <2>2. catalog[agents[d].inst] # None /\ agents'[d].inst = agents[d].inst /\ agents[d].inst \in Instances
    BY <1>0, <1>9, <1>10, <2>1 DEF CatalogMatchesSockets
  <2>3. CASE agents[d].inst = i
    <3>1. d \in AgentsOf(agents', i)  BY <2>2, <2>3 DEF AgentsOf
    <3>2. catalog' = catalog  BY <1>5, <3>1
    <3> QED  BY <2>2, <3>2
  <2>4. CASE agents[d].inst # i  BY <1>0, <1>2, <1>5, <2>2, <2>4 DEF Entries
  <2> QED  BY <2>3, <2>4
<1>17. CatalogMatchesSockets'  BY <1>15, <1>16 DEF CatalogMatchesSockets
<1> QED  BY <1>7, <1>8, <1>11, <1>17, RelayMoves

LEMMA OpenTab ==
    ASSUME WiresInv, NEW t \in DOMAIN tabs
    PROVE  tabs[t] \in Browsers /\ t \in 1..Len(tabs) /\ tabs \in Seq(Browsers)
<1>1. tabs \in Seq(Browsers) /\ t \in 1..Len(tabs)  BY LenProperties DEF WiresInv
<1> QED  BY <1>1, ElementOfSeq

\* The relay takes a frame of browser t, and may tell it that the window is away.
LEMMA TabTaken ==
    ASSUME WiresInv, NEW t \in DOMAIN tabs, tabs[t].up # <<>>, NEW T, T = [tabs EXCEPT ![t] = Taken(tabs[t])]
    PROVE  /\ TabsServed(tabs, T)
           /\ \A i \in Instances : TabsServed(tabs, [T EXCEPT ![t] = Sent(T[t], <<InstanceOffline(i)>>)])
<1>1. tabs[t] \in Browsers /\ t \in 1..Len(tabs) /\ tabs \in Seq(Browsers)  BY OpenTab
<1>2. Taken(tabs[t]) \in Browsers /\ Served(tabs[t], Taken(tabs[t]))  BY <1>1, TakenKept DEF Served
<1>3. TabsServed(tabs, T)  BY <1>1, <1>2, ServedPut
<1>4. ASSUME NEW i \in Instances PROVE TabsServed(tabs, [T EXCEPT ![t] = Sent(T[t], <<InstanceOffline(i)>>)])
  <2> DEFINE x == Sent(T[t], <<InstanceOffline(i)>>)
  <2>1. T \in Seq(Browsers) /\ t \in 1..Len(T)  BY <1>1, <1>3 DEF TabsServed
  <2>2. T[t] \in Browsers /\ t \in DOMAIN T  BY <2>1, ElementOfSeq, LenProperties
  <2>3. InstanceOffline(i) \in TabFrames
    <3>1. InstanceOffline(i) \in [type : {"instance_offline"}, inst : Instances]  BY DEF InstanceOffline
    <3> QED  BY <3>1 DEF TabFrames
  <2>4. <<InstanceOffline(i)>> \in Seq(TabFrames)  BY <2>3
  <2>5. x \in Browsers /\ SameTab(T[t], x)  BY <2>2, <2>4, SentBrowser
  <2> HIDE DEF x
  <2>6. SameTabs(T, [T EXCEPT ![t] = x])  BY <2>1, <2>2, <2>5, TabsPut
  <2>7. TabsServed(T, [T EXCEPT ![t] = x])  BY <2>6, SameServed
  <2> QED  BY <1>3, <2>7, ServedTrans DEF x
<1> QED  BY <1>3, <1>4

LEMMA WatchStep ==
    ASSUME IInv, RelayOnly, NEW t, OnWatch(t) PROVE IInv'
<1> DEFINE b == tabs[t]  f == Head(tabs[t].up)  i == Head(tabs[t].up).inst
           T == [tabs EXCEPT ![t] = Taken(tabs[t])]
           A == recomputeSubscriptions(agents, T)
<1>0. WiresInv /\ agents \in Seq(Sockets) /\ OneOpen(agents) /\ catalog' = catalog
  BY DEF IInv, WiresInv, SocketInv, OnWatch
<1>1. t \in DOMAIN tabs /\ b.up # <<>> /\ f.type = "watch"  BY DEF OnWatch, TabFrame, OpenTabs
<1>2. b \in Browsers  BY <1>0, <1>1, OpenTab
<1>3. f \in TabFrameUp  BY <1>1, <1>2, TakenKept
<1>4. i \in Instances  BY <1>3 DEF TabFrameUp
<1>5. T = [tabs EXCEPT ![t].up = Tail(@), ![t].watch = i]
  BY <1>1 DEF Taken, WithUp, WithWatch
<1>6. agents' = sendAgentInstance(A, i, Frame("subscribe"))
  BY <1>5 DEF OnWatch
<1>7. tabs' = IF AgentsOf(agents, i) # {} THEN T ELSE [T EXCEPT ![t] = Sent(T[t], <<InstanceOffline(i)>>)]
  BY <1>5 DEF OnWatch
<1> HIDE DEF i, T, A
<1>8. TabsServed(tabs, tabs')  BY <1>0, <1>1, <1>4, <1>7, TabTaken DEF T
<1>9. SameEnds(agents, A)  BY <1>0, Recompute DEF A
<1>10. A \in Seq(Sockets) /\ OneOpen(A)  BY <1>0, <1>9, SameOpen
<1>11. Frame("subscribe") \in DownFrames /\ Frame("subscribe").type # "prompt"  BY DEF DownFrames, Frame
<1>12. SameEnds(A, agents')  BY <1>6, <1>10, <1>11, SendToAgent
<1>13. SameEnds(agents, agents')  BY <1>9, <1>12, EndsTrans
<1> QED  BY <1>0, <1>8, <1>13, CatalogStays, RelayForwards

\* The prompt is for the window its browser watches, so it goes to the window it names.
LEMMA PromptStep ==
    ASSUME IInv, RelayOnly, NEW t, OnPrompt(t) PROVE IInv'
<1> DEFINE b == tabs[t]  f == Head(tabs[t].up)  T == [tabs EXCEPT ![t] = Taken(tabs[t])]
<1>0. WiresInv /\ agents \in Seq(Sockets) /\ OneOpen(agents) /\ catalog' = catalog
  BY DEF IInv, WiresInv, SocketInv, OnPrompt
<1>1. t \in DOMAIN tabs /\ b.up # <<>> /\ f.type = "prompt"  BY DEF OnPrompt, TabFrame, OpenTabs
<1>2. b \in Browsers  BY <1>0, <1>1, OpenTab
<1>3. f \in TabFrameUp /\ b.watch = f.inst  BY <1>1, <1>2, TakenKept
<1>4. f.inst \in Instances  BY <1>3 DEF TabFrameUp
<1>5. (IF tabs[t].watch # None THEN tabs[t].watch ELSE f.inst) = f.inst  BY <1>3
<1>6. T = [tabs EXCEPT ![t].up = Tail(@)]  BY <1>1 DEF Taken, WithUp
<1>7. agents' = sendAgentInstance(agents, f.inst, f)  BY <1>5 DEF OnPrompt
<1>8. tabs' = IF AgentsOf(agents, f.inst) # {} THEN T ELSE [T EXCEPT ![t] = Sent(T[t], <<InstanceOffline(f.inst)>>)]
  BY <1>5, <1>6 DEF OnPrompt
<1> HIDE DEF f, T
<1>9. TabsServed(tabs, tabs')  BY <1>0, <1>1, <1>4, <1>8, TabTaken DEF T
<1>10. f \in DownFrames
  <2>1. f \in [type : {"prompt"}, inst : Instances]  BY <1>1, <1>3 DEF TabFrameUp
  <2> QED  BY <2>1 DEF DownFrames
<1>11. SameEnds(agents, agents')  BY <1>0, <1>7, <1>10, SendToAgent
<1> QED  BY <1>0, <1>9, <1>11, CatalogStays, RelayForwards

LEMMA TabCloseStep ==
    ASSUME IInv, RelayOnly, NEW t, TabClose(t) PROVE IInv'
<1> DEFINE b == tabs[t]  x == WithSt(b, "closed")
<1>0. WiresInv /\ agents \in Seq(Sockets) /\ catalog' = catalog  BY DEF IInv, WiresInv, TabClose
<1>1. t \in DOMAIN tabs  BY DEF TabClose, OpenTabs
<1>2. b \in Browsers /\ tabs \in Seq(Browsers)  BY <1>0, <1>1, OpenTab
<1>3. tabs' = [tabs EXCEPT ![t] = x] /\ agents' = recomputeSubscriptions(agents, tabs')
  BY DEF TabClose, WithSt
<1>4. x \in Browsers /\ Served(b, x)
  <2>1. b \in Browser /\ Ordered(b)  BY <1>2 DEF Browsers
  <2> HIDE DEF b
  <2>2. x \in Browser /\ x.page = b.page /\ x.up = b.up /\ x.watch = b.watch  BY <2>1 DEF Browser, WithSt
  <2> HIDE DEF x
  <2>3. Ordered(x) /\ Served(b, x)  BY <2>1, <2>2 DEF Ordered, Served, Governs
  <2> QED  BY <2>2, <2>3 DEF Browsers
<1> HIDE DEF x
<1>5. TabsServed(tabs, tabs')  BY <1>1, <1>2, <1>3, <1>4, ServedPut
<1>6. SameEnds(agents, agents')  BY <1>0, <1>3, Recompute
<1> QED  BY <1>0, <1>5, <1>6, CatalogStays, RelayForwards

LEMMA RelayKept == ASSUME IInv, RelayStep PROVE IInv'
<1>0. RelayOnly /\ Relay  BY DEF RelayStep, RelayOnly
<1>1. CASE \E c \in DOMAIN agents : \/ OnHello(c) \/ HelloSaves(c) \/ HelloFails(c) \/ HelloBroadcasts(c)
                                    \/ OnSessionCatalog(c) \/ OnSnapshot(c) \/ AgentClose(c)
  BY <1>0, <1>1, HelloSteps, SessionCatalogStep, SnapshotStep, AgentCloseStep
<1>2. CASE \E t \in DOMAIN tabs : OnWatch(t) \/ OnPrompt(t) \/ TabClose(t)
  BY <1>0, <1>2, WatchStep, PromptStep, TabCloseStep
<1> QED  BY <1>0, <1>1, <1>2 DEF Relay

-----------------------------------------------------------------------------
(* Steps of a window                                                       *)
LEMMA WindowForwards ==
    ASSUME IInv, UNCHANGED <<tabs, catalog, page, inputs, drops>>, SameEnds(agents, agents'),
           hub' \in [Instances -> HubState], \A j \in Instances : hub'[j].conn = hub[j].conn,
           pager' \in [Instances -> PagerState], pushed' \in [Instances -> PagerState]
    PROVE  IInv'
<1>0. /\ WiresInv /\ PageInv /\ SocketInv /\ CatalogMatchesSockets
      /\ tabs' = tabs /\ catalog' = catalog /\ page' = page /\ inputs' = inputs /\ drops' = drops
  BY DEF IInv
<1>1. CatalogGrows  BY <1>0, CatalogStays
<1>2. SocketInv' /\ CatalogMatchesSockets' /\ agents' \in Seq(Sockets) /\ catalog' \in Entries
  BY <1>0, <1>1, SocketsSame
<1>3. TabsServed(tabs, tabs')  BY <1>0, TabsStay
<1>4. PageInv' /\ tabs' \in Seq(Browsers)  BY <1>0, <1>3, PagesSame
<1>5. WiresInv'  BY <1>0, <1>2, <1>4 DEF WiresInv
<1> QED  BY <1>2, <1>4, <1>5 DEF IInv

LEMMA HubPut ==
    ASSUME hub \in [Instances -> HubState], NEW i \in Instances, NEW k, Pushed(hub[i], k),
           hub' = [hub EXCEPT ![i] = k]
    PROVE  hub' \in [Instances -> HubState] /\ \A j \in Instances : hub'[j].conn = hub[j].conn
BY DEF Pushed

WithOut(h, o) == [h EXCEPT !.out = o]
WithIn(h, e) == [h EXCEPT !.in = e]

LEMMA HubWires ==
    ASSUME NEW h \in HubState, NEW o \in Seq(UpFrames), NEW e \in Seq(Events)
    PROVE  Pushed(h, WithOut(h, o)) /\ Pushed(h, WithIn(h, e))
BY DEF HubState, Pushed, WithOut, WithIn

\* The socket of a connected window.
LEMMA HubSocket ==
    ASSUME IInv, NEW i \in Instances
    PROVE  /\ hub \in [Instances -> HubState] /\ hub[i] \in HubState /\ agents \in Seq(Sockets)
           /\ pager \in [Instances -> PagerState] /\ pager[i] \in PagerState
           /\ pushed \in [Instances -> PagerState] /\ pushed[i] \in PagerState
           /\ hub[i].conn # 0 => /\ hub[i].conn \in DOMAIN agents /\ agents[hub[i].conn] \in Sockets
                                 /\ agents[hub[i].conn].inst = i /\ agents[hub[i].conn].live
                                 /\ agents[hub[i].conn].st = "open"
<1>1. /\ hub \in [Instances -> HubState] /\ agents \in Seq(Sockets)
      /\ pager \in [Instances -> PagerState] /\ pushed \in [Instances -> PagerState]
  BY DEF IInv, WiresInv
<1>2. hub[i].conn # 0 => hub[i].conn \in 1..Len(agents) /\ agents[hub[i].conn].inst = i /\ agents[hub[i].conn].live
  BY DEF IInv, SocketInv
<1>3. hub[i].conn # 0 => agents[hub[i].conn].st = "open"  BY <1>2 DEF IInv, SocketInv
<1> QED  BY <1>1, <1>2, <1>3, LenProperties, ElementOfSeq

LEMMA PumpStep ==
    ASSUME IInv, NEW i \in Instances, Pump(i) PROVE IInv'
<1> DEFINE c == hub[i].conn  o == hub[i].out  a == agents[c]
<1>0. hub[i] \in HubState /\ hub \in [Instances -> HubState] /\ agents \in Seq(Sockets)
      /\ pager \in [Instances -> PagerState] /\ pushed \in [Instances -> PagerState]
      /\ c \in DOMAIN agents /\ a \in Sockets
  BY HubSocket DEF Pump
<1>1. o \in Seq(UpFrames) /\ o # <<>> /\ hub[i].in \in Seq(Events)  BY <1>0 DEF HubState, Pump
<1>2. Tail(o) \in Seq(UpFrames) /\ Head(o) \in UpFrames  BY <1>1, HeadTailProperties
<1>3. hub' = [hub EXCEPT ![i] = WithOut(hub[i], Tail(o))]  BY DEF Pump, WithOut
<1>4. Pushed(hub[i], WithOut(hub[i], Tail(o)))  BY <1>0, <1>1, <1>2, HubWires
<1>5. hub' \in [Instances -> HubState] /\ \A j \in Instances : hub'[j].conn = hub[j].conn
  BY <1>0, <1>3, <1>4, HubPut
<1>6. agents' = agents \/ agents' = [agents EXCEPT ![c] = WithUp(a, Append(a.up, Head(o)))]
  BY DEF Pump, WithUp
<1>7. a.up \in Seq(UpFrames)  BY <1>0 DEF Sockets, Socket
<1>8. Append(a.up, Head(o)) \in Seq(UpFrames)  BY <1>2, <1>7, AppendProperties
<1>9. WithUp(a, Append(a.up, Head(o))) \in Sockets /\ SameEnd(a, WithUp(a, Append(a.up, Head(o))))
  BY <1>0, <1>8, UpKept
<1>10. SameEnds(agents, agents)  BY <1>0 DEF SameEnds, SameEnd
<1>11. SameEnds(agents, [agents EXCEPT ![c] = WithUp(a, Append(a.up, Head(o)))])  BY <1>0, <1>9, EndsPut
<1>12. SameEnds(agents, agents')  BY <1>6, <1>10, <1>11
<1>13. UNCHANGED <<tabs, catalog, page, inputs, drops>> /\ pager' = pager /\ pushed' = pushed  BY DEF Pump
<1> QED  BY <1>0, <1>5, <1>12, <1>13, WindowForwards

LEMMA ReceiveStep ==
    ASSUME IInv, NEW i \in Instances, Receive(i) PROVE IInv'
<1> DEFINE c == hub[i].conn  a == agents[c]  e == event_from_cloud(Head(a.down))
           k == WithIn(hub[i], Append(hub[i].in, e))
<1>0. hub[i] \in HubState /\ hub \in [Instances -> HubState] /\ agents \in Seq(Sockets)
      /\ pager \in [Instances -> PagerState] /\ pushed \in [Instances -> PagerState]
      /\ c \in DOMAIN agents /\ a \in Sockets
  BY HubSocket DEF Receive
<1>1. a.down \in Seq(DownFrames) /\ a.down # <<>> /\ Addressed(a)  BY <1>0 DEF Sockets, Socket, Receive
<1>2. /\ Tail(a.down) \in Seq(DownFrames) /\ Head(a.down) \in DownFrames /\ Len(Tail(a.down)) = Len(a.down) - 1
      /\ \A m \in 1..Len(Tail(a.down)) : Tail(a.down)[m] = a.down[m + 1]
  BY <1>1, HeadTailProperties
<1>3. e \in Events
  <2> DEFINE f == Head(a.down)
  <2> SUFFICES ASSUME f \in DownFrames PROVE event_from_cloud(f) \in Events  BY <1>2
  <2> HIDE DEF f
  <2>1. f.type = "subscribe" \/ f.type = "unsubscribe" \/ f.type = "prompt"  BY DEF DownFrames, Frame
  <2> QED  BY <2>1 DEF event_from_cloud, Events
<1> HIDE DEF e
<1>4. Append(hub[i].in, e) \in Seq(Events) /\ hub[i].out \in Seq(UpFrames)
  BY <1>0, <1>3, AppendProperties DEF HubState
<1>5. hub' = [hub EXCEPT ![i] = k]  BY DEF Receive, WithIn, e
<1>6. Pushed(hub[i], k)  BY <1>0, <1>4, HubWires
<1> HIDE DEF k
<1>7. hub' \in [Instances -> HubState] /\ \A j \in Instances : hub'[j].conn = hub[j].conn
  BY <1>0, <1>5, <1>6, HubPut
<1>8. \A m \in 1..Len(Tail(a.down)) : Tail(a.down)[m].type = "prompt" => Tail(a.down)[m].inst = a.inst
  <2> TAKE m \in 1..Len(Tail(a.down))
  <2>1. m + 1 \in 1..Len(a.down)  BY <1>1, <1>2, LenProperties
  <2> QED  BY <1>1, <1>2, <2>1 DEF Addressed
<1>9. WithDown(a, Tail(a.down)) \in Sockets /\ SameEnd(a, WithDown(a, Tail(a.down)))
  BY <1>0, <1>2, <1>8, DownKept
<1>10. agents' = [agents EXCEPT ![c] = WithDown(a, Tail(a.down))]  BY DEF Receive, WithDown
<1>11. SameEnds(agents, agents')  BY <1>0, <1>9, <1>10, EndsPut
<1>12. UNCHANGED <<tabs, catalog, page, inputs, drops>> /\ pager' = pager /\ pushed' = pushed  BY DEF Receive
<1> QED  BY <1>0, <1>7, <1>11, <1>12, WindowForwards

\* A change of what a window shows.
LEMMA LaterTyped ==
    ASSUME NEW x \in PagerState, NEW y \in Later(x) PROVE y \in PagerState
<1>1. x.list \in Nat /\ x.text \in Nat /\ MaxList \in Nat /\ MaxText \in Nat
  BY MirrorAssumption DEF PagerState, Versions
<1>2. y \in [list : {x.list, x.list + 1}, text : {x.text, x.text + 1}] /\ y.list =< MaxList /\ y.text =< MaxText
  BY DEF Later
<1>3. y.list \in Versions /\ y.text \in 0..MaxText  BY <1>1, <1>2 DEF Versions
<1> QED  BY <1>2, <1>3 DEF PagerState

LEMMA StateChangedStep ==
    ASSUME IInv, NEW i \in Instances, StateChanged(i) PROVE IInv'
<1>0. hub[i] \in HubState /\ hub \in [Instances -> HubState] /\ agents \in Seq(Sockets)
      /\ pager \in [Instances -> PagerState] /\ pager[i] \in PagerState /\ pushed \in [Instances -> PagerState]
  BY HubSocket
<1>1. PICK x \in Later(pager[i]) : pager' = [pager EXCEPT ![i] = x]  BY DEF StateChanged
<1>2. x \in PagerState  BY <1>0, LaterTyped
<1>3. pager' \in [Instances -> PagerState] /\ pager'[i] \in PagerState  BY <1>0, <1>1, <1>2
<1>4. pushed' \in [Instances -> PagerState]
  <2>1. pushed' = pushed \/ pushed' = [pushed EXCEPT ![i] = pager'[i]]  BY DEF StateChanged
  <2> QED  BY <1>0, <1>3, <2>1
<1>6. hub' = [hub EXCEPT ![i] = push_snapshot_if_connected(hub[i], pager'[i])]  BY DEF StateChanged
<1>7. Pushed(hub[i], push_snapshot_if_connected(hub[i], pager'[i]))  BY <1>0, <1>3, SnapshotPushed
<1>8. hub' \in [Instances -> HubState] /\ \A j \in Instances : hub'[j].conn = hub[j].conn
  BY <1>0, <1>6, <1>7, HubPut
<1>9. UNCHANGED <<tabs, catalog, page, inputs, drops>> /\ agents' = agents  BY DEF StateChanged
<1>10. SameEnds(agents, agents')  BY <1>0, <1>9 DEF SameEnds, SameEnd
<1> QED  BY <1>3, <1>4, <1>8, <1>9, <1>10, WindowForwards

LEMMA ChangedUnpushedStep ==
    ASSUME IInv, NEW i \in Instances, ChangedUnpushed(i) PROVE IInv'
<1>0. hub \in [Instances -> HubState] /\ agents \in Seq(Sockets)
      /\ pager \in [Instances -> PagerState] /\ pager[i] \in PagerState /\ pushed \in [Instances -> PagerState]
  BY HubSocket
<1>1. PICK x \in Later(pager[i]) : pager' = [pager EXCEPT ![i] = x]  BY DEF ChangedUnpushed
<1>2. x \in PagerState  BY <1>0, LaterTyped
<1>3. pager' \in [Instances -> PagerState]  BY <1>0, <1>1, <1>2
<1>4. UNCHANGED <<tabs, catalog, page, inputs, drops>> /\ agents' = agents /\ hub' = hub /\ pushed' = pushed
  BY DEF ChangedUnpushed
<1>5. SameEnds(agents, agents')  BY <1>0, <1>4 DEF SameEnds, SameEnd
<1> QED  BY <1>0, <1>3, <1>4, <1>5, WindowForwards

LEMMA HandleEventStep ==
    ASSUME IInv, NEW i \in Instances, HandleEvent(i) PROVE IInv'
<1> DEFINE h == WithIn(hub[i], Tail(hub[i].in))  e == Head(hub[i].in)
           k == CASE e = "Status" -> push_catalog_if_connected(reset_catalog_cache(h), pager[i])
                  [] e = "RequestSnapshot" -> push_snapshot_if_connected([h EXCEPT !.watching = TRUE], pager[i])
                  [] e = "StopWatching" -> [h EXCEPT !.watching = FALSE]
                  [] OTHER -> h
<1>0. hub[i] \in HubState /\ hub \in [Instances -> HubState] /\ agents \in Seq(Sockets)
      /\ pager \in [Instances -> PagerState] /\ pager[i] \in PagerState
      /\ pushed \in [Instances -> PagerState] /\ pushed[i] \in PagerState
  BY HubSocket
<1>1. hub[i].in \in Seq(Events) /\ hub[i].in # <<>> /\ hub[i].out \in Seq(UpFrames)  BY <1>0 DEF HandleEvent, HubState
<1>2. Tail(hub[i].in) \in Seq(Events)  BY <1>1, HeadTailProperties
<1>3. Pushed(hub[i], h)  BY <1>0, <1>1, <1>2, HubWires
<1>4. hub' = [hub EXCEPT ![i] = k]  BY DEF HandleEvent, WithIn
<1> HIDE DEF h, e
<1>5. Pushed(h, reset_catalog_cache(h)) /\ Pushed(h, [h EXCEPT !.watching = TRUE]) /\ Pushed(h, [h EXCEPT !.watching = FALSE])
  BY <1>3 DEF Pushed, HubState, reset_catalog_cache
<1>6. Pushed(h, push_catalog_if_connected(reset_catalog_cache(h), pager[i]))
  BY <1>0, <1>5, CatalogPushed DEF Pushed
<1>7. Pushed(h, push_snapshot_if_connected([h EXCEPT !.watching = TRUE], pager[i]))
  BY <1>0, <1>5, SnapshotPushed DEF Pushed
<1>8. Pushed(h, h)  BY <1>3 DEF Pushed
<1>9. Pushed(h, k)  BY <1>5, <1>6, <1>7, <1>8
<1> HIDE DEF k
<1>10. Pushed(hub[i], k)  BY <1>3, <1>9 DEF Pushed
<1>11. hub' \in [Instances -> HubState] /\ \A j \in Instances : hub'[j].conn = hub[j].conn
  BY <1>0, <1>4, <1>10, HubPut
<1>12. UNCHANGED <<tabs, catalog, page, inputs, drops>> /\ agents' = agents  BY DEF HandleEvent
<1>13. SameEnds(agents, agents')  BY <1>0, <1>12 DEF SameEnds, SameEnd
<1>14. pager' \in [Instances -> PagerState]
  <2>1. PICK x : pager' = [pager EXCEPT ![i] = x] /\ (x = pager[i] \/ x \in Later(pager[i]))  BY DEF HandleEvent
  <2>2. x \in PagerState  BY <1>0, <2>1, LaterTyped
  <2> QED  BY <1>0, <2>1, <2>2
<1>15. pushed' \in [Instances -> PagerState]
  <2> DEFINE w == pushed[i]  l == pager[i].list
             v == IF hub[i].conn = 0 THEN w
                  ELSE CASE e = "Status" -> [w EXCEPT !.list = l] [] e = "RequestSnapshot" -> pager[i] [] OTHER -> w
  <2>1. pushed' = [pushed EXCEPT ![i] = v]  BY DEF HandleEvent, e
  <2>2. [w EXCEPT !.list = l] \in PagerState  BY <1>0 DEF PagerState
  <2>3. v = w \/ v = [w EXCEPT !.list = l] \/ v = pager[i]  OBVIOUS
  <2> HIDE DEF v
  <2>4. v \in PagerState  BY <1>0, <2>2, <2>3
  <2> QED  BY <1>0, <2>1, <2>4
<1> QED  BY <1>11, <1>12, <1>13, <1>14, <1>15, WindowForwards

LEMMA SocketBroken ==
    ASSUME NEW a \in Sockets, NEW m \in 0..Len(a.up)
    PROVE  /\ Broken(a, m) \in Sockets /\ Broken(a, m).inst = a.inst /\ Broken(a, m).code = a.code
           /\ Broken(a, m).st = a.st /\ Broken(a, m).hello = a.hello /\ Broken(a, m).live = FALSE
<1> DEFINE u == SubSeq(a.up, 1, m)  d == Broken(a, m)
<1>1. a \in Socket /\ a.up \in Seq(UpFrames) /\ Len(a.up) \in Nat  BY DEF Sockets, Socket
<1>2. \A k \in 1..m : a.up[k] \in UpFrames
  <2> TAKE k \in 1..m
  <2>1. k \in 1..Len(a.up)  BY <1>1
  <2> QED  BY <1>1, <2>1, ElementOfSeq
<1>3. 1 \in Int /\ m \in Int  BY <1>1
<1>4. u \in Seq(UpFrames)  BY <1>2, <1>3, SubSeqProperties
<1>5. d = [a EXCEPT !.live = FALSE, !.down = <<>>, !.up = u]  BY DEF Broken
<1>6. <<>> \in Seq(DownFrames) /\ Len(<<>>) = 0  OBVIOUS
<1> HIDE DEF d, u
<1>7. /\ d \in Socket /\ d.inst = a.inst /\ d.code = a.code /\ d.st = a.st /\ d.hello = a.hello /\ d.live = FALSE
      /\ d.down = <<>>
  BY <1>1, <1>4, <1>5, <1>6 DEF Socket
<1>8. Addressed(d)  BY <1>6, <1>7 DEF Addressed
<1> QED  BY <1>7, <1>8 DEF Sockets, d

LEMMA DisconnectedKept ==
    ASSUME NEW h \in HubState PROVE Disconnected(h) \in HubState /\ Disconnected(h).conn = 0
<1>1. <<>> \in Seq(UpFrames)  OBVIOUS
<1> QED  BY <1>1 DEF Disconnected, HubState

\* A window that loses its connection has no socket alive.
LEMMA DropStep ==
    ASSUME IInv, NEW i \in Instances, Drop(i) PROVE IInv'
<1> DEFINE c == hub[i].conn  a == agents[c]
<1>0. /\ WiresInv /\ PageInv /\ SocketInv /\ CatalogMatchesSockets /\ agents \in Seq(Sockets)
      /\ tabs' = tabs /\ catalog' = catalog /\ page' = page /\ inputs' = inputs /\ pager' = pager /\ pushed' = pushed
  BY DEF IInv, WiresInv, Drop
<1>1. /\ hub[i] \in HubState /\ hub \in [Instances -> HubState]
      /\ c \in DOMAIN agents /\ a \in Sockets /\ a.inst = i
  BY HubSocket DEF Drop
<1>2. PICK n \in 0..Len(a.up) : agents' = [agents EXCEPT ![c] = Broken(a, n)]  BY DEF Drop, Broken
<1> DEFINE x == Broken(a, n)
<1>3. /\ x \in Sockets /\ x.inst = a.inst /\ x.code = a.code /\ x.st = a.st /\ x.hello = a.hello /\ x.live = FALSE
  BY <1>1, SocketBroken
<1> HIDE DEF x
<1>4. /\ agents' \in Seq(Sockets) /\ Len(agents') = Len(agents) /\ c \in 1..Len(agents)
      /\ DOMAIN agents = 1..Len(agents) /\ DOMAIN agents' = 1..Len(agents)
      /\ agents'[c] = x /\ \A d \in 1..Len(agents) : d # c => agents'[d] = agents[d]
  BY <1>0, <1>1, <1>2, <1>3, SocketPut DEF x
<1>5. \A d \in 1..Len(agents) : /\ agents'[d].inst = agents[d].inst /\ agents'[d].hello = agents[d].hello
                                /\ agents'[d].st = agents[d].st /\ agents'[d].code = agents[d].code
                                /\ agents'[d].live <=> agents[d].live /\ d # c
  BY <1>3, <1>4
<1>6. Disconnected(hub[i]) \in HubState /\ Disconnected(hub[i]).conn = 0
  BY <1>1, DisconnectedKept
<1>7. /\ hub' \in [Instances -> HubState] /\ hub'[i].conn = 0
      /\ \A j \in Instances : j # i => hub'[j] = hub[j]
  BY <1>1, <1>6 DEF Drop
<1>8. \A d \in 1..Len(agents) : agents[d].inst \in Instances
  BY <1>0, ElementOfSeq DEF Sockets, Socket
<1>9. SocketInv'
  <2>1. OneOpen(agents')  BY <1>0, <1>4, <1>5 DEF SocketInv, OneOpen
  <2>2. \A j \in Instances : hub'[j].conn # 0 =>
           hub'[j].conn \in 1..Len(agents') /\ agents'[hub'[j].conn].inst = j /\ agents'[hub'[j].conn].live
    <3> SUFFICES ASSUME NEW j \in Instances, hub'[j].conn # 0
                 PROVE  hub'[j].conn \in 1..Len(agents') /\ agents'[hub'[j].conn].inst = j /\ agents'[hub'[j].conn].live
      OBVIOUS
    <3>1. j # i /\ hub'[j] = hub[j]  BY <1>7
    <3>2. hub[j].conn \in 1..Len(agents) /\ agents[hub[j].conn].inst = j /\ agents[hub[j].conn].live
      BY <1>0, <3>1 DEF SocketInv
    <3>3. hub[j].conn # c  BY <1>1, <3>1, <3>2
    <3> QED  BY <1>4, <3>1, <3>2, <3>3
  <2>3. \A d \in 1..Len(agents') :
          /\ agents'[d].live => agents'[d].st = "open" /\ hub'[agents'[d].inst].conn = d
          /\ agents'[d].hello = "meta" => agents'[d].code
    <3> SUFFICES ASSUME NEW d \in 1..Len(agents)
                 PROVE  /\ agents'[d].live => agents'[d].st = "open" /\ hub'[agents'[d].inst].conn = d
                        /\ agents'[d].hello = "meta" => agents'[d].code
      BY <1>4
    <3>1. agents'[d].hello = "meta" => agents'[d].code  BY <1>0, <1>5 DEF SocketInv
    <3>2. ASSUME agents'[d].live PROVE agents'[d].st = "open" /\ hub'[agents'[d].inst].conn = d
      <4>1. d # c /\ agents[d].live  BY <1>5, <3>2
      <4>2. agents[d].st = "open" /\ hub[agents[d].inst].conn = d  BY <1>0, <4>1 DEF SocketInv
      <4>3. agents[d].inst # i  BY <4>1, <4>2
      <4> QED  BY <1>5, <1>7, <1>8, <4>2, <4>3
    <3> QED  BY <3>1, <3>2
  <2> QED  BY <2>1, <2>2, <2>3 DEF SocketInv
<1>10. OpenAgents(agents') = OpenAgents(agents)  BY <1>4, <1>5 DEF OpenAgents
<1>11. \A j : AgentsOf(agents', j) = AgentsOf(agents, j)
  <2>1. \A d \in OpenAgents(agents) : d \in 1..Len(agents)  BY <1>4 DEF OpenAgents
  <2> QED  BY <1>5, <1>10, <2>1 DEF AgentsOf
<1>12. \A j : LateHello(j) => LateHello(j)'  BY <1>4, <1>5 DEF LateHello
<1>13. \A j \in Instances : catalog'[j] # None => AgentsOf(agents', j) # {} \/ LateHello(j)'
  BY <1>0, <1>11, <1>12 DEF CatalogMatchesSockets
<1>14. \A d \in OpenAgents(agents') :
          agents'[d].hello \in {"touch", "done"} => catalog'[agents'[d].inst] # None
  <2>1. \A d \in OpenAgents(agents) : d \in 1..Len(agents)  BY <1>4 DEF OpenAgents
  <2> QED  BY <1>0, <1>5, <1>10, <2>1 DEF CatalogMatchesSockets
<1>15. CatalogMatchesSockets'  BY <1>13, <1>14 DEF CatalogMatchesSockets
<1>16. TabsServed(tabs, tabs')  BY <1>0, TabsStay
<1>17. PageInv' /\ tabs' \in Seq(Browsers)  BY <1>0, <1>16, PagesSame
<1>18. drops' \in 0..MaxDrops  BY MirrorAssumption DEF IInv, WiresInv, Drop
<1>19. WiresInv'  BY <1>0, <1>4, <1>7, <1>17, <1>18 DEF WiresInv
<1> QED  BY <1>9, <1>15, <1>17, <1>19 DEF IInv

\* The relay accepts a socket of a window that has none alive, and closes the older ones.
Closing(a) == WithUp(WithSt(a, "closing"), <<>>)
NewSocket(i, code) == [inst |-> i, code |-> code, st |-> "open", live |-> TRUE,
                       hello |-> "none", up |-> <<Frame("hello")>>, down |-> <<>>]
KeptSockets(i) == [c \in DOMAIN agents |-> IF c \in AgentsOf(agents, i) THEN Closing(agents[c]) ELSE agents[c]]

LEMMA SocketsKept ==
    ASSUME IInv, NEW i \in Instances
    PROVE  /\ KeptSockets(i) \in Seq(Sockets) /\ Len(KeptSockets(i)) = Len(agents)
           /\ \A c \in 1..Len(agents) : LET k == KeptSockets(i)[c] IN
                /\ k.inst = agents[c].inst /\ k.code = agents[c].code /\ k.live = agents[c].live
                /\ k.hello = agents[c].hello
                /\ k.st = IF agents[c].st = "open" /\ agents[c].inst = i THEN "closing" ELSE agents[c].st
<1> DEFINE K == KeptSockets(i)
<1>0. agents \in Seq(Sockets)  BY DEF IInv, WiresInv
<1>1. DOMAIN agents = 1..Len(agents) /\ \A c \in 1..Len(agents) : agents[c] \in Sockets
  BY <1>0, LenProperties, ElementOfSeq
<1>2. \A a \in Sockets : /\ Closing(a) \in Sockets /\ Closing(a).inst = a.inst /\ Closing(a).code = a.code
                         /\ Closing(a).live = a.live /\ Closing(a).hello = a.hello /\ Closing(a).st = "closing"
  <2> TAKE a \in Sockets
  <2> DEFINE y == WithSt(a, "closing")
  <2>1. /\ y \in Sockets /\ y.hello = a.hello /\ y.st = "closing" /\ y.inst = a.inst /\ y.code = a.code
        /\ y.live = a.live
    BY StKept
  <2> HIDE DEF y
  <2>2. <<>> \in Seq(UpFrames)  OBVIOUS
  <2>3. WithUp(y, <<>>) \in Sockets /\ SameEnd(y, WithUp(y, <<>>))  BY <2>1, <2>2, UpKept
  <2> QED  BY <2>1, <2>3 DEF Closing, SameEnd, y
<1>3. \A c \in 1..Len(agents) : c \in AgentsOf(agents, i) <=> agents[c].st = "open" /\ agents[c].inst = i
  BY <1>1 DEF AgentsOf, OpenAgents
<1>4. \A c \in 1..Len(agents) :
         K[c] = IF agents[c].st = "open" /\ agents[c].inst = i THEN Closing(agents[c]) ELSE agents[c]
  BY <1>1, <1>3 DEF KeptSockets
<1>5. \A c \in 1..Len(agents) : K[c] \in Sockets  BY <1>1, <1>2, <1>4
<1>6. K = [c \in DOMAIN agents |-> K[c]]  BY DEF KeptSockets
<1> HIDE DEF K
<1>7. K \in Seq(Sockets) /\ Len(K) = Len(agents)  BY <1>0, <1>5, <1>6, MapSeq
<1>8. \A c \in 1..Len(agents) :
         /\ K[c].inst = agents[c].inst /\ K[c].code = agents[c].code /\ K[c].live = agents[c].live
         /\ K[c].hello = agents[c].hello
         /\ K[c].st = IF agents[c].st = "open" /\ agents[c].inst = i THEN "closing" ELSE agents[c].st
  BY <1>1, <1>2, <1>4
<1> QED  BY <1>7, <1>8 DEF K

LEMMA NewSocketKept ==
    ASSUME NEW i \in Instances, NEW code \in BOOLEAN
    PROVE  /\ NewSocket(i, code) \in Sockets /\ NewSocket(i, code).inst = i /\ NewSocket(i, code).st = "open"
           /\ NewSocket(i, code).live = TRUE /\ NewSocket(i, code).hello = "none"
<1>1. Frame("hello") \in UpFrames  BY DEF UpFrames
<1>2. <<Frame("hello")>> \in Seq(UpFrames) /\ <<>> \in Seq(DownFrames) /\ Len(<<>>) = 0  BY <1>1
<1>3. NewSocket(i, code) \in Socket  BY <1>2 DEF NewSocket, Socket
<1>4. Addressed(NewSocket(i, code))  BY <1>2 DEF NewSocket, Addressed
<1> QED  BY <1>3, <1>4 DEF Sockets, NewSocket

Connected(h, n, e) == [h EXCEPT !.conn = n, !.in = e]

LEMMA ConnectedKept ==
    ASSUME NEW h \in HubState, NEW n \in Nat, NEW e \in Seq(Events)
    PROVE  Connected(h, n, e) \in HubState /\ Connected(h, n, e).conn = n
BY DEF Connected, HubState

LEMMA ConnectStep ==
    ASSUME IInv, NEW i \in Instances, Connect(i) PROVE IInv'
<1> DEFINE n == Len(agents)
<1>0. /\ WiresInv /\ PageInv /\ SocketInv /\ CatalogMatchesSockets /\ agents \in Seq(Sockets) /\ catalog \in Entries
      /\ page' = page /\ inputs' = inputs /\ pager' = pager /\ pushed' = pushed /\ drops' = drops
      /\ hub[i].conn = 0
  BY DEF IInv, WiresInv, Connect
<1>1. PICK code \in BOOLEAN :
        /\ AcceptAgent(i, code, <<Frame("hello")>>)
        /\ hub' = [hub EXCEPT ![i].conn = Len(agents'), ![i].in = Append(@, IF code THEN "PairingReady" ELSE "Status")]
  BY DEF Connect
<1> DEFINE x == NewSocket(i, code)  K == KeptSockets(i)
<1>2. agents' = Append(K, x) /\ catalog' = catalog
  BY <1>1, Zenon DEF AcceptAgent, NewSocket, KeptSockets, Closing, WithUp, WithSt
<1>3. x \in Sockets /\ x.inst = i /\ x.st = "open" /\ x.live = TRUE /\ x.hello = "none"  BY NewSocketKept
<1>4. /\ K \in Seq(Sockets) /\ Len(K) = n
      /\ \A c \in 1..n : /\ K[c].inst = agents[c].inst /\ K[c].code = agents[c].code
                         /\ K[c].live = agents[c].live /\ K[c].hello = agents[c].hello
                         /\ K[c].st = IF agents[c].st = "open" /\ agents[c].inst = i THEN "closing" ELSE agents[c].st
  BY SocketsKept
<1> HIDE DEF x, K
<1>5. /\ agents' \in Seq(Sockets) /\ Len(agents') = n + 1 /\ n \in Nat /\ agents'[n + 1] = x
      /\ \A c \in 1..n : agents'[c] = K[c]
  BY <1>0, <1>2, <1>3, <1>4, AppendProperties, LenProperties
<1>6. DOMAIN agents = 1..n /\ DOMAIN agents' = 1..n + 1  BY <1>0, <1>5, LenProperties
<1>7. \A c \in 1..n : agents[c].inst \in Instances  BY <1>0, ElementOfSeq DEF Sockets, Socket
<1>8. \A c \in 1..n : agents[c].live => agents[c].st = "open" /\ agents[c].inst # i
  BY <1>0, <1>5 DEF SocketInv
<1>9. hub' \in [Instances -> HubState] /\ hub'[i].conn = n + 1 /\ \A j \in Instances : j # i => hub'[j] = hub[j]
  <2> DEFINE ev == IF code THEN "PairingReady" ELSE "Status"  e == Append(hub[i].in, ev)
  <2>1. hub \in [Instances -> HubState] /\ hub[i] \in HubState  BY HubSocket
  <2>2. hub[i].in \in Seq(Events) /\ ev \in Events  BY <2>1 DEF HubState, Events
  <2> HIDE DEF ev
  <2>3. e \in Seq(Events)  BY <2>2, AppendProperties
  <2>4. hub' = [hub EXCEPT ![i] = Connected(hub[i], n + 1, e)]
    BY <1>1, <1>5, <2>1 DEF Connected, ev
  <2> HIDE DEF e
  <2>5. Connected(hub[i], n + 1, e) \in HubState /\ Connected(hub[i], n + 1, e).conn = n + 1
    BY <1>5, <2>1, <2>3, ConnectedKept
  <2> QED  BY <2>1, <2>4, <2>5
<1> HIDE DEF n
<1>10. \A c \in 1..n + 1 : c = n + 1 \/ c \in 1..n  BY <1>5
<1>11. \A c \in 1..n : c \in 1..n + 1 /\ c # n + 1  BY <1>5
<1>12. SocketInv'
  <2>1. OneOpen(agents')
    <3>1. \A c \in 1..n : agents'[c].st = "open" => agents[c].st = "open" /\ agents[c].inst # i
      BY <1>4, <1>5
    <3>2. \A c \in 1..n : agents'[c].inst = agents[c].inst  BY <1>4, <1>5
    <3>3. \A c, d \in 1..n : agents[c].st = "open" /\ agents[d].st = "open" /\ agents[c].inst = agents[d].inst => c = d
      BY <1>0 DEF SocketInv, OneOpen, n
    <3> QED  BY <1>3, <1>5, <1>10, <3>1, <3>2, <3>3 DEF OneOpen
  <2>2. \A j \in Instances : hub'[j].conn # 0 =>
           hub'[j].conn \in 1..Len(agents') /\ agents'[hub'[j].conn].inst = j /\ agents'[hub'[j].conn].live
    <3> SUFFICES ASSUME NEW j \in Instances, hub'[j].conn # 0
                 PROVE  hub'[j].conn \in 1..n + 1 /\ agents'[hub'[j].conn].inst = j /\ agents'[hub'[j].conn].live
      BY <1>5
    <3>1. CASE j = i
      <4>1. n + 1 \in 1..n + 1  BY <1>5
      <4> QED  BY <1>3, <1>5, <1>9, <3>1, <4>1
    <3>2. CASE j # i
      <4>1. hub[j].conn \in 1..n /\ agents[hub[j].conn].inst = j /\ agents[hub[j].conn].live /\ hub'[j] = hub[j]
        BY <1>0, <1>9, <3>2 DEF SocketInv, n
      <4> QED  BY <1>4, <1>5, <1>11, <4>1
    <3> QED  BY <3>1, <3>2
  <2>3. \A c \in 1..Len(agents') :
          /\ agents'[c].live => agents'[c].st = "open" /\ hub'[agents'[c].inst].conn = c
          /\ agents'[c].hello = "meta" => agents'[c].code
    <3> SUFFICES ASSUME NEW c \in 1..n + 1
                 PROVE  /\ agents'[c].live => agents'[c].st = "open" /\ hub'[agents'[c].inst].conn = c
                        /\ agents'[c].hello = "meta" => agents'[c].code
      BY <1>5
    <3>1. CASE c = n + 1  BY <1>3, <1>5, <1>9, <3>1
    <3>2. CASE c \in 1..n
      <4>1. /\ agents[c].live => agents[c].st = "open" /\ hub[agents[c].inst].conn = c /\ agents[c].inst # i
            /\ agents[c].hello = "meta" => agents[c].code
        BY <1>0, <1>8, <3>2 DEF SocketInv, n
      <4> QED  BY <1>4, <1>5, <1>7, <1>9, <3>2, <4>1
    <3> QED  BY <1>10, <3>1, <3>2
  <2> QED  BY <2>1, <2>2, <2>3 DEF SocketInv
<1>13. \A j \in Instances : catalog[j] # None => AgentsOf(agents', j) # {} \/ LateHello(j)'
  <2> SUFFICES ASSUME NEW j \in Instances, catalog[j] # None PROVE AgentsOf(agents', j) # {} \/ LateHello(j)'
    OBVIOUS
  <2>1. CASE j = i
    <3>1. n + 1 \in AgentsOf(agents', i)  BY <1>3, <1>5, <1>6 DEF AgentsOf, OpenAgents
    <3> QED  BY <2>1, <3>1
  <2>2. CASE j # i /\ LateHello(j)
    <3>1. PICK c \in 1..n : /\ agents[c].inst = j /\ agents[c].code /\ ~agents[c].live
                            /\ agents[c].hello \in {"touch", "done"}
      BY <1>6, <2>2 DEF LateHello
    <3> QED  BY <1>4, <1>5, <1>6, <1>11, <3>1 DEF LateHello
  <2>3. CASE j # i /\ AgentsOf(agents, j) # {}
    <3>1. PICK c \in 1..n : agents[c].st = "open" /\ agents[c].inst = j
      BY <1>6, <2>3 DEF AgentsOf, OpenAgents
    <3>2. agents'[c].st = "open" /\ agents'[c].inst = j /\ c \in DOMAIN agents'
      BY <1>4, <1>5, <1>6, <1>11, <2>3, <3>1
    <3>3. c \in AgentsOf(agents', j)  BY <3>2 DEF AgentsOf, OpenAgents
    <3> QED  BY <3>3
  <2> QED  BY <1>0, <2>1, <2>2, <2>3 DEF CatalogMatchesSockets
<1>14. \A c \in OpenAgents(agents') :
          agents'[c].hello \in {"touch", "done"} => catalog[agents'[c].inst] # None
  <2> SUFFICES ASSUME NEW c \in OpenAgents(agents'), agents'[c].hello \in {"touch", "done"}
               PROVE  catalog[agents'[c].inst] # None
    OBVIOUS
  <2>1. c \in 1..n + 1 /\ agents'[c].st = "open"  BY <1>6 DEF OpenAgents
  <2>2. c \in 1..n  BY <1>3, <1>5, <1>10, <2>1
  <2>3. agents[c].st = "open" /\ agents[c].hello \in {"touch", "done"} /\ agents'[c].inst = agents[c].inst
    BY <1>4, <1>5, <2>1, <2>2
  <2>4. c \in OpenAgents(agents)  BY <1>6, <2>2, <2>3 DEF OpenAgents
  <2> QED  BY <1>0, <2>3, <2>4 DEF CatalogMatchesSockets
<1>15. CatalogMatchesSockets'  BY <1>2, <1>13, <1>14 DEF CatalogMatchesSockets
<1>16. TabsServed(tabs, tabs')
  <2> DEFINE fs == <<Frame("machine_online"), CatalogFrame(catalog, TRUE)>>
  <2>1. tabs' = broadcastBrowsers(tabs, fs)  BY <1>1 DEF AcceptAgent
  <2>2. CatalogFrame(catalog, TRUE) \in TabFrames  BY <1>0, CatalogFramed, Zenon
  <2>3. Frame("machine_online") \in TabFrames  BY DEF TabFrames
  <2>p. \A f, h \in TabFrames : <<f, h>> \in Seq(TabFrames)  OBVIOUS
  <2>4. fs \in Seq(TabFrames)  BY <2>2, <2>3, <2>p, Zenon
  <2> HIDE DEF fs
  <2> QED  BY <1>0, <2>1, <2>4, TabsTold
<1>17. PageInv' /\ tabs' \in Seq(Browsers)  BY <1>0, <1>16, PagesSame
<1>18. WiresInv'  BY <1>0, <1>2, <1>5, <1>9, <1>17 DEF WiresInv
<1> QED  BY <1>12, <1>15, <1>17, <1>18 DEF IInv

-----------------------------------------------------------------------------
(* Steps of a page                                                         *)
LEMMA PageOnly ==
    ASSUME IInv, UNCHANGED <<agents, catalog, hub, pager, pushed>>, PageInv', page' \in [Pages -> PageStates],
           tabs' \in Seq(Browsers), inputs' \in 0..MaxInputs, drops' \in 0..MaxDrops
    PROVE  IInv'
<1>0. agents' = agents /\ catalog' = catalog /\ hub' = hub /\ pager' = pager /\ pushed' = pushed  OBVIOUS
<1>1. WiresInv'  BY <1>0 DEF IInv, WiresInv
<1>2. SocketInv'  BY <1>0 DEF IInv, SocketInv
<1>3. CatalogMatchesSockets'  BY <1>0 DEF IInv, CatalogMatchesSockets, LateHello
<1> QED  BY <1>1, <1>2, <1>3 DEF IInv

LEMMA PageTab ==
    ASSUME IInv, NEW p \in Pages
    PROVE  /\ WiresInv /\ PageInv /\ page[p] \in PageStates /\ page \in [Pages -> PageStates]
           /\ tabs \in Seq(Browsers) /\ Len(tabs) \in Nat /\ inputs \in 0..MaxInputs /\ drops \in 0..MaxDrops
           /\ page[p].ws # 0 =>
                /\ page[p].ws \in 1..Len(tabs) /\ page[p].ws \in DOMAIN tabs /\ tabs[page[p].ws] \in Browsers
                /\ tabs[page[p].ws].page = p
                /\ page[p].sel # None => Governs(tabs[page[p].ws], Len(tabs[page[p].ws].up), page[p].sel)
<1>1. /\ WiresInv /\ PageInv /\ page \in [Pages -> PageStates] /\ tabs \in Seq(Browsers)
      /\ inputs \in 0..MaxInputs /\ drops \in 0..MaxDrops
  BY DEF IInv, WiresInv
<1>2. Len(tabs) \in Nat /\ DOMAIN tabs = 1..Len(tabs)  BY <1>1, LenProperties
<1>3. page[p].ws # 0 =>
        /\ page[p].ws \in 1..Len(tabs) /\ tabs[page[p].ws].page = p
        /\ page[p].sel # None => Governs(tabs[page[p].ws], Len(tabs[page[p].ws].up), page[p].sel)
  BY <1>1 DEF PageInv
<1> QED  BY <1>1, <1>2, <1>3, ElementOfSeq

WithWs(g, t) == [g EXCEPT !.ws = t]

LEMMA WsKept ==
    ASSUME NEW g \in PageStates, NEW t \in Nat
    PROVE  WithWs(g, t) \in PageStates /\ WithWs(g, t).ws = t /\ WithWs(g, t).sel = g.sel
<1>1. g \in PageState /\ Consistent(g)  BY DEF PageStates
<1>2. /\ WithWs(g, t) \in PageState /\ WithWs(g, t).ws = t /\ WithWs(g, t).sel = g.sel
      /\ WithWs(g, t).view = g.view
  BY <1>1 DEF PageState, WithWs
<1>3. Consistent(WithWs(g, t))  BY <1>1, <1>2 DEF Consistent
<1> QED  BY <1>2, <1>3 DEF PageStates

LEMMA PageConnectsStep ==
    ASSUME IInv, NEW p \in Pages, PageConnects(p) PROVE IInv'
<1> DEFINE i == page[p].sel  n == Len(tabs)
           st == Frame(IF OpenAgents(agents) = {} THEN "machine_offline" ELSE "machine_online")
           d == <<st, CatalogNow(agents)>>
           b == Joined(p, IF i # None THEN <<Watch(i)>> ELSE <<>>, d)
           g == WithWs(page[p], n + 1)
<1>0. /\ WiresInv /\ PageInv /\ page[p] \in PageStates /\ page \in [Pages -> PageStates]
      /\ tabs \in Seq(Browsers) /\ n \in Nat /\ inputs \in 0..MaxInputs /\ drops \in 0..MaxDrops /\ page[p].ws = 0
  BY PageTab DEF PageConnects
<1>1. i \in Instances \cup {None} /\ catalog \in Entries  BY <1>0 DEF PageStates, PageState, WiresInv
<1>2. tabs' = Append(tabs, b)  BY DEF PageConnects, AcceptTab, Joined
<1>3. d \in Seq(TabFrames)
  <2>1. st \in TabFrames  BY DEF TabFrames
  <2>2. (OpenAgents(agents) # {}) \in BOOLEAN  OBVIOUS
  <2>3. CatalogNow(agents) \in TabFrames  BY <1>1, <2>2, CatalogFramed, Zenon DEF CatalogNow
  <2> HIDE DEF st
  <2> QED  BY <2>1, <2>3
<1> HIDE DEF d, i
<1>4. b \in Browsers /\ b.page = p /\ (i # None => Governs(b, Len(b.up), i))
  BY <1>1, <1>3, JoinedKept
<1> HIDE DEF b
<1>5. /\ tabs' \in Seq(Browsers) /\ Len(tabs') = n + 1 /\ tabs'[n + 1] = b
      /\ \A u \in 1..n : tabs'[u] = tabs[u]
  BY <1>0, <1>2, <1>4, AppendProperties
<1>6. page' = [page EXCEPT ![p] = g]  BY <1>5 DEF PageConnects, WithWs
<1>n. n + 1 \in Nat  BY <1>0
<1>7. g \in PageStates /\ g.ws = n + 1 /\ g.sel = i  BY <1>0, <1>n, WsKept, Zenon DEF i
<1> HIDE DEF g
<1>8. Len(tabs') >= Len(tabs) /\ n + 1 \in 1..Len(tabs')  BY <1>0, <1>5
<1>9. PageInv' /\ page' \in [Pages -> PageStates]
  <2>1. \A u \in 1..Len(tabs) : u # page[p].ws => tabs'[u] = tabs[u]  BY <1>5
  <2>2. g.ws # 0 => /\ g.ws \in 1..Len(tabs') /\ tabs'[g.ws].page = p
                    /\ g.sel # None => Governs(tabs'[g.ws], Len(tabs'[g.ws].up), g.sel)
    BY <1>4, <1>5, <1>7, <1>8
  <2> QED  BY <1>0, <1>5, <1>6, <1>7, <1>8, <2>1, <2>2, PageMoves
<1>10. UNCHANGED <<agents, catalog, hub, pager, pushed>> /\ inputs' = inputs /\ drops' = drops
  BY DEF PageConnects, AcceptTab
<1> QED  BY <1>0, <1>5, <1>9, <1>10, PageOnly

\* A page goes to g and its browser to x.
LEMMA PageSends ==
    ASSUME IInv, NEW p \in Pages, page[p].ws # 0, NEW g \in PageStates, NEW x \in Browsers,
           page' = [page EXCEPT ![p] = g], tabs' = [tabs EXCEPT ![page[p].ws] = x],
           g.ws # 0 => /\ g.ws = page[p].ws /\ x.page = p
                       /\ g.sel # None => Governs(x, Len(x.up), g.sel)
    PROVE  PageInv' /\ page' \in [Pages -> PageStates] /\ tabs' \in Seq(Browsers)
<1> DEFINE t == page[p].ws
<1>0. WiresInv /\ PageInv /\ tabs \in Seq(Browsers) /\ Len(tabs) \in Nat /\ t \in 1..Len(tabs)
  BY PageTab
<1>1. /\ tabs' \in Seq(Browsers) /\ Len(tabs') = Len(tabs) /\ tabs'[t] = x
      /\ \A u \in 1..Len(tabs) : u # t => tabs'[u] = tabs[u]
  BY <1>0, ExceptSeq
<1>2. Len(tabs') >= Len(tabs)  BY <1>0, <1>1
<1>3. g.ws # 0 => /\ g.ws \in 1..Len(tabs') /\ tabs'[g.ws].page = p
                  /\ g.sel # None => Governs(tabs'[g.ws], Len(tabs'[g.ws].up), g.sel)
  BY <1>0, <1>1
<1> QED  BY <1>0, <1>1, <1>2, <1>3, PageMoves

Away(g) == [g EXCEPT !.ws = 0, !.online = FALSE]

LEMMA AwayKept == ASSUME NEW g \in PageStates PROVE Away(g) \in PageStates /\ Away(g).ws = 0
<1>1. g \in PageState /\ Consistent(g)  BY DEF PageStates
<1>2. Away(g) \in PageState /\ Away(g).ws = 0 /\ Away(g).sel = g.sel /\ Away(g).view = g.view
  BY <1>1 DEF PageState, Away
<1>3. Consistent(Away(g))  BY <1>1, <1>2 DEF Consistent
<1> QED  BY <1>2, <1>3 DEF PageStates

LEMMA PageDropsStep ==
    ASSUME IInv, NEW p \in Pages, PageDrops(p) PROVE IInv'
<1> DEFINE t == page[p].ws  b == tabs[t]
<1>0. /\ page[p] \in PageStates /\ inputs \in 0..MaxInputs /\ drops \in 0..MaxDrops
      /\ t # 0 /\ b \in Browsers /\ b.page = p
  BY PageTab DEF PageDrops
<1>1. PICK n \in 0..Len(b.up) : tabs' = [tabs EXCEPT ![t] = Broken(b, n)]  BY DEF PageDrops, Broken
<1>2. page' = [page EXCEPT ![p] = Away(page[p])]  BY DEF PageDrops, Away
<1>3. Broken(b, n) \in Browsers  BY <1>0, BrokenKept
<1>4. Away(page[p]) \in PageStates /\ Away(page[p]).ws = 0  BY <1>0, AwayKept
<1>5. PageInv' /\ page' \in [Pages -> PageStates] /\ tabs' \in Seq(Browsers)
  BY <1>0, <1>1, <1>2, <1>3, <1>4, PageSends
<1>6. UNCHANGED <<agents, catalog, hub, pager, pushed>> /\ inputs' = inputs  BY DEF PageDrops
<1>7. drops' \in 0..MaxDrops  BY <1>0, MirrorAssumption DEF PageDrops
<1> QED  BY <1>0, <1>5, <1>6, <1>7, PageOnly

LEMMA WatchFrame == ASSUME NEW i \in Instances PROVE Watch(i) \in TabFrameUp /\ Watch(i).type = "watch" /\ Watch(i).inst = i
BY DEF Watch, TabFrameUp

\* The user clicks a window: the watch frame goes out if the page is connected.
LEMMA ClickStep ==
    ASSUME IInv, NEW p \in Pages, Click(p) PROVE IInv'
<1>0. /\ WiresInv /\ PageInv /\ page[p] \in PageStates /\ tabs \in Seq(Browsers) /\ Len(tabs) \in Nat
      /\ inputs \in 0..MaxInputs /\ drops \in 0..MaxDrops
      /\ page[p].ws # 0 => tabs[page[p].ws] \in Browsers /\ tabs[page[p].ws].page = p
  BY PageTab
<1>1. PICK i \in Instances :
        LET first == firstSessionId(page[p].known[i])
            g == Selected(page[p], i, IF first = "live" THEN "" ELSE first)
        IN  page' = [page EXCEPT ![p] = g] /\ tabs' = SendJson(tabs, g, SelectFrames(g, i))
  BY DEF Click
<1> DEFINE s == IF firstSessionId(page[p].known[i]) = "live" THEN "" ELSE firstSessionId(page[p].known[i])
           g == Selected(page[p], i, s)
<1>2. page' = [page EXCEPT ![p] = g] /\ tabs' = SendJson(tabs, g, <<Watch(i)>>)  BY <1>1 DEF SelectFrames
<1>3. s \in SessionIds  BY FirstSession DEF SessionIds
<1> HIDE DEF s
<1>4. g \in PageStates /\ g.ws = page[p].ws /\ g.sel = i  BY <1>0, <1>3, SelectedKept
<1> HIDE DEF g
<1>5. PageInv' /\ page' \in [Pages -> PageStates] /\ tabs' \in Seq(Browsers)
  <2>1. CASE page[p].ws = 0
    <3>1. tabs' = tabs /\ Len(tabs') >= Len(tabs)  BY <1>0, <1>2, <1>4, <2>1 DEF SendJson
    <3> QED  BY <1>0, <1>2, <1>4, <2>1, <3>1, PageMoves
  <2>2. CASE page[p].ws # 0
    <3> DEFINE t == page[p].ws  b == tabs[t]  x == WithUp(b, b.up \o <<Watch(i)>>)
    <3>1. tabs' = [tabs EXCEPT ![t] = x]  BY <1>2, <1>4, <2>2 DEF SendJson, WithUp
    <3>2. Watch(i) \in TabFrameUp /\ Watch(i).type = "watch" /\ Watch(i).inst = i  BY WatchFrame
    <3>3. x \in Browsers /\ x.page = p /\ Governs(x, Len(x.up), i)  BY <1>0, <2>2, <3>2, FrameAdded
    <3> HIDE DEF x
    <3> QED  BY <1>2, <1>4, <2>2, <3>1, <3>3, PageSends
  <2> QED  BY <2>1, <2>2
<1>6. UNCHANGED <<agents, catalog, hub, pager, pushed>> /\ drops' = drops  BY DEF Click
<1>7. inputs' \in 0..MaxInputs
  <2>1. inputs < MaxInputs /\ inputs' = inputs + 1  BY Zenon DEF Click
  <2> QED  BY <1>0, <2>1, MirrorAssumption
<1> QED  BY <1>0, <1>5, <1>6, <1>7, PageOnly

\* The prompt follows the watch of the selection.
LEMMA ComposeStep ==
    ASSUME IInv, NEW p \in Pages, Compose(p) PROVE IInv'
<1> DEFINE t == page[p].ws  b == tabs[t]
           known == {j \in Instances : page[p].known[j] # None}
           only == page[p].sel = None /\ Cardinality(known) = 1
           i == IF only THEN CHOOSE j \in known : TRUE ELSE page[p].sel
           g == IF only THEN Selected(page[p], i, firstSessionId(page[p].known[i])) ELSE page[p]
           f == [type |-> "prompt", inst |-> i]
           fs == (IF only THEN <<Watch(i)>> ELSE <<>>) \o <<f>>
           x == WithUp(b, b.up \o fs)
<1>0. /\ WiresInv /\ PageInv /\ page[p] \in PageStates
      /\ inputs \in 0..MaxInputs /\ drops \in 0..MaxDrops /\ t # 0
      /\ b \in Browsers /\ b.page = p /\ (page[p].sel # None => Governs(b, Len(b.up), page[p].sel))
  BY PageTab DEF Compose
<1>1. canCompose(g) /\ page' = [page EXCEPT ![p] = g] /\ tabs' = SendJson(tabs, g, fs)
  BY Zenon DEF Compose, SelectFrames
<1>2. g \in PageStates /\ g.ws = t /\ g.sel = i /\ i \in Instances
  <2>1. CASE only
    <3>1. known # {}  BY <2>1, FS_EmptySet
    <3>2. i \in Instances
      <4>1. i = CHOOSE j \in known : TRUE  BY <2>1
      <4>2. (CHOOSE j \in known : TRUE) \in known  BY <3>1
      <4> QED  BY <4>1, <4>2
    <3>3. g = Selected(page[p], i, firstSessionId(page[p].known[i]))  BY <2>1
    <3>4. firstSessionId(page[p].known[i]) \in SessionIds  BY FirstSession
    <3> HIDE DEF g, i
    <3>5. /\ Selected(page[p], i, firstSessionId(page[p].known[i])) \in PageStates
          /\ Selected(page[p], i, firstSessionId(page[p].known[i])).ws = t
          /\ Selected(page[p], i, firstSessionId(page[p].known[i])).sel = i
      BY <1>0, <3>2, <3>4, SelectedKept
    <3> QED  BY <3>2, <3>3, <3>5
  <2>2. CASE ~only
    <3>1. g = page[p] /\ i = page[p].sel  BY <2>2
    <3>2. i # None  BY <1>1, <3>1 DEF canCompose
    <3>3. page[p].sel \in Instances \cup {None}  BY <1>0 DEF PageStates, PageState
    <3> QED  BY <1>0, <3>1, <3>2, <3>3
  <2> QED  BY <2>1, <2>2
<1>3. ~only => i = page[p].sel  OBVIOUS
<1> HIDE DEF g, i, only
<1>4. tabs' = [tabs EXCEPT ![t] = x]  BY <1>0, <1>1, <1>2 DEF SendJson, WithUp
<1>5. f \in TabFrameUp /\ f.type = "prompt" /\ f.inst = i  BY <1>2 DEF TabFrameUp
<1>6. Watch(i) \in TabFrameUp /\ Watch(i).type = "watch" /\ Watch(i).inst = i  BY <1>2, WatchFrame
<1> HIDE DEF f
<1>7. x \in Browsers /\ x.page = p /\ Governs(x, Len(x.up), i)
  <2>0. b.up \in Seq(TabFrameUp)  BY <1>0 DEF Browsers, Browser
  <2>1. CASE only
    <3> DEFINE d == WithUp(b, b.up \o <<Watch(i)>>)
    <3>1. d \in Browsers /\ d.page = p /\ Governs(d, Len(d.up), i)  BY <1>0, <1>6, FrameAdded
    <3>2. d.up = b.up \o <<Watch(i)>>
      <4>1. b \in Browser  BY <1>0 DEF Browsers
      <4> QED  BY <4>1 DEF Browser, WithUp
    <3>3. WithUp(d, d.up \o <<f>>) \in Browsers /\ WithUp(d, d.up \o <<f>>).page = p
          /\ Governs(WithUp(d, d.up \o <<f>>), Len(WithUp(d, d.up \o <<f>>).up), i)
      <4> HIDE DEF d
      <4> QED  BY <1>5, <3>1, FrameAdded
    <3>4. d.up \o <<f>> = b.up \o fs
      <4>1. <<Watch(i)>> \in Seq(TabFrameUp) /\ <<f>> \in Seq(TabFrameUp)  BY <1>5, <1>6
      <4>2. (b.up \o <<Watch(i)>>) \o <<f>> = b.up \o (<<Watch(i)>> \o <<f>>)  BY <2>0, <4>1, ConcatAssociative
      <4>3. fs = <<Watch(i)>> \o <<f>>  BY <2>1
      <4> QED  BY <3>2, <4>2, <4>3
    <3>5. WithUp(d, b.up \o fs) = x  BY DEF WithUp
    <3> QED  BY <3>3, <3>4, <3>5
  <2>2. CASE ~only
    <3>1. fs = <<f>>
      <4>1. <<f>> \in Seq(TabFrameUp)  BY <1>5
      <4>2. fs = <<>> \o <<f>>  BY <2>2
      <4> QED  BY <4>1, <4>2, ConcatEmptySeq
    <3>2. Governs(b, Len(b.up), f.inst)  BY <1>0, <1>2, <1>3, <1>5, <2>2, RelayAssumption
    <3>3. x = WithUp(b, b.up \o <<f>>)  BY <3>1
    <3> HIDE DEF x, fs
    <3> QED  BY <1>0, <1>5, <3>2, <3>3, FrameAdded
  <2> QED  BY <2>1, <2>2
<1> HIDE DEF x
<1>8. PageInv' /\ page' \in [Pages -> PageStates] /\ tabs' \in Seq(Browsers)
  BY <1>0, <1>1, <1>2, <1>4, <1>7, PageSends
<1>9. UNCHANGED <<agents, catalog, hub, pager, pushed>> /\ drops' = drops  BY DEF Compose
<1>10. inputs' \in 0..MaxInputs  BY <1>0, MirrorAssumption DEF Compose
<1> QED  BY <1>0, <1>8, <1>9, <1>10, PageOnly

LEMMA MessageStep ==
    ASSUME IInv, NEW p \in Pages, OnMessage(p) PROVE IInv'
<1> DEFINE t == page[p].ws  b == tabs[t]  f == Head(b.down)  y == WithDown(b, Tail(b.down))
           r == IF f.type = "catalog" THEN applyCatalog(page[p], f)
                ELSE [page |-> Shown(page[p], f), picks |-> FALSE]
           x == IF r.picks THEN WithUp(y, y.up \o <<Watch(r.page.sel)>>) ELSE y
<1>0. /\ WiresInv /\ PageInv /\ page[p] \in PageStates
      /\ inputs \in 0..MaxInputs /\ drops \in 0..MaxDrops /\ t # 0 /\ b.down # <<>>
      /\ b \in Browsers /\ b.page = p /\ (page[p].sel # None => Governs(b, Len(b.up), page[p].sel))
  BY PageTab DEF OnMessage
<1>1. b.down \in Seq(TabFrames)  BY <1>0 DEF Browsers, Browser
<1>2. f \in TabFrames /\ Tail(b.down) \in Seq(TabFrames)  BY <1>0, <1>1, HeadTailProperties
<1>3. y \in Browsers /\ SameTab(b, y)  BY <1>0, <1>2, BrowserDown
<1>4. page' = [page EXCEPT ![p] = r.page]
      /\ tabs' = IF r.picks THEN SendJson([tabs EXCEPT ![t] = y], r.page, <<Watch(r.page.sel)>>)
                 ELSE [tabs EXCEPT ![t] = y]
  BY DEF OnMessage, WithDown, SelectFrames
<1>5. PageStep(page[p], r)
  <2> HIDE DEF f
  <2>1. CASE f.type = "catalog"
    <3>1. f \in [type : {"catalog"}, entries : Entries, online : BOOLEAN]
      <4>1. f # Frame("machine_online") /\ f # Frame("machine_offline")  BY <2>1 DEF Frame
      <4>2. f \notin [type : {"instance_offline"}, inst : Instances]  BY <2>1
      <4>3. f \notin [type : {"snapshot"}, inst : Instances, text : 0..MaxText, active : {"", "real"}]  BY <2>1
      <4> QED  BY <1>2, <4>1, <4>2, <4>3 DEF TabFrames
    <3>2. PageStep(page[p], applyCatalog(page[p], f))  BY <1>0, <3>1, CatalogApplied
    <3> QED  BY <2>1, <3>2
  <2>2. CASE f.type # "catalog"
    <3>1. PageStep(page[p], [page |-> Shown(page[p], f), picks |-> FALSE])  BY <1>0, <1>2, <2>2, FrameShown
    <3> QED  BY <2>2, <3>1
  <2> QED  BY <2>1, <2>2
<1> HIDE DEF r, y
<1>6. r.page \in PageStates /\ r.page.ws = t  BY <1>5 DEF PageStep
<1>7. tabs' = [tabs EXCEPT ![t] = x]
  <2>1. CASE r.picks
    <3>1. tabs' = [[tabs EXCEPT ![t] = y] EXCEPT ![t].up = @ \o <<Watch(r.page.sel)>>]
      BY <1>0, <1>4, <1>6, <2>1 DEF SendJson
    <3>2. t \in DOMAIN tabs  BY <1>0, PageTab
    <3> QED  BY <2>1, <3>1, <3>2 DEF WithUp
  <2>2. CASE ~r.picks  BY <1>4, <2>2
  <2> QED  BY <2>1, <2>2
<1>8. x \in Browsers /\ x.page = p /\ (r.page.sel # None => Governs(x, Len(x.up), r.page.sel))
  <2>1. CASE r.picks
    <3>1. r.page.sel \in Instances  BY <1>5, <2>1 DEF PageStep
    <3> DEFINE i == r.page.sel
    <3> HIDE DEF i
    <3>2. Watch(i) \in TabFrameUp /\ Watch(i).type = "watch" /\ Watch(i).inst = i  BY <3>1, WatchFrame DEF i
    <3>3. WithUp(y, y.up \o <<Watch(i)>>) \in Browsers /\ WithUp(y, y.up \o <<Watch(i)>>).page = y.page
          /\ Governs(WithUp(y, y.up \o <<Watch(i)>>), Len(WithUp(y, y.up \o <<Watch(i)>>).up), i)
      BY <1>3, <3>2, FrameAdded
    <3>4. x = WithUp(y, y.up \o <<Watch(i)>>)  BY <2>1 DEF i
    <3>5. y.page = p  BY <1>0, <1>3 DEF SameTab
    <3> HIDE DEF x
    <3> QED  BY <3>3, <3>4, <3>5 DEF i
  <2>2. CASE ~r.picks
    <3>1. x = y /\ r.page.sel \in {None, page[p].sel}  BY <1>5, <2>2 DEF PageStep
    <3>2. y.page = p /\ y.up = b.up /\ y.watch = b.watch  BY <1>0, <1>3 DEF SameTab
    <3>3. r.page.sel # None => Governs(b, Len(b.up), r.page.sel)  BY <1>0, <3>1
    <3>4. \A k, i : Governs(b, k, i) => Governs(y, k, i)  BY <3>2 DEF Governs
    <3>5. r.page.sel # None => Governs(y, Len(y.up), r.page.sel)  BY <3>2, <3>3, <3>4
    <3> QED  BY <1>3, <3>1, <3>2, <3>5
  <2> QED  BY <2>1, <2>2
<1> HIDE DEF x
<1>9. PageInv' /\ page' \in [Pages -> PageStates] /\ tabs' \in Seq(Browsers)
  BY <1>0, <1>4, <1>6, <1>7, <1>8, PageSends
<1>10. UNCHANGED <<agents, catalog, hub, pager, pushed>> /\ drops' = drops /\ inputs' = inputs  BY DEF OnMessage
<1> QED  BY <1>0, <1>9, <1>10, PageOnly

-----------------------------------------------------------------------------
(* The theorems                                                            *)
LEMMA InitHolds == Init => IInv
<1> SUFFICES ASSUME Init PROVE IInv  OBVIOUS
<1>1. agents = <<>> /\ tabs = <<>> /\ catalog = [i \in Instances |-> None] /\ inputs = 0 /\ drops = 0
  BY DEF Init, RelayInit
<1>2. agents \in Seq(Sockets) /\ tabs \in Seq(Browsers) /\ Len(agents) = 0 /\ DOMAIN agents = {}  BY <1>1
<1>3. catalog \in Entries /\ \A i \in Instances : catalog[i] = None  BY <1>1 DEF Entries
<1>4. hub \in [Instances -> HubState] /\ \A i \in Instances : hub[i].conn = 0
  <2> DEFINE h == [conn |-> 0, watching |-> FALSE, key |-> None, out |-> <<>>, in |-> <<>>]
  <2>1. <<>> \in Seq(UpFrames) /\ <<>> \in Seq(Events)  OBVIOUS
  <2>2. h \in HubState /\ h.conn = 0  BY <2>1 DEF HubState
  <2>3. hub = [i \in Instances |-> h]  BY DEF Init
  <2> HIDE DEF h
  <2> QED  BY <2>2, <2>3
<1>5. page \in [Pages -> PageStates] /\ \A p \in Pages : page[p].ws = 0
  <2> DEFINE e == [i \in Instances |-> None]
             g == [ws |-> 0, sel |-> None, sess |-> "", online |-> FALSE, known |-> e, view |-> None]
  <2>1. e \in Entries  BY DEF Entries
  <2>2. page = [p \in Pages |-> g]  BY DEF Init
  <2> HIDE DEF e
  <2>3. g \in PageState /\ g.sel = None /\ g.ws = 0  BY <2>1 DEF PageState, SessionIds
  <2>4. g \in PageStates  BY <2>3 DEF PageStates, Consistent
  <2> HIDE DEF g
  <2> QED  BY <2>2, <2>3, <2>4
<1>6. pager \in [Instances -> PagerState] /\ pushed \in [Instances -> PagerState]
  <2>1. [list |-> 1, text |-> 0] \in PagerState
    <3>1. 1 \in Versions /\ 0 \in 0..MaxText  BY MirrorAssumption DEF Versions
    <3> QED  BY <3>1 DEF PagerState
  <2> QED  BY <2>1 DEF Init
<1>7. inputs \in 0..MaxInputs /\ drops \in 0..MaxDrops  BY <1>1, MirrorAssumption
<1>8. WiresInv  BY <1>2, <1>3, <1>4, <1>5, <1>6, <1>7 DEF WiresInv
<1>9. PageInv  BY <1>5 DEF PageInv
<1>10. SocketInv  BY <1>2, <1>4 DEF SocketInv, OneOpen
<1>11. CatalogMatchesSockets  BY <1>2, <1>3 DEF CatalogMatchesSockets, OpenAgents
<1> QED  BY <1>8, <1>9, <1>10, <1>11 DEF IInv

LEMMA StepKeeps == IInv /\ [Next]_vars => IInv'
<1> SUFFICES ASSUME IInv, [Next]_vars PROVE IInv'  OBVIOUS
<1>1. CASE RelayStep  BY <1>1, RelayKept
<1>2. ASSUME NEW i \in Instances,
             \/ Connect(i) \/ Pump(i) \/ Receive(i) \/ Drop(i)
             \/ StateChanged(i) \/ ChangedUnpushed(i) \/ HandleEvent(i)
      PROVE  IInv'
  BY <1>2, ConnectStep, PumpStep, ReceiveStep, DropStep, StateChangedStep, ChangedUnpushedStep,
     HandleEventStep
<1>3. ASSUME NEW p \in Pages,
             \/ PageConnects(p) \/ PageDrops(p) \/ Click(p) \/ Compose(p) \/ OnMessage(p)
      PROVE  IInv'
  BY <1>3, PageConnectsStep, PageDropsStep, ClickStep, ComposeStep, MessageStep
<1>4. CASE UNCHANGED vars
  <2>1. UNCHANGED <<tabs, catalog, page, inputs, drops>> /\ agents' = agents /\ hub' = hub
        /\ pager' = pager /\ pushed' = pushed
    BY <1>4 DEF vars
  <2>2. /\ agents \in Seq(Sockets) /\ hub \in [Instances -> HubState]
        /\ pager \in [Instances -> PagerState] /\ pushed \in [Instances -> PagerState]
    BY DEF IInv, WiresInv
  <2>3. SameEnds(agents, agents')  BY <2>1, <2>2 DEF SameEnds, SameEnd
  <2> QED  BY <2>1, <2>2, <2>3, WindowForwards
<1> QED  BY <1>1, <1>2, <1>3, <1>4 DEF Next

\* The frames on the wires, the sockets at both ends and the catalog always fit together.
THEOREM MirrorInvariant == Spec => []IInv
BY InitHolds, StepKeeps, PTL DEF Spec

\* Every variable of the relay, the windows and the pages keeps its type, the frames of every wire included.
THEOREM MirrorTyped == Spec => []TypeOK
<1>1. IInv => TypeOK
  <2> SUFFICES ASSUME IInv PROVE TypeOK  OBVIOUS
  <2>1. agents \in Seq(Socket)
    <3>1. agents \in Seq(Sockets)  BY DEF IInv, WiresInv
    <3>2. \A c \in 1..Len(agents) : agents[c] \in Socket  BY <3>1, ElementOfSeq DEF Sockets
    <3>3. Len(agents) \in Nat /\ agents = [c \in 1..Len(agents) |-> agents[c]]  BY <3>1, LenProperties
    <3> QED  BY <3>2, <3>3
  <2>2. tabs \in Seq(Browser)
    <3>1. tabs \in Seq(Browsers)  BY DEF IInv, WiresInv
    <3>2. \A t \in 1..Len(tabs) : tabs[t] \in Browser  BY <3>1, ElementOfSeq DEF Browsers
    <3>3. Len(tabs) \in Nat /\ tabs = [t \in 1..Len(tabs) |-> tabs[t]]  BY <3>1, LenProperties
    <3> QED  BY <3>2, <3>3
  <2>3. Len(agents) \in Nat /\ Len(tabs) \in Nat  BY <2>1, <2>2, LenProperties
  <2>4. hub \in [Instances -> [conn : 0..Len(agents), watching : BOOLEAN, key : Versions \cup {None},
                               out : Seq(UpFrames), in : Seq(Events)]]
    <3>1. hub \in [Instances -> HubState]  BY DEF IInv, WiresInv
    <3>2. \A i \in Instances : hub[i].conn \in 0..Len(agents)
      BY <2>3 DEF IInv, SocketInv
    <3> QED  BY <3>1, <3>2 DEF HubState
  <2>5. page \in [Pages -> [ws : 0..Len(tabs), sel : Instances \cup {None}, sess : {"", "live", "real"},
                            online : BOOLEAN, known : Entries,
                            view : {None} \cup [inst : Instances, text : 0..MaxText]]]
    <3>1. page \in [Pages -> PageState]  BY DEF IInv, WiresInv, PageStates
    <3>2. \A p \in Pages : page[p].ws \in 0..Len(tabs)  BY <2>3 DEF IInv, PageInv
    <3> QED  BY <3>1, <3>2 DEF PageState, SessionIds, Views
  <2> QED  BY <2>1, <2>2, <2>4, <2>5 DEF TypeOK, IInv, WiresInv, Socket, Browser, TabFrameUp, PagerState
<1> QED  BY <1>1, MirrorInvariant, PTL

\* A prompt reaches only the window that was selected when it was sent, although the relay routes
\* it by the last watch frame: no interleaving of watch frames, reconnects and replaced sockets
\* sends it to another window.
THEOREM PromptsArrive == Spec => []PromptReachesSelection
<1>1. IInv => PromptReachesSelection
  <2> SUFFICES ASSUME IInv, NEW c \in DOMAIN agents, NEW k \in DOMAIN agents[c].down, agents[c].down[k].type = "prompt"
               PROVE  agents[c].down[k].inst = agents[c].inst
    BY DEF PromptReachesSelection
  <2>1. agents[c] \in Sockets  BY OpenSocket DEF IInv
  <2>2. agents[c].down \in Seq(DownFrames) /\ Addressed(agents[c])  BY <2>1 DEF Sockets, Socket
  <2>3. k \in 1..Len(agents[c].down)  BY <2>2, LenProperties
  <2> QED  BY <2>2, <2>3 DEF Addressed
<1> QED  BY <1>1, MirrorInvariant, PTL

\* A page never shows the transcript of another window than the selected one, although every
\* browser gets the snapshots of every watched window.
THEOREM ViewsMatch == Spec => []ViewOfSelection
<1>1. IInv => ViewOfSelection
  BY DEF IInv, WiresInv, PageStates, Consistent, ViewOfSelection
<1> QED  BY <1>1, MirrorInvariant, PTL

\* An entry of the catalog has an open socket, unless a hello was saved after its socket was lost,
\* and a window whose hello was saved keeps its entry while it has a socket: closes, reconnects
\* and the database calls of hello come in any order.
THEOREM CatalogTrue == Spec => []CatalogMatchesSockets
BY MirrorInvariant, PTL DEF IInv

-----------------------------------------------------------------------------
(* What a page is told                                                     *)
\* No catalog follows the kth frame.
Newest(d, k) == \A n \in 1..Len(d) : n > k => d[n].type # "catalog"
\* The frames behind the last catalog say nothing false of the machine, where o says whether a
\* window has an open socket; machine_online never comes without a catalog behind it.
Told(d, o) ==
    \A k \in 1..Len(d) : Newest(d, k) => /\ d[k].type = "snapshot" => o
                                         /\ d[k].type = "machine_offline" => ~o
                                         /\ d[k].type # "machine_online"
\* The last catalog on the wire is the relay's, e; if there is none the page knows it already.
Fresh(g, d, e, o) ==
    /\ \A k \in 1..Len(d) : d[k].type = "catalog" /\ Newest(d, k) => d[k].entries = e /\ (d[k].online <=> o)
    /\ (\A k \in 1..Len(d) : d[k].type # "catalog") =>
          g.known = e /\ (g.online <=> o /\ \E i \in Instances : e[i] # None)

\* A window has an open socket.
Reachable(A) == OpenAgents(A) # {}
\* No hello has changed the catalog and is still to broadcast it.
NoneDue(A) == \A c \in 1..Len(A) : A[c].hello # "touch"
\* What holds of a page g and its socket b, with the agents A and the catalog e.
Informed(g, b, A, e) == /\ b.live /\ b.st = "open" /\ Told(b.down, Reachable(A))
                        /\ NoneDue(A) => Fresh(g, b.down, e, Reachable(A))
\* The page knows the window it selected.
Chosen(g) == g.sel # None => g.known[g.sel] # None
AgreeInv ==
    \A p \in Pages : /\ Chosen(page[p])
                     /\ page[p].ws # 0 => Informed(page[p], tabs[page[p].ws], agents, catalog)

\* A frame that is no catalog is sent.
LEMMA WireGrows ==
    ASSUME NEW d \in Seq(TabFrames), NEW f \in TabFrames, NEW o \in BOOLEAN, NEW g, NEW e,
           f.type \in {"instance_offline", "snapshot"}, f.type = "snapshot" => o
    PROVE  /\ Told(d, o) => Told(d \o <<f>>, o)
           /\ Fresh(g, d, e, o) => Fresh(g, d \o <<f>>, e, o)
<1> DEFINE n == Len(d)  w == d \o <<f>>
<1>1. n \in Nat /\ Len(w) = n + 1 /\ w[n + 1] = f /\ \A k \in 1..n : w[k] = d[k]  OBVIOUS
<1> HIDE DEF n, w
<1>2. 1..Len(w) = (1..n) \cup {n + 1}  BY <1>1
<1>3. \A k \in 1..n : Newest(w, k) <=> Newest(d, k)  BY <1>1, <1>2 DEF Newest, n
<1>4. Told(d, o) => Told(w, o)
  <2> SUFFICES ASSUME Told(d, o), NEW k \in 1..Len(w), Newest(w, k)
               PROVE  /\ w[k].type = "snapshot" => o
                      /\ w[k].type = "machine_offline" => ~o
                      /\ w[k].type # "machine_online"
    BY DEF Told
  <2>1. CASE k = n + 1  BY <1>1, <2>1
  <2>2. CASE k \in 1..n  BY <1>1, <1>3, <2>2 DEF Told, n
  <2> QED  BY <1>2, <2>1, <2>2
<1>5. Fresh(g, d, e, o) => Fresh(g, w, e, o)
  <2> SUFFICES ASSUME Fresh(g, d, e, o) PROVE Fresh(g, w, e, o)  OBVIOUS
  <2>1. ASSUME NEW k \in 1..Len(w), w[k].type = "catalog", Newest(w, k) PROVE w[k].entries = e /\ (w[k].online <=> o)
    <3>1. k \in 1..n  BY <1>1, <1>2, <2>1
    <3> QED  BY <1>1, <1>3, <2>1, <3>1 DEF Fresh, n
  <2>2. ASSUME \A k \in 1..Len(w) : w[k].type # "catalog" PROVE \A k \in 1..Len(d) : d[k].type # "catalog"
    BY <1>1, <1>2, <2>2 DEF n
  <2> QED  BY <2>1, <2>2 DEF Fresh
<1> QED  BY <1>4, <1>5 DEF w

\* The catalog is sent, with machine_offline behind it if no window is left.
Closes(d, e, o) ==
    \E k \in 1..Len(d) : /\ d[k].type = "catalog" /\ d[k].entries = e /\ (d[k].online <=> o)
                         /\ \A n \in 1..Len(d) : n > k => d[n].type = "machine_offline" /\ ~o
LEMMA WireCloses ==
    ASSUME NEW d \in Seq(TabFrames), NEW o \in BOOLEAN, NEW g, NEW e, Closes(d, e, o)
    PROVE  Told(d, o) /\ Fresh(g, d, e, o)
<1>0. Len(d) \in Nat  OBVIOUS
<1>1. PICK k \in 1..Len(d) : /\ d[k].type = "catalog" /\ d[k].entries = e /\ (d[k].online <=> o)
                             /\ \A n \in 1..Len(d) : n > k => d[n].type = "machine_offline" /\ ~o
  BY DEF Closes
<1>2. \A m \in 1..Len(d) : Newest(d, m) => m = k \/ m > k  BY <1>0, <1>1 DEF Newest
<1>3. Told(d, o)
  <2> SUFFICES ASSUME NEW m \in 1..Len(d), Newest(d, m)
               PROVE  /\ d[m].type = "snapshot" => o
                      /\ d[m].type = "machine_offline" => ~o
                      /\ d[m].type # "machine_online"
    BY DEF Told
  <2>1. CASE m = k  BY <1>1, <2>1
  <2>2. CASE m > k  BY <1>1, <2>2
  <2> QED  BY <1>2, <2>1, <2>2
<1>4. Fresh(g, d, e, o)
  <2>1. \A m \in 1..Len(d) : d[m].type = "catalog" /\ Newest(d, m) => m = k  BY <1>1, <1>2
  <2> QED  BY <1>1, <2>1 DEF Fresh
<1> QED  BY <1>3, <1>4

\* What the frame f makes of a page g.
Applied(g, f, h) ==
    /\ f.type = "catalog" => h.known = f.entries /\ (h.online <=> f.online /\ \E i \in Instances : f.entries[i] # None)
    /\ f.type # "catalog" => h.known = g.known
    /\ f.type = "machine_offline" => ~h.online
    /\ f.type = "instance_offline" => h.online = g.online
    /\ f.type = "snapshot" => h.online = g.online \/ (h.online /\ \E i \in Instances : g.known[i] # None)

LEMMA FrameKinds ==
    ASSUME NEW f \in TabFrames
    PROVE  /\ f.type \in {"machine_online", "machine_offline", "catalog", "instance_offline", "snapshot"}
           /\ f.type = "catalog" => f \in [type : {"catalog"}, entries : Entries, online : BOOLEAN]
<1>1. \/ f = Frame("machine_online") \/ f = Frame("machine_offline")
      \/ f \in [type : {"catalog"}, entries : Entries, online : BOOLEAN]
      \/ f \in [type : {"instance_offline"}, inst : Instances]
      \/ f \in [type : {"snapshot"}, inst : Instances, text : 0..MaxText, active : {"", "real"}]
  BY DEF TabFrames
<1>2. CASE f = Frame("machine_online") \/ f = Frame("machine_offline")  BY <1>2 DEF Frame
<1>3. CASE f \in [type : {"catalog"}, entries : Entries, online : BOOLEAN]  BY <1>3
<1>4. CASE f \in [type : {"instance_offline"}, inst : Instances]  BY <1>4
<1>5. CASE f \in [type : {"snapshot"}, inst : Instances, text : 0..MaxText, active : {"", "real"}]  BY <1>5
<1> QED  BY <1>1, <1>2, <1>3, <1>4, <1>5

\* The page takes the next frame.
LEMMA WireTaken ==
    ASSUME NEW d \in Seq(TabFrames), d # <<>>, NEW o \in BOOLEAN, NEW g, NEW h, NEW e, Applied(g, Head(d), h),
           Told(d, o)
    PROVE  Told(Tail(d), o) /\ (Fresh(g, d, e, o) => Fresh(h, Tail(d), e, o))
<1> DEFINE n == Len(d)  w == Tail(d)
<1>1. n \in Nat \ {0} /\ Len(w) = n - 1 /\ Head(d) = d[1] /\ \A k \in 1..n - 1 : w[k] = d[k + 1]
  BY HeadTailProperties, EmptySeq, LenProperties
<1> HIDE DEF n, w
<1>2. \A k \in 1..Len(w) : k + 1 \in 1..n /\ w[k] = d[k + 1]  BY <1>1
<1>3. \A k \in 2..n : k - 1 \in 1..Len(w) /\ w[k - 1] = d[k]  BY <1>1
<1>4. \A k \in 1..Len(w) : Newest(w, k) => Newest(d, k + 1)
  <2> SUFFICES ASSUME NEW k \in 1..Len(w), Newest(w, k), NEW m \in 1..n, m > k + 1 PROVE d[m].type # "catalog"
    BY DEF Newest, n
  <2>1. m \in 2..n /\ m - 1 > k  BY <1>1
  <2> QED  BY <1>3, <2>1 DEF Newest
<1>5. Told(w, o)
  <2> SUFFICES ASSUME NEW k \in 1..Len(w), Newest(w, k)
               PROVE  /\ w[k].type = "snapshot" => o
                      /\ w[k].type = "machine_offline" => ~o
                      /\ w[k].type # "machine_online"
    BY DEF Told
  <2> QED  BY <1>2, <1>4 DEF Told, n
<1>6. ASSUME Fresh(g, d, e, o) PROVE Fresh(h, w, e, o)
  <2>1. \A k \in 1..Len(w) : w[k].type = "catalog" /\ Newest(w, k) => w[k].entries = e /\ (w[k].online <=> o)
    BY <1>2, <1>4, <1>6 DEF Fresh, n
  <2>2. ASSUME \A k \in 1..Len(w) : w[k].type # "catalog"
        PROVE  h.known = e /\ (h.online <=> o /\ \E i \in Instances : e[i] # None)
    <3> DEFINE f == d[1]
    <3>1. \A k \in 2..n : d[k].type # "catalog"  BY <1>3, <2>2
    <3>2. 1 \in 1..Len(d) /\ Newest(d, 1)  BY <1>1, <3>1 DEF Newest, n
    <3>3. Applied(g, f, h)  BY <1>1
    <3>4. /\ f.type = "snapshot" => o
          /\ f.type = "machine_offline" => ~o
          /\ f.type # "machine_online"
      BY <3>2 DEF Told
    <3>5. CASE f.type = "catalog"
      <4>1. f.entries = e /\ (f.online <=> o)  BY <1>6, <3>2, <3>5 DEF Fresh
      <4> QED  BY <3>3, <3>5, <4>1 DEF Applied
    <3>6. CASE f.type # "catalog"
      <4>1. \A k \in 1..Len(d) : d[k].type # "catalog"  BY <1>1, <3>1, <3>6 DEF n
      <4>2. g.known = e /\ (g.online <=> o /\ \E i \in Instances : e[i] # None)  BY <1>6, <4>1 DEF Fresh
      <4>3. Head(d) \in TabFrames  BY HeadTailProperties
      <4>4. f.type \in {"machine_offline", "instance_offline", "snapshot"}
        BY <1>1, <3>4, <3>6, <4>3, FrameKinds
      <4>5. h.known = e  BY <3>3, <3>6, <4>2 DEF Applied
      <4>6. h.online <=> o /\ \E i \in Instances : e[i] # None
        <5>1. CASE f.type = "machine_offline"  BY <3>3, <3>4, <5>1 DEF Applied
        <5>2. CASE f.type = "instance_offline"  BY <3>3, <4>2, <5>2 DEF Applied
        <5>3. CASE f.type = "snapshot"  BY <3>3, <3>4, <4>2, <5>3 DEF Applied
        <5> QED  BY <4>4, <5>1, <5>2, <5>3
      <4> QED  BY <4>5, <4>6
    <3> QED  BY <3>5, <3>6
  <2> QED  BY <2>1, <2>2 DEF Fresh
<1> QED  BY <1>5, <1>6 DEF w

LEMMA SelectedKnows ==
    ASSUME NEW g \in PageStates, NEW i \in Instances, NEW s \in SessionIds
    PROVE  Selected(g, i, s).known = g.known /\ Selected(g, i, s).online = g.online
<1> DEFINE v == IF g.sel = i /\ g.sess = s THEN g.view ELSE None
<1>1. g \in PageState  BY DEF PageStates
<1>2. Selected(g, i, s) = [g EXCEPT !.sel = i, !.sess = s, !.view = v]  BY DEF Selected
<1> HIDE DEF v
<1> QED  BY <1>1, <1>2 DEF PageState

LEMMA ClearedKnows ==
    ASSUME NEW g \in PageStates, NEW es, NEW online, NEW gone
    PROVE  Cleared(g, es, online, gone).known = es /\ Cleared(g, es, online, gone).online = online
<1> DEFINE x == IF gone THEN None ELSE g.sel
           y == IF gone THEN "" ELSE g.sess
           z == IF gone THEN None ELSE g.view
<1>1. g \in PageState  BY DEF PageStates
<1>2. Cleared(g, es, online, gone) = [g EXCEPT !.known = es, !.online = online, !.sel = x, !.sess = y, !.view = z]
  BY DEF Cleared
<1> HIDE DEF x, y, z
<1> QED  BY <1>1, <1>2 DEF PageState

\* A catalog replaces what the page knows, and leaves or makes a selection that is in it.
LEMMA CatalogKnown ==
    ASSUME NEW g \in PageStates, NEW f \in [type : {"catalog"}, entries : Entries, online : BOOLEAN]
    PROVE  Applied(g, f, applyCatalog(g, f).page) /\ Chosen(applyCatalog(g, f).page)
<1> DEFINE known == {j \in Instances : f.entries[j] # None}
           gone == g.sel # None /\ g.sel \notin known
           on == f.online /\ known # {}
           h == Cleared(g, f.entries, on, gone)
           first == firstSessionId(f.entries[h.sel])
           only == CHOOSE j \in known : TRUE
           r == applyCatalog(g, f)
<1>1. f.entries \in Entries /\ f.online \in BOOLEAN /\ f.type = "catalog"  OBVIOUS
<1>2. on \in BOOLEAN /\ gone \in BOOLEAN  BY Zenon
<1>3. r = IF h.sel = None /\ Cardinality(known) = 1
          THEN [page |-> Selected(h, only, firstSessionId(f.entries[only])), picks |-> TRUE]
          ELSE IF h.sel # None /\ h.sess \in {"", "live"} /\ first \notin {"", h.sess}
          THEN [page |-> Selected(h, h.sel, first), picks |-> TRUE]
          ELSE [page |-> h, picks |-> FALSE]
  BY Zenon DEF applyCatalog, Cleared
<1>4. Cardinality(known) = 1 => only \in known
  <2>1. Cardinality(known) = 1 => known # {}  BY FS_EmptySet
  <2>2. known # {} => only \in known  OBVIOUS
  <2> QED  BY <2>1, <2>2
<1>k. \A j \in known : j \in Instances /\ f.entries[j] # None  OBVIOUS
<1>o. on <=> f.online /\ \E i \in Instances : f.entries[i] # None  OBVIOUS
<1>g. ~gone /\ g.sel # None => g.sel \in known  OBVIOUS
<1> HIDE DEF known, gone, only, r, on
<1>5. h \in PageStates /\ (h.sel = IF gone THEN None ELSE g.sel) /\ h.known = f.entries /\ h.online = on
  BY <1>1, <1>2, ClearedKept, ClearedKnows
<1>6. h.sel # None => h.sel \in known  BY <1>5, <1>g
<1> HIDE DEF h
<1>7. r.page.known = f.entries /\ r.page.online = on /\ (r.page.sel # None => r.page.sel \in known)
  <2>1. CASE h.sel = None /\ Cardinality(known) = 1
    <3> DEFINE s == firstSessionId(f.entries[only])
    <3>1. s \in SessionIds  BY FirstSession
    <3>2. r.page = Selected(h, only, s)  BY <1>3, <2>1
    <3>3. only \in known /\ only \in Instances  BY <1>4, <1>k, <2>1
    <3> HIDE DEF s
    <3>4. /\ Selected(h, only, s).known = h.known /\ Selected(h, only, s).online = h.online
          /\ Selected(h, only, s).sel = only
      BY <1>5, <3>1, <3>3, SelectedKept, SelectedKnows
    <3> QED  BY <1>5, <3>2, <3>3, <3>4
  <2>2. CASE ~(h.sel = None /\ Cardinality(known) = 1) /\ h.sel # None /\ h.sess \in {"", "live"} /\ first \notin {"", h.sess}
    <3>1. first \in SessionIds  BY FirstSession
    <3>2. r.page = Selected(h, h.sel, first)  BY <1>3, <2>2
    <3>3. h.sel \in known /\ h.sel \in Instances  BY <1>6, <1>k, <2>2
    <3> HIDE DEF first
    <3>4. /\ Selected(h, h.sel, first).known = h.known /\ Selected(h, h.sel, first).online = h.online
          /\ Selected(h, h.sel, first).sel = h.sel
      BY <1>5, <3>1, <3>3, SelectedKept, SelectedKnows
    <3> QED  BY <1>5, <3>2, <3>3, <3>4
  <2>3. CASE /\ ~(h.sel = None /\ Cardinality(known) = 1)
             /\ ~(h.sel # None /\ h.sess \in {"", "live"} /\ first \notin {"", h.sess})
    <3>1. r = [page |-> h, picks |-> FALSE]  BY <1>3, <2>3, Zenon
    <3>2. r.page = h  BY <3>1
    <3> QED  BY <1>5, <1>6, <3>2
  <2> QED  BY <2>1, <2>2, <2>3
<1>8. Chosen(r.page)  BY <1>7, <1>k DEF Chosen
<1>9. Applied(g, f, r.page)  BY <1>1, <1>7, <1>o DEF Applied
<1> QED  BY <1>8, <1>9 DEF r

\* Any other frame leaves what the page knows.
LEMMA FrameKnown ==
    ASSUME NEW g \in PageStates, NEW f \in TabFrames, f.type # "catalog", Chosen(g)
    PROVE  Applied(g, f, Shown(g, f)) /\ Chosen(Shown(g, f))
<1>1. g \in PageState /\ g.sel \in Instances \cup {None}  BY DEF PageStates, PageState
<1>2. \/ f = Frame("machine_online") \/ f = Frame("machine_offline")
      \/ f \in [type : {"instance_offline"}, inst : Instances]
      \/ f \in [type : {"snapshot"}, inst : Instances, text : 0..MaxText, active : {"", "real"}]
  BY DEF TabFrames
<1>3. CASE f = Frame("machine_online")
  <2>1. Shown(g, f) = [g EXCEPT !.online = TRUE] /\ f.type = "machine_online"  BY <1>3 DEF Shown, Frame
  <2> QED  BY <1>1, <2>1 DEF PageState, Chosen, Applied
<1>4. CASE f = Frame("machine_offline")
  <2>1. Shown(g, f) = [g EXCEPT !.online = FALSE] /\ f.type = "machine_offline"  BY <1>4 DEF Shown, Frame
  <2> QED  BY <1>1, <2>1 DEF PageState, Chosen, Applied
<1>5. CASE f \in [type : {"instance_offline"}, inst : Instances]
  <2>1. Shown(g, f) = IF f.inst = g.sel THEN [g EXCEPT !.sel = None, !.sess = ""] ELSE g
    BY <1>5 DEF Shown
  <2> QED  BY <1>1, <1>5, <2>1 DEF PageState, Chosen, Applied
<1>6. CASE f \in [type : {"snapshot"}, inst : Instances, text : 0..MaxText, active : {"", "real"}]
  <2> DEFINE v == [inst |-> f.inst, text |-> f.text]  s == IF g.sess = "" THEN f.active ELSE g.sess
  <2>1. Shown(g, f) = IF ~forSelectedInstance(g, f) THEN g
                      ELSE [g EXCEPT !.online = TRUE, !.sess = s, !.view = v]
    BY <1>6 DEF Shown
  <2>2. f.type = "snapshot"  BY <1>6
  <2> HIDE DEF v, s
  <2>3. CASE ~forSelectedInstance(g, f)  BY <2>1, <2>2, <2>3 DEF Applied
  <2>4. CASE forSelectedInstance(g, f)
    <3>1. /\ Shown(g, f).online = TRUE /\ Shown(g, f).known = g.known /\ Shown(g, f).sel = g.sel
      BY <1>1, <2>1, <2>4 DEF PageState
    <3>2. g.sel # None /\ g.sel \in Instances /\ g.known[g.sel] # None
      BY <1>1, <2>4 DEF forSelectedInstance, Chosen
    <3> QED  BY <2>2, <3>1, <3>2 DEF Applied, Chosen
  <2> QED  BY <2>3, <2>4
<1> QED  BY <1>2, <1>3, <1>4, <1>5, <1>6

-----------------------------------------------------------------------------
(* What a step leaves of the agreement                                     *)
\* The sockets stay open or closed, and a hello that is due stays due.
Steady(A, B) == /\ Len(B) = Len(A)
                /\ \A c \in 1..Len(A) : B[c].st = A[c].st /\ (A[c].hello = "touch" => B[c].hello = "touch")
LEMMA SteadyEnds == ASSUME NEW A, NEW B, SameEnds(A, B) PROVE Steady(A, B)
BY DEF SameEnds, SameEnd, Steady
LEMMA SteadyReach ==
    ASSUME NEW A \in Seq(Sockets), NEW B \in Seq(Sockets), Steady(A, B)
    PROVE  (Reachable(B) <=> Reachable(A)) /\ (NoneDue(B) => NoneDue(A))
<1>1. DOMAIN A = 1..Len(A) /\ DOMAIN B = 1..Len(A)  BY LenProperties DEF Steady
<1>2. OpenAgents(B) = OpenAgents(A)  BY <1>1 DEF OpenAgents, Steady
<1> QED  BY <1>2 DEF Reachable, NoneDue, Steady

LEMMA ReachBool == ASSUME NEW A PROVE Reachable(A) \in BOOLEAN
BY DEF Reachable

\* A browser got at most one frame, not a catalog.
Noted(b, d, o) ==
    /\ d.live /\ d.st = "open"
    /\ \/ d.down = b.down
       \/ \E f \in TabFrames : /\ f.type \in {"instance_offline", "snapshot"} /\ (f.type = "snapshot" => o)
                               /\ d.down = b.down \o <<f>>
LEMMA NotedInformed ==
    ASSUME NEW A, NEW B, NEW e, NEW e2, NEW g, NEW b \in Browsers, NEW d, Noted(b, d, Reachable(A)),
           Reachable(B) <=> Reachable(A), NoneDue(B) => NoneDue(A) /\ e2 = e, Informed(g, b, A, e)
    PROVE  Informed(g, d, B, e2)
<1> DEFINE o == Reachable(A)  v == Reachable(B)
<1>1. o \in BOOLEAN /\ v \in BOOLEAN /\ b.down \in Seq(TabFrames)  BY ReachBool DEF Browsers, Browser
<1>2. v = o  BY <1>1
<1>3. /\ Told(b.down, o) /\ (NoneDue(A) => Fresh(g, b.down, e, o))
  BY DEF Informed
<1> HIDE DEF o
<1>4. Told(d.down, o) /\ (NoneDue(A) => Fresh(g, d.down, e, o))
  <2>1. CASE d.down = b.down  BY <1>3, <2>1
  <2>2. ASSUME NEW f \in TabFrames, f.type \in {"instance_offline", "snapshot"}, f.type = "snapshot" => o,
               d.down = b.down \o <<f>>
        PROVE  Told(d.down, o) /\ (NoneDue(A) => Fresh(g, d.down, e, o))
    <3> DEFINE w == b.down
    <3>1. w \in Seq(TabFrames) /\ Told(w, o) /\ (NoneDue(A) => Fresh(g, w, e, o))  BY <1>1, <1>3
    <3> HIDE DEF w
    <3>2. /\ Told(w, o) => Told(w \o <<f>>, o)
          /\ Fresh(g, w, e, o) => Fresh(g, w \o <<f>>, e, o)
      BY <1>1, <2>2, <3>1, WireGrows
    <3> QED  BY <2>2, <3>1, <3>2 DEF w
  <2> QED  BY <2>1, <2>2 DEF Noted, o
<1>5. d.live /\ d.st = "open"  BY DEF Noted
<1>6. Told(d.down, v)  BY <1>2, <1>4
<1>7. NoneDue(B) => Fresh(g, d.down, e2, v)  BY <1>2, <1>4
<1> QED  BY <1>5, <1>6, <1>7 DEF Informed

\* The pages stand still; each browser that a page has keeps it informed.
LEMMA PagesStand ==
    ASSUME PageInv, AgreeInv, page' = page,
           \A t \in 1..Len(tabs) : \A g : Informed(g, tabs[t], agents, catalog) => Informed(g, tabs'[t], agents', catalog')
    PROVE  AgreeInv'
<1> SUFFICES ASSUME NEW p \in Pages
             PROVE  /\ Chosen(page'[p])
                    /\ page'[p].ws # 0 => Informed(page'[p], tabs'[page'[p].ws], agents', catalog')
  BY DEF AgreeInv
<1>1. Chosen(page[p]) /\ (page[p].ws # 0 => Informed(page[p], tabs[page[p].ws], agents, catalog))  BY DEF AgreeInv
<1>2. page[p].ws # 0 => page[p].ws \in 1..Len(tabs)  BY DEF PageInv
<1> QED  BY <1>1, <1>2

LEMMA AgreeNoted ==
    ASSUME IInv, IInv', AgreeInv, page' = page, Steady(agents, agents'), catalog' = catalog \/ ~NoneDue(agents'),
           \A t \in 1..Len(tabs) : tabs[t].live /\ tabs[t].st = "open" => Noted(tabs[t], tabs'[t], Reachable(agents))
    PROVE  AgreeInv'
<1>1. agents \in Seq(Sockets) /\ agents' \in Seq(Sockets) /\ tabs \in Seq(Browsers) /\ PageInv
  BY DEF IInv, WiresInv
<1>2. (Reachable(agents') <=> Reachable(agents)) /\ (NoneDue(agents') => NoneDue(agents))  BY <1>1, SteadyReach
<1>3. ASSUME NEW t \in 1..Len(tabs), NEW g, Informed(g, tabs[t], agents, catalog)
      PROVE  Informed(g, tabs'[t], agents', catalog')
  <2>1. tabs[t] \in Browsers  BY <1>1, ElementOfSeq
  <2>2. Noted(tabs[t], tabs'[t], Reachable(agents))  BY <1>3 DEF Informed
  <2> QED  BY <1>2, <1>3, <2>1, <2>2, NotedInformed
<1> QED  BY <1>1, <1>3, PagesStand

\* Nothing is sent to a browser.
LEMMA AgreeStill ==
    ASSUME IInv, IInv', AgreeInv, page' = page, tabs' = tabs, Steady(agents, agents'),
           catalog' = catalog \/ ~NoneDue(agents')
    PROVE  AgreeInv'
<1>1. \A t \in 1..Len(tabs) : tabs[t].live /\ tabs[t].st = "open" => Noted(tabs[t], tabs'[t], Reachable(agents))
  BY DEF Noted
<1> QED  BY <1>1, AgreeNoted

LEMMA SentDown ==
    ASSUME NEW T \in Seq(Browsers), NEW fs \in Seq(TabFrames), NEW t \in 1..Len(T), T[t].live, T[t].st = "open"
    PROVE  LET b == broadcastBrowsers(T, fs)[t] IN b.live /\ b.st = "open" /\ b.down = T[t].down \o fs
<1>1. DOMAIN T = 1..Len(T) /\ T[t] \in Browser  BY LenProperties, ElementOfSeq DEF Browsers
<1>2. broadcastBrowsers(T, fs)[t] = [T[t] EXCEPT !.down = T[t].down \o fs]
  BY <1>1 DEF broadcastBrowsers, Sent
<1> QED  BY <1>1, <1>2 DEF Browser

\* The relay's catalog is broadcast.
LEMMA AgreeBroadcast ==
    ASSUME IInv, AgreeInv, page' = page, NEW fs \in Seq(TabFrames), tabs' = broadcastBrowsers(tabs, fs),
           Closes(fs, catalog', Reachable(agents'))
    PROVE  AgreeInv'
<1>1. tabs \in Seq(Browsers) /\ PageInv  BY DEF IInv, WiresInv
<1>2. ASSUME NEW t \in 1..Len(tabs), NEW g, Informed(g, tabs[t], agents, catalog)
      PROVE  Informed(g, tabs'[t], agents', catalog')
  <2> DEFINE o == Reachable(agents')  d == tabs[t].down  e == catalog'
  <2>1. tabs'[t].live /\ tabs'[t].st = "open" /\ tabs'[t].down = d \o fs  BY <1>1, <1>2, SentDown DEF Informed
  <2>2. tabs[t] \in Browsers  BY <1>1, ElementOfSeq
  <2>3. d \in Seq(TabFrames) /\ o \in BOOLEAN /\ Closes(fs, e, o)  BY <2>2, ReachBool DEF Browsers, Browser
  <2> HIDE DEF d, o, e
  <2>4. Closes(d \o fs, e, o)
    <3> DEFINE w == d \o fs  m == Len(d)
    <3>1. m \in Nat /\ Len(fs) \in Nat /\ Len(w) = m + Len(fs) /\ \A k \in 1..Len(fs) : w[m + k] = fs[k]  BY <2>3
    <3> HIDE DEF w, m
    <3>2. PICK k \in 1..Len(fs) : /\ fs[k].type = "catalog" /\ fs[k].entries = e /\ (fs[k].online <=> o)
                                  /\ \A n \in 1..Len(fs) : n > k => fs[n].type = "machine_offline" /\ ~o
      BY <2>3 DEF Closes
    <3>3. m + k \in 1..Len(w) /\ w[m + k] = fs[k]  BY <3>1
    <3>4. ASSUME NEW n \in 1..Len(w), n > m + k PROVE w[n].type = "machine_offline" /\ ~o
      <4>1. n - m \in 1..Len(fs) /\ n - m > k /\ m + (n - m) = n  BY <3>1, <3>4
      <4>2. w[n] = fs[n - m]  BY <3>1, <4>1
      <4> QED  BY <3>2, <4>1, <4>2
    <3> QED  BY <3>2, <3>3, <3>4 DEF Closes, w
  <2>5. d \o fs \in Seq(TabFrames)  BY <2>3
  <2>6. Told(d \o fs, o) /\ Fresh(g, d \o fs, e, o)  BY <2>3, <2>4, <2>5, WireCloses
  <2> QED  BY <2>1, <2>6 DEF Informed, o, e
<1> QED  BY <1>1, <1>2, PagesStand

\* One page moves, and nothing of the relay but its socket.
LEMMA AgreeMoves ==
    ASSUME IInv, AgreeInv, UNCHANGED <<agents, catalog>>, NEW p \in Pages, NEW g, page' = [page EXCEPT ![p] = g],
           \A u \in 1..Len(tabs) : u # page[p].ws => tabs'[u] = tabs[u],
           Chosen(g), g.ws # 0 => Informed(g, tabs'[g.ws], agents, catalog)
    PROVE  AgreeInv'
<1> SUFFICES ASSUME NEW q \in Pages
             PROVE  /\ Chosen(page'[q])
                    /\ page'[q].ws # 0 => Informed(page'[q], tabs'[page'[q].ws], agents', catalog')
  BY DEF AgreeInv
<1>0. page \in [Pages -> PageStates] /\ agents' = agents /\ catalog' = catalog  BY DEF IInv, WiresInv
<1>1. CASE q = p
  <2>1. page'[q] = g  BY <1>0, <1>1
  <2> QED  BY <1>0, <2>1
<1>2. CASE q # p
  <2>1. page'[q] = page[q]  BY <1>0, <1>2
  <2>2. Chosen(page[q]) /\ (page[q].ws # 0 => Informed(page[q], tabs[page[q].ws], agents, catalog))  BY DEF AgreeInv
  <2>3. page[q].ws # 0 => page[q].ws \in 1..Len(tabs) /\ page[q].ws # page[p].ws  BY <1>2 DEF IInv, PageInv
  <2>4. page[q].ws # 0 => tabs'[page[q].ws] = tabs[page[q].ws]  BY <2>3
  <2> QED  BY <1>0, <2>1, <2>2, <2>4
<1> QED  BY <1>1, <1>2

-----------------------------------------------------------------------------
(* hello comes once: it is the first frame of a socket, and no later one   *)
Clean(o) == \A k \in 1..Len(o) : o[k].type # "hello"
Greets(a) == (\A k \in 2..Len(a.up) : a.up[k].type # "hello") /\ (a.hello # "none" => Clean(a.up))
HelloInv == (\A c \in 1..Len(agents) : Greets(agents[c])) /\ (\A i \in Instances : Clean(hub[i].out))

LEMMA CleanTail ==
    ASSUME NEW o \in Seq(UpFrames), o # <<>>, \A k \in 2..Len(o) : o[k].type # "hello" PROVE Clean(Tail(o))
<1>1. Len(Tail(o)) = Len(o) - 1 /\ Len(o) \in Nat /\ \A k \in 1..Len(Tail(o)) : Tail(o)[k] = o[k + 1]
  BY HeadTailProperties, LenProperties
<1>2. \A k \in 1..Len(Tail(o)) : k + 1 \in 2..Len(o)  BY <1>1
<1> QED  BY <1>1, <1>2 DEF Clean

LEMMA CleanHead ==
    ASSUME NEW o \in Seq(UpFrames), o # <<>>, Clean(o) PROVE Clean(Tail(o)) /\ Head(o).type # "hello"
<1>1. Len(o) \in Nat /\ Len(o) # 0 /\ Head(o) = o[1]  BY EmptySeq, LenProperties
<1>2. \A k \in 2..Len(o) : k \in 1..Len(o)  BY <1>1
<1> QED  BY <1>1, <1>2, CleanTail DEF Clean

LEMMA CleanEmit ==
    ASSUME NEW o \in Seq(UpFrames), NEW f \in UpFrames, f.type # "hello", Clean(o) PROVE Clean(Emit(o, <<f>>))
<1> DEFINE all == o \o <<f>>  m == 1 + (IF Len(all) > OUTBOUND_CAP THEN Len(all) - OUTBOUND_CAP ELSE 0)
<1>1. all \in Seq(UpFrames) /\ Len(all) \in Nat /\ Len(all) = Len(o) + 1 /\ Len(o) \in Nat  OBVIOUS
<1>2. \A k \in 1..Len(all) : all[k] = IF k <= Len(o) THEN o[k] ELSE f  OBVIOUS
<1> HIDE DEF all
<1>3. \A k \in 1..Len(all) : all[k].type # "hello"  BY <1>1, <1>2 DEF Clean
<1>4. m \in Int /\ m >= 1  BY <1>1, MirrorAssumption
<1> HIDE DEF m
<1> DEFINE w == SubSeq(all, m, Len(all))
<1>5. \A k \in m..Len(all) : all[k] \in UpFrames
  <2> TAKE k \in m..Len(all)
  <2>1. k \in 1..Len(all)  BY <1>1, <1>4
  <2> QED  BY <1>1, <2>1, ElementOfSeq
<1>6. /\ w \in Seq(UpFrames) /\ Len(w) = (IF m <= Len(all) THEN Len(all) - m + 1 ELSE 0)
      /\ \A k \in 1..Len(all) - m + 1 : w[k] = all[m + k - 1]
  BY <1>1, <1>4, <1>5, SubSeqProperties
<1> HIDE DEF w
<1>7. \A k \in 1..Len(w) : k \in 1..Len(all) - m + 1 /\ m + k - 1 \in 1..Len(all)  BY <1>1, <1>4, <1>6
<1>8. Clean(w)  BY <1>3, <1>6, <1>7 DEF Clean
<1> QED  BY <1>8 DEF Emit, all, m, w

LEMMA CleanPush ==
    ASSUME NEW h \in HubState, NEW x \in PagerState, Clean(h.out)
    PROVE  Clean(push_catalog_if_connected(h, x).out) /\ Clean(push_snapshot_if_connected(h, x).out)
<1> DEFINE g == push_catalog_if_connected(h, x)
<1>0. SessionCatalog(x).type # "hello" /\ Snapshot(x).type # "hello"  BY DEF SessionCatalog, Snapshot
<1>1. Pushed(h, g)  BY CatalogPushed
<1>2. Clean(g.out)
  <2>1. CASE h.conn = 0 \/ h.key = x.list  BY <2>1 DEF push_catalog_if_connected
  <2>2. CASE ~(h.conn = 0 \/ h.key = x.list)
    <3>1. g.out = Emit(h.out, <<SessionCatalog(x)>>)  BY <2>2 DEF push_catalog_if_connected, HubState
    <3>2. h.out \in Seq(UpFrames)  BY DEF HubState
    <3> QED  BY <1>0, <3>1, <3>2, CleanEmit, PagerFrames
  <2> QED  BY <2>1, <2>2
<1>3. push_snapshot_if_connected(h, x) = IF g.conn = 0 \/ ~g.watching THEN g
                                         ELSE [g EXCEPT !.out = Emit(g.out, <<Snapshot(x)>>)]
  BY DEF push_snapshot_if_connected
<1> HIDE DEF g
<1>4. g \in HubState /\ g.out \in Seq(UpFrames)  BY <1>1 DEF Pushed, HubState
<1>5. Clean(Emit(g.out, <<Snapshot(x)>>))  BY <1>0, <1>2, <1>4, CleanEmit, PagerFrames
<1>6. Clean(push_snapshot_if_connected(h, x).out)
  <2>1. CASE g.conn = 0 \/ ~g.watching  BY <1>2, <1>3, <2>1
  <2>2. CASE ~(g.conn = 0 \/ ~g.watching)
    <3>1. push_snapshot_if_connected(h, x).out = Emit(g.out, <<Snapshot(x)>>)  BY <1>3, <1>4, <2>2 DEF HubState
    <3> QED  BY <1>5, <3>1
  <2> QED  BY <2>1, <2>2
<1> QED  BY <1>2, <1>6 DEF g

\* The relay has the frame of hello only once.
LEMMA HelloFirst ==
    ASSUME IInv, HelloInv, NEW c \in DOMAIN agents, OnHello(c) PROVE agents[c].hello = "none"
<1>1. WiresInv  BY DEF IInv
<1>2. agents[c].up \in Seq(UpFrames) /\ c \in 1..Len(agents)  BY <1>1, OpenSocket
<1>3. agents[c].up # <<>> /\ Head(agents[c].up).type = "hello"  BY DEF OnHello, AgentFrame
<1>4. ~Clean(agents[c].up)  BY <1>2, <1>3, CleanHead
<1> QED  BY <1>2, <1>4 DEF HelloInv, Greets

LEMMA GreetsOn ==
    ASSUME NEW a, NEW x, Greets(a), x.up = a.up, x.hello = a.hello \/ a.hello # "none" PROVE Greets(x)
BY DEF Greets

LEMMA GreetsTaken ==
    ASSUME NEW a \in Sockets, Greets(a), a.up # <<>>, NEW x, x.up = Tail(a.up) PROVE Greets(x)
<1>1. a.up \in Seq(UpFrames)  BY DEF Sockets, Socket
<1>2. Clean(x.up) /\ x.up \in Seq(UpFrames)  BY <1>1, CleanTail, HeadTailProperties DEF Greets
<1>3. Len(x.up) \in Nat  BY <1>2, LenProperties
<1>4. \A k \in 2..Len(x.up) : k \in 1..Len(x.up)  BY <1>3
<1> QED  BY <1>2, <1>4 DEF Greets, Clean

\* The sockets move one at a time or in their wires to the windows only.
LEMMA GreetsPut ==
    ASSUME IInv, HelloInv, NEW c \in DOMAIN agents, NEW x, Greets(x), agents' = [agents EXCEPT ![c] = x]
    PROVE  \A d \in 1..Len(agents') : Greets(agents'[d])
<1>1. agents \in Seq(Sockets)  BY DEF IInv, WiresInv
<1>2. DOMAIN agents = 1..Len(agents) /\ Len(agents) \in Nat  BY <1>1, LenProperties
<1>3. Len(agents') = Len(agents)  BY <1>2
<1> QED  BY <1>2, <1>3 DEF HelloInv

\* B is A with frames sent to some windows.
UpsKept(A, B) == Len(B) = Len(A) /\ \A c \in 1..Len(A) : B[c].up = A[c].up /\ B[c].hello = A[c].hello
LEMMA SentUp == ASSUME NEW a \in Sockets, NEW fs PROVE Sent(a, fs).up = a.up /\ Sent(a, fs).hello = a.hello
BY DEF Sent, Sockets, Socket
LEMMA UpsTrans == ASSUME NEW A, NEW B, NEW C, UpsKept(A, B), UpsKept(B, C) PROVE UpsKept(A, C)
BY DEF UpsKept
LEMMA RecomputeUps ==
    ASSUME NEW A \in Seq(Sockets), NEW T PROVE UpsKept(A, recomputeSubscriptions(A, T))
<1> DEFINE B == recomputeSubscriptions(A, T)
<1>1. DOMAIN A = 1..Len(A) /\ \A c \in 1..Len(A) : A[c] \in Sockets  BY LenProperties, ElementOfSeq
<1>2. Len(B) = Len(A)  BY Recompute DEF SameEnds
<1>3. \A c \in 1..Len(A) :
        B[c] = A[c] \/ B[c] = Sent(A[c], <<Frame("subscribe")>>) \/ B[c] = Sent(A[c], <<Frame("unsubscribe")>>)
  BY <1>1 DEF recomputeSubscriptions
<1> HIDE DEF B
<1>4. \A c \in 1..Len(A) : B[c].up = A[c].up /\ B[c].hello = A[c].hello  BY <1>1, <1>3, SentUp
<1> QED  BY <1>2, <1>4 DEF UpsKept, B
LEMMA SendUps ==
    ASSUME NEW A \in Seq(Sockets), NEW i, NEW f PROVE UpsKept(A, sendAgentInstance(A, i, f))
<1> DEFINE B == sendAgentInstance(A, i, f)
<1>1. DOMAIN A = 1..Len(A) /\ Len(A) \in Nat /\ \A c \in 1..Len(A) : A[c] \in Sockets  BY LenProperties, ElementOfSeq
<1>2. \A c \in 1..Len(A) : B[c] = A[c] \/ B[c] = Sent(A[c], <<f>>)  BY <1>1 DEF sendAgentInstance
<1>3. B = [c \in 1..Len(A) |-> B[c]]  BY <1>1 DEF sendAgentInstance
<1> HIDE DEF B
<1>4. Len(B) = Len(A)  BY <1>1, <1>3
<1>5. \A c \in 1..Len(A) : B[c].up = A[c].up /\ B[c].hello = A[c].hello  BY <1>1, <1>2, SentUp
<1> QED  BY <1>4, <1>5 DEF UpsKept, B
LEMMA GreetsKept ==
    ASSUME HelloInv, UpsKept(agents, agents') PROVE \A d \in 1..Len(agents') : Greets(agents'[d])
<1>1. \A d \in 1..Len(agents) : Greets(agents[d])  BY DEF HelloInv
<1>2. Len(agents') = Len(agents) /\ \A d \in 1..Len(agents) : agents'[d].up = agents[d].up /\ agents'[d].hello = agents[d].hello
  BY DEF UpsKept
<1> QED  BY <1>1, <1>2 DEF Greets

LEMMA HelloRelay == ASSUME IInv, IInv', HelloInv, RelayStep PROVE HelloInv'
<1>0. WiresInv /\ agents \in Seq(Sockets) /\ hub' = hub /\ Relay  BY DEF IInv, WiresInv, RelayStep
<1> SUFFICES \A d \in 1..Len(agents') : Greets(agents'[d])  BY <1>0 DEF HelloInv
<1>1. ASSUME NEW c \in DOMAIN agents PROVE agents[c] \in Sockets /\ Greets(agents[c])
  BY <1>0, OpenSocket DEF HelloInv
<1>2. ASSUME NEW c \in DOMAIN agents, OnHello(c) PROVE \A d \in 1..Len(agents') : Greets(agents'[d])
  <2> DEFINE a == agents[c]  h == IF a.code THEN "meta" ELSE "touch"
             x == [[a EXCEPT !.up = Tail(a.up)] EXCEPT !.hello = h]
  <2>1. agents' = [agents EXCEPT ![c] = x] /\ a.up # <<>>  BY <1>0, <1>2 DEF OnHello, TakeUp, AgentFrame
  <2>2. x.up = Tail(a.up)  BY <1>1 DEF Sockets, Socket
  <2> HIDE DEF x
  <2>3. Greets(x)  BY <1>1, <2>1, <2>2, GreetsTaken
  <2> QED  BY <2>1, <2>3, GreetsPut
<1>3. ASSUME NEW c \in DOMAIN agents, HelloSaves(c) \/ HelloFails(c) \/ HelloBroadcasts(c)
      PROVE  \A d \in 1..Len(agents') : Greets(agents'[d])
  <2>1. PICK h \in {"touch", "failed", "done"} : agents' = [agents EXCEPT ![c] = WithHello(agents[c], h)]
    BY <1>3 DEF HelloSaves, HelloFails, HelloBroadcasts, WithHello
  <2>2. agents[c].hello # "none"  BY <1>3 DEF HelloSaves, HelloFails, HelloBroadcasts
  <2>3. WithHello(agents[c], h).up = agents[c].up  BY <1>1 DEF WithHello, Sockets, Socket
  <2>4. Greets(WithHello(agents[c], h))  BY <1>1, <2>2, <2>3, GreetsOn
  <2> QED  BY <2>1, <2>4, GreetsPut
<1>4. ASSUME NEW c \in DOMAIN agents, OnSessionCatalog(c) \/ OnSnapshot(c)
      PROVE  \A d \in 1..Len(agents') : Greets(agents'[d])
  <2> DEFINE a == agents[c]  x == WithUp(a, Tail(a.up))
  <2>1. agents' = [agents EXCEPT ![c] = x] /\ a.up # <<>>
    BY <1>4 DEF OnSessionCatalog, OnSnapshot, TakeUp, AgentFrame, WithUp
  <2>2. x.up = Tail(a.up)  BY <1>1 DEF Sockets, Socket, WithUp
  <2> HIDE DEF x
  <2>3. Greets(x)  BY <1>1, <2>1, <2>2, GreetsTaken
  <2> QED  BY <2>1, <2>3, GreetsPut
<1>5. ASSUME NEW c \in DOMAIN agents, AgentClose(c) PROVE \A d \in 1..Len(agents') : Greets(agents'[d])
  <2>1. agents' = [agents EXCEPT ![c] = WithSt(agents[c], "closed")]  BY <1>5 DEF AgentClose, WithSt
  <2>2. WithSt(agents[c], "closed").up = agents[c].up /\ WithSt(agents[c], "closed").hello = agents[c].hello
    BY <1>1 DEF WithSt, Sockets, Socket
  <2>3. Greets(WithSt(agents[c], "closed"))  BY <1>1, <2>2, GreetsOn
  <2> QED  BY <2>1, <2>3, GreetsPut
<1>6. ASSUME NEW t \in DOMAIN tabs, OnWatch(t) \/ OnPrompt(t) \/ TabClose(t)
      PROVE  \A d \in 1..Len(agents') : Greets(agents'[d])
  <2>1. CASE OnWatch(t)
    <3>1. PICK T, i : agents' = sendAgentInstance(recomputeSubscriptions(agents, T), i, Frame("subscribe"))
      BY <2>1 DEF OnWatch
    <3> DEFINE A == recomputeSubscriptions(agents, T)
    <3>2. UpsKept(agents, A) /\ A \in Seq(Sockets)  BY <1>0, RecomputeUps, Recompute DEF SameEnds
    <3>3. agents' = sendAgentInstance(A, i, Frame("subscribe"))  BY <3>1
    <3> HIDE DEF A
    <3>4. UpsKept(A, agents')  BY <3>2, <3>3, SendUps
    <3> QED  BY <3>2, <3>4, UpsTrans, GreetsKept
  <2>2. CASE OnPrompt(t)
    <3>1. PICK i, f : agents' = sendAgentInstance(agents, i, f)  BY <2>2 DEF OnPrompt
    <3> QED  BY <1>0, <3>1, SendUps, GreetsKept
  <2>3. CASE TabClose(t)
    <3>1. PICK T : agents' = recomputeSubscriptions(agents, T)  BY <2>3 DEF TabClose
    <3> QED  BY <1>0, <3>1, RecomputeUps, GreetsKept
  <2> QED  BY <1>6, <2>1, <2>2, <2>3
<1> QED  BY <1>0, <1>2, <1>3, <1>4, <1>5, <1>6 DEF Relay

LEMMA HelloWindow ==
    ASSUME IInv, HelloInv, NEW i \in Instances, Pump(i) \/ Receive(i) \/ Drop(i) PROVE HelloInv'
<1> DEFINE c == hub[i].conn  a == agents[c]  h == hub[i]
<1>0. hub \in [Instances -> HubState] /\ h \in HubState /\ c \in DOMAIN agents /\ a \in Sockets
  BY HubSocket DEF Pump, Receive, Drop
<1>1. Greets(a) /\ Clean(h.out) /\ h.out \in Seq(UpFrames) /\ a.up \in Seq(UpFrames)
  <2>1. c \in 1..Len(agents)  BY <1>0, OpenSocket DEF IInv
  <2> QED  BY <1>0, <2>1 DEF HelloInv, HubState, Sockets, Socket
<1>2. ASSUME NEW k, hub' = [hub EXCEPT ![i] = k], Clean(k.out) PROVE \A j \in Instances : Clean(hub'[j].out)
  BY <1>0, <1>2 DEF HelloInv
<1>3. CASE Pump(i)
  <2> DEFINE f == Head(h.out)  x == WithUp(a, Append(a.up, f))
  <2>1. Clean(Tail(h.out)) /\ f.type # "hello" /\ f \in UpFrames
    BY <1>1, <1>3, CleanHead, HeadTailProperties DEF Pump
  <2>2. hub' = [hub EXCEPT ![i] = WithOut(h, Tail(h.out))]  BY <1>3 DEF Pump, WithOut
  <2>3. WithOut(h, Tail(h.out)).out = Tail(h.out)  BY <1>0 DEF WithOut, HubState
  <2>4. agents' = agents \/ agents' = [agents EXCEPT ![c] = x]  BY <1>3 DEF Pump, WithUp
  <2>5. x.up = Append(a.up, f) /\ x.hello = a.hello  BY <1>0 DEF WithUp, Sockets, Socket
  <2> HIDE DEF x, f
  <2>6. /\ Len(x.up) = Len(a.up) + 1 /\ Len(a.up) \in Nat /\ x.up[Len(a.up) + 1] = f
        /\ \A k \in 1..Len(a.up) : x.up[k] = a.up[k]
    <3> DEFINE u == a.up  v == x.up
    <3>1. u \in Seq(UpFrames) /\ f \in UpFrames /\ v = Append(u, f)  BY <1>1, <2>1, <2>5
    <3> HIDE DEF u, v
    <3>2. Len(u) \in Nat  BY <3>1, LenProperties
    <3>3. Len(v) = Len(u) + 1 /\ v[Len(u) + 1] = f /\ \A k \in 1..Len(u) : v[k] = u[k]  BY <3>1, AppendProperties
    <3> QED  BY <3>2, <3>3 DEF u, v
  <2>7. \A k \in 1..Len(x.up) : k = Len(a.up) + 1 \/ k \in 1..Len(a.up)  BY <2>6
  <2>8. \A k \in 2..Len(x.up) : k = Len(a.up) + 1 \/ (k \in 2..Len(a.up) /\ k \in 1..Len(a.up))  BY <2>6
  <2>9. \A k \in 2..Len(x.up) : x.up[k].type # "hello"  BY <1>1, <2>1, <2>6, <2>8 DEF Greets
  <2>10. x.hello # "none" => Clean(x.up)  BY <1>1, <2>1, <2>5, <2>6, <2>7 DEF Greets, Clean
  <2>11. Greets(x)  BY <2>9, <2>10 DEF Greets
  <2>12. \A d \in 1..Len(agents') : Greets(agents'[d])  BY <1>0, <2>4, <2>11, GreetsPut DEF HelloInv
  <2>13. \A j \in Instances : Clean(hub'[j].out)  BY <1>2, <2>1, <2>2, <2>3
  <2> QED  BY <2>12, <2>13 DEF HelloInv
<1>4. CASE Receive(i)
  <2> DEFINE x == WithDown(a, Tail(a.down))
  <2>1. agents' = [agents EXCEPT ![c] = x]  BY <1>4 DEF Receive, WithDown
  <2>2. x.up = a.up /\ x.hello = a.hello  BY <1>0 DEF WithDown, Sockets, Socket
  <2> HIDE DEF x
  <2>3. \A d \in 1..Len(agents') : Greets(agents'[d])  BY <1>0, <1>1, <2>1, <2>2, GreetsOn, GreetsPut
  <2>4. PICK e : hub' = [hub EXCEPT ![i] = WithIn(h, e)]  BY <1>4 DEF Receive, WithIn
  <2>5. WithIn(h, e).out = h.out  BY <1>0 DEF WithIn, HubState
  <2>6. \A j \in Instances : Clean(hub'[j].out)  BY <1>1, <1>2, <2>4, <2>5
  <2> QED  BY <2>3, <2>6 DEF HelloInv
<1>5. CASE Drop(i)
  <2>1. PICK n \in 0..Len(a.up) : agents' = [agents EXCEPT ![c] = Broken(a, n)]  BY <1>5 DEF Drop, Broken
  <2> DEFINE x == Broken(a, n)
  <2>2. x.up = SubSeq(a.up, 1, n) /\ x.hello = a.hello  BY <1>0 DEF Broken, Sockets, Socket
  <2> HIDE DEF x
  <2>3. Len(a.up) \in Nat /\ \A k \in 1..n : a.up[k] \in UpFrames  BY <1>1, LenProperties, ElementOfSeq
  <2>4. Len(x.up) = n /\ \A k \in 1..n : x.up[k] = a.up[k] /\ k \in 1..Len(a.up)
    BY <1>1, <2>2, <2>3
  <2>5. \A k \in 2..n : x.up[k] = a.up[k] /\ k \in 2..Len(a.up)  BY <2>3, <2>4
  <2>6. Greets(x)
    <3>1. \A k \in 2..Len(x.up) : x.up[k].type # "hello"  BY <1>1, <2>4, <2>5 DEF Greets
    <3>2. x.hello # "none" => Clean(x.up)  BY <1>1, <2>2, <2>4 DEF Greets, Clean
    <3> QED  BY <3>1, <3>2 DEF Greets
  <2>7. \A d \in 1..Len(agents') : Greets(agents'[d])  BY <1>0, <2>1, <2>6, GreetsPut DEF x
  <2>8. hub' = [hub EXCEPT ![i] = Disconnected(h)] /\ Disconnected(h).out = <<>>
    BY <1>0, <1>5 DEF Drop, Disconnected, HubState
  <2>9. Clean(Disconnected(h).out)  BY <2>8 DEF Clean
  <2>10. \A j \in Instances : Clean(hub'[j].out)  BY <1>2, <2>8, <2>9
  <2> QED  BY <2>7, <2>10 DEF HelloInv
<1> QED  BY <1>3, <1>4, <1>5

LEMMA HelloPager ==
    ASSUME IInv, IInv', HelloInv, NEW i \in Instances, StateChanged(i) \/ HandleEvent(i) PROVE HelloInv'
<1>0. /\ hub \in [Instances -> HubState] /\ hub[i] \in HubState /\ pager[i] \in PagerState
      /\ pager'[i] \in PagerState /\ agents' = agents /\ Clean(hub[i].out)
  BY HubSocket DEF IInv, WiresInv, StateChanged, HandleEvent, HelloInv
<1>1. PICK k : hub' = [hub EXCEPT ![i] = k] /\ Clean(k.out)
  <2>1. CASE StateChanged(i)
    <3>1. hub' = [hub EXCEPT ![i] = push_snapshot_if_connected(hub[i], pager'[i])]  BY <2>1 DEF StateChanged
    <3> QED  BY <1>0, <3>1, CleanPush
  <2>2. CASE HandleEvent(i)
    <3> DEFINE h == WithIn(hub[i], Tail(hub[i].in))  e == Head(hub[i].in)
               r == reset_catalog_cache(h)  v == [h EXCEPT !.watching = TRUE]  u == [h EXCEPT !.watching = FALSE]
               k == CASE e = "Status" -> push_catalog_if_connected(r, pager[i])
                      [] e = "RequestSnapshot" -> push_snapshot_if_connected(v, pager[i])
                      [] e = "StopWatching" -> u
                      [] OTHER -> h
    <3>1. hub[i].in \in Seq(Events) /\ hub[i].in # <<>> /\ hub[i].out \in Seq(UpFrames)
      BY <1>0, <2>2 DEF HandleEvent, HubState
    <3>2. Tail(hub[i].in) \in Seq(Events)  BY <3>1, HeadTailProperties
    <3>3. h \in HubState /\ h.out = hub[i].out  BY <1>0, <3>2 DEF WithIn, HubState
    <3>4. hub' = [hub EXCEPT ![i] = k]  BY <2>2 DEF HandleEvent, WithIn
    <3> HIDE DEF h, e
    <3>5. /\ r \in HubState /\ r.out = h.out /\ v \in HubState /\ v.out = h.out /\ u.out = h.out
      BY <3>3 DEF HubState, reset_catalog_cache
    <3> HIDE DEF r, v, u
    <3>6. /\ Clean(push_catalog_if_connected(r, pager[i]).out) /\ Clean(push_snapshot_if_connected(v, pager[i]).out)
          /\ Clean(u.out) /\ Clean(h.out)
      BY <1>0, <3>3, <3>5, CleanPush
    <3>7. Clean(k.out)  BY <3>6
    <3> QED  BY <3>4, <3>7
  <2> QED  BY <2>1, <2>2
<1>2. \A j \in Instances : Clean(hub'[j].out)  BY <1>0, <1>1 DEF HelloInv
<1> QED  BY <1>0, <1>2 DEF HelloInv

\* What the relay's sockets are after an upgrade.
LEMMA Accepted ==
    ASSUME IInv, NEW i \in Instances, Connect(i)
    PROVE  \E code \in BOOLEAN :
             /\ agents' = Append(KeptSockets(i), NewSocket(i, code)) /\ catalog' = catalog
             /\ tabs' = broadcastBrowsers(tabs, <<Frame("machine_online"), CatalogFrame(catalog, TRUE)>>)
             /\ page' = page
             /\ \E e : hub' = [hub EXCEPT ![i] = Connected(hub[i], Len(agents'), e)]
<1>1. PICK code \in BOOLEAN :
        /\ AcceptAgent(i, code, <<Frame("hello")>>)
        /\ hub' = [hub EXCEPT ![i].conn = Len(agents'), ![i].in = Append(@, IF code THEN "PairingReady" ELSE "Status")]
  BY DEF Connect
<1>2. agents' = Append(KeptSockets(i), NewSocket(i, code)) /\ catalog' = catalog
      /\ tabs' = broadcastBrowsers(tabs, <<Frame("machine_online"), CatalogFrame(catalog, TRUE)>>)
  BY <1>1, Zenon DEF AcceptAgent, NewSocket, KeptSockets, Closing, WithUp, WithSt
<1>3. hub' = [hub EXCEPT ![i] = Connected(hub[i], Len(agents'), Append(hub[i].in, IF code THEN "PairingReady" ELSE "Status"))]
  <2>1. hub \in [Instances -> HubState]  BY HubSocket
  <2> QED  BY <1>1, <2>1 DEF Connected
<1>4. page' = page  BY DEF Connect
<1> QED  BY <1>2, <1>3, <1>4

LEMMA HelloConnect == ASSUME IInv, HelloInv, NEW i \in Instances, Connect(i) PROVE HelloInv'
<1> DEFINE n == Len(agents)  K == KeptSockets(i)
<1>0. PICK code \in BOOLEAN : /\ agents' = Append(K, NewSocket(i, code))
                             /\ \E e : hub' = [hub EXCEPT ![i] = Connected(hub[i], Len(agents'), e)]
  BY Accepted
<1>1. PICK e : agents' = Append(K, NewSocket(i, code)) /\ hub' = [hub EXCEPT ![i] = Connected(hub[i], Len(agents'), e)]
  BY <1>0
<1>2. hub \in [Instances -> HubState] /\ hub[i] \in HubState /\ agents \in Seq(Sockets)  BY HubSocket
<1>3. Connected(hub[i], Len(agents'), e).out = hub[i].out  BY <1>2 DEF Connected, HubState
<1>4. \A j \in Instances : Clean(hub'[j].out)
  <2>1. \A j \in Instances : Clean(hub[j].out)  BY DEF HelloInv
  <2> QED  BY <1>1, <1>2, <1>3, <2>1
<1> DEFINE x == NewSocket(i, code)
<1>5. x \in Sockets /\ x.hello = "none" /\ x.up = <<Frame("hello")>>  BY NewSocketKept DEF NewSocket
<1>6. K \in Seq(Sockets) /\ Len(K) = n /\ n \in Nat  BY <1>2, SocketsKept, LenProperties
<1>7. \A c \in 1..n : Greets(K[c])
  <2> TAKE c \in 1..n
  <2>1. c \in DOMAIN agents /\ agents[c] \in Sockets /\ Greets(agents[c])
    BY <1>2, LenProperties, ElementOfSeq DEF HelloInv
  <2>2. K[c] = Closing(agents[c]) \/ K[c] = agents[c]  BY <2>1 DEF KeptSockets
  <2>3. Closing(agents[c]).up = <<>>  BY <2>1 DEF Closing, WithUp, WithSt, Sockets, Socket
  <2>4. Greets(Closing(agents[c]))  BY <2>3 DEF Greets, Clean
  <2> QED  BY <2>1, <2>2, <2>4
<1> HIDE DEF x, K
<1>8. Greets(x)
  <2>1. Len(x.up) = 1  BY <1>5
  <2> QED  BY <1>5, <2>1 DEF Greets
<1>9. agents' = Append(K, x)  BY <1>1 DEF x
<1>10. Len(agents') = n + 1 /\ agents'[n + 1] = x /\ \A c \in 1..n : agents'[c] = K[c]
  BY <1>5, <1>6, <1>9, AppendProperties
<1>11. \A c \in 1..Len(agents') : c = n + 1 \/ c \in 1..n  BY <1>6, <1>10
<1>12. \A c \in 1..Len(agents') : Greets(agents'[c])  BY <1>7, <1>8, <1>10, <1>11
<1> QED  BY <1>4, <1>12 DEF HelloInv

-----------------------------------------------------------------------------
(* The agreement, step by step                                             *)
LEMMA SteadyPut ==
    ASSUME NEW A \in Seq(Sockets), NEW c \in DOMAIN A, NEW x, x.st = A[c].st, A[c].hello = "touch" => x.hello = "touch"
    PROVE  Steady(A, [A EXCEPT ![c] = x])
<1>1. DOMAIN A = 1..Len(A) /\ Len(A) \in Nat  BY LenProperties
<1>2. Len([A EXCEPT ![c] = x]) = Len(A)  BY <1>1
<1> QED  BY <1>1, <1>2 DEF Steady

LEMMA AgreePump ==
    ASSUME IInv, IInv', AgreeInv, NEW i \in Instances, Pump(i) PROVE AgreeInv'
<1> DEFINE c == hub[i].conn  a == agents[c]  x == WithUp(a, Append(a.up, Head(hub[i].out)))
<1>0. agents \in Seq(Sockets) /\ c \in DOMAIN agents /\ a \in Sockets  BY HubSocket DEF Pump
<1>1. agents' = agents \/ agents' = [agents EXCEPT ![c] = x]  BY DEF Pump, WithUp
<1>2. x.st = a.st /\ x.hello = a.hello  BY <1>0 DEF Sockets, Socket, WithUp
<1> HIDE DEF x
<1>3. Steady(agents, agents')  BY <1>0, <1>1, <1>2, SteadyPut DEF Steady
<1> QED  BY <1>3, AgreeStill DEF Pump

LEMMA AgreeReceive ==
    ASSUME IInv, IInv', AgreeInv, NEW i \in Instances, Receive(i) PROVE AgreeInv'
<1> DEFINE c == hub[i].conn  a == agents[c]  x == WithDown(a, Tail(a.down))
<1>0. agents \in Seq(Sockets) /\ c \in DOMAIN agents /\ a \in Sockets  BY HubSocket DEF Receive
<1>1. agents' = [agents EXCEPT ![c] = x]  BY DEF Receive, WithDown
<1>2. x.st = a.st /\ x.hello = a.hello  BY <1>0 DEF Sockets, Socket, WithDown
<1> HIDE DEF x
<1>3. Steady(agents, agents')  BY <1>0, <1>1, <1>2, SteadyPut
<1> QED  BY <1>3, AgreeStill DEF Receive

\* A broken socket is open for the relay until its close event.
LEMMA AgreeDrop ==
    ASSUME IInv, IInv', AgreeInv, NEW i \in Instances, Drop(i) PROVE AgreeInv'
<1> DEFINE c == hub[i].conn  a == agents[c]
<1>0. agents \in Seq(Sockets) /\ c \in DOMAIN agents /\ a \in Sockets  BY HubSocket DEF Drop
<1>1. PICK n \in 0..Len(a.up) : agents' = [agents EXCEPT ![c] = Broken(a, n)]  BY DEF Drop, Broken
<1>2. Broken(a, n).st = a.st /\ Broken(a, n).hello = a.hello  BY <1>0, SocketBroken
<1>3. Steady(agents, agents')  BY <1>0, <1>1, <1>2, SteadyPut
<1> QED  BY <1>3, AgreeStill DEF Drop

LEMMA AgreePager ==
    ASSUME IInv, IInv', AgreeInv, NEW i \in Instances, StateChanged(i) \/ ChangedUnpushed(i) \/ HandleEvent(i)
    PROVE  AgreeInv'
<1>1. UNCHANGED <<agents, tabs, catalog, page>>  BY DEF StateChanged, ChangedUnpushed, HandleEvent
<1>2. Steady(agents, agents')  BY <1>1 DEF Steady
<1> QED  BY <1>1, <1>2, AgreeStill

\* A hello that saves the catalog is due, and so are the pages' views of it.
LEMMA AgreeHello ==
    ASSUME IInv, IInv', HelloInv, AgreeInv, page' = page, NEW c \in DOMAIN agents,
           OnHello(c) \/ HelloSaves(c) \/ HelloFails(c)
    PROVE  AgreeInv'
<1> DEFINE a == agents[c]
<1>0. WiresInv /\ agents \in Seq(Sockets)  BY DEF IInv, WiresInv
<1>1. a \in Sockets /\ c \in 1..Len(agents) /\ DOMAIN agents = 1..Len(agents)  BY <1>0, OpenSocket, LenProperties
<1>2. tabs' = tabs  BY DEF OnHello, HelloSaves, HelloFails
<1>3. PICK x : /\ agents' = [agents EXCEPT ![c] = x] /\ x.st = a.st
               /\ x.hello = "touch" \/ (catalog' = catalog /\ a.hello # "touch")
  <2>1. CASE OnHello(c)
    <3> DEFINE h == IF a.code THEN "meta" ELSE "touch"  x == [[a EXCEPT !.up = Tail(a.up)] EXCEPT !.hello = h]
    <3>1. agents' = [agents EXCEPT ![c] = x]  BY <1>0, <2>1 DEF OnHello, TakeUp
    <3>2. x.st = a.st /\ x.hello = h  BY <1>1 DEF Sockets, Socket
    <3>3. a.code => catalog' = catalog  BY <2>1 DEF OnHello
    <3>4. a.hello # "touch"  BY <2>1, HelloFirst
    <3> QED  BY <3>1, <3>2, <3>3, <3>4
  <2>2. CASE HelloSaves(c)
    <3>1. agents' = [agents EXCEPT ![c] = WithHello(a, "touch")]  BY <2>2 DEF HelloSaves, WithHello
    <3>2. WithHello(a, "touch").st = a.st /\ WithHello(a, "touch").hello = "touch"  BY <1>1, HelloKept
    <3> QED  BY <3>1, <3>2
  <2>3. CASE HelloFails(c)
    <3>1. agents' = [agents EXCEPT ![c] = WithHello(a, "failed")]  BY <2>3 DEF HelloFails, WithHello
    <3>2. WithHello(a, "failed").st = a.st /\ a.hello # "touch" /\ catalog' = catalog
      BY <1>1, <2>3, HelloKept DEF HelloFails
    <3> QED  BY <3>1, <3>2
  <2> QED  BY <2>1, <2>2, <2>3
<1>4. Steady(agents, agents')  BY <1>0, <1>3, SteadyPut
<1>5. agents'[c] = x /\ Len(agents') = Len(agents)  BY <1>1, <1>3, <1>4 DEF Steady
<1>6. x.hello = "touch" => ~NoneDue(agents')  BY <1>1, <1>5 DEF NoneDue
<1> QED  BY <1>2, <1>3, <1>4, <1>6, AgreeStill

\* A catalog alone closes what the pages are told.
LEMMA ClosesAlone == ASSUME NEW e, NEW o PROVE Closes(<<CatalogFrame(e, o)>>, e, o)
<1>1. Len(<<CatalogFrame(e, o)>>) = 1 /\ <<CatalogFrame(e, o)>>[1] = CatalogFrame(e, o)  OBVIOUS
<1>2. CatalogFrame(e, o).type = "catalog" /\ CatalogFrame(e, o).entries = e /\ CatalogFrame(e, o).online = o
  BY DEF CatalogFrame
<1> HIDE DEF CatalogFrame
<1>3. 1 \in 1..1 /\ \A n \in 1..1 : ~(n > 1)  OBVIOUS
<1> QED  BY <1>1, <1>2, <1>3 DEF Closes

LEMMA AgreeHelloDone ==
    ASSUME IInv, IInv', AgreeInv, page' = page, NEW c \in DOMAIN agents, HelloBroadcasts(c) PROVE AgreeInv'
<1> DEFINE a == agents[c]  o == Reachable(agents)
<1>0. WiresInv /\ agents \in Seq(Sockets) /\ agents' \in Seq(Sockets) /\ catalog \in Entries  BY DEF IInv, WiresInv
<1>1. catalog' = catalog /\ tabs' = broadcastBrowsers(tabs, <<CatalogFrame(catalog, o)>>)
  BY DEF HelloBroadcasts, CatalogNow, Reachable
<1>2. agents' = [agents EXCEPT ![c] = WithHello(a, "done")]  BY DEF HelloBroadcasts, WithHello
<1>3. a \in Sockets  BY <1>0, OpenSocket
<1>4. WithHello(a, "done").st = a.st  BY <1>3, HelloKept
<1>5. OpenAgents(agents') = OpenAgents(agents)
  <2>1. DOMAIN agents' = DOMAIN agents /\ \A d \in DOMAIN agents : agents'[d].st = agents[d].st  BY <1>2, <1>4
  <2> QED  BY <2>1 DEF OpenAgents
<1>6. o = Reachable(agents') /\ o \in BOOLEAN  BY <1>5, ReachBool DEF Reachable
<1> HIDE DEF o
<1>7. CatalogFrame(catalog, o) \in TabFrames  BY <1>0, <1>6, CatalogFramed
<1>8. <<CatalogFrame(catalog, o)>> \in Seq(TabFrames)  BY <1>7
<1>9. Closes(<<CatalogFrame(catalog, o)>>, catalog', Reachable(agents'))  BY <1>1, <1>6, ClosesAlone
<1> QED  BY <1>1, <1>8, <1>9, AgreeBroadcast

LEMMA AgreeSessionCatalog ==
    ASSUME IInv, IInv', AgreeInv, page' = page, NEW c, OnSessionCatalog(c) PROVE AgreeInv'
<1> DEFINE o == Reachable(agents)
<1>0. WiresInv /\ agents \in Seq(Sockets) /\ catalog' \in Entries /\ OneOpen(agents)  BY DEF IInv, WiresInv, SocketInv
<1>1. SameEnds(agents, agents')  BY <1>0, FrameTaken DEF OnSessionCatalog
<1>2. OpenAgents(agents') = OpenAgents(agents)  BY <1>0, <1>1, SameOpen
<1>3. o = Reachable(agents') /\ o \in BOOLEAN  BY <1>2, ReachBool DEF Reachable
<1>4. tabs' = broadcastBrowsers(tabs, <<CatalogFrame(catalog', o)>>)  BY DEF OnSessionCatalog, Reachable
<1> HIDE DEF o
<1>5. CatalogFrame(catalog', o) \in TabFrames  BY <1>0, <1>3, CatalogFramed
<1>6. <<CatalogFrame(catalog', o)>> \in Seq(TabFrames)  BY <1>5
<1>7. Closes(<<CatalogFrame(catalog', o)>>, catalog', Reachable(agents'))  BY <1>3, ClosesAlone
<1> QED  BY <1>4, <1>6, <1>7, AgreeBroadcast

\* The page hears of the lost window, of the catalog without it and, last, that none is left.
LEMMA AgreeClose ==
    ASSUME IInv, IInv', AgreeInv, page' = page, NEW c, AgentClose(c) PROVE AgreeInv'
<1> DEFINE i == agents[c].inst  o == Reachable(agents')
           u == IF AgentsOf(agents', i) # {} THEN <<>> ELSE <<InstanceOffline(i)>>
           w == IF ~o THEN <<Frame("machine_offline")>> ELSE <<>>
           z == CatalogFrame(catalog', o)  fs == u \o <<z>> \o w
<1>0. WiresInv /\ catalog' \in Entries /\ i \in Instances
  BY OpenSocket DEF IInv, WiresInv, AgentClose
<1>1. tabs' = broadcastBrowsers(tabs, fs)  BY DEF AgentClose, Reachable
<1>2. o \in BOOLEAN  BY ReachBool
<1>3. z \in TabFrames  BY <1>0, <1>2, CatalogFramed
<1>4. z.type = "catalog" /\ z.entries = catalog' /\ z.online = o  BY DEF CatalogFrame
<1>5. InstanceOffline(i) \in TabFrames
  <2>1. InstanceOffline(i) \in [type : {"instance_offline"}, inst : Instances]  BY <1>0 DEF InstanceOffline
  <2> QED  BY <2>1 DEF TabFrames
<1>6. Frame("machine_offline") \in TabFrames /\ Frame("machine_offline").type = "machine_offline"  BY DEF TabFrames, Frame
<1>7. u \in Seq(TabFrames) /\ w \in Seq(TabFrames)  BY <1>5, <1>6
<1>8. \A k \in 1..Len(w) : w[k].type = "machine_offline" /\ ~o  BY <1>6
<1> HIDE DEF u, w, z, o
<1>9. fs \in Seq(TabFrames)  BY <1>3, <1>7
<1>10. Closes(fs, catalog', o)
  <2> DEFINE m == Len(u) + 1
  <2>1. /\ Len(u) \in Nat /\ Len(w) \in Nat /\ Len(fs) = m + Len(w) /\ fs[m] = z
        /\ \A k \in 1..Len(w) : fs[m + k] = w[k]
    BY <1>3, <1>7
  <2> HIDE DEF fs
  <2>2. m \in 1..Len(fs)  BY <2>1
  <2>3. ASSUME NEW n \in 1..Len(fs), n > m PROVE fs[n].type = "machine_offline" /\ ~o
    <3>1. n - m \in 1..Len(w) /\ m + (n - m) = n  BY <2>1, <2>3
    <3>2. fs[n] = w[n - m]  BY <2>1, <3>1
    <3> QED  BY <1>8, <3>1, <3>2
  <2> HIDE DEF m
  <2> QED  BY <1>4, <2>1, <2>2, <2>3 DEF Closes
<1> HIDE DEF fs
<1> QED  BY <1>1, <1>9, <1>10, AgreeBroadcast DEF o

LEMMA AgreeConnect ==
    ASSUME IInv, IInv', AgreeInv, NEW i \in Instances, Connect(i) PROVE AgreeInv'
<1> DEFINE z == CatalogFrame(catalog, TRUE)  f == Frame("machine_online")  fs == <<f, z>>
<1>1. PICK code \in BOOLEAN : /\ agents' = Append(KeptSockets(i), NewSocket(i, code)) /\ catalog' = catalog
                              /\ tabs' = broadcastBrowsers(tabs, fs) /\ page' = page
  BY Accepted
<1>2. Reachable(agents')
  <2>1. KeptSockets(i) \in Seq(Sockets) /\ NewSocket(i, code) \in Sockets /\ NewSocket(i, code).st = "open"
    BY SocketsKept, NewSocketKept
  <2> DEFINE n == Len(KeptSockets(i)) + 1
  <2>2. n \in DOMAIN agents' /\ agents'[n] = NewSocket(i, code)
    BY <1>1, <2>1, AppendProperties, LenProperties
  <2> HIDE DEF n
  <2>3. n \in OpenAgents(agents')  BY <2>1, <2>2 DEF OpenAgents
  <2> QED  BY <2>3 DEF Reachable
<1>3. catalog \in Entries  BY DEF IInv, WiresInv
<1>4. z \in TabFrames /\ z.type = "catalog" /\ z.entries = catalog /\ z.online = TRUE
  BY <1>3, CatalogFramed DEF CatalogFrame
<1>5. f \in TabFrames  BY DEF TabFrames
<1> HIDE DEF z, f
<1>6. fs \in Seq(TabFrames) /\ Len(fs) = 2 /\ fs[2] = z  BY <1>4, <1>5
<1> HIDE DEF fs
<1>7. 2 \in 1..2 /\ \A n \in 1..2 : ~(n > 2)  OBVIOUS
<1>8. Closes(fs, catalog', Reachable(agents'))  BY <1>1, <1>2, <1>4, <1>6, <1>7 DEF Closes
<1> QED  BY <1>1, <1>6, <1>8, AgreeBroadcast

LEMMA AgreeSnapshot ==
    ASSUME IInv, IInv', AgreeInv, page' = page, NEW c, OnSnapshot(c) PROVE AgreeInv'
<1> DEFINE i == agents[c].inst  f == Head(agents[c].up)
           frame == [type |-> "snapshot", inst |-> i, text |-> f.text, active |-> f.active]
<1>0. WiresInv /\ catalog' = catalog /\ tabs \in Seq(Browsers)  BY DEF IInv, WiresInv, OnSnapshot
<1>1. /\ SameEnds(agents, agents') /\ i \in Instances /\ f \in UpFrames /\ f.type = "snapshot"
  BY <1>0, FrameTaken DEF OnSnapshot
<1>2. f.text \in 0..MaxText /\ f.active \in {"", "real"}
  <2> HIDE DEF f
  <2> QED  BY <1>1, UpFrameKinds
<1>3. tabs' = IF i \in watchedInstanceIds(tabs) THEN broadcastBrowsers(tabs, <<frame>>) ELSE tabs
  BY DEF OnSnapshot
<1>4. Reachable(agents)  BY DEF OnSnapshot, AgentFrame, Reachable
<1> HIDE DEF i, f
<1>5. frame \in TabFrames /\ frame.type = "snapshot"  BY <1>1, <1>2 DEF TabFrames
<1> HIDE DEF frame
<1>6. <<frame>> \in Seq(TabFrames)  BY <1>5
<1>7. ASSUME NEW t \in 1..Len(tabs), tabs[t].live, tabs[t].st = "open"
      PROVE  Noted(tabs[t], tabs'[t], Reachable(agents))
  <2>1. CASE tabs' = tabs  BY <1>7, <2>1 DEF Noted
  <2>2. CASE tabs' = broadcastBrowsers(tabs, <<frame>>)
    <3>1. tabs'[t].live /\ tabs'[t].st = "open" /\ tabs'[t].down = tabs[t].down \o <<frame>>
      BY <1>0, <1>6, <1>7, <2>2, SentDown
    <3> QED  BY <1>4, <1>5, <3>1 DEF Noted
  <2> QED  BY <1>3, <2>1, <2>2
<1>8. Steady(agents, agents')  BY <1>1, SteadyEnds
<1> QED  BY <1>0, <1>7, <1>8, AgreeNoted

\* Browser t is taken a frame from, and may hear that the window it asked for is away.
LEMMA AnsweredTab ==
    ASSUME WiresInv, NEW t \in DOMAIN tabs, tabs[t].up # <<>>, NEW i \in Instances, NEW o,
           LET T == [tabs EXCEPT ![t] = Taken(tabs[t])]
           IN  tabs' = T \/ tabs' = [T EXCEPT ![t] = Sent(T[t], <<InstanceOffline(i)>>)]
    PROVE  \A u \in 1..Len(tabs) : tabs[u].live /\ tabs[u].st = "open" => Noted(tabs[u], tabs'[u], o)
<1> DEFINE T == [tabs EXCEPT ![t] = Taken(tabs[t])]  f == InstanceOffline(i)
<1>1. tabs[t] \in Browsers /\ t \in 1..Len(tabs) /\ DOMAIN tabs = 1..Len(tabs)  BY OpenTab, LenProperties DEF WiresInv
<1>2. tabs[t] \in Browser /\ Taken(tabs[t]) \in Browser  BY <1>1, TakenKept DEF Browsers
<1>3. Taken(tabs[t]).live = tabs[t].live /\ Taken(tabs[t]).st = tabs[t].st /\ Taken(tabs[t]).down = tabs[t].down
  BY <1>2 DEF Browser, Taken, WithUp, WithWatch
<1>4. f \in TabFrames /\ f.type = "instance_offline"
  <2>1. f \in [type : {"instance_offline"}, inst : Instances]  BY DEF InstanceOffline
  <2> QED  BY <2>1 DEF TabFrames
<1> HIDE DEF f
<1> SUFFICES ASSUME NEW u \in 1..Len(tabs), tabs[u].live, tabs[u].st = "open" PROVE Noted(tabs[u], tabs'[u], o)
  OBVIOUS
<1>5. CASE u # t
  <2>1. tabs'[u] = tabs[u]  BY <1>1, <1>5
  <2> QED  BY <2>1 DEF Noted
<1>6. CASE u = t
  <2>1. T[t] = Taken(tabs[t])  BY <1>1
  <2>2. tabs'[t] = Taken(tabs[t]) \/ tabs'[t] = Sent(Taken(tabs[t]), <<f>>)  BY <1>1, <2>1 DEF f
  <2>3. CASE tabs'[t] = Taken(tabs[t])  BY <1>3, <1>6, <2>3 DEF Noted
  <2>4. CASE tabs'[t] = Sent(Taken(tabs[t]), <<f>>)
    <3>1. tabs'[t] = [Taken(tabs[t]) EXCEPT !.down = tabs[t].down \o <<f>>]  BY <1>3, <1>6, <2>4 DEF Sent
    <3>2. tabs'[t].live = tabs[t].live /\ tabs'[t].st = tabs[t].st /\ tabs'[t].down = tabs[t].down \o <<f>>
      BY <1>2, <1>3, <3>1 DEF Browser
    <3> QED  BY <1>4, <1>6, <3>2 DEF Noted
  <2> QED  BY <2>2, <2>3, <2>4
<1> QED  BY <1>5, <1>6

LEMMA AgreeWatch ==
    ASSUME IInv, IInv', AgreeInv, page' = page, NEW t, OnWatch(t) PROVE AgreeInv'
<1> DEFINE b == tabs[t]  f == Head(tabs[t].up)  i == Head(tabs[t].up).inst
           T == [tabs EXCEPT ![t] = Taken(tabs[t])]
           A == recomputeSubscriptions(agents, T)
<1>0. WiresInv /\ agents \in Seq(Sockets) /\ OneOpen(agents) /\ catalog' = catalog
  BY DEF IInv, WiresInv, SocketInv, OnWatch
<1>1. t \in DOMAIN tabs /\ b.up # <<>> /\ f.type = "watch"  BY DEF OnWatch, TabFrame, OpenTabs
<1>2. b \in Browsers  BY <1>0, <1>1, OpenTab
<1>3. f \in TabFrameUp  BY <1>1, <1>2, TakenKept
<1>4. i \in Instances  BY <1>3 DEF TabFrameUp
<1>5. T = [tabs EXCEPT ![t].up = Tail(@), ![t].watch = i]
  BY <1>1 DEF Taken, WithUp, WithWatch
<1>6. agents' = sendAgentInstance(A, i, Frame("subscribe"))
  BY <1>5 DEF OnWatch
<1>7. tabs' = T \/ tabs' = [T EXCEPT ![t] = Sent(T[t], <<InstanceOffline(i)>>)]
  BY <1>5 DEF OnWatch
<1> HIDE DEF i, A
<1>8. \A u \in 1..Len(tabs) : tabs[u].live /\ tabs[u].st = "open" => Noted(tabs[u], tabs'[u], Reachable(agents))
  BY <1>0, <1>1, <1>4, <1>7, AnsweredTab
<1>9. SameEnds(agents, A)  BY <1>0, Recompute DEF A
<1>10. A \in Seq(Sockets) /\ OneOpen(A)  BY <1>0, <1>9, SameOpen
<1>11. Frame("subscribe") \in DownFrames /\ Frame("subscribe").type # "prompt"  BY DEF DownFrames, Frame
<1>12. SameEnds(A, agents')  BY <1>6, <1>10, <1>11, SendToAgent
<1>13. Steady(agents, agents')  BY <1>9, <1>12, EndsTrans, SteadyEnds
<1> QED  BY <1>0, <1>8, <1>13, AgreeNoted

LEMMA AgreePrompt ==
    ASSUME IInv, IInv', AgreeInv, page' = page, NEW t, OnPrompt(t) PROVE AgreeInv'
<1> DEFINE b == tabs[t]  f == Head(tabs[t].up)  T == [tabs EXCEPT ![t] = Taken(tabs[t])]
<1>0. WiresInv /\ agents \in Seq(Sockets) /\ OneOpen(agents) /\ catalog' = catalog
  BY DEF IInv, WiresInv, SocketInv, OnPrompt
<1>1. t \in DOMAIN tabs /\ b.up # <<>> /\ f.type = "prompt"  BY DEF OnPrompt, TabFrame, OpenTabs
<1>2. b \in Browsers  BY <1>0, <1>1, OpenTab
<1>3. f \in TabFrameUp /\ b.watch = f.inst  BY <1>1, <1>2, TakenKept
<1>4. f.inst \in Instances  BY <1>3 DEF TabFrameUp
<1>5. (IF tabs[t].watch # None THEN tabs[t].watch ELSE f.inst) = f.inst  BY <1>3
<1>6. T = [tabs EXCEPT ![t].up = Tail(@)]  BY <1>1 DEF Taken, WithUp
<1>7. agents' = sendAgentInstance(agents, f.inst, f)  BY <1>5 DEF OnPrompt
<1>8. tabs' = T \/ tabs' = [T EXCEPT ![t] = Sent(T[t], <<InstanceOffline(f.inst)>>)]
  BY <1>5, <1>6 DEF OnPrompt
<1> HIDE DEF f
<1>9. \A u \in 1..Len(tabs) : tabs[u].live /\ tabs[u].st = "open" => Noted(tabs[u], tabs'[u], Reachable(agents))
  BY <1>0, <1>1, <1>4, <1>8, AnsweredTab
<1>10. f \in DownFrames
  <2>1. f \in [type : {"prompt"}, inst : Instances]  BY <1>1, <1>3 DEF TabFrameUp
  <2> QED  BY <2>1 DEF DownFrames
<1>11. SameEnds(agents, agents')  BY <1>0, <1>7, <1>10, SendToAgent
<1>12. Steady(agents, agents')  BY <1>11, SteadyEnds
<1> QED  BY <1>0, <1>9, <1>12, AgreeNoted

\* Only a browser that is lost is closed.
LEMMA AgreeTabClose ==
    ASSUME IInv, IInv', AgreeInv, page' = page, NEW t, TabClose(t) PROVE AgreeInv'
<1>0. agents \in Seq(Sockets) /\ catalog' = catalog  BY DEF IInv, WiresInv, TabClose
<1>1. PICK x : tabs' = [tabs EXCEPT ![t] = x]  BY DEF TabClose
<1>2. ~tabs[t].live /\ agents' = recomputeSubscriptions(agents, tabs')  BY DEF TabClose
<1>3. ASSUME NEW u \in 1..Len(tabs), tabs[u].live, tabs[u].st = "open"
      PROVE  Noted(tabs[u], tabs'[u], Reachable(agents))
  <2>1. DOMAIN tabs = 1..Len(tabs)  BY LenProperties DEF IInv, WiresInv
  <2>2. tabs'[u] = tabs[u]  BY <1>1, <1>2, <1>3, <2>1
  <2> QED  BY <1>3, <2>2 DEF Noted
<1>4. Steady(agents, agents')  BY <1>0, <1>2, Recompute, SteadyEnds
<1> QED  BY <1>0, <1>3, <1>4, AgreeNoted

LEMMA AgreeRelay == ASSUME IInv, IInv', HelloInv, AgreeInv, RelayStep PROVE AgreeInv'
<1>0. Relay /\ page' = page  BY DEF RelayStep
<1>1. CASE \E c \in DOMAIN agents : \/ OnHello(c) \/ HelloSaves(c) \/ HelloFails(c) \/ HelloBroadcasts(c)
                                    \/ OnSessionCatalog(c) \/ OnSnapshot(c) \/ AgentClose(c)
  BY <1>0, <1>1, AgreeHello, AgreeHelloDone, AgreeSessionCatalog, AgreeSnapshot, AgreeClose
<1>2. CASE \E t \in DOMAIN tabs : OnWatch(t) \/ OnPrompt(t) \/ TabClose(t)
  BY <1>0, <1>2, AgreeWatch, AgreePrompt, AgreeTabClose
<1> QED  BY <1>0, <1>1, <1>2 DEF Relay

\* A page that is told nothing new, and sends.
LEMMA InformedKept ==
    ASSUME NEW g, NEW h, NEW b \in Browsers, NEW u, NEW A, NEW e, Informed(g, b, A, e),
           h.known = g.known, h.online = g.online
    PROVE  Informed(h, b, A, e) /\ Informed(h, WithUp(b, u), A, e)
<1> DEFINE d == WithUp(b, u)
<1>1. b \in Browser  BY DEF Browsers
<1>2. d.live = b.live /\ d.st = b.st /\ d.down = b.down  BY <1>1 DEF Browser, WithUp
<1> HIDE DEF d
<1>3. \A w, o : Fresh(g, w, e, o) => Fresh(h, w, e, o)  BY DEF Fresh
<1>4. Informed(h, b, A, e)  BY <1>3 DEF Informed
<1> QED  BY <1>2, <1>4 DEF Informed, d

\* The first frames of a connection are the state of the machine and the catalog.
LEMMA AgreePageConnects ==
    ASSUME IInv, AgreeInv, NEW p \in Pages, PageConnects(p) PROVE AgreeInv'
<1> DEFINE n == Len(tabs)  o == Reachable(agents)  z == CatalogFrame(catalog, o)
           st == Frame(IF OpenAgents(agents) = {} THEN "machine_offline" ELSE "machine_online")
           d == <<st, z>>  g == WithWs(page[p], n + 1)
<1>0. /\ page[p] \in PageStates /\ tabs \in Seq(Browsers) /\ n \in Nat /\ catalog \in Entries
      /\ Chosen(page[p]) /\ agents' = agents /\ catalog' = catalog
  BY PageTab DEF PageConnects, AcceptTab, IInv, WiresInv, AgreeInv
<1>1. PICK b : tabs' = Append(tabs, b) /\ b.live = TRUE /\ b.st = "open" /\ b.down = d
  <2>1. PICK fs : AcceptTab(p, fs)  BY DEF PageConnects
  <2> DEFINE b == [page |-> p, st |-> "open", live |-> TRUE, watch |-> None, up |-> fs, down |-> d]
  <2>2. tabs' = Append(tabs, b)  BY <2>1 DEF AcceptTab, CatalogNow, Reachable
  <2>3. b.live = TRUE /\ b.st = "open" /\ b.down = d  OBVIOUS
  <2> HIDE DEF b
  <2> QED  BY <2>2, <2>3
<1>2. o \in BOOLEAN  BY ReachBool
<1>3. z \in TabFrames /\ z.type = "catalog" /\ z.entries = catalog /\ z.online = o
  BY <1>0, <1>2, CatalogFramed DEF CatalogFrame
<1>4. st \in TabFrames  BY DEF TabFrames
<1> HIDE DEF z, st, o
<1>5. d \in Seq(TabFrames) /\ Len(d) = 2 /\ d[2] = z  BY <1>3, <1>4
<1> HIDE DEF d
<1>6. 2 \in 1..2 /\ \A k \in 1..2 : ~(k > 2)  OBVIOUS
<1>7. Closes(d, catalog, o)  BY <1>3, <1>5, <1>6 DEF Closes
<1>8. Told(d, o) /\ Fresh(g, d, catalog, o)  BY <1>2, <1>5, <1>7, WireCloses
<1>9. Len(tabs') = n + 1 /\ tabs'[n + 1] = b /\ \A u \in 1..n : tabs'[u] = tabs[u]
  <2>1. DOMAIN tabs = 1..n  BY <1>0, LenProperties
  <2> QED  BY <1>0, <1>1, <2>1
<1>10. page' = [page EXCEPT ![p] = g]  BY <1>9 DEF PageConnects, WithWs
<1>11. g.ws = n + 1 /\ g.sel = page[p].sel /\ g.known = page[p].known
  <2>1. page[p] \in PageState /\ n + 1 \in Nat  BY <1>0 DEF PageStates
  <2> QED  BY <2>1 DEF PageState, WithWs
<1> HIDE DEF g
<1>12. Chosen(g)  BY <1>0, <1>11 DEF Chosen
<1>13. Informed(g, b, agents, catalog)  BY <1>1, <1>8 DEF Informed, o
<1> QED  BY <1>0, <1>9, <1>10, <1>11, <1>12, <1>13, AgreeMoves

LEMMA AgreePageDrops ==
    ASSUME IInv, AgreeInv, NEW p \in Pages, PageDrops(p) PROVE AgreeInv'
<1> DEFINE t == page[p].ws  g == Away(page[p])
<1>0. /\ page[p] \in PageStates /\ tabs \in Seq(Browsers) /\ Chosen(page[p])
      /\ agents' = agents /\ catalog' = catalog
  BY PageTab DEF PageDrops, AgreeInv
<1>1. PICK x : tabs' = [tabs EXCEPT ![t] = x]  BY DEF PageDrops
<1>2. page' = [page EXCEPT ![p] = g]  BY DEF PageDrops, Away
<1>3. g.ws = 0 /\ g.sel = page[p].sel /\ g.known = page[p].known
  <2>1. page[p] \in PageState  BY <1>0 DEF PageStates
  <2> QED  BY <2>1 DEF PageState, Away
<1> HIDE DEF g
<1>4. \A u \in 1..Len(tabs) : u # t => tabs'[u] = tabs[u]
  <2>1. DOMAIN tabs = 1..Len(tabs)  BY <1>0, LenProperties
  <2> QED  BY <1>1, <2>1
<1>5. Chosen(g)  BY <1>0, <1>3 DEF Chosen
<1> QED  BY <1>0, <1>2, <1>3, <1>4, <1>5, AgreeMoves

LEMMA AgreeClick ==
    ASSUME IInv, AgreeInv, NEW p \in Pages, Click(p) PROVE AgreeInv'
<1>0. /\ page[p] \in PageStates /\ tabs \in Seq(Browsers) /\ Chosen(page[p])
      /\ page[p].ws # 0 => /\ tabs[page[p].ws] \in Browsers /\ page[p].ws \in DOMAIN tabs
                           /\ Informed(page[p], tabs[page[p].ws], agents, catalog)
      /\ agents' = agents /\ catalog' = catalog
  BY PageTab DEF AgreeInv, Click
<1>1. PICK i \in Instances :
        /\ page[p].known[i] # None
        /\ LET first == firstSessionId(page[p].known[i])
               g == Selected(page[p], i, IF first = "live" THEN "" ELSE first)
           IN  page' = [page EXCEPT ![p] = g] /\ tabs' = SendJson(tabs, g, SelectFrames(g, i))
  BY DEF Click
<1> DEFINE s == IF firstSessionId(page[p].known[i]) = "live" THEN "" ELSE firstSessionId(page[p].known[i])
           g == Selected(page[p], i, s)  t == page[p].ws  x == WithUp(tabs[t], tabs[t].up \o <<Watch(i)>>)
<1>2. page' = [page EXCEPT ![p] = g] /\ tabs' = SendJson(tabs, g, <<Watch(i)>>)  BY <1>1 DEF SelectFrames
<1>3. s \in SessionIds  BY FirstSession DEF SessionIds
<1> HIDE DEF s
<1>4. g.ws = t /\ g.sel = i /\ g.known = page[p].known /\ g.online = page[p].online
  BY <1>0, <1>3, SelectedKept, SelectedKnows
<1> HIDE DEF g
<1>5. Chosen(g)  BY <1>1, <1>4 DEF Chosen
<1>6. tabs' = IF t = 0 THEN tabs ELSE [tabs EXCEPT ![t] = x]  BY <1>2, <1>4 DEF SendJson, WithUp
<1>7. t # 0 => Informed(g, x, agents, catalog)  BY <1>0, <1>4, InformedKept
<1> HIDE DEF x
<1>8. \A u \in 1..Len(tabs) : u # t => tabs'[u] = tabs[u]
  <2>1. DOMAIN tabs = 1..Len(tabs)  BY <1>0, LenProperties
  <2> QED  BY <1>6, <2>1
<1>9. t # 0 => tabs'[t] = x  BY <1>0, <1>6
<1>10. g.ws # 0 => Informed(g, tabs'[g.ws], agents, catalog)  BY <1>4, <1>7, <1>9
<1> QED  BY <1>0, <1>2, <1>5, <1>8, <1>10, AgreeMoves

LEMMA AgreeCompose ==
    ASSUME IInv, AgreeInv, NEW p \in Pages, Compose(p) PROVE AgreeInv'
<1> DEFINE t == page[p].ws
           known == {j \in Instances : page[p].known[j] # None}
           only == page[p].sel = None /\ Cardinality(known) = 1
           i == IF only THEN CHOOSE j \in known : TRUE ELSE page[p].sel
           g == IF only THEN Selected(page[p], i, firstSessionId(page[p].known[i])) ELSE page[p]
           fs == (IF only THEN SelectFrames(g, i) ELSE <<>>) \o <<[type |-> "prompt", inst |-> i]>>
           x == WithUp(tabs[t], tabs[t].up \o fs)
<1>0. /\ page[p] \in PageStates /\ tabs \in Seq(Browsers) /\ Chosen(page[p]) /\ t # 0
      /\ tabs[t] \in Browsers /\ t \in DOMAIN tabs /\ Informed(page[p], tabs[t], agents, catalog)
      /\ agents' = agents /\ catalog' = catalog
  BY PageTab DEF AgreeInv, Compose
<1>1. page' = [page EXCEPT ![p] = g] /\ tabs' = SendJson(tabs, g, fs)  BY Zenon DEF Compose
<1>2. g.ws = t /\ g.known = page[p].known /\ g.online = page[p].online /\ Chosen(g)
  <2>1. CASE only
    <3> DEFINE s == firstSessionId(page[p].known[i])
    <3>1. known # {}  BY <2>1, FS_EmptySet
    <3>2. i \in Instances /\ page[p].known[i] # None
      <4>1. i = CHOOSE j \in known : TRUE  BY <2>1
      <4>2. (CHOOSE j \in known : TRUE) \in known  BY <3>1
      <4> QED  BY <4>1, <4>2
    <3>3. g = Selected(page[p], i, s)  BY <2>1
    <3>4. s \in SessionIds  BY FirstSession
    <3> HIDE DEF g, i, s
    <3>5. g.ws = t /\ g.sel = i /\ g.known = page[p].known /\ g.online = page[p].online
      BY <1>0, <3>2, <3>3, <3>4, SelectedKept, SelectedKnows
    <3> QED  BY <3>2, <3>5 DEF Chosen
  <2>2. CASE ~only
    <3>1. g = page[p]  BY <2>2
    <3> QED  BY <1>0, <3>1
  <2> QED  BY <2>1, <2>2
<1> HIDE DEF g, fs
<1>3. tabs' = [tabs EXCEPT ![t] = x]  BY <1>0, <1>1, <1>2 DEF SendJson, WithUp
<1>4. Informed(g, x, agents, catalog)  BY <1>0, <1>2, InformedKept
<1> HIDE DEF x
<1>5. \A u \in 1..Len(tabs) : u # t => tabs'[u] = tabs[u]
  <2>1. DOMAIN tabs = 1..Len(tabs)  BY <1>0, LenProperties
  <2> QED  BY <1>3, <2>1
<1>6. g.ws # 0 => Informed(g, tabs'[g.ws], agents, catalog)  BY <1>0, <1>2, <1>3, <1>4
<1> QED  BY <1>0, <1>1, <1>2, <1>5, <1>6, AgreeMoves

LEMMA AgreeMessage ==
    ASSUME IInv, AgreeInv, NEW p \in Pages, OnMessage(p) PROVE AgreeInv'
<1> DEFINE t == page[p].ws  b == tabs[t]  f == Head(b.down)  y == WithDown(b, Tail(b.down))
           r == IF f.type = "catalog" THEN applyCatalog(page[p], f)
                ELSE [page |-> Shown(page[p], f), picks |-> FALSE]
           fs == SelectFrames(r.page, r.page.sel)
           x == IF r.picks THEN WithUp(y, y.up \o fs) ELSE y
<1>0. /\ page[p] \in PageStates /\ tabs \in Seq(Browsers) /\ Chosen(page[p]) /\ t # 0
      /\ b \in Browsers /\ t \in DOMAIN tabs /\ Informed(page[p], b, agents, catalog) /\ b.down # <<>>
      /\ agents' = agents /\ catalog' = catalog
  BY PageTab DEF AgreeInv, OnMessage
<1>1. b.down \in Seq(TabFrames)  BY <1>0 DEF Browsers, Browser
<1>2. f \in TabFrames /\ Tail(b.down) \in Seq(TabFrames)  BY <1>0, <1>1, HeadTailProperties
<1>3. y \in Browsers /\ SameTab(b, y) /\ y.down = Tail(b.down)
  <2>1. b \in Browser  BY <1>0 DEF Browsers
  <2> QED  BY <1>0, <1>2, <2>1, BrowserDown DEF WithDown, Browser
<1>4. page' = [page EXCEPT ![p] = r.page]
      /\ tabs' = IF r.picks THEN SendJson([tabs EXCEPT ![t] = y], r.page, fs) ELSE [tabs EXCEPT ![t] = y]
  BY DEF OnMessage, WithDown
<1>5. Applied(page[p], f, r.page) /\ Chosen(r.page) /\ r.page.ws = t
  <2> HIDE DEF f
  <2>1. CASE f.type = "catalog"
    <3>1. f \in [type : {"catalog"}, entries : Entries, online : BOOLEAN]  BY <1>2, <2>1, FrameKinds
    <3>2. PageStep(page[p], applyCatalog(page[p], f))  BY <1>0, <3>1, CatalogApplied
    <3>3. r = applyCatalog(page[p], f)  BY <2>1
    <3> QED  BY <1>0, <3>1, <3>2, <3>3, CatalogKnown DEF PageStep
  <2>2. CASE f.type # "catalog"
    <3>1. PageStep(page[p], [page |-> Shown(page[p], f), picks |-> FALSE])  BY <1>0, <1>2, <2>2, FrameShown
    <3>2. r.page = Shown(page[p], f) /\ r = [page |-> Shown(page[p], f), picks |-> FALSE]  BY <2>2
    <3> QED  BY <1>0, <1>2, <2>2, <3>1, <3>2, FrameKnown DEF PageStep
  <2> QED  BY <2>1, <2>2
<1> HIDE DEF r, y, fs
<1>6. tabs' = [tabs EXCEPT ![t] = x]
  <2>1. CASE r.picks
    <3>1. tabs' = [[tabs EXCEPT ![t] = y] EXCEPT ![t].up = @ \o fs]  BY <1>0, <1>4, <1>5, <2>1 DEF SendJson
    <3> QED  BY <1>0, <2>1, <3>1 DEF WithUp
  <2>2. CASE ~r.picks  BY <1>4, <2>2
  <2> QED  BY <2>1, <2>2
<1>7. Informed(r.page, y, agents, catalog)
  <2> DEFINE d == b.down  o == Reachable(agents)  h == r.page
  <2>1. d \in Seq(TabFrames) /\ d # <<>> /\ o \in BOOLEAN /\ Applied(page[p], Head(d), h)  BY <1>0, <1>1, <1>5, ReachBool
  <2>2. Told(d, o) /\ (NoneDue(agents) => Fresh(page[p], d, catalog, o))  BY <1>0 DEF Informed
  <2> HIDE DEF d, o, h
  <2>3. Told(Tail(d), o) /\ (Fresh(page[p], d, catalog, o) => Fresh(h, Tail(d), catalog, o))  BY <2>1, <2>2, WireTaken
  <2>4. y.live = b.live /\ y.st = b.st  BY <1>3 DEF SameTab
  <2> QED  BY <1>0, <1>3, <2>2, <2>3, <2>4 DEF Informed, d, o, h
<1>8. Informed(r.page, x, agents, catalog)
  <2>1. CASE r.picks  BY <1>3, <1>7, <2>1, InformedKept
  <2>2. CASE ~r.picks  BY <1>7, <2>2
  <2> QED  BY <2>1, <2>2
<1> HIDE DEF x
<1>9. \A u \in 1..Len(tabs) : u # t => tabs'[u] = tabs[u]
  <2>1. DOMAIN tabs = 1..Len(tabs)  BY <1>0, LenProperties
  <2> QED  BY <1>6, <2>1
<1>10. r.page.ws # 0 => Informed(r.page, tabs'[r.page.ws], agents, catalog)  BY <1>0, <1>5, <1>6, <1>8
<1> QED  BY <1>0, <1>4, <1>5, <1>9, <1>10, AgreeMoves

AgreementInv == IInv /\ HelloInv /\ AgreeInv
LEMMA AgreementInit == Init => AgreementInv
<1> SUFFICES ASSUME Init PROVE AgreementInv  OBVIOUS
<1>1. Len(agents) = 0  BY DEF Init, RelayInit
<1>2. \A i \in Instances : hub[i].out = <<>>  BY DEF Init
<1>3. \A p \in Pages : page[p].ws = 0 /\ page[p].sel = None  BY DEF Init
<1>4. HelloInv  BY <1>1, <1>2 DEF HelloInv, Clean
<1>5. AgreeInv  BY <1>3 DEF AgreeInv, Chosen
<1> QED  BY <1>4, <1>5, InitHolds DEF AgreementInv

LEMMA AgreementStep == AgreementInv /\ [Next]_vars => AgreementInv'
<1> SUFFICES ASSUME IInv, HelloInv, AgreeInv, [Next]_vars PROVE IInv' /\ HelloInv' /\ AgreeInv'
  BY DEF AgreementInv
<1>0. IInv'  BY StepKeeps
<1>1. CASE RelayStep  BY <1>0, <1>1, HelloRelay, AgreeRelay
<1>2. ASSUME NEW i \in Instances,
             \/ Connect(i) \/ Pump(i) \/ Receive(i) \/ Drop(i)
             \/ StateChanged(i) \/ ChangedUnpushed(i) \/ HandleEvent(i)
      PROVE  HelloInv' /\ AgreeInv'
  <2>1. HelloInv'
    <3>1. CASE ChangedUnpushed(i)  BY <3>1 DEF ChangedUnpushed, HelloInv
    <3> QED  BY <1>0, <1>2, <3>1, HelloConnect, HelloWindow, HelloPager
  <2>2. AgreeInv'  BY <1>0, <1>2, AgreeConnect, AgreePump, AgreeReceive, AgreeDrop, AgreePager
  <2> QED  BY <2>1, <2>2
<1>3. ASSUME NEW p \in Pages,
             \/ PageConnects(p) \/ PageDrops(p) \/ Click(p) \/ Compose(p) \/ OnMessage(p)
      PROVE  HelloInv' /\ AgreeInv'
  <2>1. agents' = agents /\ hub' = hub
    BY <1>3 DEF PageConnects, AcceptTab, PageDrops, Click, Compose, OnMessage
  <2>2. HelloInv'  BY <2>1 DEF HelloInv
  <2>3. AgreeInv'  BY <1>3, AgreePageConnects, AgreePageDrops, AgreeClick, AgreeCompose, AgreeMessage
  <2> QED  BY <2>2, <2>3
<1>4. CASE UNCHANGED vars  BY <1>0, <1>4 DEF vars, HelloInv, AgreeInv
<1> QED  BY <1>0, <1>1, <1>2, <1>3, <1>4 DEF Next

\* When nothing is under way a connected page knows the relay's catalog, calls the machine online
\* exactly when a window can be reached, and the relay knows its selection: after any history of
\* reconnects, replaced sockets, late hellos and lost browsers.
THEOREM PagesAgree == Spec => []PageAgrees
<1>1. AgreementInv => PageAgrees
  <2> SUFFICES ASSUME AgreementInv, Quiet, NEW p \in Pages, page[p].ws # 0
               PROVE  /\ page[p].known = catalog
                      /\ page[p].online <=> OpenAgents(agents) # {} /\ \E i \in Instances : catalog[i] # None
                      /\ page[p].sel # None => tabs[page[p].ws].watch = page[p].sel
    BY DEF PageAgrees
  <2> DEFINE b == tabs[page[p].ws]
  <2>0. IInv /\ AgreeInv  BY DEF AgreementInv
  <2>1. page[p].ws \in DOMAIN tabs /\ (page[p].sel # None => Governs(b, Len(b.up), page[p].sel))  BY <2>0, PageTab
  <2>2. b.up = <<>> /\ b.down = <<>>  BY <2>1 DEF Quiet
  <2>3. NoneDue(agents)
    <3>1. DOMAIN agents = 1..Len(agents)  BY <2>0, LenProperties DEF IInv, WiresInv
    <3> QED  BY <3>1 DEF Quiet, NoneDue
  <2>4. Fresh(page[p], <<>>, catalog, Reachable(agents))  BY <2>0, <2>2, <2>3 DEF AgreeInv, Informed
  <2>5. page[p].known = catalog /\ (page[p].online <=> Reachable(agents) /\ \E i \in Instances : catalog[i] # None)
    BY <2>4 DEF Fresh
  <2>6. page[p].sel # None => b.watch = page[p].sel
    <3>1. Len(b.up) = 0  BY <2>2
    <3>2. 1..0 = {}  OBVIOUS
    <3> QED  BY <2>1, <3>1, <3>2 DEF Governs
  <2> QED  BY <2>5, <2>6 DEF Reachable
<1> QED  BY <1>1, AgreementInit, AgreementStep, PTL DEF Spec

=============================================================================
