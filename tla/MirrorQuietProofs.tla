------------------------- MODULE MirrorQuietProofs -------------------------
(***************************************************************************)
(* Theorems about what LiveMirror has settled when nothing is under way:   *)
(* the catalog is the last one pushed, a window mirrors exactly while a    *)
(* page wants it, and a page shows the transcript of the last push.        *)
(*                                                                         *)
(* Each holds only short of a defect of the code, and its theorem says so: *)
(* Room, NoSocketReplaced and NoRequestLeft are hypotheses about the       *)
(* behaviour, and the behaviours they exclude are the ones in which the    *)
(* outbound buffer overflows, the relay replaces a socket it still takes   *)
(* for open, or a request outlives the connection it came on.              *)
(***************************************************************************)
EXTENDS MirrorProofs

(* The outbound buffer of every window has room for one more push.         *)
Room == \A i \in Instances : Len(hub[i].out) + 2 =< OUTBOUND_CAP

Comes(i) == hub[i].conn = 0 /\ hub'[i].conn # 0
(* A window that connects has no other open socket at the relay.           *)
NoSocketReplaced == \A i \in Instances : Comes(i) => AgentsOf(agents, i) = {}
(* A window that connects has no request of an earlier connection, neither *)
(* handled after that connection broke nor still queued.                   *)
NoRequestLeft == \A i \in Instances : Comes(i) =>
    ~hub[i].watching /\ \A k \in 1..Len(hub[i].in) : hub[i].in[k] # "RequestSnapshot"

(* A change of the pager that is not pushed moves nothing else.            *)
Aside == UNCHANGED vars \/ \E i \in Instances : ChangedUnpushed(i)
LEMMA AsideStays ==
    ASSUME Aside
    PROVE  agents' = agents /\ tabs' = tabs /\ catalog' = catalog /\ hub' = hub /\ pushed' = pushed /\ page' = page
<1>1. CASE UNCHANGED vars  BY <1>1 DEF vars
<1>2. ASSUME NEW i \in Instances, ChangedUnpushed(i)
      PROVE  agents' = agents /\ tabs' = tabs /\ catalog' = catalog /\ hub' = hub /\ pushed' = pushed /\ page' = page
  BY <1>2 DEF ChangedUnpushed
<1> QED  BY <1>1, <1>2 DEF Aside

-----------------------------------------------------------------------------
(* What a wire settles.  The messages of K set a state anew, those of G    *)
(* to the good value, and now says whether it has that value: once every   *)
(* message of s has been taken, it has.                                    *)
Lacks(s, K) == \A k \in 1..Len(s) : s[k] \notin K
Settles(s, K, G, now) ==
    \/ \E k \in 1..Len(s) : s[k] \in G /\ \A n \in 1..Len(s) : n > k => s[n] \notin K
    \/ Lacks(s, K) /\ now

LEMMA SettlesEmpty ==
    ASSUME NEW K, NEW G, NEW now \in BOOLEAN PROVE Settles(<<>>, K, G, now) <=> now
BY DEF Settles, Lacks

LEMMA SettlesEither ==
    ASSUME NEW s, NEW K, NEW G, NEW now \in BOOLEAN, NEW later \in BOOLEAN, Settles(s, K, G, now), now => later
    PROVE  Settles(s, K, G, later)
BY DEF Settles

(* A message that is sent decides alone, or changes nothing.               *)
LEMMA SettlesSend ==
    ASSUME NEW S, NEW s \in Seq(S), NEW f \in S, NEW K, NEW G \in SUBSET K, NEW now \in BOOLEAN
    PROVE  /\ f \in G => Settles(s \o <<f>>, K, G, now)
           /\ f \notin K => (Settles(s \o <<f>>, K, G, now) <=> Settles(s, K, G, now))
           /\ f \in K /\ f \notin G => ~Settles(s \o <<f>>, K, G, now)
<1> DEFINE u == s \o <<f>>
<1>1. Len(s) \in Nat /\ Len(u) = Len(s) + 1 /\ u[Len(s) + 1] = f /\ \A k \in 1..Len(s) : u[k] = s[k]
  BY ConcatProperties
<1> HIDE DEF u
<1>2. f \in G => Settles(u, K, G, now)
  BY <1>1 DEF Settles
<1>3. f \notin K => (Settles(u, K, G, now) <=> Settles(s, K, G, now))
  <2> SUFFICES ASSUME f \notin K PROVE Settles(u, K, G, now) <=> Settles(s, K, G, now)  OBVIOUS
  <2>1. Lacks(u, K) <=> Lacks(s, K)
    BY <1>1 DEF Lacks
  <2>2. ASSUME NEW k \in 1..Len(u), u[k] \in G, \A n \in 1..Len(u) : n > k => u[n] \notin K
        PROVE  Settles(s, K, G, now)
    BY <1>1, <2>2 DEF Settles
  <2>3. ASSUME NEW k \in 1..Len(s), s[k] \in G, \A n \in 1..Len(s) : n > k => s[n] \notin K
        PROVE  Settles(u, K, G, now)
    <3>1. k \in 1..Len(u) /\ u[k] \in G  BY <1>1, <2>3
    <3>2. \A n \in 1..Len(u) : n > k => u[n] \notin K  BY <1>1, <2>3
    <3> QED  BY <3>1, <3>2 DEF Settles
  <2> QED  BY <2>1, <2>2, <2>3 DEF Settles
<1>4. f \in K /\ f \notin G => ~Settles(u, K, G, now)
  BY <1>1 DEF Settles, Lacks
<1> QED  BY <1>2, <1>3, <1>4 DEF u

(* A message that is taken sets the state it carries.                      *)
LEMMA SettlesTake ==
    ASSUME NEW S, NEW s \in Seq(S), s # <<>>, NEW K, NEW G \in SUBSET K, NEW now \in BOOLEAN, NEW later \in BOOLEAN
    PROVE  /\ Settles(s, K, G, now) /\ (Head(s) \in G => later) /\ (Head(s) \notin K /\ now => later)
                => Settles(Tail(s), K, G, later)
           /\ Settles(Tail(s), K, G, later) /\ (later => Head(s) \in G \/ (Head(s) \notin K /\ now))
                => Settles(s, K, G, now)
<1> DEFINE u == Tail(s)
<1>1. Len(s) \in Nat /\ Len(s) > 0 /\ Len(u) = Len(s) - 1 /\ Head(s) = s[1] /\ \A k \in 1..Len(u) : u[k] = s[k + 1]
  BY HeadTailProperties, EmptySeq
<1> HIDE DEF u
<1>2. \A k \in 1..Len(s) : k = 1 \/ (k - 1 \in 1..Len(u) /\ s[k] = u[k - 1])
  BY <1>1
<1>3. Lacks(s, K) <=> Lacks(u, K) /\ Head(s) \notin K
  BY <1>1, <1>2 DEF Lacks
<1> DEFINE Ends(w) == \E k \in 1..Len(w) : w[k] \in G /\ \A n \in 1..Len(w) : n > k => w[n] \notin K
<1>4. Ends(u) => Ends(s)
  <2> SUFFICES ASSUME NEW k \in 1..Len(u), u[k] \in G, \A n \in 1..Len(u) : n > k => u[n] \notin K PROVE Ends(s)
    OBVIOUS
  <2>1. k + 1 \in 1..Len(s) /\ s[k + 1] \in G  BY <1>1
  <2>2. ASSUME NEW n \in 1..Len(s), n > k + 1 PROVE s[n] \notin K
    <3>1. n - 1 \in 1..Len(u) /\ s[n] = u[n - 1] /\ n - 1 > k  BY <1>1, <1>2, <2>2
    <3> QED  BY <3>1
  <2> QED  BY <2>1, <2>2
<1>5. Head(s) \in G /\ Lacks(u, K) => Ends(s)
  <2> SUFFICES ASSUME Head(s) \in G, Lacks(u, K) PROVE Ends(s)  OBVIOUS
  <2>1. 1 \in 1..Len(s) /\ s[1] \in G  BY <1>1
  <2>2. \A n \in 1..Len(s) : n > 1 => s[n] \notin K  BY <1>1, <1>2 DEF Lacks
  <2> QED  BY <2>1, <2>2
<1>6. Ends(s) => Ends(u) \/ (Head(s) \in G /\ Lacks(u, K))
  <2> SUFFICES ASSUME NEW k \in 1..Len(s), s[k] \in G, \A n \in 1..Len(s) : n > k => s[n] \notin K
               PROVE  Ends(u) \/ (Head(s) \in G /\ Lacks(u, K))
    OBVIOUS
  <2>1. \A n \in 1..Len(u) : n + 1 > k => u[n] \notin K  BY <1>1
  <2>2. CASE k = 1  BY <1>1, <2>1, <2>2 DEF Lacks
  <2>3. CASE k # 1
    <3>1. k - 1 \in 1..Len(u) /\ u[k - 1] \in G  BY <1>2, <2>3
    <3>2. \A n \in 1..Len(u) : n > k - 1 => u[n] \notin K  BY <1>1, <2>1
    <3> QED  BY <3>1, <3>2
  <2> QED  BY <2>2, <2>3
<1>7. /\ Settles(s, K, G, now) <=> Ends(s) \/ (Lacks(s, K) /\ now)
      /\ Settles(u, K, G, later) <=> Ends(u) \/ (Lacks(u, K) /\ later)
  BY DEF Settles
<1> HIDE DEF Ends
<1> QED  BY <1>3, <1>4, <1>5, <1>6, <1>7 DEF u

(* A wire's tail of other messages changes nothing.                        *)
LEMMA SettlesPast ==
    ASSUME NEW S, NEW s \in Seq(S), NEW t \in Seq(S), NEW K, NEW G \in SUBSET K, NEW now \in BOOLEAN, Lacks(t, K)
    PROVE  Settles(s \o t, K, G, now) <=> Settles(s, K, G, now)
<1> DEFINE u == s \o t
<1>1. /\ Len(s) \in Nat /\ Len(t) \in Nat /\ Len(u) = Len(s) + Len(t) /\ \A k \in 1..Len(s) : u[k] = s[k]
      /\ \A k \in 1..Len(u) : k \notin 1..Len(s) => u[k] = t[k - Len(s)] /\ k - Len(s) \in 1..Len(t)
  BY ConcatProperties
<1> HIDE DEF u
<1>2. \A k \in 1..Len(u) : k \notin 1..Len(s) => u[k] \notin K  BY <1>1 DEF Lacks
<1>3. Lacks(u, K) <=> Lacks(s, K)  BY <1>1, <1>2 DEF Lacks
<1>4. ASSUME NEW k \in 1..Len(u), u[k] \in G, \A n \in 1..Len(u) : n > k => u[n] \notin K
      PROVE  Settles(s, K, G, now)
  <2>1. k \in 1..Len(s)  BY <1>2, <1>4
  <2>2. \A n \in 1..Len(s) : n > k => s[n] \notin K  BY <1>1, <1>4
  <2> QED  BY <1>1, <1>4, <2>1, <2>2 DEF Settles
<1>5. ASSUME NEW k \in 1..Len(s), s[k] \in G, \A n \in 1..Len(s) : n > k => s[n] \notin K
      PROVE  Settles(u, K, G, now)
  <2>1. k \in 1..Len(u) /\ u[k] \in G  BY <1>1, <1>5
  <2>2. \A n \in 1..Len(u) : n > k => u[n] \notin K  BY <1>1, <1>2, <1>5
  <2> QED  BY <2>1, <2>2 DEF Settles
<1>6. Settles(u, K, G, now) <=> Settles(s, K, G, now)  BY <1>3, <1>4, <1>5 DEF Settles
<1> QED  BY <1>6 DEF u

-----------------------------------------------------------------------------
(* A window as the theorems see it: the frames on their way to the relay   *)
(* and the events on their way to the pager, wherever they are.            *)
EventsOf(d) == [k \in 1..Len(d) |-> event_from_cloud(d[k])]
Socketed(i) == agents[hub[i].conn]
Way(i) == Socketed(i).up \o hub[i].out
Coming(i) == hub[i].in \o EventsOf(Socketed(i).down)

Lists == {f \in UpFrames : f.type = "session_catalog"}
ListsOf(l) == {f \in Lists : f.list = l}
Snaps == {f \in UpFrames : f.type = "snapshot"}
SnapsOf(x) == {f \in Snaps : f.text = x}
TabSnaps(i) == {f \in TabFrames : f.type = "snapshot" /\ f.inst = i}
TabSnapsOf(i, x) == {f \in TabSnaps(i) : f.text = x}
Orders == {"RequestSnapshot", "StopWatching"}
Requests == {"RequestSnapshot"}
Occurs(s, e) == \E k \in 1..Len(s) : s[k] = e

\* The window will be mirroring once the events on their way are handled.
Mirrors(i) == Settles(Coming(i), Orders, Requests, hub[i].watching)

(* The step leaves the frames, or the events, of window i alone.           *)
UpIdle(i) == /\ hub'[i].conn = hub[i].conn /\ hub'[i].key = hub[i].key
             /\ Socketed(i)'.code = Socketed(i).code /\ Way(i)' = Way(i)
DownIdle(i) == /\ hub'[i].conn = hub[i].conn /\ hub'[i].watching = hub[i].watching
               /\ Coming(i)' = Coming(i)
\* The relay takes the window's next frame, of this type.
UpTaken(i, f) == /\ hub'[i].conn = hub[i].conn /\ hub'[i].key = hub[i].key
                 /\ Socketed(i)'.code = Socketed(i).code
                 /\ Way(i) # <<>> /\ Head(Way(i)) = f /\ Way(i)' = Tail(Way(i))

LEMMA CloudEvent ==
    ASSUME NEW f \in DownFrames
    PROVE  /\ event_from_cloud(f) \in Events \ {"Status", "PairingReady"}
           /\ f.type = "subscribe" => event_from_cloud(f) = "RequestSnapshot"
           /\ f.type = "unsubscribe" => event_from_cloud(f) = "StopWatching"
           /\ f.type = "prompt" => event_from_cloud(f) = "InboundPrompt"
<1>1. f.type = "subscribe" \/ f.type = "unsubscribe" \/ f.type = "prompt"  BY DEF DownFrames, Frame
<1> QED  BY <1>1 DEF event_from_cloud, Events

LEMMA EventsTyped ==
    ASSUME NEW d \in Seq(DownFrames)
    PROVE  /\ EventsOf(d) \in Seq(Events) /\ Len(EventsOf(d)) = Len(d)
           /\ \A k \in 1..Len(d) : EventsOf(d)[k] = event_from_cloud(d[k])
<1>1. Len(d) \in Nat /\ \A k \in 1..Len(d) : d[k] \in DownFrames  BY LenProperties, ElementOfSeq
<1>2. \A k \in 1..Len(d) : event_from_cloud(d[k]) \in Events  BY <1>1, CloudEvent
<1> QED  BY <1>1, <1>2 DEF EventsOf

LEMMA OneMore ==
    ASSUME NEW S, NEW s \in Seq(S), NEW f \in S
    PROVE  /\ s \o <<f>> \in Seq(S) /\ Len(s \o <<f>>) = Len(s) + 1 /\ (s \o <<f>>)[Len(s) + 1] = f
           /\ \A k \in 1..Len(s) : (s \o <<f>>)[k] = s[k]
BY ConcatProperties

LEMMA EventsSend ==
    ASSUME NEW d \in Seq(DownFrames), NEW f \in DownFrames
    PROVE  EventsOf(d \o <<f>>) = EventsOf(d) \o <<event_from_cloud(f)>>
<1> DEFINE e == event_from_cloud(f)  u == d \o <<f>>
<1>0. Len(d) \in Nat /\ <<f>> \in Seq(DownFrames) /\ e \in Events  BY CloudEvent
<1>1. u \in Seq(DownFrames) /\ Len(u) = Len(d) + 1 /\ u[Len(d) + 1] = f /\ \A k \in 1..Len(d) : u[k] = d[k]
  BY <1>0, ConcatProperties
<1> HIDE DEF u
<1>2. /\ EventsOf(u) \in Seq(Events) /\ Len(EventsOf(u)) = Len(d) + 1 /\ EventsOf(u)[Len(d) + 1] = e
      /\ \A k \in 1..Len(d) : EventsOf(u)[k] = event_from_cloud(d[k])
  BY <1>0, <1>1, EventsTyped
<1>3. /\ EventsOf(d) \in Seq(Events) /\ Len(EventsOf(d)) = Len(d)
      /\ \A k \in 1..Len(d) : EventsOf(d)[k] = event_from_cloud(d[k])
  BY EventsTyped
<1> DEFINE E == EventsOf(d)  V == EventsOf(u)
<1> HIDE DEF e, E, V
<1>4. /\ E \in Seq(Events) /\ Len(E) = Len(d) /\ V \in Seq(Events) /\ Len(V) = Len(d) + 1 /\ V[Len(d) + 1] = e
      /\ \A k \in 1..Len(d) : V[k] = E[k]
  BY <1>2, <1>3 DEF E, V
<1>5. E \o <<e>> \in Seq(Events) /\ Len(E \o <<e>>) = Len(d) + 1 /\ (E \o <<e>>)[Len(d) + 1] = e
      /\ \A k \in 1..Len(d) : (E \o <<e>>)[k] = E[k]
  BY <1>0, <1>4, OneMore
<1>6. \A k \in 1..Len(V) : V[k] = (E \o <<e>>)[k]
  BY <1>0, <1>4, <1>5
<1>7. V = E \o <<e>>  BY <1>4, <1>5, <1>6, SeqEqual
<1> QED  BY <1>7 DEF V, E, e, u

LEMMA EventsTake ==
    ASSUME NEW d \in Seq(DownFrames), d # <<>>
    PROVE  EventsOf(d) = <<event_from_cloud(Head(d))>> \o EventsOf(Tail(d))
<1> DEFINE e == event_from_cloud(Head(d))  u == Tail(d)
<1>0. Len(d) \in Nat /\ Len(d) > 0 /\ Head(d) = d[1] /\ Head(d) \in DownFrames  BY HeadTailProperties, EmptySeq
<1>1. u \in Seq(DownFrames) /\ Len(u) = Len(d) - 1 /\ \A k \in 1..Len(u) : u[k] = d[k + 1]
  BY HeadTailProperties
<1>2. e \in Events /\ e = event_from_cloud(d[1])  BY <1>0, CloudEvent
<1> HIDE DEF e, u
<1>3. /\ EventsOf(u) \in Seq(Events) /\ Len(EventsOf(u)) = Len(u)
      /\ \A k \in 1..Len(u) : EventsOf(u)[k] = event_from_cloud(u[k])
  BY <1>1, EventsTyped
<1>4. /\ EventsOf(d) \in Seq(Events) /\ Len(EventsOf(d)) = Len(d)
      /\ \A k \in 1..Len(d) : EventsOf(d)[k] = event_from_cloud(d[k])
  BY EventsTyped
<1> DEFINE E == EventsOf(d)  V == EventsOf(u)
<1>5. /\ E \in Seq(Events) /\ Len(E) = Len(d) /\ V \in Seq(Events) /\ Len(V) = Len(d) - 1 /\ E[1] = e
      /\ \A k \in 1..Len(V) : V[k] = E[k + 1]
  <2>1. ASSUME NEW k \in 1..Len(u) PROVE V[k] = E[k + 1]
    <3>1. k + 1 \in 1..Len(d)  BY <1>0, <1>1
    <3> QED  BY <1>1, <1>3, <1>4, <3>1
  <2> QED  BY <1>0, <1>1, <1>2, <1>3, <1>4, <2>1
<1> HIDE DEF E, V
<1>6. /\ <<e>> \o V \in Seq(Events) /\ Len(<<e>> \o V) = Len(d) /\ (<<e>> \o V)[1] = e
      /\ \A k \in 2..Len(d) : (<<e>> \o V)[k] = V[k - 1]
  BY <1>0, <1>2, <1>5, ConcatProperties
<1>7. \A k \in 2..Len(d) : V[k - 1] = E[k]
  <2> TAKE k \in 2..Len(d)
  <2>1. k - 1 \in 1..Len(V) /\ (k - 1) + 1 = k  BY <1>0, <1>5
  <2> QED  BY <1>5, <2>1
<1>8. \A k \in 1..Len(d) : E[k] = (<<e>> \o V)[k]  BY <1>0, <1>5, <1>6, <1>7
<1>9. E = <<e>> \o V  BY <1>5, <1>6, <1>8, SeqEqual
<1> QED  BY <1>9 DEF E, V, e, u

LEMMA TailConcat ==
    ASSUME NEW S, NEW s \in Seq(S), NEW t \in Seq(S), s # <<>>
    PROVE  s \o t # <<>> /\ Head(s \o t) = Head(s) /\ Tail(s \o t) = Tail(s) \o t
<1>0. Len(s) \in Nat /\ Len(t) \in Nat /\ Len(s) > 0  BY EmptySeq, LenProperties
<1>1. s \o t \in Seq(S) /\ Len(s \o t) = Len(s) + Len(t)
      /\ \A k \in 1..Len(s) + Len(t) : (s \o t)[k] = IF k <= Len(s) THEN s[k] ELSE t[k - Len(s)]
  BY ConcatProperties
<1>2. s \o t # <<>>  BY <1>0, <1>1, EmptySeq
<1>3. Tail(s) \in Seq(S) /\ Len(Tail(s)) = Len(s) - 1 /\ \A k \in 1..Len(Tail(s)) : Tail(s)[k] = s[k + 1]
  BY HeadTailProperties
<1>4. /\ Tail(s \o t) \in Seq(S) /\ Len(Tail(s \o t)) = Len(s) + Len(t) - 1
      /\ \A k \in 1..Len(Tail(s \o t)) : Tail(s \o t)[k] = (s \o t)[k + 1]
  BY <1>1, <1>2, HeadTailProperties
<1>5. /\ Tail(s) \o t \in Seq(S) /\ Len(Tail(s) \o t) = Len(s) - 1 + Len(t)
      /\ \A k \in 1..Len(s) - 1 + Len(t) : (Tail(s) \o t)[k] = IF k <= Len(s) - 1 THEN Tail(s)[k] ELSE t[k - (Len(s) - 1)]
  BY <1>3, ConcatProperties
<1> DEFINE x == Tail(s \o t)  y == Tail(s) \o t
<1>6. ASSUME NEW k \in 1..Len(x) PROVE x[k] = y[k]
  <2>1. k \in 1..Len(s) - 1 + Len(t) /\ k + 1 \in 1..Len(s) + Len(t)  BY <1>0, <1>4
  <2>2. x[k] = IF k + 1 <= Len(s) THEN s[k + 1] ELSE t[k + 1 - Len(s)]  BY <1>1, <1>4, <2>1
  <2>3. y[k] = IF k <= Len(s) - 1 THEN s[k + 1] ELSE t[k - (Len(s) - 1)]  BY <1>0, <1>3, <1>5, <2>1
  <2>4. k + 1 - Len(s) = k - (Len(s) - 1)  BY <1>0, <2>1
  <2> QED  BY <1>0, <2>1, <2>2, <2>3, <2>4
<1>7. x \in Seq(S) /\ y \in Seq(S) /\ Len(x) = Len(y)  BY <1>0, <1>4, <1>5
<1> HIDE DEF x, y
<1>8. x = y  BY <1>6, <1>7, SeqEqual
<1>9. Head(s \o t) = Head(s)  BY <1>0, <1>1
<1> QED  BY <1>2, <1>8, <1>9 DEF x, y

-----------------------------------------------------------------------------
(* What the steps do to a connected window.                                *)
LEMMA WindowTyped ==
    ASSUME IInv, NEW i \in Instances, hub[i].conn # 0
    PROVE  /\ hub[i].conn \in DOMAIN agents /\ Socketed(i) \in Sockets /\ hub[i] \in HubState
           /\ Socketed(i).inst = i /\ Socketed(i).live /\ Socketed(i).st = "open"
           /\ Socketed(i).up \in Seq(UpFrames) /\ Socketed(i).down \in Seq(DownFrames)
           /\ hub[i].out \in Seq(UpFrames) /\ hub[i].in \in Seq(Events) /\ hub[i].watching \in BOOLEAN
           /\ EventsOf(Socketed(i).down) \in Seq(Events)
           /\ Way(i) \in Seq(UpFrames) /\ Coming(i) \in Seq(Events)
<1>1. /\ hub[i].conn \in DOMAIN agents /\ Socketed(i) \in Sockets /\ hub[i] \in HubState
      /\ Socketed(i).inst = i /\ Socketed(i).live /\ Socketed(i).st = "open"
  BY HubSocket DEF Socketed
<1>2. Socketed(i).up \in Seq(UpFrames) /\ Socketed(i).down \in Seq(DownFrames)
  BY <1>1 DEF Sockets, Socket
<1>3. hub[i].out \in Seq(UpFrames) /\ hub[i].in \in Seq(Events) /\ hub[i].watching \in BOOLEAN
  BY <1>1 DEF HubState
<1>4. EventsOf(Socketed(i).down) \in Seq(Events)  BY <1>2, EventsTyped
<1>5. Way(i) \in Seq(UpFrames)  BY <1>2, <1>3, ConcatProperties DEF Way
<1>6. Coming(i) \in Seq(Events)  BY <1>3, <1>4, ConcatProperties DEF Coming
<1> QED  BY <1>1, <1>2, <1>3, <1>4, <1>5, <1>6

(* The relay's open socket of a connected window is the window's own.      *)
LEMMA OwnSocket ==
    ASSUME IInv, NEW i \in Instances, hub[i].conn # 0, NEW c \in DOMAIN agents, agents[c].st = "open", agents[c].inst = i
    PROVE  c = hub[i].conn
<1>1. hub[i].conn \in DOMAIN agents /\ agents[hub[i].conn].inst = i /\ agents[hub[i].conn].st = "open"
      /\ agents \in Seq(Sockets)
  BY HubSocket
<1>2. DOMAIN agents = 1..Len(agents)  BY <1>1, LenProperties
<1> QED  BY <1>1, <1>2 DEF IInv, SocketInv, OneOpen

LEMMA WindowIdle ==
    ASSUME NEW i \in Instances, hub'[i] = hub[i], agents'[hub[i].conn] = agents[hub[i].conn]
    PROVE  UpIdle(i) /\ DownIdle(i)
BY DEF UpIdle, DownIdle, Way, Coming, Socketed

LEMMA SocketIdle ==
    ASSUME NEW i \in Instances, hub'[i] = hub[i]
    PROVE  LET c == hub[i].conn IN
           /\ agents'[c].up = agents[c].up /\ agents'[c].code = agents[c].code => UpIdle(i)
           /\ agents'[c].down = agents[c].down => DownIdle(i)
BY DEF UpIdle, DownIdle, Way, Coming, Socketed

(* The relay takes the first frame of an agent's open socket.              *)
LEMMA FrameLeaves ==
    ASSUME IInv, hub' = hub, NEW c \in DOMAIN agents, agents[c].st = "open", agents[c].up # <<>>,
           NEW x, agents' = [agents EXCEPT ![c] = x],
           x.up = Tail(agents[c].up), x.down = agents[c].down, x.code = agents[c].code,
           NEW i \in Instances, hub[i].conn # 0
    PROVE  /\ DownIdle(i)
           /\ i # agents[c].inst => UpIdle(i)
           /\ i = agents[c].inst => UpTaken(i, Head(agents[c].up))
<1>1. /\ hub[i].conn \in DOMAIN agents /\ Socketed(i).inst = i /\ Socketed(i).up \in Seq(UpFrames)
      /\ hub[i].out \in Seq(UpFrames)
  BY WindowTyped
<1>2. CASE i # agents[c].inst
  <2>1. hub[i].conn # c  BY <1>1, <1>2 DEF Socketed
  <2>2. agents'[hub[i].conn] = agents[hub[i].conn]  BY <1>1, <2>1
  <2> QED  BY <1>2, <2>2, WindowIdle
<1>3. CASE i = agents[c].inst
  <2>1. hub[i].conn = c  BY <1>3, OwnSocket
  <2>2. agents'[c] = x  BY <1>1
  <2>3. DownIdle(i)  BY <2>1, <2>2, SocketIdle
  <2>4. Way(i)' = Tail(Socketed(i).up) \o hub[i].out  BY <2>1, <2>2 DEF Way, Socketed
  <2>5. Way(i) # <<>> /\ Head(Way(i)) = Head(agents[c].up) /\ Tail(Way(i)) = Tail(Socketed(i).up) \o hub[i].out
    BY <1>1, <2>1, TailConcat DEF Way, Socketed
  <2>6. UpTaken(i, Head(agents[c].up))  BY <2>1, <2>2, <2>4, <2>5 DEF UpTaken, Socketed
  <2> QED  BY <1>3, <2>3, <2>6
<1> QED  BY <1>2, <1>3

LEMMA RelayTakes ==
    ASSUME IInv, hub' = hub, NEW c, OnHello(c) \/ OnSessionCatalog(c) \/ OnSnapshot(c),
           NEW i \in Instances, hub[i].conn # 0
    PROVE  /\ c \in DOMAIN agents /\ agents[c].inst \in Instances /\ Head(agents[c].up) \in UpFrames
           /\ DownIdle(i)
           /\ i # agents[c].inst => UpIdle(i)
           /\ i = agents[c].inst => UpTaken(i, Head(agents[c].up))
<1>1. PICK type : AgentFrame(c, type)  BY DEF OnHello, OnSessionCatalog, OnSnapshot
<1>2. c \in DOMAIN agents /\ agents[c].st = "open" /\ agents[c].up # <<>>  BY <1>1 DEF AgentFrame, OpenAgents
<1> DEFINE a == agents[c]  h == IF a.code THEN "meta" ELSE "touch"
           x == [a EXCEPT !.up = Tail(a.up)]
           y == [[a EXCEPT !.up = Tail(a.up)] EXCEPT !.hello = h]
<1>3. WiresInv /\ a \in Sockets /\ a.inst \in Instances /\ a.up \in Seq(UpFrames)  BY <1>2, OpenSocket DEF IInv
<1>4. /\ x.up = Tail(a.up) /\ x.down = a.down /\ x.code = a.code
      /\ y.up = Tail(a.up) /\ y.down = a.down /\ y.code = a.code
  BY <1>3 DEF Sockets, Socket
<1>5. agents' = [agents EXCEPT ![c] = x] \/ agents' = [agents EXCEPT ![c] = y]
  <2>1. CASE OnHello(c)
    <3>1. agents' = [agents EXCEPT ![c] = y]  BY <1>2, <1>3, <2>1 DEF OnHello, TakeUp
    <3> QED  BY <3>1
  <2>2. CASE OnSessionCatalog(c) \/ OnSnapshot(c)
    BY <2>2 DEF OnSessionCatalog, OnSnapshot, TakeUp
  <2> QED  BY <2>1, <2>2
<1> HIDE DEF x, y
<1>6. Head(a.up) \in UpFrames  BY <1>2, <1>3, HeadTailProperties
<1>7. CASE agents' = [agents EXCEPT ![c] = x]  BY <1>2, <1>3, <1>4, <1>6, <1>7, FrameLeaves
<1>8. CASE agents' = [agents EXCEPT ![c] = y]  BY <1>2, <1>3, <1>4, <1>6, <1>8, FrameLeaves
<1> QED  BY <1>5, <1>7, <1>8

LEMMA RelayNotes ==
    ASSUME IInv, hub' = hub, NEW c \in DOMAIN agents,
           HelloSaves(c) \/ HelloFails(c) \/ HelloBroadcasts(c) \/ AgentClose(c),
           NEW i \in Instances, hub[i].conn # 0
    PROVE  UpIdle(i) /\ DownIdle(i)
<1>1. agents[c] \in Sockets  BY OpenSocket DEF IInv
<1>2. PICK h \in {"touch", "failed", "done"} :
        agents' = [agents EXCEPT ![c] = WithHello(agents[c], h)] \/ agents' = [agents EXCEPT ![c] = WithSt(agents[c], "closed")]
  BY DEF HelloSaves, HelloFails, HelloBroadcasts, AgentClose, WithHello, WithSt
<1> DEFINE a == agents[c]  x == WithHello(a, h)  y == WithSt(a, "closed")
<1>3. /\ x.up = a.up /\ x.down = a.down /\ x.code = a.code
      /\ y.up = a.up /\ y.down = a.down /\ y.code = a.code
  BY <1>1 DEF WithHello, WithSt, Sockets, Socket
<1> HIDE DEF x, y
<1> DEFINE d == hub[i].conn
<1>4. d \in DOMAIN agents  BY WindowTyped
<1> HIDE DEF d
<1>5. agents'[d].up = agents[d].up /\ agents'[d].code = agents[d].code /\ agents'[d].down = agents[d].down
  BY <1>2, <1>3, <1>4 DEF x, y
<1> QED  BY <1>5, SocketIdle DEF d

(* A frame sent to a connected window is the last of its events.           *)
LEMMA WindowTold ==
    ASSUME IInv, NEW i \in Instances, hub[i].conn # 0, hub'[i] = hub[i], NEW d \in Seq(DownFrames), NEW f \in DownFrames,
           agents'[hub[i].conn].down = d \o <<f>>
    PROVE  /\ Coming(i)' = (hub[i].in \o EventsOf(d)) \o <<event_from_cloud(f)>>
           /\ hub[i].in \o EventsOf(d) \in Seq(Events)
<1> DEFINE u == hub[i].in  e == event_from_cloud(f)
<1>1. u \in Seq(Events) /\ EventsOf(d) \in Seq(Events)  BY WindowTyped, EventsTyped
<1>2. e \in Events /\ <<e>> \in Seq(Events)  BY CloudEvent
<1>3. EventsOf(d \o <<f>>) = EventsOf(d) \o <<e>>  BY EventsSend
<1>4. Coming(i)' = u \o EventsOf(d \o <<f>>)  BY DEF Coming, Socketed
<1> HIDE DEF u, e
<1>5. u \o (EventsOf(d) \o <<e>>) = (u \o EventsOf(d)) \o <<e>>  BY <1>1, <1>2, ConcatAssociative
<1>6. u \o EventsOf(d) \in Seq(Events)  BY <1>1, ConcatProperties
<1> QED  BY <1>3, <1>4, <1>5, <1>6 DEF e, u

LEMMA WindowSent ==
    ASSUME IInv, NEW i \in Instances, hub[i].conn # 0, hub'[i] = hub[i], NEW f \in DownFrames,
           agents'[hub[i].conn].down = Socketed(i).down \o <<f>>
    PROVE  Coming(i)' = Coming(i) \o <<event_from_cloud(f)>>
<1>1. Socketed(i).down \in Seq(DownFrames)  BY WindowTyped
<1> QED  BY <1>1, WindowTold DEF Coming

LEMMA SentLive ==
    ASSUME NEW a \in Sockets, a.live, NEW fs PROVE Sent(a, fs).down = a.down \o fs
BY DEF Sent, Sockets, Socket

LEMMA RelayPrompts ==
    ASSUME IInv, hub' = hub, NEW t, OnPrompt(t), NEW i \in Instances, hub[i].conn # 0
    PROVE  /\ UpIdle(i) /\ hub'[i] = hub[i]
           /\ Coming(i)' = Coming(i) \/ Coming(i)' = Coming(i) \o <<"InboundPrompt">>
<1> DEFINE f == Head(tabs[t].up)
<1>0. WiresInv /\ agents \in Seq(Sockets)  BY DEF IInv, WiresInv
<1>1. t \in DOMAIN tabs /\ tabs[t].up # <<>> /\ f.type = "prompt"  BY DEF OnPrompt, TabFrame, OpenTabs
<1>2. tabs[t] \in Browsers  BY <1>0, <1>1, OpenTab
<1>3. f \in TabFrameUp  BY <1>1, <1>2, TakenKept
<1>4. f \in DownFrames
  <2>1. f \in [type : {"prompt"}, inst : Instances]  BY <1>1, <1>3 DEF TabFrameUp
  <2> QED  BY <2>1 DEF DownFrames
<1>5. PICK j : agents' = sendAgentInstance(agents, j, f)  BY DEF OnPrompt
<1> HIDE DEF f
<1> DEFINE c == hub[i].conn  a == agents[c]
<1>6. c \in DOMAIN agents /\ a \in Sockets /\ a.live  BY WindowTyped DEF Socketed
<1>7. agents'[c] = a \/ agents'[c] = Sent(a, <<f>>)  BY <1>5, <1>6 DEF sendAgentInstance
<1>8. CASE agents'[c] = a
  BY <1>8, WindowIdle DEF DownIdle
<1>9. CASE agents'[c] = Sent(a, <<f>>)
  <2>1. agents'[c].up = a.up /\ agents'[c].code = a.code /\ agents'[c].down = a.down \o <<f>>
    BY <1>6, <1>9, SentUp, SentLive DEF Sent, Sockets, Socket
  <2>2. UpIdle(i)  BY <2>1, SocketIdle
  <2>a. hub'[i] = hub[i] /\ agents'[hub[i].conn].down = Socketed(i).down \o <<f>>  BY <2>1 DEF Socketed
  <2>3. Coming(i)' = Coming(i) \o <<event_from_cloud(f)>>  BY <1>4, <2>a, WindowSent
  <2>4. event_from_cloud(f) = "InboundPrompt"  BY <1>1, <1>4, CloudEvent
  <2> QED  BY <2>2, <2>3, <2>4
<1> QED  BY <1>7, <1>8, <1>9

(* recomputeSubscriptions leaves every connected window told whether it is *)
(* watched, whatever was on its way before.                                *)
Subscribed(i) ==
    /\ UpIdle(i) /\ hub'[i] = hub[i]
    /\ Mirrors(i)' <=> i \in watchedInstanceIds(tabs')
    /\ Mirrors(i)' => Occurs(Coming(i)', "RequestSnapshot")

LEMMA OrderSettles ==
    ASSUME NEW s \in Seq(Events), NEW now \in BOOLEAN
    PROVE  /\ Settles(s \o <<"RequestSnapshot">>, Orders, Requests, now)
           /\ Occurs(s \o <<"RequestSnapshot">>, "RequestSnapshot")
           /\ ~Settles(s \o <<"StopWatching">>, Orders, Requests, now)
<1>1. "RequestSnapshot" \in Events /\ "StopWatching" \in Events /\ Requests \in SUBSET Orders
      /\ "RequestSnapshot" \in Requests /\ "StopWatching" \in Orders /\ "StopWatching" \notin Requests
  BY DEF Events, Orders, Requests
<1>2. /\ Settles(s \o <<"RequestSnapshot">>, Orders, Requests, now)
      /\ ~Settles(s \o <<"StopWatching">>, Orders, Requests, now)
  BY <1>1, SettlesSend
<1>3. Len(s) \in Nat /\ Len(s \o <<"RequestSnapshot">>) = Len(s) + 1 /\ (s \o <<"RequestSnapshot">>)[Len(s) + 1] = "RequestSnapshot"
  BY <1>1, OneMore, LenProperties
<1>4. Occurs(s \o <<"RequestSnapshot">>, "RequestSnapshot")  BY <1>3 DEF Occurs
<1> QED  BY <1>2, <1>4

LEMMA SubscribeFrames ==
    /\ Frame("subscribe") \in DownFrames /\ event_from_cloud(Frame("subscribe")) = "RequestSnapshot"
    /\ Frame("unsubscribe") \in DownFrames /\ event_from_cloud(Frame("unsubscribe")) = "StopWatching"
<1>1. Frame("subscribe") \in DownFrames /\ Frame("unsubscribe") \in DownFrames  BY DEF DownFrames
<1>2. Frame("subscribe").type = "subscribe" /\ Frame("unsubscribe").type = "unsubscribe"  BY DEF Frame
<1> QED  BY <1>1, <1>2, CloudEvent

(* A window's socket after the recomputation.                              *)
LEMMA RecomputedSocket ==
    ASSUME IInv, NEW i \in Instances, hub[i].conn # 0, NEW T
    PROVE  LET x == recomputeSubscriptions(agents, T)[hub[i].conn]  a == Socketed(i) IN
           /\ x \in Sockets /\ x.live /\ x.up = a.up /\ x.code = a.code
           /\ i \in watchedInstanceIds(T) => x.down = a.down \o <<Frame("subscribe")>>
           /\ i \notin watchedInstanceIds(T) => x.down = a.down \o <<Frame("unsubscribe")>>
<1> DEFINE c == hub[i].conn  a == Socketed(i)  x == recomputeSubscriptions(agents, T)[c]
           f == IF i \in watchedInstanceIds(T) THEN Frame("subscribe") ELSE Frame("unsubscribe")
<1>1. c \in DOMAIN agents /\ a \in Sockets /\ a.inst = i /\ a.st = "open" /\ a.live /\ a = agents[c]
  BY WindowTyped DEF Socketed
<1>2. x = Sent(a, <<f>>)  BY <1>1 DEF recomputeSubscriptions
<1>3. f \in DownFrames /\ f.type # "prompt"  BY SubscribeFrames DEF Frame
<1> HIDE DEF f, a, x
<1>4. x \in Sockets /\ SameEnd(a, x)  BY <1>1, <1>2, <1>3, SentSocket
<1>5. x.up = a.up /\ x.down = a.down \o <<f>>  BY <1>1, <1>2, SentUp, SentLive
<1> QED  BY <1>1, <1>4, <1>5 DEF SameEnd, f, a, x, c

LEMMA RelayClosesTab ==
    ASSUME IInv, hub' = hub, NEW t, TabClose(t), NEW i \in Instances, hub[i].conn # 0
    PROVE  Subscribed(i)
<1> DEFINE c == hub[i].conn  x == recomputeSubscriptions(agents, tabs')[c]  a == Socketed(i)
<1>1. agents' = recomputeSubscriptions(agents, tabs')  BY DEF TabClose
<1>2. agents'[c] = x  BY <1>1
<1>3. /\ x.up = a.up /\ x.code = a.code
      /\ i \in watchedInstanceIds(tabs') => x.down = a.down \o <<Frame("subscribe")>>
      /\ i \notin watchedInstanceIds(tabs') => x.down = a.down \o <<Frame("unsubscribe")>>
  BY RecomputedSocket
<1> HIDE DEF x
<1>4. Coming(i) \in Seq(Events) /\ hub[i].watching \in BOOLEAN  BY WindowTyped
<1>5. UpIdle(i) /\ hub'[i] = hub[i]  BY <1>2, <1>3, SocketIdle DEF Socketed
<1>6. CASE i \in watchedInstanceIds(tabs')
  <2>1. Coming(i)' = Coming(i) \o <<"RequestSnapshot">>
    BY <1>2, <1>3, <1>5, <1>6, WindowSent, SubscribeFrames
  <2> QED  BY <1>4, <1>5, <1>6, <2>1, OrderSettles DEF Subscribed, Mirrors
<1>7. CASE i \notin watchedInstanceIds(tabs')
  <2>1. Coming(i)' = Coming(i) \o <<"StopWatching">>
    BY <1>2, <1>3, <1>5, <1>7, WindowSent, SubscribeFrames
  <2>2. ~Mirrors(i)'
    <3>1. ~Settles(Coming(i) \o <<"StopWatching">>, Orders, Requests, hub[i].watching)  BY <1>4, OrderSettles
    <3> QED  BY <1>5, <2>1, <3>1 DEF Mirrors
  <2> QED  BY <1>5, <1>7, <2>2 DEF Subscribed
<1> QED  BY <1>6, <1>7

LEMMA RelayWatches ==
    ASSUME IInv, hub' = hub, NEW t, OnWatch(t), NEW i \in Instances, hub[i].conn # 0
    PROVE  Subscribed(i)
<1> DEFINE w == Head(tabs[t].up).inst  T == [tabs EXCEPT ![t].up = Tail(@), ![t].watch = w]
           A == recomputeSubscriptions(agents, T)
           c == hub[i].conn  x == A[c]  a == Socketed(i)  W == watchedInstanceIds(T)
<1>0. WiresInv /\ agents \in Seq(Sockets) /\ OneOpen(agents)  BY DEF IInv, WiresInv, SocketInv
<1>1. /\ t \in DOMAIN tabs /\ tabs[t].st = "open" /\ tabs[t].up # <<>>
      /\ agents' = sendAgentInstance(A, w, Frame("subscribe"))
      /\ tabs' = IF AgentsOf(agents, w) # {} THEN T ELSE [T EXCEPT ![t] = Sent(T[t], <<InstanceOffline(w)>>)]
  BY DEF OnWatch, TabFrame, OpenTabs
<1>2. tabs[t] \in Browsers /\ w \in Instances /\ w # None
  BY <1>0, <1>1, OpenTab, TakenKept, RelayAssumption DEF TabFrameUp
<1>3. T[t].st = "open" /\ T[t].watch = w /\ DOMAIN T = DOMAIN tabs /\ T[t].live \in BOOLEAN
      /\ Sent(T[t], <<InstanceOffline(w)>>).st = T[t].st /\ Sent(T[t], <<InstanceOffline(w)>>).watch = T[t].watch
  BY <1>1, <1>2 DEF Browsers, Browser, Sent
<1>4. watchedInstanceIds(tabs') = W
  <2> HIDE DEF T
  <2>1. DOMAIN tabs' = DOMAIN T /\ \A u \in DOMAIN T : tabs'[u].st = T[u].st /\ tabs'[u].watch = T[u].watch
    BY <1>1, <1>3
  <2> QED  BY <2>1 DEF watchedInstanceIds, OpenTabs
<1>5. w \in W  BY <1>1, <1>2, <1>3 DEF watchedInstanceIds, OpenTabs
<1> HIDE DEF w, T, A, W
<1>6. /\ x \in Sockets /\ x.live /\ x.up = a.up /\ x.code = a.code
      /\ i \in W => x.down = a.down \o <<Frame("subscribe")>>
      /\ i \notin W => x.down = a.down \o <<Frame("unsubscribe")>>
  BY RecomputedSocket DEF A, W
<1>7. /\ Coming(i) \in Seq(Events) /\ hub[i].watching \in BOOLEAN /\ a.down \in Seq(DownFrames)
      /\ c \in DOMAIN agents /\ a.inst = i /\ a = agents[c]
  BY WindowTyped DEF Socketed
<1>8. SameEnds(agents, A) /\ DOMAIN A = DOMAIN agents  BY <1>0, Recompute DEF A, recomputeSubscriptions
<1>9. A \in Seq(Sockets) /\ OneOpen(A) /\ x.inst = i
  BY <1>0, <1>7, <1>8, SameOpen, LenProperties DEF SameEnds, SameEnd
<1>10. agents'[c] = x \/ (i = w /\ agents'[c] = Sent(x, <<Frame("subscribe")>>))
  <2>1. AgentsOf(A, w) # {} => A[AgentByInstance(A, w)].inst = w  BY <1>9, ChosenAgent DEF AgentsOf
  <2> QED  BY <1>1, <1>7, <1>8, <1>9, <2>1 DEF sendAgentInstance
<1>11. agents'[c].up = a.up /\ agents'[c].code = a.code
  BY <1>6, <1>10, SentUp DEF Sent, Sockets, Socket
<1>12. UpIdle(i) /\ hub'[i] = hub[i]  BY <1>11, SocketIdle DEF Socketed
<1>13. CASE i \in W
  <2>1. PICK d \in Seq(DownFrames) : agents'[c].down = d \o <<Frame("subscribe")>>
    <3>1. x.down = a.down \o <<Frame("subscribe")>> /\ x.down \in Seq(DownFrames)
      BY <1>6, <1>13 DEF Sockets, Socket
    <3>2. CASE agents'[c] = x  BY <1>7, <3>1, <3>2
    <3>3. CASE agents'[c] = Sent(x, <<Frame("subscribe")>>)  BY <1>6, <3>1, <3>3, SentLive
    <3> QED  BY <1>10, <3>2, <3>3
  <2> DEFINE s == hub[i].in \o EventsOf(d)
  <2>2. Coming(i)' = s \o <<"RequestSnapshot">> /\ s \in Seq(Events)
    BY <1>12, <2>1, WindowTold, SubscribeFrames
  <2> HIDE DEF s
  <2>3. Settles(Coming(i)', Orders, Requests, hub[i].watching) /\ Occurs(Coming(i)', "RequestSnapshot")
    BY <1>7, <2>2, OrderSettles
  <2>4. Mirrors(i)'  BY <1>12, <2>3 DEF Mirrors
  <2> QED  BY <1>4, <1>12, <1>13, <2>3, <2>4 DEF Subscribed
<1>14. CASE i \notin W
  <2>1. agents'[c] = x  BY <1>5, <1>10, <1>14
  <2>2. agents'[hub[i].conn].down = Socketed(i).down \o <<Frame("unsubscribe")>>  BY <1>6, <1>14, <2>1
  <2>3. Coming(i)' = Coming(i) \o <<"StopWatching">>
    BY <1>12, <2>2, WindowSent, SubscribeFrames
  <2>4. ~Mirrors(i)'
    <3>1. ~Settles(Coming(i) \o <<"StopWatching">>, Orders, Requests, hub[i].watching)  BY <1>7, OrderSettles
    <3> QED  BY <1>12, <2>3, <3>1 DEF Mirrors
  <2> QED  BY <1>4, <1>12, <1>14, <2>4 DEF Subscribed
<1> QED  BY <1>13, <1>14

LEMMA WindowPumps ==
    ASSUME IInv, NEW i \in Instances, Pump(i), NEW j \in Instances, hub[j].conn # 0
    PROVE  UpIdle(j) /\ DownIdle(j)
<1> DEFINE c == hub[i].conn  a == agents[c]  o == hub[i].out  x == WithUp(a, Append(a.up, Head(o)))
<1>0. hub[i].conn # 0 /\ o # <<>>  BY DEF Pump
<1>1. /\ c \in DOMAIN agents /\ a \in Sockets /\ hub[i] \in HubState /\ a.st = "open" /\ a.inst = i
      /\ a.up \in Seq(UpFrames) /\ o \in Seq(UpFrames)
  BY <1>0, WindowTyped DEF Socketed
<1>2. hub' = [hub EXCEPT ![i] = WithOut(hub[i], Tail(o))] /\ agents' = [agents EXCEPT ![c] = x]
  BY <1>1 DEF Pump, WithOut, WithUp
<1>3. hub \in [Instances -> HubState]  BY HubSocket
<1>4. CASE j = i
  <2>1. hub'[i].conn = c /\ hub'[i].key = hub[i].key /\ hub'[i].watching = hub[i].watching /\ hub'[i].in = hub[i].in
        /\ hub'[i].out = Tail(o)
    BY <1>1, <1>2, <1>3 DEF WithOut, HubState
  <2>2. agents'[c].up = Append(a.up, Head(o)) /\ agents'[c].code = a.code /\ agents'[c].down = a.down
    <3>1. agents'[c] = x  BY <1>1, <1>2
    <3>2. x.up = Append(a.up, Head(o)) /\ x.code = a.code /\ x.down = a.down  BY <1>1 DEF WithUp, Sockets, Socket
    <3> QED  BY <3>1, <3>2, Zenon
  <2>3. Append(a.up, Head(o)) \o Tail(o) = a.up \o o
    <3> DEFINE p == a.up  f == Head(o)  r == Tail(o)
    <3>1. p \in Seq(UpFrames) /\ f \in UpFrames /\ r \in Seq(UpFrames) /\ o = <<f>> \o r
      BY <1>0, <1>1, HeadTailProperties
    <3> HIDE DEF p, f, r
    <3>2. Append(p, f) = p \o <<f>>  BY <3>1
    <3>3. (p \o <<f>>) \o r = p \o (<<f>> \o r)  BY <3>1, ConcatAssociative
    <3>4. Append(p, f) \o r = p \o o  BY <3>1, <3>2, <3>3
    <3> QED  BY <3>4, Zenon DEF p, f, r
  <2>4. Way(i)' = Way(i) /\ Coming(i)' = Coming(i)
    <3>1. Way(i)' = agents'[c].up \o hub'[i].out /\ Coming(i)' = hub'[i].in \o EventsOf(agents'[c].down)
      BY <2>1 DEF Way, Coming, Socketed
    <3>2. Way(i) = a.up \o hub[i].out /\ Coming(i) = hub[i].in \o EventsOf(a.down)  BY DEF Way, Coming, Socketed
    <3> QED  BY <2>1, <2>2, <2>3, <3>1, <3>2, Zenon
  <2> QED  BY <1>4, <2>1, <2>2, <2>4 DEF UpIdle, DownIdle, Socketed
<1>5. CASE j # i
  <2>1. hub[j].conn \in DOMAIN agents /\ agents[hub[j].conn].inst = j  BY WindowTyped DEF Socketed
  <2>2. hub[j].conn # c  BY <1>1, <1>5, <2>1
  <2>3. hub'[j] = hub[j] /\ agents'[hub[j].conn] = agents[hub[j].conn]  BY <1>2, <1>3, <1>5, <2>1, <2>2
  <2> QED  BY <2>3, WindowIdle
<1> QED  BY <1>4, <1>5

LEMMA WindowReceives ==
    ASSUME IInv, NEW i \in Instances, Receive(i), NEW j \in Instances, hub[j].conn # 0
    PROVE  UpIdle(j) /\ DownIdle(j)
<1> DEFINE c == hub[i].conn  a == agents[c]  d == a.down  e == event_from_cloud(Head(d))
<1>0. hub[i].conn # 0 /\ d # <<>>  BY DEF Receive
<1>1. /\ c \in DOMAIN agents /\ a \in Sockets /\ hub[i] \in HubState /\ a.inst = i
      /\ d \in Seq(DownFrames) /\ hub[i].in \in Seq(Events)
  BY <1>0, WindowTyped DEF Socketed
<1>2. hub' = [hub EXCEPT ![i] = WithIn(hub[i], Append(hub[i].in, e))] /\ agents' = [agents EXCEPT ![c] = WithDown(a, Tail(d))]
  BY DEF Receive, WithIn, WithDown
<1>3. hub \in [Instances -> HubState]  BY HubSocket
<1>4. CASE j = i
  <2>1. hub'[i].conn = c /\ hub'[i].key = hub[i].key /\ hub'[i].watching = hub[i].watching
        /\ hub'[i].out = hub[i].out /\ hub'[i].in = Append(hub[i].in, e)
    BY <1>1, <1>2, <1>3 DEF WithIn, HubState
  <2>2. agents'[c].up = a.up /\ agents'[c].code = a.code /\ agents'[c].down = Tail(d)
    <3>1. agents'[c] = WithDown(a, Tail(d))  BY <1>1, <1>2
    <3>2. LET x == WithDown(a, Tail(d)) IN x.up = a.up /\ x.code = a.code /\ x.down = Tail(d)
      BY <1>1 DEF WithDown, Sockets, Socket
    <3> QED  BY <3>1, <3>2
  <2>3. Append(hub[i].in, e) \o EventsOf(Tail(d)) = hub[i].in \o EventsOf(d)
    <3> DEFINE p == hub[i].in  r == EventsOf(Tail(d))
    <3>1. Head(d) \in DownFrames /\ Tail(d) \in Seq(DownFrames)  BY <1>0, <1>1, HeadTailProperties
    <3>2. p \in Seq(Events) /\ e \in Events /\ r \in Seq(Events) /\ EventsOf(d) = <<e>> \o r
      BY <1>0, <1>1, <3>1, CloudEvent, EventsTyped, EventsTake
    <3> HIDE DEF p, e, r
    <3>3. Append(p, e) = p \o <<e>>  BY <3>2
    <3>4. (p \o <<e>>) \o r = p \o (<<e>> \o r)  BY <3>2, ConcatAssociative
    <3>5. Append(p, e) \o r = p \o EventsOf(d)  BY <3>2, <3>3, <3>4
    <3> QED  BY <3>5 DEF p, e, r
  <2>4. Way(i)' = Way(i) /\ Coming(i)' = Coming(i)
    <3>1. Way(i)' = agents'[c].up \o hub'[i].out /\ Coming(i)' = hub'[i].in \o EventsOf(agents'[c].down)
      BY <2>1 DEF Way, Coming, Socketed
    <3>2. Way(i) = a.up \o hub[i].out /\ Coming(i) = hub[i].in \o EventsOf(a.down)  BY DEF Way, Coming, Socketed
    <3> QED  BY <2>1, <2>2, <2>3, <3>1, <3>2, Zenon
  <2> QED  BY <1>4, <2>1, <2>2, <2>4 DEF UpIdle, DownIdle, Socketed
<1>5. CASE j # i
  <2>1. hub[j].conn \in DOMAIN agents /\ agents[hub[j].conn].inst = j  BY WindowTyped DEF Socketed
  <2>2. hub[j].conn # c  BY <1>1, <1>5, <2>1
  <2>3. hub'[j] = hub[j] /\ agents'[hub[j].conn] = agents[hub[j].conn]  BY <1>2, <1>3, <1>5, <2>1, <2>2
  <2> QED  BY <2>3, WindowIdle
<1> QED  BY <1>4, <1>5

LEMMA WindowDrops ==
    ASSUME IInv, NEW i \in Instances, Drop(i), NEW j \in Instances
    PROVE  /\ j = i => hub'[j].conn = 0
           /\ j # i /\ hub[j].conn # 0 => UpIdle(j) /\ DownIdle(j)
           /\ j # i => hub'[j] = hub[j]
<1> DEFINE c == hub[i].conn
<1>0. hub[i].conn # 0 /\ hub \in [Instances -> HubState] /\ hub[i] \in HubState  BY HubSocket DEF Drop
<1>1. c \in DOMAIN agents /\ agents[c].inst = i  BY <1>0, WindowTyped DEF Socketed
<1>2. hub' = [hub EXCEPT ![i] = Disconnected(hub[i])] /\ \E x : agents' = [agents EXCEPT ![c] = x]
  BY DEF Drop
<1>3. j = i => hub'[j].conn = 0  BY <1>0, <1>2, DisconnectedKept
<1>4. ASSUME j # i PROVE hub'[j] = hub[j]  BY <1>0, <1>2, <1>4
<1>5. ASSUME j # i, hub[j].conn # 0 PROVE UpIdle(j) /\ DownIdle(j)
  <2>1. hub[j].conn \in DOMAIN agents /\ agents[hub[j].conn].inst = j  BY <1>5, WindowTyped DEF Socketed
  <2>2. hub[j].conn # c  BY <1>1, <1>5, <2>1
  <2>3. agents'[hub[j].conn] = agents[hub[j].conn]  BY <1>2, <2>1, <2>2
  <2> QED  BY <1>4, <1>5, <2>3, WindowIdle
<1> QED  BY <1>3, <1>4, <1>5

LEMMA WindowComes ==
    ASSUME IInv, NEW i \in Instances, Connect(i), NEW j \in Instances
    PROVE  /\ j # i /\ hub[j].conn # 0 => UpIdle(j) /\ DownIdle(j)
           /\ j # i => hub'[j] = hub[j]
           /\ j = i => /\ Comes(i) /\ hub'[i].watching = hub[i].watching
                       /\ \E e \in Events \ Orders :
                            /\ hub'[i].in = hub[i].in \o <<e>> /\ Coming(i)' = hub[i].in \o <<e>>
                            /\ ~Socketed(i)'.code => e = "Status"
<1> DEFINE n == Len(agents)  K == KeptSockets(i)
<1>1. PICK code \in BOOLEAN :
        /\ AcceptAgent(i, code, <<Frame("hello")>>)
        /\ hub' = [hub EXCEPT ![i].conn = Len(agents'), ![i].in = Append(@, IF code THEN "PairingReady" ELSE "Status")]
  BY DEF Connect
<1> DEFINE x == NewSocket(i, code)  e == IF code THEN "PairingReady" ELSE "Status"  v == Append(hub[i].in, e)
<1>2. agents' = Append(K, x)
  BY <1>1, Zenon DEF AcceptAgent, NewSocket, KeptSockets, Closing, WithUp, WithSt
<1>3. hub \in [Instances -> HubState] /\ hub[i] \in HubState /\ agents \in Seq(Sockets) /\ hub[i].conn = 0
      /\ hub[i].in \in Seq(Events)
  BY HubSocket DEF Connect, HubState
<1>4. hub' = [hub EXCEPT ![i] = Connected(hub[i], Len(agents'), v)]  BY <1>1, <1>3 DEF Connected
<1>5. K \in Seq(Sockets) /\ Len(K) = n /\ n \in Nat  BY <1>3, SocketsKept, LenProperties
<1>6. x \in Sockets /\ x.code = code /\ x.down = <<>>  BY NewSocketKept DEF NewSocket
<1> HIDE DEF x, K
<1>7. Len(agents') = n + 1 /\ agents'[n + 1] = x /\ \A c \in 1..n : agents'[c] = K[c]
  BY <1>2, <1>5, <1>6, AppendProperties
<1>8. ASSUME j # i PROVE hub'[j] = hub[j]  BY <1>3, <1>4, <1>8
<1>9. ASSUME j # i, hub[j].conn # 0 PROVE UpIdle(j) /\ DownIdle(j)
  <2> DEFINE d == hub[j].conn
  <2>1. d \in DOMAIN agents /\ agents[d].inst = j  BY <1>9, WindowTyped DEF Socketed
  <2>2. d \in 1..n  BY <1>3, <2>1, LenProperties
  <2>3. K[d] = agents[d]  BY <1>9, <2>1 DEF K, KeptSockets, AgentsOf
  <2>4. agents'[hub[j].conn] = agents[hub[j].conn]  BY <1>7, <2>2, <2>3
  <2> QED  BY <1>8, <1>9, <2>4, WindowIdle
<1>10. hub'[i].conn = n + 1 /\ hub'[i].watching = hub[i].watching /\ hub'[i].in = v
  BY <1>3, <1>4, <1>7 DEF Connected, HubState
<1>11. Comes(i)  BY <1>3, <1>5, <1>10 DEF Comes
<1>12. e \in Events \ Orders  BY DEF Events, Orders
<1>13. Socketed(i)' = x  BY <1>7, <1>10 DEF Socketed
<1>14. ~Socketed(i)'.code => e = "Status"  BY <1>6, <1>13
<1> HIDE DEF e
<1>15. hub'[i].in = hub[i].in \o <<e>> /\ Coming(i)' = hub[i].in \o <<e>>
  <2> DEFINE u == hub[i].in
  <2>1. Coming(i)' = v \o EventsOf(<<>>)  BY <1>6, <1>10, <1>13 DEF Coming
  <2>2. EventsOf(<<>>) = <<>>  BY DEF EventsOf
  <2>3. v \in Seq(Events) /\ v = u \o <<e>>  BY <1>3, <1>12
  <2> HIDE DEF u, v
  <2>4. v \o <<>> = v  BY <2>3, ConcatEmptySeq
  <2>5. hub'[i].in = u \o <<e>> /\ Coming(i)' = u \o <<e>>  BY <1>10, <2>1, <2>2, <2>3, <2>4
  <2> QED  BY <2>5 DEF u
<1> QED  BY <1>8, <1>9, <1>10, <1>11, <1>12, <1>14, <1>15

-----------------------------------------------------------------------------
(* Pushes, while the outbound buffer has room.                             *)
LEMMA EmitFits ==
    ASSUME NEW o \in Seq(UpFrames), NEW f \in UpFrames, Len(o) + 1 =< OUTBOUND_CAP
    PROVE  Emit(o, <<f>>) = o \o <<f>>
<1> DEFINE u == o \o <<f>>
<1>1. u \in Seq(UpFrames) /\ Len(u) = Len(o) + 1 /\ Len(o) \in Nat  BY OneMore, LenProperties
<1>2. OUTBOUND_CAP \in Nat  BY MirrorAssumption
<1> HIDE DEF u
<1>3. Emit(o, <<f>>) = SubSeq(u, 1 + (IF Len(u) > OUTBOUND_CAP THEN Len(u) - OUTBOUND_CAP ELSE 0), Len(u))
  BY DEF Emit, u
<1>4. ~(Len(u) > OUTBOUND_CAP)  BY <1>1, <1>2
<1>5. Emit(o, <<f>>) = SubSeq(u, 1, Len(u))  BY <1>3, <1>4
<1>6. SubSeq(u, 1, Len(u)) = u  BY <1>1, SubSeqFull
<1> QED  BY <1>5, <1>6 DEF u

(* What hub k holds after a push of x by hub h: the fingerprint, and       *)
(* behind the frames of h a catalog unless h had sent this list.           *)
ListPushed(h, x, k) ==
    /\ k \in HubState /\ k.conn = h.conn /\ k.watching = h.watching /\ k.in = h.in /\ k.key = x.list
    /\ \/ h.key = x.list /\ k.out = h.out
       \/ k.out = h.out \o <<SessionCatalog(x)>>

LEMMA PushesList ==
    ASSUME NEW h \in HubState, NEW x \in PagerState, h.conn # 0, Len(h.out) + 2 =< OUTBOUND_CAP
    PROVE  ListPushed(h, x, push_catalog_if_connected(h, x))
<1> DEFINE k == push_catalog_if_connected(h, x)
<1>1. SessionCatalog(x) \in UpFrames /\ h.out \in Seq(UpFrames) /\ OUTBOUND_CAP \in Nat /\ Len(h.out) \in Nat
  BY PagerFrames, LenProperties, MirrorAssumption DEF HubState
<1>2. k \in HubState /\ k.conn = h.conn  BY CatalogPushed DEF Pushed
<1>a. Len(h.out) + 1 =< OUTBOUND_CAP  BY <1>1
<1>3. Emit(h.out, <<SessionCatalog(x)>>) = h.out \o <<SessionCatalog(x)>>  BY <1>1, <1>a, EmitFits
<1>4. CASE h.key = x.list
  BY <1>2, <1>4 DEF push_catalog_if_connected, ListPushed
<1>5. CASE h.key # x.list
  <2>1. k = [h EXCEPT !.key = x.list, !.out = Emit(h.out, <<SessionCatalog(x)>>)]
    BY <1>5 DEF push_catalog_if_connected
  <2>2. k.watching = h.watching /\ k.in = h.in /\ k.key = x.list /\ k.out = Emit(h.out, <<SessionCatalog(x)>>)
    BY <2>1 DEF HubState
  <2> HIDE DEF k
  <2>3. k.out = h.out \o <<SessionCatalog(x)>>  BY <1>3, <2>2
  <2> QED  BY <1>2, <2>2, <2>3 DEF ListPushed, k
<1> QED  BY <1>4, <1>5

(* The hub k after a push of x by hub h, with the transcript when it is    *)
(* mirroring.                                                              *)
TextPushed(h, x, k) ==
    \E g : /\ ListPushed(h, x, g)
           /\ k \in HubState /\ k.conn = h.conn /\ k.watching = h.watching /\ k.in = h.in /\ k.key = x.list
           /\ k.out = IF h.watching THEN g.out \o <<Snapshot(x)>> ELSE g.out

LEMMA PushesText ==
    ASSUME NEW h \in HubState, NEW x \in PagerState, h.conn # 0, Len(h.out) + 2 =< OUTBOUND_CAP
    PROVE  TextPushed(h, x, push_snapshot_if_connected(h, x))
<1> DEFINE g == push_catalog_if_connected(h, x)  k == push_snapshot_if_connected(h, x)
<1>1. ListPushed(h, x, g)  BY PushesList
<1>2. k = IF g.conn = 0 \/ ~g.watching THEN g ELSE [g EXCEPT !.out = Emit(@, <<Snapshot(x)>>)]
  BY DEF push_snapshot_if_connected
<1>3. k \in HubState /\ k.conn = h.conn  BY SnapshotPushed DEF Pushed
<1> HIDE DEF g, k
<1>4. g \in HubState /\ g.conn = h.conn /\ g.watching = h.watching /\ g.in = h.in /\ g.key = x.list
  BY <1>1 DEF ListPushed
<1>5. CASE ~h.watching
  <2>1. k = g  BY <1>2, <1>4, <1>5
  <2> QED  BY <1>1, <1>3, <1>4, <1>5, <2>1 DEF TextPushed, k
<1>6. CASE h.watching
  <2>1. k = [g EXCEPT !.out = Emit(g.out, <<Snapshot(x)>>)]  BY <1>2, <1>4, <1>6
  <2>2. k.watching = h.watching /\ k.in = h.in /\ k.key = x.list /\ k.out = Emit(g.out, <<Snapshot(x)>>)
    BY <1>4, <2>1 DEF HubState
  <2>3. SessionCatalog(x) \in UpFrames /\ Snapshot(x) \in UpFrames /\ h.out \in Seq(UpFrames)
        /\ g.out \in Seq(UpFrames) /\ OUTBOUND_CAP \in Nat /\ Len(h.out) \in Nat
    BY <1>4, PagerFrames, LenProperties, MirrorAssumption DEF HubState
  <2>4. Len(h.out \o <<SessionCatalog(x)>>) = Len(h.out) + 1  BY <2>3, OneMore
  <2>5. Len(g.out) + 1 =< OUTBOUND_CAP  BY <1>1, <2>3, <2>4 DEF ListPushed
  <2>6. k.out = g.out \o <<Snapshot(x)>>  BY <2>2, <2>3, <2>5, EmitFits
  <2> QED  BY <1>1, <1>3, <1>6, <2>2, <2>6 DEF TextPushed, k
<1> QED  BY <1>5, <1>6

(* A list went out on the way of window i, or had already: v is the way.   *)
Listed(i, x, v) == \/ v = Way(i) /\ hub[i].key = x.list
                   \/ v = Way(i) \o <<SessionCatalog(x)>>

LEMMA WayGrows ==
    ASSUME IInv, NEW i \in Instances, hub[i].conn # 0, agents' = agents, hub'[i].conn = hub[i].conn,
           NEW x \in PagerState, NEW h, h.out = hub[i].out, NEW g, ListPushed(h, x, g)
    PROVE  LET v == Socketed(i).up \o g.out IN
           /\ (h.key = x.list /\ v = Way(i)) \/ v = Way(i) \o <<SessionCatalog(x)>>
           /\ v \in Seq(UpFrames)
           /\ hub'[i].out = g.out \o <<Snapshot(x)>> => Way(i)' = v \o <<Snapshot(x)>>
           /\ hub'[i].out = g.out => Way(i)' = v
<1> DEFINE u == Socketed(i).up  o == hub[i].out  f == SessionCatalog(x)  s == Snapshot(x)  v == u \o g.out
<1>1. u \in Seq(UpFrames) /\ o \in Seq(UpFrames) /\ f \in UpFrames /\ s \in UpFrames /\ Way(i) = u \o o
  BY WindowTyped, PagerFrames DEF Way
<1>2. g.out \in Seq(UpFrames) /\ ((h.key = x.list /\ g.out = o) \/ g.out = o \o <<f>>)
  BY DEF ListPushed, HubState
<1>3. Way(i)' = u \o hub'[i].out  BY DEF Way, Socketed
<1> HIDE DEF u, o, f, s
<1>4. <<f>> \in Seq(UpFrames) /\ <<s>> \in Seq(UpFrames)  BY <1>1
<1>5. v \in Seq(UpFrames)  BY <1>1, <1>2, ConcatProperties
<1>6. u \o (o \o <<f>>) = (u \o o) \o <<f>>  BY <1>1, <1>4, ConcatAssociative
<1>7. u \o (g.out \o <<s>>) = (u \o g.out) \o <<s>>
  <2> SUFFICES ASSUME NEW q \in Seq(UpFrames) PROVE u \o (q \o <<s>>) = (u \o q) \o <<s>>  BY <1>2
  <2> QED  BY <1>1, <1>4, ConcatAssociative
<1>8. (h.key = x.list /\ v = Way(i)) \/ v = Way(i) \o <<f>>  BY <1>1, <1>2, <1>6
<1>9. /\ hub'[i].out = g.out \o <<s>> => Way(i)' = v \o <<s>>
      /\ hub'[i].out = g.out => Way(i)' = v
  BY <1>3, <1>7
<1> QED  BY <1>5, <1>8, <1>9 DEF u, f, s

LEMMA PagerElsewhere ==
    ASSUME IInv, NEW i \in Instances, StateChanged(i) \/ HandleEvent(i), NEW j \in Instances, j # i
    PROVE  UpIdle(j) /\ DownIdle(j) /\ hub'[j] = hub[j] /\ pushed'[j] = pushed[j]
<1>1. hub \in [Instances -> HubState] /\ pushed \in [Instances -> PagerState]  BY HubSocket
<1>2. /\ agents' = agents /\ (\E k : hub' = [hub EXCEPT ![i] = k])
      /\ (\E k : pushed' = [pushed EXCEPT ![i] = k]) \/ pushed' = pushed
  <2>1. CASE StateChanged(i)
    <3>1. (\E k : pushed' = [pushed EXCEPT ![i] = k]) \/ pushed' = pushed  BY <2>1 DEF StateChanged
    <3>2. hub' = [hub EXCEPT ![i] = push_snapshot_if_connected(hub[i], pager'[i])]  BY <2>1 DEF StateChanged
    <3> QED  BY <2>1, <3>1, <3>2 DEF StateChanged
  <2>2. CASE HandleEvent(i)  BY <2>2 DEF HandleEvent
  <2> QED  BY <2>1, <2>2
<1>3. hub'[j] = hub[j] /\ pushed'[j] = pushed[j]  BY <1>1, <1>2
<1> QED  BY <1>2, <1>3, WindowIdle

(* Where the window itself has no connection it stays without one.         *)
LEMMA PagerAlone ==
    ASSUME IInv, IInv', NEW i \in Instances, StateChanged(i) \/ HandleEvent(i)
    PROVE  hub'[i].conn = hub[i].conn
<1>0. hub \in [Instances -> HubState] /\ hub[i] \in HubState /\ pager[i] \in PagerState /\ pager' \in [Instances -> PagerState]
  <2>1. pager' \in [Instances -> PagerState]  BY DEF IInv, WiresInv
  <2> QED  BY <2>1, HubSocket
<1>1. CASE StateChanged(i)
  <2>1. hub'[i] = push_snapshot_if_connected(hub[i], pager'[i])  BY <1>0, <1>1 DEF StateChanged
  <2>2. pager'[i] \in PagerState  BY <1>0
  <2> QED  BY <1>0, <2>1, <2>2, SnapshotPushed DEF Pushed
<1>2. CASE HandleEvent(i)
  <2> DEFINE h == [hub[i] EXCEPT !.in = Tail(@)]  event == Head(hub[i].in)
             r == reset_catalog_cache(h)  w == [h EXCEPT !.watching = TRUE]
  <2>1. hub'[i] = CASE event = "Status" -> push_catalog_if_connected(r, pager[i])
                    [] event = "RequestSnapshot" -> push_snapshot_if_connected(w, pager[i])
                    [] event = "StopWatching" -> [h EXCEPT !.watching = FALSE]
                    [] OTHER -> h
    BY <1>0, <1>2 DEF HandleEvent
  <2>2. hub[i].in # <<>>  BY <1>2 DEF HandleEvent
  <2>3. h \in HubState /\ h.conn = hub[i].conn  BY <1>0, <2>2, HeadTailProperties DEF HubState
  <2> HIDE DEF h
  <2>4. /\ r \in HubState /\ r.conn = h.conn /\ w \in HubState /\ w.conn = h.conn
        /\ [h EXCEPT !.watching = FALSE].conn = h.conn
    BY <2>3 DEF reset_catalog_cache, HubState
  <2> HIDE DEF event, r, w
  <2>5. push_catalog_if_connected(r, pager[i]).conn = h.conn /\ push_snapshot_if_connected(w, pager[i]).conn = h.conn
    BY <1>0, <2>4, SnapshotPushed, CatalogPushed DEF Pushed
  <2> QED  BY <2>1, <2>3, <2>4, <2>5
<1> QED  BY <1>1, <1>2

LEMMA WindowPushes ==
    ASSUME IInv, IInv', Room, NEW i \in Instances, StateChanged(i), hub[i].conn # 0
    PROVE  /\ DownIdle(i) /\ hub'[i].in = hub[i].in /\ hub'[i].key = pager'[i].list /\ Socketed(i)'.code = Socketed(i).code
           /\ pager'[i] \in PagerState /\ pushed'[i] = pager'[i]
           /\ \E v \in Seq(UpFrames) :
                /\ Listed(i, pager'[i], v)
                /\ Way(i)' = IF hub[i].watching THEN v \o <<Snapshot(pager'[i])>> ELSE v
<1> DEFINE h == hub[i]  x == pager'[i]  k == hub'[i]
<1>0. hub \in [Instances -> HubState] /\ h \in HubState /\ agents' = agents  BY HubSocket DEF StateChanged
<1>1. x \in PagerState
  <2>1. pager' \in [Instances -> PagerState]  BY DEF IInv, WiresInv
  <2> QED  BY <2>1
<1>2. k = push_snapshot_if_connected(h, x)  BY <1>0 DEF StateChanged
<1>a. pushed'[i] = x
  <2>1. pushed \in [Instances -> PagerState]  BY HubSocket
  <2>2. pushed' = [pushed EXCEPT ![i] = pager'[i]]  BY DEF StateChanged
  <2> QED  BY <2>1, <2>2
<1>3. Len(h.out) + 2 =< OUTBOUND_CAP  BY DEF Room
<1> HIDE DEF x
<1>4. TextPushed(h, x, k)  BY <1>0, <1>1, <1>2, <1>3, PushesText
<1>5. PICK g : /\ ListPushed(h, x, g)
               /\ k.conn = h.conn /\ k.watching = h.watching /\ k.in = h.in /\ k.key = x.list
               /\ k.out = IF h.watching THEN g.out \o <<Snapshot(x)>> ELSE g.out
  BY <1>4 DEF TextPushed
<1>6. DownIdle(i) /\ Socketed(i)'.code = Socketed(i).code  BY <1>0, <1>5 DEF DownIdle, Coming, Socketed
<1> DEFINE v == Socketed(i).up \o g.out
<1>7. /\ (h.key = x.list /\ v = Way(i)) \/ v = Way(i) \o <<SessionCatalog(x)>>
      /\ v \in Seq(UpFrames)
      /\ hub'[i].out = g.out \o <<Snapshot(x)>> => Way(i)' = v \o <<Snapshot(x)>>
      /\ hub'[i].out = g.out => Way(i)' = v
  BY <1>0, <1>1, <1>5, WayGrows
<1> HIDE DEF v
<1>8. Listed(i, x, v)  BY <1>7 DEF Listed
<1>9. Way(i)' = IF h.watching THEN v \o <<Snapshot(x)>> ELSE v  BY <1>5, <1>7
<1> QED  BY <1>1, <1>a, <1>5, <1>6, <1>7, <1>8, <1>9 DEF x

(* The pager handles the next event of window i.                           *)
Handles(i, e) ==
    /\ hub'[i].conn = hub[i].conn /\ Socketed(i)'.code = Socketed(i).code
    /\ hub[i].in # <<>> /\ Head(hub[i].in) = e /\ hub'[i].in = Tail(hub[i].in)
    /\ Coming(i) # <<>> /\ Head(Coming(i)) = e /\ Coming(i)' = Tail(Coming(i))
    /\ e = "Status" => /\ hub'[i].key = pager[i].list
                       /\ Way(i)' = Way(i) \o <<SessionCatalog(pager[i])>>
    /\ e = "RequestSnapshot" =>
          /\ hub'[i].watching /\ hub'[i].key = pager[i].list
          /\ \E v \in Seq(UpFrames) : Listed(i, pager[i], v) /\ Way(i)' = v \o <<Snapshot(pager[i])>>
    /\ e \notin {"Status", "RequestSnapshot"} => hub'[i].key = hub[i].key /\ Way(i)' = Way(i)
    /\ e = "Status" => pushed'[i].list = pager[i].list /\ pushed'[i].text = pushed[i].text
    /\ e = "RequestSnapshot" => pushed'[i] = pager[i]
    /\ e \notin {"Status", "RequestSnapshot"} => pushed'[i] = pushed[i]
    /\ e = "StopWatching" => ~hub'[i].watching
    /\ e \notin Orders => hub'[i].watching = hub[i].watching

LEMMA WindowHandles ==
    ASSUME IInv, IInv', Room, NEW i \in Instances, HandleEvent(i), hub[i].conn # 0
    PROVE  \E e \in Events : Handles(i, e)
<1> DEFINE u == hub[i].in  e == Head(u)  h == WithIn(hub[i], Tail(u))  x == pager[i]
           r == reset_catalog_cache(h)  w == [h EXCEPT !.watching = TRUE]  k == hub'[i]
<1>0. hub \in [Instances -> HubState] /\ hub[i] \in HubState /\ x \in PagerState  BY HubSocket
<1>1. k = CASE e = "Status" -> push_catalog_if_connected(r, x)
            [] e = "RequestSnapshot" -> push_snapshot_if_connected(w, x)
            [] e = "StopWatching" -> [h EXCEPT !.watching = FALSE]
            [] OTHER -> h
  BY <1>0 DEF HandleEvent, WithIn
<1>2. u # <<>> /\ u \in Seq(Events) /\ agents' = agents  BY <1>0 DEF HandleEvent, HubState
<1>b. /\ e = "Status" => pushed'[i].list = x.list /\ pushed'[i].text = pushed[i].text
      /\ e = "RequestSnapshot" => pushed'[i] = x
      /\ e \notin {"Status", "RequestSnapshot"} => pushed'[i] = pushed[i]
  <2> DEFINE z == pushed[i]
  <2>1. pushed \in [Instances -> PagerState] /\ z \in PagerState  BY HubSocket
  <2>2. pushed'[i] = CASE e = "Status" -> [z EXCEPT !.list = x.list] [] e = "RequestSnapshot" -> x [] OTHER -> z
    BY <2>1 DEF HandleEvent
  <2>3. [z EXCEPT !.list = x.list].list = x.list /\ [z EXCEPT !.list = x.list].text = z.text  BY <2>1 DEF PagerState
  <2> HIDE DEF e, x, z
  <2>4. CASE e = "Status"  BY <2>2, <2>3, <2>4 DEF z
  <2>5. CASE e # "Status"  BY <2>2, <2>5 DEF z
  <2> QED  BY <2>4, <2>5
<1>3. e \in Events /\ Tail(u) \in Seq(Events)  BY <1>2, HeadTailProperties
<1>4. /\ h \in HubState /\ h.conn = hub[i].conn /\ h.out = hub[i].out /\ h.in = Tail(u)
      /\ h.key = hub[i].key /\ h.watching = hub[i].watching
  BY <1>0, <1>3 DEF HubState, WithIn
<1> HIDE DEF h
<1>5. /\ r \in HubState /\ r.conn = h.conn /\ r.out = h.out /\ r.in = h.in /\ r.key = None /\ r.watching = h.watching
      /\ w \in HubState /\ w.conn = h.conn /\ w.out = h.out /\ w.in = h.in /\ w.key = h.key /\ w.watching = TRUE
  BY <1>4 DEF reset_catalog_cache, HubState
<1>6. Len(h.out) + 2 =< OUTBOUND_CAP  BY <1>4 DEF Room
<1>7. x.list \in Versions /\ x.list # None
  <2>1. x.list \in Versions  BY <1>0, PagerFrames
  <2> QED  BY <2>1, RelayAssumption, MirrorAssumption DEF Versions
<1> HIDE DEF e, r, w, x
<1>8. k.in = Tail(u) => Coming(i) # <<>> /\ Head(Coming(i)) = e /\ (k.conn = h.conn => Coming(i)' = Tail(Coming(i)))
  <2> DEFINE q == EventsOf(Socketed(i).down)
  <2>1. q \in Seq(Events) /\ Coming(i) = u \o q  BY WindowTyped DEF Coming
  <2>2. k.conn = h.conn => Coming(i)' = k.in \o q  BY <1>2, <1>4 DEF Coming, Socketed
  <2> HIDE DEF q
  <2>3. u \o q # <<>> /\ Head(u \o q) = Head(u) /\ Tail(u \o q) = Tail(u) \o q  BY <1>2, <2>1, TailConcat
  <2> QED  BY <2>1, <2>2, <2>3 DEF e
<1>9. k.conn = h.conn => Socketed(i)'.code = Socketed(i).code  BY <1>2, <1>4 DEF Socketed
<1>a. hub[i].in # <<>> /\ Head(hub[i].in) = e  BY <1>2 DEF e
<1>10. k.conn = h.conn /\ k.out = h.out => Way(i)' = Way(i)  BY <1>2, <1>4 DEF Way, Socketed
<1>11. CASE e = "Status"
  <2>1. k = push_catalog_if_connected(r, x)  BY <1>1, <1>11
  <2>2. ListPushed(r, x, k)  BY <1>0, <1>4, <1>5, <1>6, <2>1, PushesList DEF x
  <2>3. k.conn = h.conn /\ k.in = Tail(u) /\ k.key = x.list /\ k.watching = hub[i].watching
    BY <1>4, <1>5, <2>2 DEF ListPushed
  <2>4. hub'[i].conn = hub[i].conn /\ r.out = hub[i].out /\ x \in PagerState  BY <1>0, <1>4, <1>5, <2>3 DEF x
  <2>5. /\ (r.key = x.list /\ Socketed(i).up \o k.out = Way(i)) \/ Socketed(i).up \o k.out = Way(i) \o <<SessionCatalog(x)>>
        /\ Way(i)' = Socketed(i).up \o k.out
    BY <1>2, <2>2, <2>4, WayGrows
  <2>6. Way(i)' = Way(i) \o <<SessionCatalog(x)>>  BY <1>5, <1>7, <2>5
  <2>7. Handles(i, e)  BY <1>4, <1>8, <1>9, <1>a, <1>b, <1>11, <2>3, <2>6 DEF Handles, x, Orders
  <2> QED  BY <1>3, <2>7
<1>12. CASE e = "RequestSnapshot"
  <2>1. k = push_snapshot_if_connected(w, x)  BY <1>1, <1>12
  <2>2. TextPushed(w, x, k)  BY <1>0, <1>4, <1>5, <1>6, <2>1, PushesText DEF x
  <2>3. PICK g : /\ ListPushed(w, x, g)
                 /\ k.conn = w.conn /\ k.watching = w.watching /\ k.in = w.in /\ k.key = x.list
                 /\ k.out = IF w.watching THEN g.out \o <<Snapshot(x)>> ELSE g.out
    BY <2>2 DEF TextPushed
  <2>4. k.conn = h.conn /\ k.in = Tail(u) /\ k.key = x.list /\ k.watching /\ k.out = g.out \o <<Snapshot(x)>>
    BY <1>4, <1>5, <2>3
  <2>5. hub'[i].conn = hub[i].conn /\ w.out = hub[i].out /\ w.key = hub[i].key /\ x \in PagerState
    BY <1>0, <1>4, <1>5, <2>4 DEF x
  <2> DEFINE v == Socketed(i).up \o g.out
  <2>6. /\ (w.key = x.list /\ v = Way(i)) \/ v = Way(i) \o <<SessionCatalog(x)>>
        /\ v \in Seq(UpFrames) /\ Way(i)' = v \o <<Snapshot(x)>>
    BY <1>2, <2>3, <2>4, <2>5, WayGrows
  <2> HIDE DEF v
  <2>7. Listed(i, x, v)  BY <2>5, <2>6 DEF Listed
  <2>8. Handles(i, e)  BY <1>4, <1>8, <1>9, <1>a, <1>b, <1>12, <2>4, <2>6, <2>7 DEF Handles, x, Orders
  <2> QED  BY <1>3, <2>8
<1>13. CASE e = "StopWatching"
  <2>1. k = [h EXCEPT !.watching = FALSE]  BY <1>1, <1>13
  <2>2. k.conn = h.conn /\ k.in = h.in /\ k.out = h.out /\ k.key = h.key /\ k.watching = FALSE  BY <1>4, <2>1 DEF HubState
  <2>3. Handles(i, e)  BY <1>4, <1>8, <1>9, <1>a, <1>b, <1>10, <1>13, <2>2 DEF Handles, Orders
  <2> QED  BY <1>3, <2>3
<1>14. CASE e \notin {"Status", "RequestSnapshot", "StopWatching"}
  <2>1. k = h  BY <1>1, <1>14
  <2>2. Handles(i, e)  BY <1>4, <1>8, <1>9, <1>a, <1>b, <1>10, <1>14, <2>1 DEF Handles, Orders
  <2> QED  BY <1>3, <2>2
<1> QED  BY <1>11, <1>12, <1>13, <1>14

LEMMA OccursSend ==
    ASSUME NEW S, NEW s \in Seq(S), NEW f \in S, NEW e, Occurs(s, e) \/ f = e PROVE Occurs(s \o <<f>>, e)
<1>1. Len(s) \in Nat /\ Len(s \o <<f>>) = Len(s) + 1 /\ (s \o <<f>>)[Len(s) + 1] = f /\ \A k \in 1..Len(s) : (s \o <<f>>)[k] = s[k]
  BY OneMore, LenProperties
<1>2. CASE f = e  BY <1>1, <1>2 DEF Occurs
<1>3. CASE Occurs(s, e)
  <2>1. PICK k \in 1..Len(s) : s[k] = e  BY <1>3 DEF Occurs
  <2>2. k \in 1..Len(s \o <<f>>) /\ (s \o <<f>>)[k] = e  BY <1>1, <2>1
  <2> QED  BY <2>2 DEF Occurs
<1> QED  BY <1>2, <1>3

LEMMA OccursTake ==
    ASSUME NEW S, NEW s \in Seq(S), s # <<>>, NEW e, Occurs(s, e), Head(s) # e PROVE Occurs(Tail(s), e)
<1>1. Len(s) \in Nat /\ Len(s) > 0 /\ Len(Tail(s)) = Len(s) - 1 /\ Head(s) = s[1] /\ \A k \in 1..Len(Tail(s)) : Tail(s)[k] = s[k + 1]
  BY HeadTailProperties, EmptySeq
<1>2. PICK k \in 1..Len(s) : s[k] = e  BY DEF Occurs
<1>3. k # 1  BY <1>1, <1>2
<1>4. k - 1 \in 1..Len(Tail(s)) /\ Tail(s)[k - 1] = e
  <2>1. k - 1 \in 1..Len(Tail(s)) /\ (k - 1) + 1 = k  BY <1>1, <1>3
  <2> QED  BY <1>1, <1>2, <2>1
<1> QED  BY <1>4 DEF Occurs

-----------------------------------------------------------------------------
(* The catalog.  A window that connected with its token has a Status event *)
(* queued, which sends its list anew, or the list it last pushed is the    *)
(* last one on the way, or it is in the catalog and no other is coming.    *)
CatalogDue(i) ==
    \/ Occurs(hub[i].in, "Status")
    \/ /\ hub[i].key = pushed[i].list
       /\ Settles(Way(i), Lists, ListsOf(pushed[i].list), catalog[i] = pushed[i].list)
CatalogInv == \A i \in Instances : hub[i].conn # 0 /\ ~Socketed(i).code => CatalogDue(i)

LEMMA ListKinds ==
    ASSUME NEW x \in PagerState
    PROVE  /\ SessionCatalog(x) \in ListsOf(x.list) /\ Snapshot(x) \notin Lists
           /\ \A l : ListsOf(l) \in SUBSET Lists
<1>1. SessionCatalog(x) \in UpFrames /\ SessionCatalog(x).type = "session_catalog" /\ SessionCatalog(x).list = x.list
  BY PagerFrames DEF SessionCatalog
<1>2. Snapshot(x).type = "snapshot"  BY DEF Snapshot
<1> QED  BY <1>1, <1>2 DEF Lists, ListsOf

LEMMA CatalogIdle ==
    ASSUME NEW i \in Instances, UpIdle(i), pushed'[i] = pushed[i], Occurs(hub[i].in, "Status") => Occurs(hub'[i].in, "Status"),
           catalog[i] = pushed[i].list => catalog'[i] = pushed[i].list, CatalogDue(i)
    PROVE  CatalogDue(i)'
<1> DEFINE l == pushed[i].list  G == ListsOf(l)
<1>1. Settles(Way(i), Lists, G, catalog[i] = l) => Settles(Way(i), Lists, G, catalog'[i] = l)
  BY DEF Settles
<1>2. (ListsOf(pushed[i].list))' = G  BY DEF ListsOf, Lists
<1> QED  BY <1>1, <1>2 DEF CatalogDue, UpIdle

LEMMA CatalogTaken ==
    ASSUME IInv, NEW i \in Instances, hub[i].conn # 0, NEW f, UpTaken(i, f), pushed'[i] = pushed[i], hub'[i].in = hub[i].in,
           f \in Lists => catalog'[i] = f.list,
           f \notin Lists /\ catalog[i] = pushed[i].list => catalog'[i] = pushed[i].list, CatalogDue(i)
    PROVE  CatalogDue(i)'
<1> DEFINE l == pushed[i].list  G == ListsOf(l)  w == Way(i)  now == (catalog[i] = l)  then == (catalog'[i] = l)
<1>1. w \in Seq(UpFrames) /\ pushed[i] \in PagerState /\ w # <<>> /\ Head(w) = f /\ Way(i)' = Tail(w)
  BY WindowTyped, HubSocket DEF UpTaken
<1>2. G \in SUBSET Lists /\ (ListsOf(pushed[i].list))' = G  BY <1>1, ListKinds DEF ListsOf, Lists
<1>3. f \in G => f.list = l  BY DEF ListsOf
<1> SUFFICES ASSUME Settles(w, Lists, G, now) PROVE Settles(Tail(w), Lists, G, then)
  BY <1>1, <1>2 DEF CatalogDue, UpTaken
<1> HIDE DEF G, w
<1>5. now \in BOOLEAN /\ then \in BOOLEAN  OBVIOUS
<1> HIDE DEF now, then
<1>6. f \in G => then  BY <1>2, <1>3 DEF then
<1>7. f \notin Lists /\ now => then  BY DEF now, then
<1> QED  BY <1>1, <1>2, <1>5, <1>6, <1>7, SettlesTake

(* A push leaves the latest list as the last one.                          *)
LEMMA CatalogPushes ==
    ASSUME IInv, NEW i \in Instances, hub[i].conn # 0, NEW x \in PagerState, NEW v \in Seq(UpFrames), Listed(i, x, v),
           hub[i].key = x.list => Settles(Way(i), Lists, ListsOf(x.list), catalog[i] = x.list)
    PROVE  /\ Settles(v, Lists, ListsOf(x.list), catalog[i] = x.list)
           /\ Settles(v \o <<Snapshot(x)>>, Lists, ListsOf(x.list), catalog[i] = x.list)
<1> DEFINE now == (catalog[i] = x.list)  w == Way(i)  G == ListsOf(x.list)
<1>1. w \in Seq(UpFrames)  BY WindowTyped
<1>2. SessionCatalog(x) \in UpFrames /\ Snapshot(x) \in UpFrames  BY PagerFrames
<1>3. SessionCatalog(x) \in G /\ Snapshot(x) \notin Lists /\ G \in SUBSET Lists  BY ListKinds
<1>4. now \in BOOLEAN  OBVIOUS
<1>5. (v = w /\ hub[i].key = x.list) \/ v = w \o <<SessionCatalog(x)>>  BY DEF Listed
<1>6. hub[i].key = x.list => Settles(w, Lists, G, now)  OBVIOUS
<1> HIDE DEF now, w, G
<1>7. Settles(w \o <<SessionCatalog(x)>>, Lists, G, now)  BY <1>1, <1>2, <1>3, <1>4, SettlesSend
<1>8. Settles(v, Lists, G, now)  BY <1>5, <1>6, <1>7
<1>9. Settles(v \o <<Snapshot(x)>>, Lists, G, now)  BY <1>2, <1>3, <1>4, <1>8, SettlesSend
<1> QED  BY <1>8, <1>9 DEF now, G

LEMMA CatalogRelay == ASSUME IInv, IInv', CatalogInv, RelayStep PROVE CatalogInv'
<1> SUFFICES ASSUME NEW i \in Instances, hub'[i].conn # 0, ~Socketed(i)'.code PROVE CatalogDue(i)'
  BY DEF CatalogInv
<1> DEFINE l == pushed[i].list
<1>0. hub' = hub /\ pushed' = pushed /\ Relay /\ hub[i].conn # 0  BY DEF RelayStep
<1>1. l \in Versions /\ l # None /\ catalog \in Entries
  <2>1. l \in Versions /\ catalog \in Entries  BY HubSocket, PagerFrames DEF IInv, WiresInv
  <2> QED  BY <2>1, RelayAssumption, MirrorAssumption DEF Versions
<1>2. ASSUME UpIdle(i), catalog[i] = l => catalog'[i] = l PROVE CatalogDue(i)'
  <2>1. CatalogDue(i)  BY <1>0, <1>2 DEF CatalogInv, UpIdle
  <2> QED  BY <1>0, <1>2, <2>1, CatalogIdle
<1>3. ASSUME NEW f, UpTaken(i, f), f \in Lists => catalog'[i] = f.list, f \notin Lists /\ catalog[i] = l => catalog'[i] = l
      PROVE  CatalogDue(i)'
  <2>1. CatalogDue(i)  BY <1>0, <1>3 DEF CatalogInv, UpTaken
  <2> QED  BY <1>0, <1>3, <2>1, CatalogTaken
<1>4. ASSUME NEW j \in Instances, catalog[i] = l PROVE HelloEntry(j)[i] = l
  BY <1>1, <1>4 DEF HelloEntry, Entries
<1>5. ASSUME NEW c, OnHello(c) \/ OnSessionCatalog(c) \/ OnSnapshot(c) PROVE CatalogDue(i)'
  <2> DEFINE f == Head(agents[c].up)  j == agents[c].inst
  <2>1. j \in Instances /\ f \in UpFrames /\ (i # j => UpIdle(i)) /\ (i = j => UpTaken(i, f))
    BY <1>0, <1>5, RelayTakes
  <2>2. CASE OnHello(c)
    <3>1. catalog' = catalog \/ catalog' = HelloEntry(j)  BY <2>2 DEF OnHello
    <3>2. catalog[i] = l => catalog'[i] = l  BY <1>4, <2>1, <3>1
    <3>3. f \notin Lists  BY <2>2 DEF OnHello, AgentFrame, Lists
    <3> QED  BY <1>2, <1>3, <2>1, <3>2, <3>3
  <2>3. CASE OnSessionCatalog(c)
    <3>1. catalog' = [catalog EXCEPT ![j] = f.list]  BY <2>3 DEF OnSessionCatalog
    <3>2. f \in Lists  BY <2>1, <2>3 DEF OnSessionCatalog, AgentFrame, Lists
    <3>3. (i = j => catalog'[i] = f.list) /\ (i # j => catalog'[i] = catalog[i])  BY <1>1, <3>1 DEF Entries
    <3> QED  BY <1>2, <1>3, <2>1, <3>2, <3>3
  <2>4. CASE OnSnapshot(c)
    <3>1. catalog' = catalog  BY <2>4 DEF OnSnapshot
    <3>2. f \notin Lists  BY <2>4 DEF OnSnapshot, AgentFrame, Lists
    <3> QED  BY <1>2, <1>3, <2>1, <3>1, <3>2
  <2> QED  BY <1>5, <2>2, <2>3, <2>4
<1>6. ASSUME NEW c \in DOMAIN agents, HelloSaves(c) \/ HelloFails(c) \/ HelloBroadcasts(c) PROVE CatalogDue(i)'
  <2>1. UpIdle(i)  BY <1>0, <1>6, RelayNotes
  <2>2. agents[c].inst \in Instances  BY OpenSocket DEF IInv
  <2>3. catalog' = catalog \/ catalog' = HelloEntry(agents[c].inst)  BY <1>6 DEF HelloSaves, HelloFails, HelloBroadcasts
  <2> QED  BY <1>2, <1>4, <2>1, <2>2, <2>3
<1>7. ASSUME NEW c \in DOMAIN agents, AgentClose(c) PROVE CatalogDue(i)'
  <2>1. UpIdle(i)  BY <1>0, <1>7, RelayNotes
  <2> DEFINE A == [agents EXCEPT ![c].st = "closed"]  j == agents[c].inst
  <2>2. catalog' = IF AgentsOf(A, j) # {} THEN catalog ELSE [catalog EXCEPT ![j] = None]  BY <1>7 DEF AgentClose
  <2>3. hub[i].conn \in DOMAIN agents /\ agents[hub[i].conn].live /\ agents[hub[i].conn].st = "open" /\ agents[hub[i].conn].inst = i
    BY <1>0, WindowTyped DEF Socketed
  <2>4. hub[i].conn # c  BY <1>7, <2>3 DEF AgentClose
  <2>5. A[hub[i].conn] = agents[hub[i].conn] /\ DOMAIN A = DOMAIN agents  BY <2>3, <2>4
  <2>6. i = j => AgentsOf(A, j) # {}  BY <2>3, <2>5 DEF AgentsOf, OpenAgents
  <2>7. catalog'[i] = catalog[i]  BY <1>1, <2>2, <2>6 DEF Entries
  <2> QED  BY <1>2, <2>1, <2>7
<1>8. ASSUME NEW t \in DOMAIN tabs, OnWatch(t) \/ OnPrompt(t) \/ TabClose(t) PROVE CatalogDue(i)'
  <2>1. UpIdle(i)  BY <1>0, <1>8, RelayWatches, RelayPrompts, RelayClosesTab DEF Subscribed
  <2>2. catalog' = catalog  BY <1>8 DEF OnWatch, OnPrompt, TabClose
  <2> QED  BY <1>2, <2>1, <2>2
<1> QED  BY <1>0, <1>5, <1>6, <1>7, <1>8 DEF Relay

LEMMA CatalogWindow ==
    ASSUME IInv, IInv', Room, CatalogInv, NEW i \in Instances,
           Connect(i) \/ Pump(i) \/ Receive(i) \/ Drop(i) \/ StateChanged(i) \/ HandleEvent(i)
    PROVE  CatalogInv'
<1> SUFFICES ASSUME NEW j \in Instances, hub'[j].conn # 0, ~Socketed(j)'.code PROVE CatalogDue(j)'
  BY DEF CatalogInv
<1>0. hub \in [Instances -> HubState] /\ hub[i] \in HubState /\ pushed[j] \in PagerState /\ catalog' = catalog
      /\ hub[j].in \in Seq(Events)
  <2>1. catalog' = catalog
    <3>1. CASE Connect(i)  BY <3>1, Accepted
    <3>2. CASE ~Connect(i)  BY <3>2, Zenon DEF Pump, Receive, Drop, StateChanged, HandleEvent
    <3> QED  BY <3>1, <3>2
  <2>2. hub \in [Instances -> HubState] /\ pushed[j] \in PagerState  BY HubSocket
  <2> QED  BY <2>1, <2>2 DEF HubState
<1>1. ASSUME UpIdle(j), Occurs(hub[j].in, "Status") => Occurs(hub'[j].in, "Status"), pushed'[j] = pushed[j]
      PROVE  CatalogDue(j)'
  <2>1. CatalogDue(j)  BY <1>1 DEF CatalogInv, UpIdle
  <2> QED  BY <1>0, <1>1, <2>1, CatalogIdle
<1>2. CASE Connect(i)
  <2>1. pushed' = pushed  BY <1>2 DEF Connect
  <2>2. CASE j # i
    <3>1. hub'[j] = hub[j]  BY <1>2, <2>2, WindowComes
    <3>2. UpIdle(j)  BY <1>2, <2>2, <3>1, WindowComes
    <3> QED  BY <1>1, <2>1, <3>1, <3>2
  <2>3. CASE j = i
    <3>1. PICK e \in Events : hub'[i].in = hub[i].in \o <<e>> /\ e = "Status"  BY <1>2, <2>3, WindowComes
    <3>2. Occurs(hub'[i].in, "Status")  BY <1>0, <2>3, <3>1, OccursSend
    <3> QED  BY <2>3, <3>2 DEF CatalogDue
  <2> QED  BY <2>2, <2>3
<1>3. CASE Pump(i)
  <2>1. pushed' = pushed /\ hub' = [hub EXCEPT ![i].out = Tail(@)]  BY <1>3 DEF Pump
  <2>2. hub'[j].in = hub[j].in /\ hub'[j].conn = hub[j].conn  BY <1>0, <2>1 DEF HubState
  <2> QED  BY <1>1, <1>3, <2>1, <2>2, WindowPumps
<1>4. CASE Receive(i)
  <2> DEFINE e == event_from_cloud(Head(agents[hub[i].conn].down))
  <2>1. pushed' = pushed /\ hub' = [hub EXCEPT ![i].in = Append(@, e)]  BY <1>4 DEF Receive
  <2>2. (hub'[j].in = hub[j].in \/ hub'[j].in = Append(hub[j].in, e)) /\ hub'[j].conn = hub[j].conn
    BY <1>0, <2>1 DEF HubState
  <2>3. e \in Events
    <3>1. agents[hub[i].conn].down # <<>> /\ agents[hub[i].conn].down \in Seq(DownFrames)
      BY <1>4, WindowTyped DEF Receive, Socketed
    <3> QED  BY <3>1, HeadTailProperties, CloudEvent
  <2> HIDE DEF e
  <2>4. Append(hub[j].in, e) = hub[j].in \o <<e>>  BY <1>0, <2>3
  <2>5. Occurs(hub[j].in, "Status") => Occurs(hub'[j].in, "Status")
    <3>1. Occurs(hub[j].in, "Status") => Occurs(hub[j].in \o <<e>>, "Status")  BY <1>0, <2>3, OccursSend
    <3> QED  BY <2>2, <2>4, <3>1
  <2> QED  BY <1>1, <1>4, <2>1, <2>2, <2>5, WindowReceives
<1>5. CASE Drop(i)
  <2>1. pushed' = pushed  BY <1>5 DEF Drop
  <2>2. j # i /\ hub'[j] = hub[j]  BY <1>5, WindowDrops
  <2> QED  BY <1>1, <1>5, <2>1, <2>2, WindowDrops
<1>6. CASE (StateChanged(i) \/ HandleEvent(i)) /\ j # i
  <2>1. UpIdle(j) /\ hub'[j] = hub[j] /\ pushed'[j] = pushed[j]  BY <1>6, PagerElsewhere
  <2> QED  BY <1>1, <2>1
<1>7. CASE StateChanged(i) /\ j = i
  <2> DEFINE x == pager'[i]
  <2>1. hub[i].conn # 0  BY <1>7, PagerAlone
  <2>2. /\ hub'[i].in = hub[i].in /\ hub'[i].key = x.list /\ Socketed(i)'.code = Socketed(i).code /\ x \in PagerState
        /\ pushed'[i] = x
        /\ \E v \in Seq(UpFrames) :
             /\ Listed(i, x, v)
             /\ Way(i)' = IF hub[i].watching THEN v \o <<Snapshot(x)>> ELSE v
    BY <1>7, <2>1, WindowPushes
  <2>3. PICK v \in Seq(UpFrames) : Listed(i, x, v) /\ Way(i)' = IF hub[i].watching THEN v \o <<Snapshot(x)>> ELSE v
    BY <2>2
  <2>4. CatalogDue(i)  BY <1>7, <2>1, <2>2 DEF CatalogInv
  <2>5. CASE Occurs(hub[i].in, "Status")  BY <1>7, <2>2, <2>5 DEF CatalogDue
  <2>6. CASE ~Occurs(hub[i].in, "Status")
    <3>1. hub[i].key = pushed[i].list /\ Settles(Way(i), Lists, ListsOf(pushed[i].list), catalog[i] = pushed[i].list)
      BY <2>4, <2>6 DEF CatalogDue
    <3>2. hub[i].key = x.list => Settles(Way(i), Lists, ListsOf(x.list), catalog[i] = x.list)  BY <3>1
    <3> HIDE DEF x
    <3>3. Settles(Way(i)', Lists, ListsOf(x.list), catalog[i] = x.list)
      BY <2>1, <2>2, <2>3, <3>2, CatalogPushes
    <3>4. pushed'[i] = x /\ (ListsOf(pushed[i].list))' = ListsOf(x.list)  BY <2>2 DEF ListsOf, Lists
    <3> QED  BY <1>0, <1>7, <2>2, <3>3, <3>4 DEF CatalogDue, x
  <2> QED  BY <2>5, <2>6
<1>8. CASE HandleEvent(i) /\ j = i
  <2> DEFINE x == pager[i]  y == pushed[i]  G == ListsOf(x.list)  now == (catalog[i] = x.list)
  <2>1. hub[i].conn # 0  BY <1>8, PagerAlone
  <2>2. PICK e \in Events : Handles(i, e)  BY <1>8, <2>1, WindowHandles
  <2>3. CatalogDue(i)  BY <1>8, <2>1, <2>2 DEF CatalogInv, Handles
  <2>4. x \in PagerState /\ Way(i) \in Seq(UpFrames) /\ hub[i].in \in Seq(Events)  BY <1>0, <1>8, <2>1, WindowTyped, HubSocket
  <2>5. ASSUME pushed'[i].list = x.list, hub'[i].key = x.list, Settles(Way(i)', Lists, G, now) PROVE CatalogDue(i)'
    <3>1. (ListsOf(pushed[i].list))' = G /\ (catalog[i] = pushed[i].list)' = now  BY <1>0, <2>5 DEF ListsOf, Lists
    <3> QED  BY <2>5, <3>1 DEF CatalogDue
  <2>6. CASE e = "Status"
    <3>1. hub'[i].key = x.list /\ Way(i)' = Way(i) \o <<SessionCatalog(x)>> /\ pushed'[i].list = x.list
      BY <2>2, <2>6 DEF Handles
    <3>2. SessionCatalog(x) \in UpFrames /\ SessionCatalog(x) \in G /\ G \in SUBSET Lists /\ now \in BOOLEAN
      BY <2>4, ListKinds, PagerFrames
    <3> HIDE DEF G, now
    <3>3. Settles(Way(i)', Lists, G, now)  BY <2>4, <3>1, <3>2, SettlesSend
    <3> QED  BY <1>8, <2>5, <3>1, <3>3
  <2>7. CASE e # "Status" /\ Occurs(hub[i].in, "Status")
    <3>1. hub[i].in # <<>> /\ Head(hub[i].in) = e /\ hub'[i].in = Tail(hub[i].in)  BY <2>2 DEF Handles
    <3>2. Occurs(hub'[i].in, "Status")  BY <2>4, <2>7, <3>1, OccursTake
    <3> QED  BY <1>8, <3>2 DEF CatalogDue
  <2>8. CASE e # "Status" /\ ~Occurs(hub[i].in, "Status")
    <3>1. hub[i].key = y.list /\ Settles(Way(i), Lists, ListsOf(y.list), catalog[i] = y.list)  BY <2>3, <2>8 DEF CatalogDue
    <3>2. CASE e = "RequestSnapshot"
      <4>1. PICK v \in Seq(UpFrames) : Listed(i, x, v) /\ Way(i)' = v \o <<Snapshot(x)>>  BY <2>2, <3>2 DEF Handles
      <4>2. hub[i].key = x.list => Settles(Way(i), Lists, G, now)  BY <3>1
      <4>3. Settles(Way(i)', Lists, G, now)  BY <2>1, <2>4, <4>1, <4>2, CatalogPushes
      <4>4. hub'[i].key = x.list /\ pushed'[i] = x  BY <2>2, <3>2 DEF Handles
      <4> QED  BY <1>8, <2>5, <4>3, <4>4
    <3>3. CASE e # "RequestSnapshot"
      <4>1. hub'[i].key = hub[i].key /\ Way(i)' = Way(i) /\ pushed'[i] = y  BY <2>2, <2>8, <3>3 DEF Handles
      <4>2. (ListsOf(pushed[i].list))' = ListsOf(y.list)  BY <4>1 DEF ListsOf, Lists
      <4> QED  BY <1>0, <1>8, <3>1, <4>1, <4>2 DEF CatalogDue
    <3> QED  BY <3>2, <3>3
  <2> QED  BY <2>6, <2>7, <2>8
<1> QED  BY <1>2, <1>3, <1>4, <1>5, <1>6, <1>7, <1>8

LEMMA PagesAside ==
    ASSUME NEW p \in Pages, PageConnects(p) \/ PageDrops(p) \/ Click(p) \/ Compose(p) \/ OnMessage(p)
    PROVE  agents' = agents /\ hub' = hub /\ pushed' = pushed /\ catalog' = catalog
BY Zenon DEF PageConnects, AcceptTab, PageDrops, Click, Compose, OnMessage

LEMMA CatalogStep == IInv /\ CatalogInv /\ Room /\ [Next]_vars => CatalogInv'
<1> SUFFICES ASSUME IInv, CatalogInv, Room, [Next]_vars PROVE CatalogInv'  OBVIOUS
<1>1. IInv'  BY StepKeeps
<1>2. ASSUME agents' = agents /\ hub' = hub /\ pushed' = pushed /\ catalog' = catalog PROVE CatalogInv'
  BY <1>2 DEF CatalogInv, CatalogDue, Socketed, Way, ListsOf, Lists
<1>3. CASE RelayStep  BY <1>1, <1>3, CatalogRelay
<1>4. ASSUME NEW i \in Instances, Connect(i) \/ Pump(i) \/ Receive(i) \/ Drop(i) \/ StateChanged(i) \/ HandleEvent(i)
      PROVE  CatalogInv'
  BY <1>1, <1>4, CatalogWindow
<1>5. ASSUME NEW p \in Pages, PageConnects(p) \/ PageDrops(p) \/ Click(p) \/ Compose(p) \/ OnMessage(p)
      PROVE  CatalogInv'
  BY <1>2, <1>5, PagesAside
<1>6. CASE Aside  BY <1>2, <1>6, AsideStays
<1> QED  BY <1>3, <1>4, <1>5, <1>6 DEF Next, Aside

(* A quiet window has nothing on its way.                                  *)
LEMMA QuietWindow ==
    ASSUME IInv, Quiet, NEW i \in Instances, hub[i].conn # 0
    PROVE  Way(i) = <<>> /\ Coming(i) = <<>> /\ hub[i].in = <<>>
<1>1. hub[i].conn \in DOMAIN agents  BY WindowTyped
<1>2. Socketed(i).up = <<>> /\ Socketed(i).down = <<>> /\ hub[i].in = <<>> /\ hub[i].out = <<>>
  BY <1>1 DEF Quiet, Socketed
<1>3. EventsOf(<<>>) = <<>>  BY DEF EventsOf
<1> QED  BY <1>2, <1>3 DEF Way, Coming

(* While every outbound buffer has room for one more push, a state in      *)
(* which nothing is under way has the list that every window which came    *)
(* with its token last pushed: no reconnect, retry or close in between     *)
(* leaves an older catalog behind (push_catalog_if_connected,              *)
(* webSocketMessage).                                                      *)
THEOREM CatalogSettles == Spec /\ []Room => []CatalogIsLastPushed
<1>1. Init => CatalogInv
  <2> SUFFICES ASSUME Init PROVE CatalogInv  OBVIOUS
  <2>1. hub = [i \in Instances |-> [conn |-> 0, watching |-> FALSE, key |-> None, out |-> <<>>, in |-> <<>>]]
    BY Zenon DEF Init
  <2>2. \A i \in Instances : hub[i].conn = 0  BY <2>1
  <2> QED  BY <2>2 DEF CatalogInv
<1>2. IInv /\ CatalogInv => CatalogIsLastPushed
  <2> SUFFICES ASSUME IInv, CatalogInv, Quiet, NEW i \in Instances, hub[i].conn # 0, ~agents[hub[i].conn].code
               PROVE  catalog[i] = pushed[i].list
    BY DEF CatalogIsLastPushed
  <2>1. CatalogDue(i)  BY DEF CatalogInv, Socketed
  <2>2. Way(i) = <<>> /\ hub[i].in = <<>>  BY QuietWindow
  <2>3. ~Occurs(<<>>, "Status")  BY DEF Occurs
  <2>4. Settles(<<>>, Lists, ListsOf(pushed[i].list), catalog[i] = pushed[i].list)
    BY <2>1, <2>2, <2>3 DEF CatalogDue
  <2> QED  BY <2>4, SettlesEmpty
<1> QED  BY <1>1, <1>2, InitHolds, StepKeeps, CatalogStep, PTL DEF Spec

-----------------------------------------------------------------------------
(* What the steps do to the browsers' wires.                               *)
TextFree(fs) == \A k \in 1..Len(fs) : fs[k].type # "snapshot"

LEMMA OfflineFrame ==
    ASSUME NEW i \in Instances
    PROVE  InstanceOffline(i) \in TabFrames /\ InstanceOffline(i).type = "instance_offline" /\ InstanceOffline(i).inst = i
<1>1. InstanceOffline(i) \in [type : {"instance_offline"}, inst : Instances]
      /\ InstanceOffline(i).type = "instance_offline" /\ InstanceOffline(i).inst = i
  BY DEF InstanceOffline
<1>2. InstanceOffline(i) \in TabFrames
  <2>1. [type : {"instance_offline"}, inst : Instances] \subseteq TabFrames  BY Zenon DEF TabFrames
  <2> QED  BY <1>1, <2>1, Zenon
<1> QED  BY <1>1, <1>2

(* An agent's event other than a snapshot: the browsers hear nothing of a  *)
(* transcript, and hear of a window that has lost its last socket.         *)
LEMMA RelaySpeaks ==
    ASSUME IInv, IInv', NEW c \in DOMAIN agents,
           OnHello(c) \/ HelloSaves(c) \/ HelloFails(c) \/ HelloBroadcasts(c) \/ OnSessionCatalog(c) \/ AgentClose(c)
    PROVE  \/ tabs' = tabs /\ ~AgentClose(c)
           \/ \E fs \in Seq(TabFrames) :
                 /\ tabs' = broadcastBrowsers(tabs, fs) /\ TextFree(fs)
                 /\ AgentClose(c) /\ AgentsOf(agents', agents[c].inst) = {} => Occurs(fs, InstanceOffline(agents[c].inst))
<1> DEFINE i == agents[c].inst
<1>0. catalog \in Entries /\ catalog' \in Entries /\ i \in Instances  BY OpenSocket DEF IInv, WiresInv
<1>1. CASE ~AgentClose(c)
  <2>1. CASE tabs' = tabs  BY <1>1, <2>1
  <2>2. ASSUME NEW e \in Entries, NEW o \in BOOLEAN, tabs' = broadcastBrowsers(tabs, <<CatalogFrame(e, o)>>)
        PROVE  \E fs \in Seq(TabFrames) : tabs' = broadcastBrowsers(tabs, fs) /\ TextFree(fs)
    <3> DEFINE z == CatalogFrame(e, o)
    <3>1. z \in TabFrames /\ z.type = "catalog"  BY <2>2, CatalogFramed DEF CatalogFrame
    <3> HIDE DEF z
    <3>2. <<z>> \in Seq(TabFrames) /\ TextFree(<<z>>)  BY <3>1 DEF TextFree
    <3> QED  BY <2>2, <3>2 DEF z
  <2>3. tabs' = tabs \/ tabs' = broadcastBrowsers(tabs, <<CatalogNow(agents)>>)
        \/ tabs' = broadcastBrowsers(tabs, <<CatalogFrame(catalog', OpenAgents(agents) # {})>>)
    BY <1>1, Zenon DEF OnHello, HelloSaves, HelloFails, HelloBroadcasts, OnSessionCatalog
  <2>4. (OpenAgents(agents) # {}) \in BOOLEAN  OBVIOUS
  <2>5. CASE tabs' = broadcastBrowsers(tabs, <<CatalogNow(agents)>>)
    BY <1>0, <1>1, <2>2, <2>4, <2>5, Zenon DEF CatalogNow
  <2>6. CASE tabs' = broadcastBrowsers(tabs, <<CatalogFrame(catalog', OpenAgents(agents) # {})>>)
    BY <1>0, <1>1, <2>2, <2>4, <2>6, Zenon
  <2> QED  BY <2>1, <2>3, <2>5, <2>6
<1>2. CASE AgentClose(c)
  <2> DEFINE o == Reachable(agents')
             u == IF AgentsOf(agents', i) # {} THEN <<>> ELSE <<InstanceOffline(i)>>
             w == IF ~o THEN <<Frame("machine_offline")>> ELSE <<>>
             z == CatalogFrame(catalog', o)  fs == u \o <<z>> \o w
  <2>1. tabs' = broadcastBrowsers(tabs, fs)  BY <1>2 DEF AgentClose, Reachable
  <2>2. o \in BOOLEAN  BY ReachBool
  <2>3. z \in TabFrames /\ z.type = "catalog"  BY <1>0, <2>2, CatalogFramed DEF CatalogFrame
  <2>4. InstanceOffline(i) \in TabFrames /\ InstanceOffline(i).type = "instance_offline"  BY <1>0, OfflineFrame
  <2>5. Frame("machine_offline") \in TabFrames /\ Frame("machine_offline").type = "machine_offline"  BY DEF TabFrames, Frame
  <2>6. u \in Seq(TabFrames) /\ w \in Seq(TabFrames) /\ TextFree(u) /\ TextFree(w)
        /\ (AgentsOf(agents', i) = {} => Len(u) = 1 /\ u[1] = InstanceOffline(i))
    BY <2>4, <2>5 DEF TextFree
  <2> HIDE DEF u, w, z
  <2>7. /\ fs \in Seq(TabFrames) /\ Len(u) \in Nat /\ Len(w) \in Nat /\ Len(fs) = Len(u) + 1 + Len(w)
        /\ \A k \in 1..Len(u) : fs[k] = u[k]
        /\ fs[Len(u) + 1] = z
        /\ \A k \in 1..Len(w) : fs[Len(u) + 1 + k] = w[k]
    BY <2>3, <2>6
  <2> HIDE DEF fs
  <2>8. TextFree(fs)
    <3> SUFFICES ASSUME NEW k \in 1..Len(fs) PROVE fs[k].type # "snapshot"  BY DEF TextFree
    <3>1. CASE k \in 1..Len(u)  BY <2>6, <2>7, <3>1 DEF TextFree
    <3>2. CASE k = Len(u) + 1  BY <2>3, <2>7, <3>2
    <3>3. CASE k > Len(u) + 1
      <4>0. Len(u) \in Nat /\ Len(w) \in Nat /\ Len(fs) = Len(u) + 1 + Len(w)  BY <2>7
      <4>1. k - (Len(u) + 1) \in 1..Len(w) /\ Len(u) + 1 + (k - (Len(u) + 1)) = k  BY <3>3, <4>0
      <4> QED  BY <2>6, <2>7, <4>1 DEF TextFree
    <3> QED  BY <2>7, <3>1, <3>2, <3>3
  <2>9. AgentsOf(agents', i) = {} => Occurs(fs, InstanceOffline(i))
    <3> SUFFICES ASSUME AgentsOf(agents', i) = {} PROVE Occurs(fs, InstanceOffline(i))  OBVIOUS
    <3>a. Len(u) = 1 /\ u[1] = InstanceOffline(i)  BY <2>6
    <3>b. Len(w) \in Nat /\ Len(fs) = Len(u) + 1 + Len(w)  BY <2>7
    <3>c. \A k \in 1..Len(u) : fs[k] = u[k]  BY <2>7
    <3>0. 1 \in 1..Len(u) /\ 1 \in 1..Len(fs)  BY <3>a, <3>b
    <3>1. 1 \in 1..Len(fs) /\ fs[1] = InstanceOffline(i)  BY <3>0, <3>a, <3>c, Zenon
    <3> QED  BY <3>1 DEF Occurs
  <2> QED  BY <1>2, <2>1, <2>7, <2>8, <2>9
<1> QED  BY <1>1, <1>2

LEMMA WatchedSame ==
    ASSUME NEW T \in Seq(Browsers), NEW U \in Seq(Browsers), Len(U) >= Len(T),
           \A t \in 1..Len(T) : U[t].st = T[t].st /\ U[t].watch = T[t].watch
    PROVE  watchedInstanceIds(T) \subseteq watchedInstanceIds(U)
<1>1. DOMAIN T = 1..Len(T) /\ DOMAIN U = 1..Len(U) /\ Len(T) \in Nat /\ Len(U) \in Nat  BY LenProperties
<1>2. OpenTabs(T) \subseteq OpenTabs(U) /\ \A t \in OpenTabs(T) : U[t].watch = T[t].watch  BY <1>1 DEF OpenTabs
<1> QED  BY <1>2 DEF watchedInstanceIds

-----------------------------------------------------------------------------
(* Which windows mirror.  A push leaves the events of a window alone, and  *)
(* handling one of them leaves what they come to.                          *)
LEMMA PushKeeps ==
    ASSUME NEW h \in HubState, NEW x \in PagerState
    PROVE  /\ LET g == push_catalog_if_connected(h, x)
              IN  g \in HubState /\ g.conn = h.conn /\ g.watching = h.watching /\ g.in = h.in
           /\ LET k == push_snapshot_if_connected(h, x)
              IN  k \in HubState /\ k.conn = h.conn /\ k.watching = h.watching /\ k.in = h.in
<1> DEFINE g == push_catalog_if_connected(h, x)  k == push_snapshot_if_connected(h, x)
           o == Emit(h.out, <<SessionCatalog(x)>>)  w == Emit(g.out, <<Snapshot(x)>>)
<1>1. g \in HubState /\ g.conn = h.conn /\ k \in HubState /\ k.conn = h.conn  BY CatalogPushed, SnapshotPushed DEF Pushed
<1>2. g = h \/ g = [h EXCEPT !.key = x.list, !.out = o]  BY DEF push_catalog_if_connected
<1>3. k = g \/ k = [g EXCEPT !.out = w]  BY DEF push_snapshot_if_connected
<1> HIDE DEF g, k, o, w
<1>4. g.watching = h.watching /\ g.in = h.in  BY <1>2 DEF HubState
<1>5. k.watching = g.watching /\ k.in = g.in  BY <1>1, <1>3 DEF HubState
<1> QED  BY <1>1, <1>4, <1>5 DEF g, k

LEMMA WindowObeys ==
    ASSUME IInv, IInv', NEW i \in Instances, StateChanged(i) \/ HandleEvent(i), hub[i].conn # 0
    PROVE  hub'[i].conn = hub[i].conn /\ (Mirrors(i)' <=> Mirrors(i))
<1>0. hub \in [Instances -> HubState] /\ hub[i] \in HubState /\ pager[i] \in PagerState /\ pager' \in [Instances -> PagerState]
  <2>1. pager' \in [Instances -> PagerState]  BY DEF IInv, WiresInv
  <2> QED  BY <2>1, HubSocket
<1>1. CASE StateChanged(i)
  <2> DEFINE x == pager'[i]
  <2>1. hub'[i] = push_snapshot_if_connected(hub[i], x) /\ agents' = agents  BY <1>0, <1>1 DEF StateChanged
  <2>2. x \in PagerState  BY <1>0
  <2> HIDE DEF x
  <2>3. hub'[i].conn = hub[i].conn /\ hub'[i].watching = hub[i].watching /\ hub'[i].in = hub[i].in
    BY <1>0, <2>1, <2>2, PushKeeps
  <2> QED  BY <2>1, <2>3 DEF Mirrors, Coming, Socketed
<1>2. CASE HandleEvent(i)
  <2> DEFINE u == hub[i].in  e == Head(u)  h == WithIn(hub[i], Tail(u))  x == pager[i]
             r == reset_catalog_cache(h)  w == [h EXCEPT !.watching = TRUE]  k == hub'[i]
             s == Coming(i)  q == EventsOf(Socketed(i).down)
  <2>1. k = CASE e = "Status" -> push_catalog_if_connected(r, x)
              [] e = "RequestSnapshot" -> push_snapshot_if_connected(w, x)
              [] e = "StopWatching" -> [h EXCEPT !.watching = FALSE]
              [] OTHER -> h
    BY <1>0, <1>2 DEF HandleEvent, WithIn
  <2>2. u # <<>> /\ u \in Seq(Events) /\ agents' = agents  BY <1>0, <1>2 DEF HandleEvent, HubState
  <2>3. e \in Events /\ Tail(u) \in Seq(Events)  BY <2>2, HeadTailProperties
  <2>4. h \in HubState /\ h.conn = hub[i].conn /\ h.in = Tail(u) /\ h.watching = hub[i].watching
    BY <1>0, <2>3 DEF HubState, WithIn
  <2> HIDE DEF h
  <2>5. /\ r \in HubState /\ r.conn = h.conn /\ r.in = h.in /\ r.watching = h.watching
        /\ w \in HubState /\ w.conn = h.conn /\ w.in = h.in /\ w.watching = TRUE
        /\ LET z == [h EXCEPT !.watching = FALSE] IN z.conn = h.conn /\ z.in = h.in /\ z.watching = FALSE
    BY <2>4 DEF reset_catalog_cache, HubState
  <2> HIDE DEF e, r, w, x, k
  <2>6. x \in PagerState  BY <1>0 DEF x
  <2>7. /\ k.conn = h.conn /\ k.in = Tail(u) /\ k.watching \in BOOLEAN
        /\ e = "RequestSnapshot" => k.watching
        /\ e = "StopWatching" => ~k.watching
        /\ e \notin Orders => k.watching = h.watching
    <3>1. CASE e = "Status"
      <4>1. k = push_catalog_if_connected(r, x)  BY <2>1, <3>1
      <4>2. k \in HubState /\ k.conn = r.conn /\ k.watching = r.watching /\ k.in = r.in  BY <2>5, <2>6, <4>1, PushKeeps
      <4> QED  BY <2>4, <2>5, <3>1, <4>2 DEF HubState
    <3>2. CASE e = "RequestSnapshot"
      <4>1. k = push_snapshot_if_connected(w, x)  BY <2>1, <3>2
      <4>2. k \in HubState /\ k.conn = w.conn /\ k.watching = w.watching /\ k.in = w.in  BY <2>5, <2>6, <4>1, PushKeeps
      <4> QED  BY <2>4, <2>5, <3>2, <4>2 DEF Orders
    <3>3. CASE e = "StopWatching"
      <4>1. k = [h EXCEPT !.watching = FALSE]  BY <2>1, <3>3
      <4> QED  BY <2>4, <2>5, <3>3, <4>1 DEF Orders
    <3>4. CASE e \notin {"Status", "RequestSnapshot", "StopWatching"}
      <4>1. k = h  BY <2>1, <3>4
      <4> QED  BY <2>4, <3>4, <4>1 DEF HubState
    <3> QED  BY <3>1, <3>2, <3>3, <3>4
  <2>8. q \in Seq(Events) /\ s = u \o q /\ s \in Seq(Events)  BY WindowTyped DEF Coming
  <2>9. Coming(i)' = Tail(u) \o q  BY <2>2, <2>4, <2>7 DEF Coming, Socketed, k
  <2> HIDE DEF u, q, s
  <2>10. s # <<>> /\ Head(s) = e /\ Coming(i)' = Tail(s)  BY <2>2, <2>8, <2>9, TailConcat DEF e
  <2>11. Requests \in SUBSET Orders /\ hub[i].watching \in BOOLEAN
    BY <1>0 DEF Requests, Orders, HubState
  <2> DEFINE now == hub[i].watching  then == k.watching
  <2>12. /\ e \in Requests => then
         /\ e \notin Orders => then = now
         /\ e \in Orders /\ e \notin Requests => ~then
    BY <2>4, <2>7 DEF Requests, Orders
  <2>13. now \in BOOLEAN /\ then \in BOOLEAN  BY <2>7, <2>11
  <2> HIDE DEF now, then
  <2>14. Settles(s, Orders, Requests, now) <=> Settles(Tail(s), Orders, Requests, then)
    <3>1. (Head(s) \in Requests => then) /\ (Head(s) \notin Orders /\ now => then)  BY <2>10, <2>12
    <3>2. then => Head(s) \in Requests \/ (Head(s) \notin Orders /\ now)  BY <2>10, <2>12
    <3>a. s \in Seq(Events) /\ s # <<>> /\ Requests \in SUBSET Orders /\ now \in BOOLEAN /\ then \in BOOLEAN
      BY <2>8, <2>10, <2>11, <2>13
    <3>3. Settles(s, Orders, Requests, now) => Settles(Tail(s), Orders, Requests, then)  BY <3>a, <3>1, SettlesTake
    <3>4. Settles(Tail(s), Orders, Requests, then) => Settles(s, Orders, Requests, now)  BY <3>a, <3>2, SettlesTake
    <3> QED  BY <3>3, <3>4
  <2>15. (Mirrors(i) <=> Settles(s, Orders, Requests, now)) /\ (Mirrors(i)' <=> Settles(Tail(s), Orders, Requests, then))
    BY <2>10 DEF Mirrors, s, now, then, k
  <2> QED  BY <2>4, <2>7, <2>14, <2>15 DEF k
<1> QED  BY <1>1, <1>2

(* Only connecting gives a window a connection.                            *)
LEMMA OnlyConnects ==
    ASSUME IInv, IInv', [Next]_vars, NEW i \in Instances, hub[i].conn = 0, hub'[i].conn # 0
    PROVE  Connect(i)
<1>0. hub \in [Instances -> HubState] /\ hub[i] \in HubState  BY HubSocket
<1>1. CASE RelayStep \/ Aside  BY <1>1, AsideStays DEF RelayStep
<1>2. ASSUME NEW p \in Pages, PageConnects(p) \/ PageDrops(p) \/ Click(p) \/ Compose(p) \/ OnMessage(p) PROVE Connect(i)
  BY <1>2, PagesAside
<1>3. ASSUME NEW j \in Instances, Connect(j) \/ Pump(j) \/ Receive(j) \/ Drop(j) \/ StateChanged(j) \/ HandleEvent(j)
      PROVE  Connect(i)
  <2>1. CASE Connect(j)  BY <2>1, WindowComes
  <2>2. CASE Pump(j)
    <3>1. hub' = [hub EXCEPT ![j].out = Tail(@)]  BY <2>2 DEF Pump
    <3> QED  BY <1>0, <3>1 DEF HubState
  <2>3. CASE Receive(j)
    <3>1. \E e : hub' = [hub EXCEPT ![j].in = Append(@, e)]  BY <2>3 DEF Receive
    <3> QED  BY <1>0, <3>1 DEF HubState
  <2>4. CASE Drop(j)  BY <2>4, WindowDrops
  <2>5. CASE StateChanged(j) \/ HandleEvent(j)
    <3>1. CASE j = i
      <4>1. hub'[i].conn = hub[i].conn  BY <2>5, <3>1, PagerAlone
      <4> QED  BY <4>1
    <3>2. CASE j # i
      <4>1. hub'[i] = hub[i]  BY <2>5, <3>2, PagerElsewhere
      <4> QED  BY <4>1
    <3> QED  BY <3>1, <3>2
  <2> QED  BY <1>3, <2>1, <2>2, <2>3, <2>4, <2>5
<1> QED  BY <1>1, <1>2, <1>3 DEF Next, Aside

IdleMirror(i) == hub'[i].conn = hub[i].conn /\ (Mirrors(i)' <=> Mirrors(i))

LEMMA DownIdleMirror == ASSUME NEW i \in Instances, DownIdle(i) PROVE IdleMirror(i)
BY DEF DownIdle, IdleMirror, Mirrors

(* What a step does to a connected window: it is told anew whether it is   *)
(* watched, it loses its connection, or its mirroring stays as it was.     *)
LEMMA MirrorsKept ==
    ASSUME IInv, IInv', [Next]_vars, NEW i \in Instances, hub[i].conn # 0
    PROVE  \/ IdleMirror(i)
           \/ hub'[i].conn = 0
           \/ Subscribed(i)
<1>1. CASE RelayStep
  <2>0. hub' = hub /\ Relay  BY <1>1 DEF RelayStep
  <2>1. ASSUME NEW c \in DOMAIN agents, OnHello(c) \/ OnSessionCatalog(c) \/ OnSnapshot(c) PROVE IdleMirror(i)
    BY <2>0, <2>1, RelayTakes, DownIdleMirror
  <2>2. ASSUME NEW c \in DOMAIN agents, HelloSaves(c) \/ HelloFails(c) \/ HelloBroadcasts(c) \/ AgentClose(c)
        PROVE  IdleMirror(i)
    BY <2>0, <2>2, RelayNotes, DownIdleMirror
  <2>3. ASSUME NEW t, OnWatch(t) \/ TabClose(t) PROVE Subscribed(i)
    BY <2>0, <2>3, RelayWatches, RelayClosesTab
  <2>4. ASSUME NEW t, OnPrompt(t) PROVE IdleMirror(i)
    <3>1. Coming(i)' = Coming(i) \/ Coming(i)' = Coming(i) \o <<"InboundPrompt">>  BY <2>0, <2>4, RelayPrompts
    <3>2. Coming(i) \in Seq(Events) /\ hub[i].watching \in BOOLEAN  BY WindowTyped
    <3>3. "InboundPrompt" \in Events /\ "InboundPrompt" \notin Orders /\ Requests \in SUBSET Orders
      BY DEF Events, Orders, Requests
    <3> DEFINE s == Coming(i)  now == hub[i].watching
    <3> HIDE DEF s, now
    <3>4. Settles(s \o <<"InboundPrompt">>, Orders, Requests, now) <=> Settles(s, Orders, Requests, now)
      <4>1. s \in Seq(Events) /\ now \in BOOLEAN  BY <3>2 DEF s, now
      <4> QED  BY <3>3, <4>1, SettlesSend
    <3> QED  BY <2>0, <3>1, <3>4 DEF IdleMirror, Mirrors, s, now
  <2> QED  BY <2>0, <2>1, <2>2, <2>3, <2>4 DEF Relay
<1>2. ASSUME NEW j \in Instances, Connect(j) \/ Pump(j) \/ Receive(j) \/ Drop(j) \/ StateChanged(j) \/ HandleEvent(j)
      PROVE  IdleMirror(i) \/ hub'[i].conn = 0
  <2>1. CASE Connect(j)
    <3>1. j # i  BY <2>1 DEF Connect
    <3> QED  BY <2>1, <3>1, WindowComes, DownIdleMirror
  <2>2. CASE Pump(j)  BY <2>2, WindowPumps, DownIdleMirror
  <2>3. CASE Receive(j)  BY <2>3, WindowReceives, DownIdleMirror
  <2>4. CASE Drop(j)  BY <2>4, WindowDrops, DownIdleMirror
  <2>5. CASE (StateChanged(j) \/ HandleEvent(j)) /\ j # i  BY <2>5, PagerElsewhere, DownIdleMirror
  <2>6. CASE (StateChanged(j) \/ HandleEvent(j)) /\ j = i  BY <2>6, WindowObeys DEF IdleMirror
  <2> QED  BY <1>2, <2>1, <2>2, <2>3, <2>4, <2>5, <2>6
<1>3. ASSUME agents' = agents, hub' = hub PROVE IdleMirror(i)
  BY <1>3 DEF IdleMirror, Mirrors, Coming, Socketed
<1>4. ASSUME NEW p \in Pages, PageConnects(p) \/ PageDrops(p) \/ Click(p) \/ Compose(p) \/ OnMessage(p)
      PROVE  IdleMirror(i)
  BY <1>3, <1>4, PagesAside
<1>5. CASE Aside  BY <1>3, <1>5, AsideStays
<1> QED  BY <1>1, <1>2, <1>4, <1>5 DEF Next, Aside

-----------------------------------------------------------------------------
(* What a page does to its browser's wire.                                 *)
Asks(b) == \E k \in 1..Len(b.up) : b.up[k].type = "watch"
Refused(b, i) == Occurs(b.down, InstanceOffline(i))

\* A page goes from g to h and its browser from b to d, and keeps its selection: it
\* took no frame, or the next one, which shows the transcript it carries.
Keeps(g, b, h, d) ==
    /\ h.ws = g.ws /\ h.sel = g.sel /\ (Asks(b) => Asks(d))
    /\ \/ h.view = g.view /\ d.down = b.down
       \/ /\ b.down # <<>> /\ d.down = Tail(b.down) /\ Head(b.down) # InstanceOffline(g.sel)
          /\ Head(b.down) \in TabSnaps(g.sel) => h.view = [inst |-> g.sel, text |-> Head(b.down).text]
          /\ Head(b.down) \notin TabSnaps(g.sel) => h.view = g.view
PageActs(p) ==
    /\ \E g : page' = [page EXCEPT ![p] = g]
    /\ Len(tabs') >= Len(tabs)
    /\ \A u \in 1..Len(tabs) : /\ u # page[p].ws => tabs'[u] = tabs[u]
                               /\ tabs'[u].st = tabs[u].st /\ tabs'[u].watch = tabs[u].watch
    /\ page'[p].ws # 0 /\ page'[p].sel # None =>
         \/ Asks(tabs'[page'[p].ws])
         \/ page[p].ws # 0 /\ Keeps(page[p], tabs[page[p].ws], page'[p], tabs'[page'[p].ws])

LEMMA CatalogKeeps ==
    ASSUME NEW g \in PageStates, NEW f \in [type : {"catalog"}, entries : Entries, online : BOOLEAN]
    PROVE  LET r == applyCatalog(g, f)
           IN  ~r.picks /\ r.page.sel # None => r.page.sel = g.sel /\ r.page.view = g.view
<1> DEFINE known == {j \in Instances : f.entries[j] # None}
           gone == g.sel # None /\ g.sel \notin known
           on == f.online /\ known # {}
           h == Cleared(g, f.entries, on, gone)
           first == firstSessionId(f.entries[h.sel])
           only == CHOOSE j \in known : TRUE
           r == applyCatalog(g, f)
<1>1. r = IF h.sel = None /\ Cardinality(known) = 1
          THEN [page |-> Selected(h, only, firstSessionId(f.entries[only])), picks |-> TRUE]
          ELSE IF h.sel # None /\ h.sess \in {"", "live"} /\ first \notin {"", h.sess}
          THEN [page |-> Selected(h, h.sel, first), picks |-> TRUE]
          ELSE [page |-> h, picks |-> FALSE]
  BY Zenon DEF applyCatalog, Cleared
<1>2. g \in PageState  BY DEF PageStates
<1>3. gone \in BOOLEAN  BY Zenon
<1> HIDE DEF known, gone, on, only
<1>a. gone => h = [g EXCEPT !.known = f.entries, !.online = on, !.sel = None, !.sess = "", !.view = None]  BY DEF Cleared
<1>b. ~gone => h = [g EXCEPT !.known = f.entries, !.online = on, !.sel = g.sel, !.sess = g.sess, !.view = g.view]  BY DEF Cleared
<1> HIDE DEF h
<1>4. gone => h.sel = None  BY <1>2, <1>a DEF PageState
<1>5. ~gone => h.sel = g.sel /\ h.view = g.view  BY <1>2, <1>b DEF PageState
<1> HIDE DEF r, first
<1>6. r.picks = TRUE \/ r.page = h  BY <1>1
<1> QED  BY <1>3, <1>4, <1>5, <1>6 DEF r

LEMMA ShownKeeps ==
    ASSUME NEW g \in PageStates, NEW f \in TabFrames, f.type # "catalog"
    PROVE  Shown(g, f).sel # None =>
           /\ Shown(g, f).sel = g.sel /\ f # InstanceOffline(g.sel)
           /\ f \in TabSnaps(g.sel) => Shown(g, f).view = [inst |-> g.sel, text |-> f.text]
           /\ f \notin TabSnaps(g.sel) => Shown(g, f).view = g.view
<1>1. g \in PageState  BY DEF PageStates
<1>2. \/ f = Frame("machine_online") \/ f = Frame("machine_offline")
      \/ f \in [type : {"instance_offline"}, inst : Instances]
      \/ f \in [type : {"snapshot"}, inst : Instances, text : 0..MaxText, active : {"", "real"}]
  BY DEF TabFrames
<1>0. f \in TabSnaps(g.sel) <=> f.type = "snapshot" /\ f.inst = g.sel  BY DEF TabSnaps
<1>9. f = InstanceOffline(g.sel) => f.type = "instance_offline" /\ f.inst = g.sel  BY DEF InstanceOffline
<1>3. CASE f = Frame("machine_online")
  <2>1. Shown(g, f) = [g EXCEPT !.online = TRUE] /\ f.type = "machine_online"  BY <1>3 DEF Shown, Frame
  <2> QED  BY <1>0, <1>1, <1>9, <2>1 DEF PageState
<1>4. CASE f = Frame("machine_offline")
  <2>1. Shown(g, f) = [g EXCEPT !.online = FALSE] /\ f.type = "machine_offline"  BY <1>4 DEF Shown, Frame
  <2> QED  BY <1>0, <1>1, <1>9, <2>1 DEF PageState
<1>5. CASE f \in [type : {"instance_offline"}, inst : Instances]
  <2>1. (Shown(g, f) = IF f.inst = g.sel THEN [g EXCEPT !.sel = None, !.sess = ""] ELSE g) /\ f.type = "instance_offline"
    BY <1>5 DEF Shown
  <2>2. f.inst = g.sel => Shown(g, f).sel = None  BY <1>1, <2>1 DEF PageState
  <2> QED  BY <1>0, <1>9, <2>1, <2>2
<1>6. CASE f \in [type : {"snapshot"}, inst : Instances, text : 0..MaxText, active : {"", "real"}]
  <2> DEFINE v == [inst |-> f.inst, text |-> f.text]  s == IF g.sess = "" THEN f.active ELSE g.sess
  <2>1. Shown(g, f) = IF ~forSelectedInstance(g, f) THEN g
                      ELSE [g EXCEPT !.online = TRUE, !.sess = s, !.view = v]
    BY <1>6 DEF Shown
  <2>b. f.type = "snapshot"  BY <1>6
  <2>2. f.type = "snapshot" /\ f # InstanceOffline(g.sel)  BY <1>9, <2>b, Zenon
  <2>a. f.inst = g.sel => v = [inst |-> g.sel, text |-> f.text]  OBVIOUS
  <2> HIDE DEF v, s
  <2>3. CASE ~forSelectedInstance(g, f)
    <3>1. Shown(g, f) = g  BY <2>1, <2>3
    <3>2. g.sel # None => f.inst # g.sel  BY <2>3 DEF forSelectedInstance
    <3> QED  BY <1>0, <2>2, <3>1, <3>2
  <2>4. CASE forSelectedInstance(g, f)
    <3>1. Shown(g, f).sel = g.sel /\ Shown(g, f).view = v  BY <1>1, <2>1, <2>4 DEF PageState
    <3> QED  BY <1>0, <2>2, <2>4, <2>a, <3>1 DEF forSelectedInstance
  <2> QED  BY <2>3, <2>4
<1> QED  BY <1>2, <1>3, <1>4, <1>5, <1>6

(* A page that sends keeps what it asked, and asks when it sends a watch.  *)
LEMMA AsksMore ==
    ASSUME NEW b \in Browsers, NEW fs \in Seq(TabFrameUp)
    PROVE  LET d == WithUp(b, b.up \o fs) IN
           /\ d.down = b.down /\ d.st = b.st /\ d.watch = b.watch /\ d.live = b.live
           /\ Asks(b) => Asks(d)
           /\ (\E k \in 1..Len(fs) : fs[k].type = "watch") => Asks(d)
<1> DEFINE u == b.up \o fs  d == WithUp(b, u)  n == Len(b.up)
<1>1. b \in Browser /\ b.up \in Seq(TabFrameUp)  BY DEF Browsers, Browser
<1>2. /\ n \in Nat /\ Len(fs) \in Nat /\ Len(u) = n + Len(fs)
      /\ (\A k \in 1..n : u[k] = b.up[k]) /\ (\A k \in 1..Len(fs) : u[n + k] = fs[k])
  BY <1>1
<1> HIDE DEF u
<1>3. d.up = u /\ d.down = b.down /\ d.st = b.st /\ d.watch = b.watch /\ d.live = b.live  BY <1>1 DEF Browser, WithUp
<1> HIDE DEF d, n
<1>4. ASSUME Asks(b) PROVE Asks(d)
  <2>1. PICK k \in 1..Len(b.up) : b.up[k].type = "watch"  BY <1>4 DEF Asks
  <2>2. k \in 1..n /\ k \in 1..Len(u)  BY <1>2, <2>1 DEF n
  <2>3. u[k].type = "watch"  BY <1>2, <2>1, <2>2
  <2> QED  BY <1>3, <2>2, <2>3 DEF Asks
<1>5. ASSUME NEW k \in 1..Len(fs), fs[k].type = "watch" PROVE Asks(d)
  <2>1. n + k \in 1..Len(u) /\ u[n + k].type = "watch"  BY <1>2, <1>5
  <2> QED  BY <1>3, <2>1 DEF Asks
<1> QED  BY <1>3, <1>4, <1>5 DEF d, u

(* One page moves to g and its socket to x.                                *)
LEMMA PutActs ==
    ASSUME IInv, NEW p \in Pages, page[p].ws # 0, NEW g, NEW x, page' = [page EXCEPT ![p] = g],
           tabs' = [tabs EXCEPT ![page[p].ws] = x], x.st = tabs[page[p].ws].st, x.watch = tabs[page[p].ws].watch,
           g.ws # 0 /\ g.sel # None => g.ws = page[p].ws /\ (Asks(x) \/ Keeps(page[p], tabs[page[p].ws], g, x))
    PROVE  PageActs(p)
<1> DEFINE t == page[p].ws
<1>1. tabs \in Seq(Browsers) /\ Len(tabs) \in Nat /\ t \in 1..Len(tabs) /\ page \in [Pages -> PageStates] /\ DOMAIN tabs = 1..Len(tabs)
  BY PageTab, LenProperties
<1>2. page'[p] = g  BY <1>1
<1> HIDE DEF t
<1>t. tabs' = [tabs EXCEPT ![t] = x] /\ page[p].ws = t /\ x.st = tabs[t].st /\ x.watch = tabs[t].watch  BY DEF t
<1>3. Len(tabs') = Len(tabs) /\ tabs'[t] = x /\ \A u \in 1..Len(tabs) : u # t => tabs'[u] = tabs[u]
  BY <1>1, <1>t
<1>4. \A u \in 1..Len(tabs) : /\ u # page[p].ws => tabs'[u] = tabs[u]
                              /\ tabs'[u].st = tabs[u].st /\ tabs'[u].watch = tabs[u].watch
  BY <1>3, <1>t
<1>5. Len(tabs') >= Len(tabs)  BY <1>1, <1>3
<1>6. g.ws # 0 /\ g.sel # None => Asks(tabs'[g.ws]) \/ Keeps(page[p], tabs[page[p].ws], g, tabs'[g.ws])
  BY <1>3, <1>t
<1> QED  BY <1>2, <1>4, <1>5, <1>6 DEF PageActs

LEMMA ConnectActs == ASSUME IInv, NEW p \in Pages, PageConnects(p) PROVE PageActs(p)
<1> DEFINE n == Len(tabs)  i == page[p].sel  g == WithWs(page[p], n + 1)
           u == IF i # None THEN <<Watch(i)>> ELSE <<>>
<1>0. page[p] \in PageStates /\ page \in [Pages -> PageStates] /\ tabs \in Seq(Browsers) /\ n \in Nat
  BY PageTab
<1>1. PICK b : tabs' = Append(tabs, b) /\ b.up = u
  <2> DEFINE st == Frame(IF OpenAgents(agents) = {} THEN "machine_offline" ELSE "machine_online")
             b == Joined(p, u, <<st, CatalogNow(agents)>>)
  <2>1. tabs' = Append(tabs, b)  BY DEF PageConnects, AcceptTab, Joined
  <2>2. b.up = u  BY DEF Joined
  <2> HIDE DEF b
  <2> QED  BY <2>1, <2>2
<1>2. Len(tabs') = n + 1 /\ tabs'[n + 1] = b /\ \A k \in 1..n : tabs'[k] = tabs[k]
  <2>1. DOMAIN tabs = 1..n  BY <1>0, LenProperties
  <2> QED  BY <1>0, <1>1, <2>1
<1>3. page' = [page EXCEPT ![p] = g]  BY <1>2 DEF PageConnects, WithWs
<1>n. n + 1 \in Nat  BY <1>0
<1>4. g.ws = n + 1 /\ g.sel = i  BY <1>0, <1>n, WsKept, Zenon
<1>5. i # None => Asks(b)
  <2> SUFFICES ASSUME i # None PROVE Asks(b)  OBVIOUS
  <2>1. i \in Instances  BY <1>0 DEF PageStates, PageState
  <2> DEFINE w == Watch(i)
  <2>2. w.type = "watch"  BY <2>1, WatchFrame
  <2> HIDE DEF w
  <2>3. b.up = <<w>>  BY <1>1 DEF w
  <2>4. Len(b.up) = 1 /\ b.up[1] = w  BY <2>3
  <2>5. 1 \in 1..1  OBVIOUS
  <2> QED  BY <2>2, <2>4, <2>5 DEF Asks
<1> HIDE DEF g, u
<1>6. page'[p] = g  BY <1>0, <1>3
<1>7. page'[p].ws # 0 /\ page'[p].sel # None => Asks(tabs'[page'[p].ws])  BY <1>2, <1>4, <1>5, <1>6
<1>8. Len(tabs') >= Len(tabs)  BY <1>0, <1>2
<1>9. \A k \in 1..Len(tabs) : /\ k # page[p].ws => tabs'[k] = tabs[k]
                              /\ tabs'[k].st = tabs[k].st /\ tabs'[k].watch = tabs[k].watch
  BY <1>2
<1> QED  BY <1>3, <1>7, <1>8, <1>9 DEF PageActs

LEMMA DropActs == ASSUME IInv, NEW p \in Pages, PageDrops(p) PROVE PageActs(p)
<1> DEFINE t == page[p].ws  b == tabs[t]
<1>0. page[p] \in PageStates /\ t # 0 /\ b \in Browsers  BY PageTab DEF PageDrops
<1>1. PICK n \in 0..Len(b.up) : tabs' = [tabs EXCEPT ![t] = Broken(b, n)]  BY DEF PageDrops, Broken
<1>2. page' = [page EXCEPT ![p] = Away(page[p])]  BY DEF PageDrops, Away
<1>3. Away(page[p]).ws = 0  BY <1>0, AwayKept
<1> DEFINE x == Broken(b, n)  v == SubSeq(b.up, 1, n)
<1>4. x = [b EXCEPT !.live = FALSE, !.down = <<>>, !.up = v]  BY DEF Broken
<1>5. b \in Browser  BY <1>0 DEF Browsers
<1> HIDE DEF x, v
<1>6. x.st = b.st /\ x.watch = b.watch  BY <1>4, <1>5 DEF Browser
<1>7. tabs' = [tabs EXCEPT ![page[p].ws] = x]  BY <1>1 DEF x
<1> QED  BY <1>0, <1>2, <1>3, <1>6, <1>7, PutActs

LEMMA ClickActs == ASSUME IInv, NEW p \in Pages, Click(p) PROVE PageActs(p)
<1>0. /\ page[p] \in PageStates /\ page \in [Pages -> PageStates] /\ tabs \in Seq(Browsers) /\ Len(tabs) \in Nat
      /\ page[p].ws # 0 => tabs[page[p].ws] \in Browsers
  BY PageTab
<1>1. PICK i \in Instances :
        LET first == firstSessionId(page[p].known[i])
            g == Selected(page[p], i, IF first = "live" THEN "" ELSE first)
        IN  page' = [page EXCEPT ![p] = g] /\ tabs' = SendJson(tabs, g, SelectFrames(g, i))
  BY DEF Click
<1> DEFINE s == IF firstSessionId(page[p].known[i]) = "live" THEN "" ELSE firstSessionId(page[p].known[i])
           g == Selected(page[p], i, s)  t == page[p].ws  b == tabs[t]  x == WithUp(b, b.up \o <<Watch(i)>>)
<1>2. page' = [page EXCEPT ![p] = g] /\ tabs' = SendJson(tabs, g, <<Watch(i)>>)  BY <1>1 DEF SelectFrames
<1>3. s \in SessionIds  BY FirstSession DEF SessionIds
<1> HIDE DEF s
<1>4. g.ws = t /\ g.sel = i  BY <1>0, <1>3, SelectedKept
<1> HIDE DEF g
<1>5. CASE t = 0
  <2>1. tabs' = tabs  BY <1>2, <1>4, <1>5 DEF SendJson
  <2>2. page'[p] = g  BY <1>0, <1>2
  <2>3. page'[p].ws = 0  BY <1>4, <1>5, <2>2
  <2>4. Len(tabs') >= Len(tabs)  BY <1>0, <2>1
  <2> QED  BY <1>2, <2>1, <2>3, <2>4, Zenon DEF PageActs
<1>6. CASE t # 0
  <2>1. tabs' = [tabs EXCEPT ![t] = x]  BY <1>2, <1>4, <1>6 DEF SendJson, WithUp
  <2> DEFINE w == Watch(i)
  <2>2. w \in TabFrameUp /\ w.type = "watch"  BY WatchFrame
  <2> HIDE DEF w
  <2>3. <<w>> \in Seq(TabFrameUp) /\ \E k \in 1..Len(<<w>>) : <<w>>[k].type = "watch"
    <3>1. <<w>> \in Seq(TabFrameUp) /\ Len(<<w>>) = 1 /\ <<w>>[1] = w  BY <2>2
    <3>2. 1 \in 1..1  OBVIOUS
    <3> QED  BY <2>2, <3>1, <3>2
  <2>4. Asks(x) /\ x.st = b.st /\ x.watch = b.watch  BY <1>0, <1>6, <2>3, AsksMore DEF w
  <2> HIDE DEF x
  <2> QED  BY <1>2, <1>4, <1>6, <2>1, <2>4, PutActs
<1> QED  BY <1>5, <1>6

LEMMA ComposeActs == ASSUME IInv, NEW p \in Pages, Compose(p) PROVE PageActs(p)
<1> DEFINE t == page[p].ws  b == tabs[t]
           known == {j \in Instances : page[p].known[j] # None}
           only == page[p].sel = None /\ Cardinality(known) = 1
           i == IF only THEN CHOOSE j \in known : TRUE ELSE page[p].sel
           g == IF only THEN Selected(page[p], i, firstSessionId(page[p].known[i])) ELSE page[p]
           f == [type |-> "prompt", inst |-> i]
           fs == (IF only THEN <<Watch(i)>> ELSE <<>>) \o <<f>>
           x == WithUp(b, b.up \o fs)
<1>0. page[p] \in PageStates /\ t # 0 /\ b \in Browsers  BY PageTab DEF Compose
<1>1. canCompose(g) /\ page' = [page EXCEPT ![p] = g] /\ tabs' = SendJson(tabs, g, fs)
  BY Zenon DEF Compose, SelectFrames
<1>2. i \in Instances /\ g.ws = t
  <2>1. CASE only
    <3> DEFINE s == firstSessionId(page[p].known[i])
    <3>1. known # {}  BY <2>1, FS_EmptySet
    <3>2. i \in Instances
      <4>1. i = CHOOSE j \in known : TRUE  BY <2>1
      <4>2. (CHOOSE j \in known : TRUE) \in known  BY <3>1
      <4> QED  BY <4>1, <4>2
    <3>3. g = Selected(page[p], i, s)  BY <2>1
    <3>4. s \in SessionIds  BY FirstSession
    <3> HIDE DEF g, i, s
    <3> QED  BY <1>0, <3>2, <3>3, <3>4, SelectedKept
  <2>2. CASE ~only
    <3>1. g = page[p] /\ i = page[p].sel  BY <2>2
    <3>2. i # None  BY <1>1, <3>1 DEF canCompose
    <3>3. page[p].sel \in Instances \cup {None}  BY <1>0 DEF PageStates, PageState
    <3> QED  BY <1>0, <3>1, <3>2, <3>3
  <2> QED  BY <2>1, <2>2
<1>3. ~only => g = page[p]  OBVIOUS
<1> HIDE DEF g, i, only
<1>4. tabs' = [tabs EXCEPT ![t] = x]  BY <1>0, <1>1, <1>2 DEF SendJson, WithUp
<1>5. f \in TabFrameUp  BY <1>2 DEF TabFrameUp
<1> DEFINE w == Watch(i)
<1>6. w \in TabFrameUp /\ w.type = "watch"  BY <1>2, WatchFrame
<1>7. fs = (IF only THEN <<w>> ELSE <<>>) \o <<f>>  OBVIOUS
<1> HIDE DEF f, w, fs
<1>8. fs \in Seq(TabFrameUp)  BY <1>5, <1>6, <1>7
<1>9. /\ x.down = b.down /\ x.st = b.st /\ x.watch = b.watch /\ (Asks(b) => Asks(x))
      /\ (\E k \in 1..Len(fs) : fs[k].type = "watch") => Asks(x)
  BY <1>0, <1>8, AsksMore
<1>10. CASE only
  <2>1. fs = <<w>> \o <<f>>  BY <1>7, <1>10
  <2>2. Len(fs) = 2 /\ fs[1] = w  BY <1>5, <1>6, <2>1
  <2>3. 1 \in 1..2  OBVIOUS
  <2>4. Asks(x)  BY <1>6, <1>9, <2>2, <2>3
  <2> HIDE DEF x
  <2> QED  BY <1>0, <1>1, <1>2, <1>4, <1>9, <2>4, PutActs
<1>11. CASE ~only
  <2>1. g = page[p]  BY <1>3, <1>11
  <2>2. Keeps(page[p], b, g, x)
    <3> HIDE DEF x
    <3> QED  BY <1>9, <2>1 DEF Keeps
  <2> HIDE DEF x
  <2> QED  BY <1>0, <1>1, <1>2, <1>4, <1>9, <2>2, PutActs
<1> QED  BY <1>10, <1>11

LEMMA MessageActs == ASSUME IInv, NEW p \in Pages, OnMessage(p) PROVE PageActs(p)
<1> DEFINE t == page[p].ws  b == tabs[t]  f == Head(b.down)  y == WithDown(b, Tail(b.down))
           r == IF f.type = "catalog" THEN applyCatalog(page[p], f)
                ELSE [page |-> Shown(page[p], f), picks |-> FALSE]
           x == IF r.picks THEN WithUp(y, y.up \o <<Watch(r.page.sel)>>) ELSE y
           g == page[p]
<1>0. g \in PageStates /\ t # 0 /\ b \in Browsers /\ t \in DOMAIN tabs /\ b.down # <<>>
  BY PageTab DEF OnMessage
<1>1. b.down \in Seq(TabFrames)  BY <1>0 DEF Browsers, Browser
<1>2. f \in TabFrames /\ Tail(b.down) \in Seq(TabFrames)  BY <1>0, <1>1, HeadTailProperties
<1>3. y \in Browsers /\ SameTab(b, y) /\ y.down = Tail(b.down)
  <2>1. b \in Browser  BY <1>0 DEF Browsers
  <2> QED  BY <1>0, <1>2, <2>1, BrowserDown DEF WithDown, Browser
<1>4. page' = [page EXCEPT ![p] = r.page]
      /\ tabs' = IF r.picks THEN SendJson([tabs EXCEPT ![t] = y], r.page, <<Watch(r.page.sel)>>)
                 ELSE [tabs EXCEPT ![t] = y]
  BY DEF OnMessage, WithDown, SelectFrames
<1>5. PageStep(g, r) /\ (~r.picks /\ r.page.sel # None =>
         /\ r.page.sel = g.sel /\ f # InstanceOffline(g.sel)
         /\ f \in TabSnaps(g.sel) => r.page.view = [inst |-> g.sel, text |-> f.text]
         /\ f \notin TabSnaps(g.sel) => r.page.view = g.view)
  <2> HIDE DEF f, g
  <2>0. g \in PageStates  BY <1>0
  <2>1. CASE f.type = "catalog"
    <3>1. f \in [type : {"catalog"}, entries : Entries, online : BOOLEAN]  BY <1>2, <2>1, FrameKinds
    <3>2. PageStep(g, applyCatalog(g, f))  BY <2>0, <3>1, CatalogApplied
    <3>3. r = applyCatalog(g, f)  BY <2>1 DEF g
    <3>4. ~r.picks /\ r.page.sel # None => r.page.sel = g.sel /\ r.page.view = g.view
      BY <2>0, <3>1, <3>3, CatalogKeeps
    <3> HIDE DEF r
    <3>5. f \notin TabSnaps(g.sel)  BY <2>1 DEF TabSnaps
    <3>6. f # InstanceOffline(g.sel)
      <4>1. InstanceOffline(g.sel).type = "instance_offline"  BY DEF InstanceOffline
      <4> QED  BY <2>1, <4>1
    <3> QED  BY <3>2, <3>3, <3>4, <3>5, <3>6
  <2>2. CASE f.type # "catalog"
    <3>1. PageStep(g, [page |-> Shown(g, f), picks |-> FALSE])  BY <1>2, <2>0, <2>2, FrameShown
    <3>2. r.page = Shown(g, f) /\ r = [page |-> Shown(g, f), picks |-> FALSE]  BY <2>2 DEF g
    <3> HIDE DEF r
    <3> QED  BY <1>2, <2>0, <2>2, <3>1, <3>2, ShownKeeps
  <2> QED  BY <2>1, <2>2
<1> HIDE DEF r, y
<1>6. r.page.ws = t  BY <1>5 DEF PageStep
<1>7. tabs' = [tabs EXCEPT ![t] = x]
  <2>1. CASE r.picks
    <3>1. tabs' = [[tabs EXCEPT ![t] = y] EXCEPT ![t].up = @ \o <<Watch(r.page.sel)>>]
      BY <1>0, <1>4, <1>6, <2>1 DEF SendJson
    <3> QED  BY <1>0, <2>1, <3>1 DEF WithUp
  <2>2. CASE ~r.picks  BY <1>4, <2>2
  <2> QED  BY <2>1, <2>2
<1>8. y.st = b.st /\ y.watch = b.watch /\ y.up = b.up  BY <1>3 DEF SameTab
<1>9. CASE r.picks
  <2> DEFINE w == Watch(r.page.sel)
  <2>1. r.page.sel \in Instances  BY <1>5, <1>9 DEF PageStep
  <2>2. w \in TabFrameUp /\ w.type = "watch"  BY <2>1, WatchFrame
  <2>3. x = WithUp(y, y.up \o <<w>>)  BY <1>9
  <2> HIDE DEF w, x
  <2>4. <<w>> \in Seq(TabFrameUp) /\ \E k \in 1..Len(<<w>>) : <<w>>[k].type = "watch"
    <3>1. <<w>> \in Seq(TabFrameUp) /\ Len(<<w>>) = 1 /\ <<w>>[1] = w  BY <2>2
    <3>2. 1 \in 1..1  OBVIOUS
    <3> QED  BY <2>2, <3>1, <3>2
  <2>5. Asks(x) /\ x.st = b.st /\ x.watch = b.watch  BY <1>3, <1>8, <2>3, <2>4, AsksMore
  <2> QED  BY <1>0, <1>4, <1>6, <1>7, <2>5, PutActs
<1>10. CASE ~r.picks
  <2>1. x = y  BY <1>10
  <2> HIDE DEF x
  <2>2. r.page.ws # 0 /\ r.page.sel # None => Keeps(g, b, r.page, x)
    <3> SUFFICES ASSUME r.page.sel # None PROVE Keeps(g, b, r.page, x)  OBVIOUS
    <3>1. /\ r.page.sel = g.sel /\ f # InstanceOffline(g.sel)
          /\ f \in TabSnaps(g.sel) => r.page.view = [inst |-> g.sel, text |-> f.text]
          /\ f \notin TabSnaps(g.sel) => r.page.view = g.view
      BY <1>5, <1>10
    <3>2. Asks(b) => Asks(x)  BY <1>8, <2>1 DEF Asks
    <3>3. x.down = Tail(b.down)  BY <1>3, <2>1
    <3> QED  BY <1>0, <1>6, <3>1, <3>2, <3>3 DEF Keeps
  <2> QED  BY <1>0, <1>4, <1>6, <1>7, <1>8, <2>1, <2>2, PutActs
<1> QED  BY <1>9, <1>10

PageMove(p) == PageConnects(p) \/ PageDrops(p) \/ Click(p) \/ Compose(p) \/ OnMessage(p)
LEMMA MoveActs == ASSUME IInv, NEW p \in Pages, PageMove(p) PROVE PageActs(p)
BY ConnectActs, DropActs, ClickActs, ComposeActs, MessageActs DEF PageMove

-----------------------------------------------------------------------------
(* What the other steps do to the browsers.                                *)
LEMMA RelayShows ==
    ASSUME IInv, NEW c, OnSnapshot(c)
    PROVE  /\ agents[c].inst \in Instances /\ Head(agents[c].up) \in Snaps
           /\ agents[c].inst \notin watchedInstanceIds(tabs) => tabs' = tabs
           /\ agents[c].inst \in watchedInstanceIds(tabs) =>
                \E z \in TabSnapsOf(agents[c].inst, Head(agents[c].up).text) : tabs' = broadcastBrowsers(tabs, <<z>>)
<1> DEFINE i == agents[c].inst  f == Head(agents[c].up)
           z == [type |-> "snapshot", inst |-> i, text |-> f.text, active |-> f.active]
<1>0. WiresInv  BY DEF IInv
<1>1. i \in Instances /\ f \in UpFrames /\ f.type = "snapshot"
  BY <1>0, FrameTaken DEF OnSnapshot
<1>2. f.text \in 0..MaxText /\ f.active \in {"", "real"}
  <2> HIDE DEF f
  <2> QED  BY <1>1, UpFrameKinds
<1>3. tabs' = IF i \in watchedInstanceIds(tabs) THEN broadcastBrowsers(tabs, <<z>>) ELSE tabs
  BY DEF OnSnapshot
<1> HIDE DEF i, f
<1>4. z \in TabFrames /\ z.type = "snapshot" /\ z.inst = i /\ z.text = f.text  BY <1>1, <1>2 DEF TabFrames
<1> HIDE DEF z
<1>5. z \in TabSnapsOf(i, f.text)  BY <1>4 DEF TabSnaps, TabSnapsOf
<1>6. f \in Snaps  BY <1>1 DEF Snaps
<1> QED  BY <1>1, <1>3, <1>5, <1>6 DEF i, f

LEMMA ConnectSpeaks ==
    ASSUME IInv, NEW i \in Instances, Connect(i)
    PROVE  \E fs \in Seq(TabFrames) : tabs' = broadcastBrowsers(tabs, fs) /\ TextFree(fs)
<1> DEFINE z == CatalogFrame(catalog, TRUE)  f == Frame("machine_online")  fs == <<f, z>>
<1>1. tabs' = broadcastBrowsers(tabs, fs)  BY Accepted
<1>2. catalog \in Entries  BY DEF IInv, WiresInv
<1>3. z \in TabFrames /\ z.type = "catalog"  BY <1>2, CatalogFramed DEF CatalogFrame
<1>4. f \in TabFrames /\ f.type = "machine_online"  BY DEF TabFrames, Frame
<1> HIDE DEF z, f
<1>5. fs \in Seq(TabFrames) /\ Len(fs) = 2 /\ fs[1] = f /\ fs[2] = z  BY <1>3, <1>4
<1> HIDE DEF fs
<1>6. TextFree(fs)
  <2> SUFFICES ASSUME NEW k \in 1..Len(fs) PROVE fs[k].type # "snapshot"  BY DEF TextFree
  <2>1. k = 1 \/ k = 2  BY <1>5
  <2> QED  BY <1>3, <1>4, <1>5, <2>1
<1> QED  BY <1>1, <1>5, <1>6

(* Browser t has its first frame taken, and may be told fs.                *)
Answers(t, fs) ==
    /\ fs \in Seq(TabFrames) /\ TextFree(fs)
    /\ t \in DOMAIN tabs /\ tabs[t].up # <<>> /\ DOMAIN tabs' = DOMAIN tabs
    /\ \A u \in DOMAIN tabs : u # t => tabs'[u] = tabs[u]
    /\ tabs'[t].st = tabs[t].st /\ tabs'[t].up = Tail(tabs[t].up)
    /\ tabs'[t].watch = IF Head(tabs[t].up).type = "watch" THEN Head(tabs[t].up).inst ELSE tabs[t].watch
    /\ tabs[t].live => tabs'[t].down = tabs[t].down \o fs

LEMMA RelayAnswers ==
    ASSUME IInv, NEW t, OnWatch(t) \/ OnPrompt(t)
    PROVE  /\ SameEnds(agents, agents') /\ Head(tabs[t].up) \in TabFrameUp
           /\ (OnWatch(t) => Head(tabs[t].up).type = "watch") /\ (OnPrompt(t) => Head(tabs[t].up).type = "prompt")
           /\ \E fs : /\ Answers(t, fs)
                      /\ OnWatch(t) /\ AgentsOf(agents, Head(tabs[t].up).inst) = {} =>
                            Occurs(fs, InstanceOffline(Head(tabs[t].up).inst))
<1> DEFINE b == tabs[t]  f == Head(b.up)  i == f.inst  d == Taken(b)  z == InstanceOffline(i)
           T == [tabs EXCEPT ![t] = d]
<1>0. WiresInv /\ agents \in Seq(Sockets) /\ OneOpen(agents)  BY DEF IInv, WiresInv, SocketInv
<1>1. t \in DOMAIN tabs /\ b.up # <<>> /\ (OnWatch(t) => f.type = "watch") /\ (OnPrompt(t) => f.type = "prompt")
  BY DEF OnWatch, OnPrompt, TabFrame, OpenTabs
<1>2. b \in Browsers  BY <1>0, <1>1, OpenTab
<1>3. f \in TabFrameUp /\ (f.type = "prompt" => b.watch = i)  BY <1>1, <1>2, TakenKept
<1>4. i \in Instances  BY <1>3 DEF TabFrameUp
<1>5. SameEnds(agents, agents')
  <2>1. CASE OnWatch(t)
    <3> DEFINE A == recomputeSubscriptions(agents, [tabs EXCEPT ![t].up = Tail(@), ![t].watch = i])
    <3>1. agents' = sendAgentInstance(A, i, Frame("subscribe"))  BY <2>1 DEF OnWatch
    <3>2. SameEnds(agents, A)  BY <1>0, Recompute
    <3> HIDE DEF A
    <3>3. A \in Seq(Sockets) /\ OneOpen(A)  BY <1>0, <3>2, SameOpen
    <3>4. Frame("subscribe") \in DownFrames /\ Frame("subscribe").type # "prompt"  BY DEF DownFrames, Frame
    <3>5. SameEnds(A, agents')  BY <3>1, <3>3, <3>4, SendToAgent
    <3> QED  BY <3>2, <3>5, EndsTrans
  <2>2. CASE OnPrompt(t)
    <3>1. (IF b.watch # None THEN b.watch ELSE i) = i  BY <1>1, <1>3, <2>2
    <3>2. agents' = sendAgentInstance(agents, i, f)  BY <2>2, <3>1 DEF OnPrompt
    <3>3. f \in DownFrames
      <4>1. f \in [type : {"prompt"}, inst : Instances]  BY <1>1, <1>3, <2>2 DEF TabFrameUp
      <4> QED  BY <4>1 DEF DownFrames
    <3> HIDE DEF f
    <3> QED  BY <1>0, <3>2, <3>3, SendToAgent DEF i
  <2> QED  BY <2>1, <2>2
<1>6. tabs' = IF AgentsOf(agents, i) # {} THEN T ELSE [T EXCEPT ![t] = Sent(T[t], <<z>>)]
  <2>1. CASE OnWatch(t)
    <3>1. T = [tabs EXCEPT ![t].up = Tail(@), ![t].watch = i]  BY <1>1, <2>1 DEF Taken, WithUp, WithWatch
    <3> QED  BY <2>1, <3>1 DEF OnWatch
  <2>2. CASE OnPrompt(t)
    <3>1. (IF b.watch # None THEN b.watch ELSE i) = i  BY <1>1, <1>3, <2>2
    <3>2. T = [tabs EXCEPT ![t].up = Tail(@)]  BY <1>1, <2>2 DEF Taken, WithUp
    <3> QED  BY <2>2, <3>1, <3>2 DEF OnPrompt
  <2> QED  BY <2>1, <2>2
<1>7. T[t] = d /\ DOMAIN T = DOMAIN tabs /\ \A u \in DOMAIN tabs : u # t => T[u] = tabs[u]  BY <1>1
<1>8. /\ d \in Browser /\ d.live = b.live /\ d.st = b.st /\ d.down = b.down /\ d.up = Tail(b.up)
      /\ d.watch = IF f.type = "watch" THEN i ELSE b.watch
  BY <1>1, <1>2, TakenKept DEF Browsers, Browser, Taken, WithUp, WithWatch
<1>9. z \in TabFrames /\ z.type = "instance_offline"  BY <1>4, OfflineFrame
<1> HIDE DEF z, T, d
<1>10. b.down \in Seq(TabFrames) /\ b.live \in BOOLEAN  BY <1>2 DEF Browsers, Browser
<1>11. CASE AgentsOf(agents, i) # {}
  <2>1. tabs' = T  BY <1>6, <1>11
  <2>2. b.down \o <<>> = b.down /\ <<>> \in Seq(TabFrames) /\ TextFree(<<>>)  BY <1>10, ConcatEmptySeq DEF TextFree
  <2>3. Answers(t, <<>>)  BY <1>1, <1>7, <1>8, <2>1, <2>2 DEF Answers
  <2> QED  BY <1>1, <1>3, <1>5, <1>11, <2>3
<1>12. CASE AgentsOf(agents, i) = {}
  <2> DEFINE x == Sent(d, <<z>>)  fs == <<z>>
  <2>1. tabs' = [T EXCEPT ![t] = x]  BY <1>6, <1>7, <1>12
  <2>2. tabs'[t] = x /\ DOMAIN tabs' = DOMAIN tabs /\ \A u \in DOMAIN tabs : u # t => tabs'[u] = tabs[u]
    BY <1>1, <1>7, <2>1
  <2>3. /\ x.st = d.st /\ x.up = d.up /\ x.watch = d.watch
        /\ d.live => x.down = d.down \o <<z>>
    BY <1>8 DEF Sent, Browser
  <2> HIDE DEF x
  <2>4. fs \in Seq(TabFrames) /\ Len(fs) = 1 /\ fs[1] = z  BY <1>9
  <2>5. TextFree(fs)  BY <1>9, <2>4 DEF TextFree
  <2>6. Occurs(fs, z)
    <3>1. 1 \in 1..1  OBVIOUS
    <3> QED  BY <2>4, <3>1 DEF Occurs
  <2>7. b.live => tabs'[t].down = b.down \o fs  BY <1>8, <2>2, <2>3
  <2> HIDE DEF fs
  <2>8. Answers(t, fs)  BY <1>1, <1>8, <2>2, <2>3, <2>4, <2>5, <2>7 DEF Answers
  <2> QED  BY <1>1, <1>3, <1>5, <2>6, <2>8 DEF z
<1> QED  BY <1>11, <1>12

WindowMove(i) == Connect(i) \/ Pump(i) \/ Receive(i) \/ Drop(i) \/ StateChanged(i) \/ HandleEvent(i)

LEMMA OccursPast ==
    ASSUME NEW S, NEW s \in Seq(S), NEW r \in Seq(S), NEW e, Occurs(s, e) \/ Occurs(r, e) PROVE Occurs(s \o r, e)
<1> DEFINE u == s \o r  n == Len(s)
<1>1. /\ n \in Nat /\ Len(r) \in Nat /\ Len(u) = n + Len(r)
      /\ \A k \in 1..n : u[k] = s[k]
      /\ \A k \in 1..Len(r) : u[n + k] = r[k]
  BY ConcatProperties
<1> HIDE DEF u
<1>2. ASSUME NEW k \in 1..Len(s), s[k] = e PROVE Occurs(u, e)
  <2>1. k \in 1..Len(u) /\ u[k] = e  BY <1>1, <1>2
  <2> QED  BY <2>1 DEF Occurs
<1>3. ASSUME NEW k \in 1..Len(r), r[k] = e PROVE Occurs(u, e)
  <2>1. n + k \in 1..Len(u) /\ u[n + k] = e  BY <1>1, <1>3
  <2> QED  BY <2>1 DEF Occurs
<1> QED  BY <1>2, <1>3 DEF Occurs, u

\* Browser t is told fs, and what it asked is still on its way.
Hears(t, fs) == /\ fs \in Seq(TabFrames) /\ tabs'[t].down = tabs[t].down \o fs
                /\ Asks(tabs[t]) => Asks(tabs'[t])

LEMMA BroadcastHears ==
    ASSUME tabs \in Seq(Browsers), NEW fs \in Seq(TabFrames), tabs' = broadcastBrowsers(tabs, fs),
           NEW t \in 1..Len(tabs), tabs[t].live, tabs[t].st = "open"
    PROVE  Hears(t, fs)
<1>1. tabs'[t].down = tabs[t].down \o fs  BY SentDown
<1>2. tabs'[t].up = tabs[t].up  BY Broadcast DEF SameTabs, SameTab
<1> QED  BY <1>1, <1>2 DEF Hears, Asks

LEMMA StillHears ==
    ASSUME tabs \in Seq(Browsers), NEW t \in 1..Len(tabs), tabs'[t] = tabs[t] PROVE Hears(t, <<>>) /\ TextFree(<<>>)
<1>1. tabs[t].down \in Seq(TabFrames)  BY ElementOfSeq DEF Browsers, Browser
<1>2. tabs[t].down \o <<>> = tabs[t].down  BY <1>1, ConcatEmptySeq
<1> QED  BY <1>2 DEF Hears, TextFree

(* A prompt that is taken leaves the watch behind it on its way.           *)
LEMMA AsksOn ==
    ASSUME NEW b \in Browsers, b.up # <<>>, Head(b.up).type = "prompt", NEW d, d.up = Tail(b.up), Asks(b) PROVE Asks(d)
<1> DEFINE s == b.up
<1>0. s \in Seq(TabFrameUp) /\ s # <<>>  BY DEF Browsers, Browser
<1> HIDE DEF s
<1>1. Len(s) \in Nat /\ Len(s) > 0 /\ Len(Tail(s)) = Len(s) - 1 /\ Head(s) = s[1] /\ \A k \in 1..Len(Tail(s)) : Tail(s)[k] = s[k + 1]
  BY <1>0, HeadTailProperties, EmptySeq
<1>2. PICK k \in 1..Len(s) : s[k].type = "watch"  BY DEF Asks, s
<1>3. s[1].type = "prompt"  BY <1>1 DEF s
<1>4. k # 1  BY <1>2, <1>3
<1>5. k - 1 \in 1..Len(Tail(s)) /\ (k - 1) + 1 = k  BY <1>1, <1>4
<1>6. Tail(s)[k - 1] = s[k]  BY <1>1, <1>5
<1> QED  BY <1>2, <1>5, <1>6 DEF Asks, s

LEMMA StepHears ==
    ASSUME IInv, IInv', RelayStep \/ \E i \in Instances : WindowMove(i),
           NEW t \in 1..Len(tabs), tabs[t].live, tabs[t].st = "open"
    PROVE  \/ \E fs : Hears(t, fs) /\ TextFree(fs)
           \/ RelayStep /\ \E c \in DOMAIN agents : OnSnapshot(c)
           \/ RelayStep /\ OnWatch(t)
<1>0. tabs \in Seq(Browsers) /\ DOMAIN tabs = 1..Len(tabs)  BY LenProperties DEF IInv, WiresInv
<1>1. tabs[t] \in Browsers  BY <1>0, ElementOfSeq
<1>2. ASSUME tabs'[t] = tabs[t] PROVE \E fs : Hears(t, fs) /\ TextFree(fs)
  BY <1>0, <1>2, StillHears
<1>3. CASE RelayStep
  <2>0. Relay  BY <1>3 DEF RelayStep
  <2>1. ASSUME NEW c \in DOMAIN agents,
               OnHello(c) \/ HelloSaves(c) \/ HelloFails(c) \/ HelloBroadcasts(c) \/ OnSessionCatalog(c) \/ AgentClose(c)
        PROVE  \E fs : Hears(t, fs) /\ TextFree(fs)
    <3>1. CASE tabs' = tabs  BY <1>2, <3>1
    <3>2. CASE \E fs \in Seq(TabFrames) : tabs' = broadcastBrowsers(tabs, fs) /\ TextFree(fs)
      BY <1>0, <3>2, BroadcastHears
    <3> QED  BY <2>1, <3>1, <3>2, RelaySpeaks
  <2>2. ASSUME NEW u \in DOMAIN tabs, OnWatch(u) \/ OnPrompt(u), u # t PROVE \E fs : Hears(t, fs) /\ TextFree(fs)
    <3>1. tabs'[t] = tabs[t]  BY <1>0, <2>2, RelayAnswers DEF Answers
    <3> QED  BY <1>2, <3>1
  <2>3. ASSUME OnPrompt(t) PROVE \E fs : Hears(t, fs) /\ TextFree(fs)
    <3>1. PICK fs : Answers(t, fs)  BY <2>3, RelayAnswers
    <3>2. Head(tabs[t].up).type = "prompt"  BY <2>3, RelayAnswers
    <3>3. tabs[t].up # <<>> /\ tabs'[t].up = Tail(tabs[t].up) /\ tabs'[t].down = tabs[t].down \o fs
          /\ fs \in Seq(TabFrames) /\ TextFree(fs)
      BY <3>1 DEF Answers
    <3>4. Asks(tabs[t]) => Asks(tabs'[t])  BY <1>1, <3>2, <3>3, AsksOn
    <3> QED  BY <3>3, <3>4 DEF Hears
  <2>4. ASSUME NEW u \in DOMAIN tabs, TabClose(u) PROVE tabs'[t] = tabs[t]
    <3>1. ~tabs[u].live  BY <2>4 DEF TabClose
    <3>2. PICK x : tabs' = [tabs EXCEPT ![u] = x]  BY <2>4 DEF TabClose
    <3>3. u # t  BY <3>1
    <3> QED  BY <1>0, <3>2, <3>3
  <2> QED  BY <1>2, <1>3, <2>0, <2>1, <2>2, <2>3, <2>4 DEF Relay
<1>4. ASSUME NEW i \in Instances, WindowMove(i) PROVE \E fs : Hears(t, fs) /\ TextFree(fs)
  <2>1. CASE Connect(i)
    <3>1. PICK fs \in Seq(TabFrames) : tabs' = broadcastBrowsers(tabs, fs) /\ TextFree(fs)  BY <2>1, ConnectSpeaks
    <3> QED  BY <1>0, <3>1, BroadcastHears
  <2>2. CASE Pump(i) \/ Receive(i) \/ Drop(i) \/ StateChanged(i) \/ HandleEvent(i)
    <3>1. tabs' = tabs  BY <2>2, Zenon DEF Pump, Receive, Drop, StateChanged, HandleEvent
    <3> QED  BY <1>2, <3>1
  <2> QED  BY <1>4, <2>1, <2>2 DEF WindowMove
<1> QED  BY <1>3, <1>4

(* Only the relay's own recomputation lets a window go unwatched.          *)
LEMMA WatchersKept ==
    ASSUME IInv, IInv', [Next]_vars
    PROVE  \/ watchedInstanceIds(tabs) \subseteq watchedInstanceIds(tabs')
           \/ RelayStep /\ \E t : OnWatch(t) \/ TabClose(t)
<1> DEFINE Kept == watchedInstanceIds(tabs) \subseteq watchedInstanceIds(tabs')
<1>0. tabs \in Seq(Browsers) /\ tabs' \in Seq(Browsers) /\ DOMAIN tabs = 1..Len(tabs) /\ Len(tabs) \in Nat
  BY LenProperties DEF IInv, WiresInv
<1>1. ASSUME tabs' = tabs PROVE Kept  BY <1>1
<1>2. ASSUME NEW fs \in Seq(TabFrames), tabs' = broadcastBrowsers(tabs, fs) PROVE Kept
  <2>1. SameTabs(tabs, tabs')  BY <1>0, <1>2, Broadcast
  <2>2. Len(tabs') >= Len(tabs) /\ \A t \in 1..Len(tabs) : tabs'[t].st = tabs[t].st /\ tabs'[t].watch = tabs[t].watch
    BY <1>0, <2>1 DEF SameTabs, SameTab
  <2> QED  BY <1>0, <2>2, WatchedSame
<1>3. ASSUME RelayStep PROVE Kept \/ \E t : OnWatch(t) \/ TabClose(t)
  <2>0. Relay  BY <1>3 DEF RelayStep
  <2>1. ASSUME NEW c \in DOMAIN agents,
               OnHello(c) \/ HelloSaves(c) \/ HelloFails(c) \/ HelloBroadcasts(c) \/ OnSessionCatalog(c) \/ AgentClose(c)
        PROVE  Kept
    BY <1>1, <1>2, <2>1, RelaySpeaks
  <2>2. ASSUME NEW c \in DOMAIN agents, OnSnapshot(c) PROVE Kept
    <3>1. CASE tabs' = tabs  BY <1>1, <3>1
    <3>2. ASSUME NEW i, NEW x, NEW z \in TabSnapsOf(i, x), tabs' = broadcastBrowsers(tabs, <<z>>) PROVE Kept
      <4>1. z \in TabFrames  BY DEF TabSnapsOf, TabSnaps
      <4>2. <<z>> \in Seq(TabFrames)  BY <4>1
      <4> QED  BY <1>2, <3>2, <4>2
    <3> QED  BY <2>2, <3>1, <3>2, RelayShows
  <2>3. ASSUME NEW t, OnPrompt(t) PROVE Kept
    <3>1. PICK fs : Answers(t, fs)  BY <2>3, RelayAnswers
    <3>2. Head(tabs[t].up).type # "watch"  BY <2>3, RelayAnswers
    <3>3. Len(tabs') = Len(tabs)
      <4>1. DOMAIN tabs' = 1..Len(tabs') /\ Len(tabs') \in Nat  BY <1>0, LenProperties
      <4> DEFINE m == Len(tabs')  n == Len(tabs)
      <4>2. 1..m = 1..n  BY <1>0, <3>1, <4>1 DEF Answers
      <4>3. m \in Nat /\ n \in Nat  BY <1>0, <4>1
      <4> HIDE DEF m, n
      <4>4. m = 0 \/ m \in 1..n  BY <4>2, <4>3
      <4>5. n = 0 \/ n \in 1..m  BY <4>2, <4>3
      <4>6. m = n  BY <4>3, <4>4, <4>5
      <4> QED  BY <4>6 DEF m, n
    <3>4. \A u \in 1..Len(tabs) : tabs'[u].st = tabs[u].st /\ tabs'[u].watch = tabs[u].watch
      BY <1>0, <3>1, <3>2 DEF Answers
    <3>5. Len(tabs') >= Len(tabs)  BY <1>0, <3>3
    <3> QED  BY <1>0, <3>4, <3>5, WatchedSame
  <2> QED  BY <2>0, <2>1, <2>2, <2>3 DEF Relay
<1>4. ASSUME NEW i \in Instances, WindowMove(i) PROVE Kept
  <2>1. CASE Connect(i)  BY <1>2, <2>1, ConnectSpeaks
  <2>2. CASE Pump(i) \/ Receive(i) \/ Drop(i) \/ StateChanged(i) \/ HandleEvent(i)
    <3>1. tabs' = tabs  BY <2>2, Zenon DEF Pump, Receive, Drop, StateChanged, HandleEvent
    <3> QED  BY <1>1, <3>1
  <2> QED  BY <1>4, <2>1, <2>2 DEF WindowMove
<1>5. ASSUME NEW p \in Pages, PageMove(p) PROVE Kept
  <2>1. Len(tabs') >= Len(tabs) /\ \A t \in 1..Len(tabs) : tabs'[t].st = tabs[t].st /\ tabs'[t].watch = tabs[t].watch
    BY <1>5, MoveActs DEF PageActs
  <2> QED  BY <1>0, <2>1, WatchedSame
<1>6. CASE Aside  BY <1>1, <1>6, AsideStays
<1> HIDE DEF Kept
<1>7. ASSUME Kept PROVE watchedInstanceIds(tabs) \subseteq watchedInstanceIds(tabs')  BY <1>7 DEF Kept
<1> QED  BY <1>3, <1>4, <1>5, <1>6, <1>7 DEF Next, Aside, WindowMove, PageMove

-----------------------------------------------------------------------------
(* A window mirrors only while a browser watches it.                       *)
OnlyInv == \A i \in Instances : hub[i].conn # 0 /\ Mirrors(i) => i \in watchedInstanceIds(tabs)

LEMMA OnlyStep == IInv /\ IInv' /\ OnlyInv /\ NoRequestLeft /\ [Next]_vars => OnlyInv'
<1> SUFFICES ASSUME IInv, IInv', OnlyInv, NoRequestLeft, [Next]_vars, NEW i \in Instances, hub'[i].conn # 0, Mirrors(i)'
             PROVE  i \in watchedInstanceIds(tabs')
  BY DEF OnlyInv
<1>1. CASE hub[i].conn = 0
  <2>1. Connect(i)  BY <1>1, OnlyConnects
  <2>2. PICK e \in Events \ Orders : Coming(i)' = hub[i].in \o <<e>> /\ hub'[i].watching = hub[i].watching
    BY <2>1, WindowComes
  <2>3. ~hub[i].watching /\ \A k \in 1..Len(hub[i].in) : hub[i].in[k] # "RequestSnapshot"
    BY <1>1 DEF NoRequestLeft, Comes
  <2> DEFINE s == hub[i].in  now == hub[i].watching
  <2>4. s \in Seq(Events) /\ now \in BOOLEAN  BY HubSocket DEF HubState
  <2>5. Settles(s \o <<e>>, Orders, Requests, now)  BY <2>2 DEF Mirrors
  <2> HIDE DEF s, now
  <2>6. e \in Events /\ e \notin Orders /\ Requests \in SUBSET Orders  BY DEF Orders, Requests
  <2>7. Settles(s, Orders, Requests, now)  BY <2>4, <2>5, <2>6, SettlesSend
  <2>8. FALSE  BY <2>3, <2>7 DEF Settles, Requests, s, now
  <2> QED  BY <2>8
<1>2. CASE hub[i].conn # 0
  <2>1. CASE Subscribed(i)  BY <2>1 DEF Subscribed
  <2>2. CASE IdleMirror(i)
    <3>1. i \in watchedInstanceIds(tabs)  BY <1>2, <2>2 DEF IdleMirror, OnlyInv
    <3>2. CASE watchedInstanceIds(tabs) \subseteq watchedInstanceIds(tabs')  BY <3>1, <3>2
    <3>3. ASSUME RelayStep, NEW t, OnWatch(t) \/ TabClose(t) PROVE i \in watchedInstanceIds(tabs')
      <4>1. hub' = hub  BY <3>3 DEF RelayStep
      <4>2. Subscribed(i)  BY <1>2, <3>3, <4>1, RelayWatches, RelayClosesTab
      <4> QED  BY <4>2 DEF Subscribed
    <3> QED  BY <3>2, <3>3, WatchersKept
  <2> QED  BY <1>2, <2>1, <2>2, MirrorsKept
<1> QED  BY <1>1, <1>2

(* While no window connects with a request of an earlier connection left,  *)
(* a state in which nothing is under way has no window mirroring that no   *)
(* browser watches: whatever browsers came, switched and were lost         *)
(* (recomputeSubscriptions, set_watching).                                 *)
THEOREM MirroringIsWatched == Spec /\ [][NoRequestLeft]_vars => []MirrorsOnlyWatched
<1>1. Init => OnlyInv
  <2> SUFFICES ASSUME Init PROVE OnlyInv  OBVIOUS
  <2>1. hub = [i \in Instances |-> [conn |-> 0, watching |-> FALSE, key |-> None, out |-> <<>>, in |-> <<>>]]
    BY Zenon DEF Init
  <2>2. \A i \in Instances : hub[i].conn = 0  BY <2>1
  <2> QED  BY <2>2 DEF OnlyInv
<1>2. IInv /\ OnlyInv => MirrorsOnlyWatched
  <2> SUFFICES ASSUME IInv, OnlyInv, Quiet, NEW i \in Instances, hub[i].conn # 0, hub[i].watching
               PROVE  i \in watchedInstanceIds(tabs)
    BY DEF MirrorsOnlyWatched
  <2>1. Coming(i) = <<>>  BY QuietWindow
  <2>2. Mirrors(i)  BY <2>1 DEF Mirrors, Settles, Lacks
  <2> QED  BY <2>2 DEF OnlyInv
<1>3. UNCHANGED vars => NoRequestLeft  BY DEF vars, NoRequestLeft, Comes
<1>4. IInv /\ OnlyInv /\ [Next]_vars /\ [NoRequestLeft]_vars => IInv' /\ OnlyInv'
  BY <1>3, StepKeeps, OnlyStep
<1> QED  BY <1>1, <1>2, <1>4, InitHolds, PTL DEF Spec

-----------------------------------------------------------------------------
(* The window a page selected mirrors.                                     *)
LEMMA SnapshotHears ==
    ASSUME IInv, NEW c, OnSnapshot(c), NEW t \in 1..Len(tabs), tabs[t].live, tabs[t].st = "open"
    PROVE  \/ agents[c].inst \notin watchedInstanceIds(tabs) /\ tabs' = tabs
           \/ \E z \in TabSnapsOf(agents[c].inst, Head(agents[c].up).text) : Hears(t, <<z>>)
<1>0. tabs \in Seq(Browsers)  BY DEF IInv, WiresInv
<1>1. CASE agents[c].inst \notin watchedInstanceIds(tabs)  BY <1>1, RelayShows
<1>2. CASE agents[c].inst \in watchedInstanceIds(tabs)
  <2>1. PICK z \in TabSnapsOf(agents[c].inst, Head(agents[c].up).text) : tabs' = broadcastBrowsers(tabs, <<z>>)
    BY <1>2, RelayShows
  <2>2. z \in TabFrames  BY DEF TabSnapsOf, TabSnaps
  <2>3. <<z>> \in Seq(TabFrames)  BY <2>2
  <2> QED  BY <1>0, <2>1, <2>3, BroadcastHears
<1> QED  BY <1>1, <1>2

(* A browser loses no frame, and is asked nothing twice: it is told more,  *)
(* and what it asked is on its way until the relay takes it.               *)
LEMMA StepTells ==
    ASSUME IInv, IInv', RelayStep \/ \E i \in Instances : WindowMove(i),
           NEW t \in 1..Len(tabs), tabs[t].live, tabs[t].st = "open"
    PROVE  /\ \E fs \in Seq(TabFrames) : tabs'[t].down = tabs[t].down \o fs
           /\ Asks(tabs[t]) => Asks(tabs'[t]) \/ (RelayStep /\ OnWatch(t))
<1>0. tabs \in Seq(Browsers)  BY DEF IInv, WiresInv
<1>1. CASE \E fs : Hears(t, fs) /\ TextFree(fs)  BY <1>1 DEF Hears
<1>2. ASSUME NEW c, OnSnapshot(c)
      PROVE  (\E fs \in Seq(TabFrames) : tabs'[t].down = tabs[t].down \o fs) /\ (Asks(tabs[t]) => Asks(tabs'[t]))
  <2>1. CASE tabs' = tabs  BY <1>0, <2>1, StillHears DEF Hears
  <2>2. CASE \E z \in TabSnapsOf(agents[c].inst, Head(agents[c].up).text) : Hears(t, <<z>>)  BY <2>2 DEF Hears
  <2> QED  BY <1>2, <2>1, <2>2, SnapshotHears
<1>3. CASE RelayStep /\ OnWatch(t)
  <2>1. PICK fs : Answers(t, fs)  BY <1>3, RelayAnswers
  <2> QED  BY <1>3, <2>1 DEF Answers
<1> QED  BY <1>1, <1>2, <1>3, StepHears

LEMMA SilentWatches ==
    ASSUME NEW T \in Seq(Browsers), NEW t \in 1..Len(T), T[t].st = "open", NEW i \in Instances,
           Governs(T[t], Len(T[t].up), i), ~Asks(T[t])
    PROVE  T[t].watch = i /\ i \in watchedInstanceIds(T)
<1>1. T[t].watch = i  BY DEF Governs, Asks
<1>2. t \in OpenTabs(T)  BY LenProperties DEF OpenTabs
<1> QED  BY <1>1, <1>2, RelayAssumption DEF watchedInstanceIds

(* The relay recomputes the subscriptions: a page either still asks, or    *)
(* its window is told to mirror.                                           *)
LEMMA Reordered ==
    ASSUME IInv, IInv', AgreeInv', RelayStep, NEW u, OnWatch(u) \/ TabClose(u),
           NEW p \in Pages, page[p].ws # 0, NEW i \in Instances, page[p].sel = i, ~Asks(tabs'[page[p].ws])
    PROVE  /\ tabs'[page[p].ws].watch = i
           /\ hub[i].conn # 0 => Mirrors(i)' /\ UpIdle(i) /\ Occurs(Coming(i)', "RequestSnapshot")
<1> DEFINE t == page[p].ws  T == tabs'
<1>0. page' = page /\ hub' = hub /\ i # None  BY RelayAssumption DEF RelayStep
<1>1. T \in Seq(Browsers) /\ t \in 1..Len(T) /\ Governs(T[t], Len(T[t].up), i)  BY <1>0 DEF IInv, WiresInv, PageInv
<1>2. T[t].st = "open"  BY <1>0 DEF AgreeInv, Informed
<1>3. ~Asks(T[t])  OBVIOUS
<1> HIDE DEF T
<1>4. T[t].watch = i /\ i \in watchedInstanceIds(T)  BY <1>1, <1>2, <1>3, SilentWatches
<1>5. ASSUME hub[i].conn # 0 PROVE Mirrors(i)' /\ UpIdle(i) /\ Occurs(Coming(i)', "RequestSnapshot")
  <2>1. Subscribed(i)  BY <1>0, <1>5, RelayWatches, RelayClosesTab
  <2> QED  BY <1>4, <2>1 DEF Subscribed, T
<1> QED  BY <1>4, <1>5 DEF T

LEMMA PutStays ==
    ASSUME NEW A, NEW B, NEW i, DOMAIN B = DOMAIN A,
           \A d \in DOMAIN A : B[d].inst = A[d].inst /\ (B[d].st = A[d].st \/ A[d].inst # i)
    PROVE  AgentsOf(B, i) = AgentsOf(A, i)
BY DEF AgentsOf, OpenAgents

(* A window keeps its open socket until the relay hears that it is gone.   *)
LEMMA SocketsStay ==
    ASSUME IInv, IInv', RelayStep \/ \E j \in Instances : WindowMove(j), NEW i \in Instances, AgentsOf(agents, i) # {}
    PROVE  \/ AgentsOf(agents', i) # {}
           \/ RelayStep /\ \E c \in DOMAIN agents : AgentClose(c) /\ agents[c].inst = i
<1>0. agents \in Seq(Sockets) /\ OneOpen(agents)  BY DEF IInv, WiresInv, SocketInv
<1>1. ASSUME NEW c \in DOMAIN agents, NEW x, agents' = [agents EXCEPT ![c] = x],
             x.st = agents[c].st \/ agents[c].inst # i, x.inst = agents[c].inst
      PROVE  AgentsOf(agents', i) # {}
  <2>1. DOMAIN agents' = DOMAIN agents
        /\ \A d \in DOMAIN agents : agents'[d].inst = agents[d].inst /\ (agents'[d].st = agents[d].st \/ agents[d].inst # i)
    BY <1>1
  <2> QED  BY <2>1, PutStays
<1>2. ASSUME SameEnds(agents, agents') PROVE AgentsOf(agents', i) # {}
  BY <1>0, <1>2, SameOpen
<1>3. ASSUME NEW c \in DOMAIN agents PROVE agents[c] \in Socket
  BY <1>0, <1>3, OpenSocket DEF IInv, Sockets
<1>4. CASE RelayStep
  <2>0. Relay  BY <1>4 DEF RelayStep
  <2>1. ASSUME NEW c \in DOMAIN agents, OnSessionCatalog(c) \/ OnSnapshot(c) PROVE AgentsOf(agents', i) # {}
    <3> DEFINE x == [agents[c] EXCEPT !.up = Tail(agents[c].up)]
    <3>1. agents' = [agents EXCEPT ![c] = x]  BY <2>1 DEF OnSessionCatalog, OnSnapshot, TakeUp
    <3>2. x.st = agents[c].st /\ x.inst = agents[c].inst  BY <1>3 DEF Socket
    <3> HIDE DEF x
    <3> QED  BY <1>1, <3>1, <3>2
  <2>2. ASSUME NEW c \in DOMAIN agents, OnHello(c) PROVE AgentsOf(agents', i) # {}
    <3> DEFINE h == IF agents[c].code THEN "meta" ELSE "touch"
               x == [[agents[c] EXCEPT !.up = Tail(agents[c].up)] EXCEPT !.hello = h]
    <3>1. agents' = [agents EXCEPT ![c] = x]  BY <2>2 DEF OnHello, TakeUp
    <3>2. x.st = agents[c].st /\ x.inst = agents[c].inst  BY <1>3 DEF Socket
    <3> HIDE DEF x
    <3> QED  BY <1>1, <3>1, <3>2
  <2>3. ASSUME NEW c \in DOMAIN agents, HelloSaves(c) \/ HelloFails(c) \/ HelloBroadcasts(c) PROVE AgentsOf(agents', i) # {}
    <3>1. PICK h \in {"touch", "failed", "done"} : agents' = [agents EXCEPT ![c] = WithHello(agents[c], h)]
      BY <2>3 DEF HelloSaves, HelloFails, HelloBroadcasts, WithHello
    <3> DEFINE x == WithHello(agents[c], h)
    <3>2. x.st = agents[c].st /\ x.inst = agents[c].inst  BY <1>3 DEF Socket, WithHello
    <3>3. agents' = [agents EXCEPT ![c] = x]  BY <3>1
    <3> HIDE DEF x
    <3> QED  BY <1>1, <3>2, <3>3
  <2>4. ASSUME NEW c \in DOMAIN agents, AgentClose(c), agents[c].inst # i PROVE AgentsOf(agents', i) # {}
    <3> DEFINE x == WithSt(agents[c], "closed")
    <3>1. agents' = [agents EXCEPT ![c] = x]  BY <2>4 DEF AgentClose, WithSt
    <3>2. x.inst = agents[c].inst  BY <1>3 DEF Socket, WithSt
    <3> HIDE DEF x
    <3> QED  BY <1>1, <2>4, <3>1, <3>2
  <2>5. ASSUME NEW t, OnWatch(t) \/ OnPrompt(t) PROVE AgentsOf(agents', i) # {}
    BY <1>2, <2>5, RelayAnswers
  <2>6. ASSUME NEW t, TabClose(t) PROVE AgentsOf(agents', i) # {}
    <3>1. agents' = recomputeSubscriptions(agents, tabs')  BY <2>6 DEF TabClose
    <3> QED  BY <1>0, <1>2, <3>1, Recompute
  <2> QED  BY <1>4, <2>0, <2>1, <2>2, <2>3, <2>4, <2>5, <2>6 DEF Relay
<1>5. ASSUME NEW j \in Instances, WindowMove(j) PROVE AgentsOf(agents', i) # {}
  <2>1. CASE Connect(j)
    <3> DEFINE K == KeptSockets(j)
    <3>1. PICK code \in BOOLEAN : agents' = Append(K, NewSocket(j, code))  BY <2>1, Accepted
    <3>2. K \in Seq(Sockets) /\ Len(K) = Len(agents) /\ Len(agents) \in Nat /\ DOMAIN agents = 1..Len(agents)
          /\ \A c \in 1..Len(agents) : /\ K[c].inst = agents[c].inst
                                       /\ K[c].st = IF agents[c].st = "open" /\ agents[c].inst = j THEN "closing" ELSE agents[c].st
      BY <1>0, SocketsKept, LenProperties
    <3> DEFINE n == NewSocket(j, code)
    <3>3. n \in Sockets /\ n.inst = j /\ n.st = "open"  BY NewSocketKept
    <3> HIDE DEF K, n
    <3>4. /\ DOMAIN agents' = 1..Len(agents) + 1 /\ agents'[Len(agents) + 1] = n
          /\ \A c \in 1..Len(agents) : agents'[c] = K[c]
      BY <3>1, <3>2, <3>3, AppendProperties, LenProperties DEF n
    <3>5. CASE j = i
      <4>1. Len(agents) + 1 \in DOMAIN agents'  BY <3>2, <3>4
      <4>2. Len(agents) + 1 \in AgentsOf(agents', i)  BY <3>3, <3>4, <3>5, <4>1 DEF AgentsOf, OpenAgents
      <4> QED  BY <4>2
    <3>6. CASE j # i
      <4>1. PICK c : c \in AgentsOf(agents, i)  OBVIOUS
      <4>2. c \in 1..Len(agents) /\ agents[c].st = "open" /\ agents[c].inst = i  BY <3>2, <4>1 DEF AgentsOf, OpenAgents
      <4>3. c \in DOMAIN agents' /\ agents'[c].st = "open" /\ agents'[c].inst = i  BY <3>2, <3>4, <3>6, <4>2
      <4>4. c \in AgentsOf(agents', i)  BY <4>3 DEF AgentsOf, OpenAgents
      <4> QED  BY <4>4
    <3> QED  BY <3>5, <3>6
  <2>2. CASE Pump(j) \/ Receive(j) \/ Drop(j)
    <3>1. hub[j].conn # 0  BY <2>2 DEF Pump, Receive, Drop
    <3> DEFINE c == hub[j].conn  a == agents[c]
    <3>2. c \in DOMAIN agents /\ a.st = "open" /\ a \in Socket  BY <3>1, HubSocket DEF Sockets
    <3>3. CASE Pump(j)
      <4> DEFINE x == WithUp(a, Append(a.up, Head(hub[j].out)))
      <4>1. agents' = [agents EXCEPT ![c] = x]  BY <3>2, <3>3 DEF Pump, WithUp
      <4>2. x.st = a.st /\ x.inst = a.inst  BY <3>2 DEF Socket, WithUp
      <4> HIDE DEF x
      <4> QED  BY <1>1, <3>2, <4>1, <4>2
    <3>4. CASE Receive(j)
      <4> DEFINE x == WithDown(a, Tail(a.down))
      <4>1. agents' = [agents EXCEPT ![c] = x]  BY <3>4 DEF Receive, WithDown
      <4>2. x.st = a.st /\ x.inst = a.inst  BY <3>2 DEF Socket, WithDown
      <4> HIDE DEF x
      <4> QED  BY <1>1, <3>2, <4>1, <4>2
    <3>5. CASE Drop(j)
      <4>1. PICK n \in 0..Len(a.up) :
              agents' = [agents EXCEPT ![c].live = FALSE, ![c].down = <<>>, ![c].up = SubSeq(@, 1, n)]
        BY <3>5 DEF Drop
      <4> DEFINE v == SubSeq(a.up, 1, n)  x == [a EXCEPT !.live = FALSE, !.down = <<>>, !.up = v]
      <4>2. agents' = [agents EXCEPT ![c] = x]  BY <4>1
      <4>3. x.st = a.st /\ x.inst = a.inst
        <5> HIDE DEF v
        <5> QED  BY <3>2 DEF Socket
      <4> HIDE DEF x
      <4> QED  BY <1>1, <3>2, <4>2, <4>3
    <3> QED  BY <2>2, <3>3, <3>4, <3>5
  <2>3. CASE StateChanged(j) \/ HandleEvent(j)
    <3>1. agents' = agents  BY <2>3, Zenon DEF StateChanged, HandleEvent
    <3> QED  BY <3>1
  <2> QED  BY <1>5, <2>1, <2>2, <2>3 DEF WindowMove
<1> QED  BY <1>4, <1>5

LEMMA ClosedRefused ==
    ASSUME IInv, IInv', NEW c \in DOMAIN agents, AgentClose(c), AgentsOf(agents', agents[c].inst) = {},
           NEW t \in 1..Len(tabs), tabs[t].live, tabs[t].st = "open"
    PROVE  Refused(tabs'[t], agents[c].inst)
<1>0. tabs \in Seq(Browsers)  BY DEF IInv, WiresInv
<1>1. tabs[t].down \in Seq(TabFrames)  BY <1>0, ElementOfSeq DEF Browsers, Browser
<1>2. PICK fs \in Seq(TabFrames) : tabs' = broadcastBrowsers(tabs, fs) /\ Occurs(fs, InstanceOffline(agents[c].inst))
  BY RelaySpeaks
<1>3. tabs'[t].down = tabs[t].down \o fs  BY <1>0, <1>2, BroadcastHears DEF Hears
<1>4. Occurs(tabs[t].down \o fs, InstanceOffline(agents[c].inst))  BY <1>1, <1>2, OccursPast
<1> QED  BY <1>3, <1>4 DEF Refused

\* Browser b's watch is on its way to the relay, or the answer that window i is gone is on its way back.
Waits(b, i) == Asks(b) \/ Refused(b, i)
\* Window i has an open socket and, if it is connected, will mirror once it has handled what is coming.
Attended(i) == AgentsOf(agents, i) # {} /\ (hub[i].conn # 0 => Mirrors(i))
SelInv == \A p \in Pages, i \in Instances :
    page[p].ws # 0 /\ page[p].sel = i => Waits(tabs[page[p].ws], i) \/ Attended(i)

LEMMA OthersStay ==
    ASSUME IInv, NEW p \in Pages, PageMove(p), NEW q \in Pages, q # p
    PROVE  page'[q] = page[q] /\ (page[q].ws # 0 => tabs'[page[q].ws] = tabs[page[q].ws])
<1>1. PageActs(p)  BY MoveActs
<1>2. PICK g : page' = [page EXCEPT ![p] = g]  BY <1>1 DEF PageActs
<1>3. page'[q] = page[q]  BY <1>2, PageTab
<1>4. ASSUME page[q].ws # 0 PROVE tabs'[page[q].ws] = tabs[page[q].ws]
  <2>1. page[q].ws \in 1..Len(tabs) /\ tabs[page[q].ws].page = q  BY <1>4, PageTab
  <2>2. page[p].ws # 0 => tabs[page[p].ws].page = p  BY PageTab
  <2>3. page[q].ws # page[p].ws  BY <1>4, <2>1, <2>2
  <2> QED  BY <1>1, <2>1, <2>3 DEF PageActs
<1> QED  BY <1>3, <1>4

(* What a page keeps waiting for, while its selection stays.               *)
LEMMA WaitsKept ==
    ASSUME NEW g, NEW b \in Browsers, NEW h, NEW d, Keeps(g, b, h, d), Waits(b, g.sel)
    PROVE  Waits(d, g.sel)
<1>1. CASE Asks(b)  BY <1>1 DEF Keeps, Waits
<1>2. CASE Refused(b, g.sel)
  <2>0. b.down \in Seq(TabFrames)  BY DEF Browsers, Browser
  <2>1. CASE d.down = b.down  BY <1>2, <2>1 DEF Waits, Refused
  <2>2. CASE b.down # <<>> /\ d.down = Tail(b.down) /\ Head(b.down) # InstanceOffline(g.sel)
    <3>1. Occurs(Tail(b.down), InstanceOffline(g.sel))  BY <1>2, <2>0, <2>2, OccursTake DEF Refused
    <3> QED  BY <2>2, <3>1 DEF Waits, Refused
  <2> QED  BY <2>1, <2>2 DEF Keeps
<1> QED  BY <1>1, <1>2 DEF Waits

LEMMA AttendedSame ==
    ASSUME NEW i \in Instances, agents' = agents, hub' = hub, Attended(i) PROVE Attended(i)'
BY DEF Attended, Mirrors, Coming, Socketed

LEMMA SelPage == ASSUME IInv, SelInv, NEW p \in Pages, PageMove(p) PROVE SelInv'
<1> SUFFICES ASSUME NEW q \in Pages, NEW i \in Instances, page'[q].ws # 0, page'[q].sel = i
             PROVE  Waits(tabs'[page'[q].ws], i) \/ Attended(i)'
  BY DEF SelInv
<1>0. agents' = agents /\ hub' = hub  BY PagesAside DEF PageMove
<1>1. CASE q # p
  <2>1. page'[q] = page[q] /\ tabs'[page[q].ws] = tabs[page[q].ws]  BY <1>1, OthersStay
  <2>2. Waits(tabs[page[q].ws], i) \/ Attended(i)  BY <2>1 DEF SelInv
  <2> QED  BY <1>0, <2>1, <2>2, AttendedSame
<1>2. CASE q = p
  <2> DEFINE b == tabs[page[p].ws]  d == tabs'[page'[p].ws]
  <2>0. i # None  BY RelayAssumption
  <2>1. Asks(d) \/ (page[p].ws # 0 /\ Keeps(page[p], b, page'[p], d))  BY <1>2, <2>0, MoveActs DEF PageActs
  <2>2. CASE Asks(d)  BY <1>2, <2>2 DEF Waits
  <2>3. CASE page[p].ws # 0 /\ Keeps(page[p], b, page'[p], d)
    <3>1. page[p].sel = i  BY <1>2, <2>3 DEF Keeps
    <3>2. Waits(b, i) \/ Attended(i)  BY <2>3, <3>1 DEF SelInv
    <3>3. b \in Browsers  BY <2>3, PageTab
    <3>4. CASE Waits(b, i)
      <4>1. Waits(d, i)  BY <2>3, <3>1, <3>3, <3>4, WaitsKept
      <4> QED  BY <1>2, <4>1
    <3> QED  BY <1>0, <3>2, <3>4, AttendedSame
  <2> QED  BY <2>1, <2>2, <2>3
<1> QED  BY <1>1, <1>2

LEMMA RefusedStays ==
    ASSUME IInv, IInv', RelayStep \/ \E j \in Instances : WindowMove(j), NEW t \in 1..Len(tabs), tabs[t] \in Browsers,
           tabs[t].live, tabs[t].st = "open", NEW i, Refused(tabs[t], i)
    PROVE  Refused(tabs'[t], i)
<1>1. PICK fs \in Seq(TabFrames) : tabs'[t].down = tabs[t].down \o fs  BY StepTells
<1>2. tabs[t].down \in Seq(TabFrames)  BY DEF Browsers, Browser
<1>3. Occurs(tabs[t].down \o fs, InstanceOffline(i))  BY <1>2, OccursPast DEF Refused
<1> QED  BY <1>1, <1>3 DEF Refused

LEMMA SelElsewhere ==
    ASSUME IInv, IInv', AgreeInv, AgreeInv', SelInv, NoSocketReplaced,
           RelayStep \/ \E j \in Instances : WindowMove(j)
    PROVE  SelInv'
<1> SUFFICES ASSUME NEW p \in Pages, NEW i \in Instances, page'[p].ws # 0, page'[p].sel = i
             PROVE  Waits(tabs'[page'[p].ws], i) \/ Attended(i)'
  BY DEF SelInv
<1> DEFINE t == page[p].ws  b == tabs[t]  d == tabs'[t]
<1>a. [Next]_vars  BY DEF Next, WindowMove
<1>0. page' = page
  <2>1. CASE RelayStep  BY <2>1 DEF RelayStep
  <2>2. ASSUME NEW j \in Instances, WindowMove(j) PROVE page' = page
    BY <2>2 DEF WindowMove, Connect, Pump, Receive, Drop, StateChanged, HandleEvent
  <2> QED  BY <2>1, <2>2
<1>1. t # 0 /\ page[p].sel = i /\ i # None  BY <1>0, RelayAssumption
<1>2. t \in 1..Len(tabs) /\ b \in Browsers /\ b.live /\ b.st = "open"  BY <1>1, PageTab DEF AgreeInv, Informed
<1>3. Waits(b, i) \/ Attended(i)  BY <1>1 DEF SelInv
<1>4. ASSUME Refused(b, i) PROVE Refused(d, i)  BY <1>2, <1>4, RefusedStays
<1>5. ASSUME ~Asks(d), Asks(b) PROVE Refused(d, i) \/ Attended(i)'
  <2>1. RelayStep /\ OnWatch(t)  BY <1>2, <1>5, StepTells
  <2>2. hub' = hub  BY <2>1 DEF RelayStep
  <2>3. d.watch = i /\ (hub[i].conn # 0 => Mirrors(i)')  BY <1>1, <1>5, <2>1, Reordered
  <2>4. PICK fs : Answers(t, fs) /\ (AgentsOf(agents, Head(b.up).inst) = {} => Occurs(fs, InstanceOffline(Head(b.up).inst)))
    BY <2>1, RelayAnswers
  <2>5. Head(b.up).type = "watch" /\ SameEnds(agents, agents')  BY <2>1, RelayAnswers
  <2>6. Head(b.up).inst = i /\ fs \in Seq(TabFrames) /\ d.down = b.down \o fs  BY <1>2, <2>3, <2>4, <2>5 DEF Answers
  <2>7. CASE AgentsOf(agents, i) = {}
    <3>1. b.down \in Seq(TabFrames)  BY <1>2 DEF Browsers, Browser
    <3>2. Occurs(b.down \o fs, InstanceOffline(i))  BY <2>4, <2>6, <2>7, <3>1, OccursPast
    <3> QED  BY <2>6, <3>2 DEF Refused
  <2>8. CASE AgentsOf(agents, i) # {}
    <3>1. AgentsOf(agents', i) # {}  BY <2>5, <2>8, SameOpen DEF IInv, WiresInv, SocketInv
    <3> QED  BY <2>2, <2>3, <3>1 DEF Attended
  <2> QED  BY <2>7, <2>8
<1>6. ASSUME ~Asks(d), Attended(i) PROVE Refused(d, i) \/ Attended(i)'
  <2>1. AgentsOf(agents, i) # {} /\ (hub[i].conn # 0 => Mirrors(i))  BY <1>6 DEF Attended
  <2>2. AgentsOf(agents', i) # {} \/ Refused(d, i)
    <3>1. ASSUME AgentsOf(agents', i) = {}, NEW c \in DOMAIN agents, AgentClose(c), agents[c].inst = i PROVE Refused(d, i)
      BY <1>2, <3>1, ClosedRefused
    <3> QED  BY <2>1, <3>1, SocketsStay
  <2>3. ASSUME hub'[i].conn # 0 PROVE Mirrors(i)'
    <3>1. hub[i].conn # 0
      <4>1. ASSUME hub[i].conn = 0 PROVE FALSE
        BY <2>1, <2>3, <4>1 DEF NoSocketReplaced, Comes
      <4> QED  BY <4>1
    <3>2. CASE IdleMirror(i)  BY <2>1, <3>1, <3>2 DEF IdleMirror
    <3>3. CASE Subscribed(i)
      <4> DEFINE T == tabs'
      <4>1. T \in Seq(Browsers) /\ t \in 1..Len(T) /\ Governs(T[t], Len(T[t].up), i) /\ T[t].st = "open" /\ ~Asks(T[t])
        BY <1>0, <1>1, <1>6 DEF IInv, WiresInv, PageInv, AgreeInv, Informed
      <4> HIDE DEF T
      <4>2. i \in watchedInstanceIds(T)  BY <4>1, SilentWatches
      <4> QED  BY <3>3, <4>2 DEF Subscribed, T
    <3> QED  BY <1>a, <2>3, <3>1, <3>2, <3>3, MirrorsKept
  <2> QED  BY <2>2, <2>3 DEF Attended
<1>7. Waits(d, i) \/ Attended(i)'  BY <1>3, <1>4, <1>5, <1>6 DEF Waits
<1> QED  BY <1>0, <1>7

LEMMA SelStep == AgreementInv /\ AgreementInv' /\ SelInv /\ NoSocketReplaced /\ [Next]_vars => SelInv'
<1> SUFFICES ASSUME AgreementInv, AgreementInv', SelInv, NoSocketReplaced, [Next]_vars PROVE SelInv'  OBVIOUS
<1>0. IInv /\ IInv' /\ AgreeInv /\ AgreeInv'  BY DEF AgreementInv
<1>1. CASE RelayStep \/ \E j \in Instances : WindowMove(j)  BY <1>0, <1>1, SelElsewhere
<1>2. ASSUME NEW p \in Pages, PageMove(p) PROVE SelInv'  BY <1>0, <1>2, SelPage
<1>3. CASE Aside
  <2>1. \A i \in Instances : Attended(i) => Attended(i)'  BY <1>3, AttendedSame, AsideStays
  <2>2. tabs' = tabs /\ page' = page  BY <1>3, AsideStays
  <2> QED  BY <2>1, <2>2 DEF SelInv
<1> QED  BY <1>1, <1>2, <1>3 DEF Next, Aside, WindowMove, PageMove

LEMMA SelInit == Init => SelInv
<1>1. ASSUME Init PROVE \A p \in Pages : page[p].ws = 0  BY <1>1 DEF Init
<1> QED  BY <1>1 DEF SelInv

(* While no window connects before the relay has noticed that its earlier  *)
(* socket is gone, the window a page selected is mirroring when nothing is *)
(* under way, if it is connected: the watch was taken, and no later        *)
(* recomputation took it back (recomputeSubscriptions, set_watching).      *)
THEOREM SelectionMirrors == Spec /\ [][NoSocketReplaced]_vars => []SelectionIsMirrored
<1>1. AgreementInv /\ SelInv => SelectionIsMirrored
  <2> SUFFICES ASSUME IInv, SelInv, Quiet, NEW p \in Pages, page[p].ws # 0, page[p].sel # None, hub[page[p].sel].conn # 0
               PROVE  hub[page[p].sel].watching
    BY DEF AgreementInv, SelectionIsMirrored
  <2> DEFINE b == tabs[page[p].ws]  i == page[p].sel
  <2>1. page[p] \in PageStates /\ page[p].ws \in DOMAIN tabs  BY PageTab
  <2>2. i \in Instances  BY <2>1 DEF PageStates, PageState
  <2>3. b.up = <<>> /\ b.down = <<>>  BY <2>1 DEF Quiet
  <2>4. ~Waits(b, i)
    <3>1. Len(<<>>) = 0 /\ 1..0 = {}  OBVIOUS
    <3> QED  BY <2>3, <3>1 DEF Waits, Asks, Refused, Occurs
  <2>5. Waits(b, i) \/ Attended(i)  BY <2>2 DEF SelInv
  <2>6. Mirrors(i)  BY <2>4, <2>5 DEF Attended
  <2>7. Coming(i) = <<>>  BY <2>2, QuietWindow
  <2>8. hub[i].watching \in BOOLEAN  BY <2>2, HubSocket DEF HubState
  <2> QED  BY <2>6, <2>7, <2>8, SettlesEmpty DEF Mirrors
<1>2. UNCHANGED vars => NoSocketReplaced  BY DEF vars, NoSocketReplaced, Comes
<1>3. AgreementInv /\ SelInv /\ [Next]_vars /\ [NoSocketReplaced]_vars => AgreementInv' /\ SelInv'
  BY <1>2, AgreementStep, SelStep
<1> QED  BY <1>1, <1>3, AgreementInit, SelInit, PTL DEF Spec

-----------------------------------------------------------------------------
(* A page shows the latest transcript of the window it selected.           *)

\* With s on the wire to it, a page that shows v will show text x of window i.
Seen(s, v, i, x) == Settles(s, TabSnaps(i), TabSnapsOf(i, x), v = [inst |-> i, text |-> x])
\* And it will with w on the way from the window to the relay.
Shows(w, s, v, i, x) == Settles(w, Snaps, SnapsOf(x), Seen(s, v, i, x))

LEMMA SeenBoolean ==
    ASSUME NEW s, NEW v, NEW i, NEW x
    PROVE  /\ Seen(s, v, i, x) \in BOOLEAN /\ (v = [inst |-> i, text |-> x]) \in BOOLEAN
           /\ TabSnaps(i) \subseteq TabFrames /\ TabSnapsOf(i, x) \in SUBSET TabSnaps(i) /\ SnapsOf(x) \in SUBSET Snaps
BY DEF Seen, Settles, Lacks, TabSnaps, TabSnapsOf, SnapsOf

LEMMA SeenFree ==
    ASSUME NEW s \in Seq(TabFrames), NEW fs \in Seq(TabFrames), TextFree(fs), NEW v, NEW i, NEW x, Seen(s, v, i, x)
    PROVE  Seen(s \o fs, v, i, x)
<1> DEFINE K == TabSnaps(i)  G == TabSnapsOf(i, x)  now == v = [inst |-> i, text |-> x]
<1>1. Lacks(fs, K)  BY DEF Lacks, TextFree, TabSnaps
<1>2. now \in BOOLEAN /\ G \in SUBSET K  BY SeenBoolean
<1>3. Settles(s, K, G, now)  BY DEF Seen
<1> HIDE DEF K, G, now
<1>4. Settles(s \o fs, K, G, now)  BY <1>1, <1>2, <1>3, SettlesPast
<1> QED  BY <1>4 DEF Seen, K, G, now

(* A transcript of another window changes nothing; one with the latest     *)
(* text of the window is what the page will show.                          *)
LEMMA SeenSent ==
    ASSUME NEW s \in Seq(TabFrames), NEW v, NEW i, NEW x, NEW j, NEW y, NEW z \in TabSnapsOf(j, y)
    PROVE  /\ j # i /\ Seen(s, v, i, x) => Seen(s \o <<z>>, v, i, x)
           /\ j = i /\ y = x => Seen(s \o <<z>>, v, i, x)
<1> DEFINE K == TabSnaps(i)  G == TabSnapsOf(i, x)  now == v = [inst |-> i, text |-> x]
<1>0. z \in TabFrames /\ (j # i => z \notin K) /\ (j = i /\ y = x => z \in G)  BY DEF TabSnaps, TabSnapsOf
<1>1. now \in BOOLEAN /\ G \in SUBSET K  BY SeenBoolean
<1>2. Seen(s, v, i, x) => Settles(s, K, G, now)  BY DEF Seen
<1> HIDE DEF K, G, now
<1>3. j # i /\ Seen(s, v, i, x) => Settles(s \o <<z>>, K, G, now)  BY <1>0, <1>1, <1>2, SettlesSend
<1>4. j = i /\ y = x => Settles(s \o <<z>>, K, G, now)  BY <1>0, <1>1, SettlesSend
<1> QED  BY <1>3, <1>4 DEF Seen, K, G, now

LEMMA SeenKept ==
    ASSUME NEW g, NEW b \in Browsers, NEW h, NEW d, Keeps(g, b, h, d), NEW i, g.sel = i, NEW x, Seen(b.down, g.view, i, x)
    PROVE  Seen(d.down, h.view, i, x)
<1>1. CASE h.view = g.view /\ d.down = b.down  BY <1>1
<1>2. CASE /\ b.down # <<>> /\ d.down = Tail(b.down)
           /\ Head(b.down) \in TabSnaps(i) => h.view = [inst |-> i, text |-> Head(b.down).text]
           /\ Head(b.down) \notin TabSnaps(i) => h.view = g.view
  <2> DEFINE s == b.down  K == TabSnaps(i)  G == TabSnapsOf(i, x)
             now == g.view = [inst |-> i, text |-> x]  later == h.view = [inst |-> i, text |-> x]
  <2>0. s \in Seq(TabFrames) /\ s # <<>> /\ d.down = Tail(s)  BY <1>2 DEF Browsers, Browser
  <2>1. now \in BOOLEAN /\ later \in BOOLEAN /\ G \in SUBSET K  BY SeenBoolean
  <2>2. Head(s) \in G => later  BY <1>2 DEF TabSnapsOf
  <2>3. Head(s) \notin K /\ now => later  BY <1>2
  <2>4. Settles(s, K, G, now)  BY DEF Seen
  <2> HIDE DEF s, K, G, now, later
  <2>5. Settles(Tail(s), K, G, later)  BY <2>0, <2>1, <2>2, <2>3, <2>4, SettlesTake
  <2> QED  BY <2>0, <2>5 DEF Seen, s, K, G, later
<1> QED  BY <1>1, <1>2 DEF Keeps

LEMMA ShowsStill ==
    ASSUME NEW w, NEW s, NEW v, NEW i, NEW x, NEW r, NEW u, Shows(w, s, v, i, x), Seen(s, v, i, x) => Seen(r, u, i, x)
    PROVE  Shows(w, r, u, i, x)
<1>1. Seen(s, v, i, x) \in BOOLEAN /\ Seen(r, u, i, x) \in BOOLEAN  BY SeenBoolean
<1> QED  BY <1>1, SettlesEither DEF Shows

LEMMA ShowsTaken ==
    ASSUME NEW w \in Seq(UpFrames), w # <<>>, NEW s, NEW v, NEW i, NEW x, NEW r, Shows(w, s, v, i, x),
           Head(w) \in SnapsOf(x) => Seen(r, v, i, x), Head(w) \notin Snaps /\ Seen(s, v, i, x) => Seen(r, v, i, x)
    PROVE  Shows(Tail(w), r, v, i, x)
<1> DEFINE now == Seen(s, v, i, x)  later == Seen(r, v, i, x)  G == SnapsOf(x)
<1>1. now \in BOOLEAN /\ later \in BOOLEAN /\ G \in SUBSET Snaps  BY SeenBoolean
<1>2. Settles(w, Snaps, G, now) /\ (Head(w) \in G => later) /\ (Head(w) \notin Snaps /\ now => later)  BY DEF Shows
<1> HIDE DEF now, later, G
<1>3. Settles(Tail(w), Snaps, G, later)  BY <1>1, <1>2, SettlesTake
<1> QED  BY <1>3 DEF Shows, later, G

LEMMA ShowsSent ==
    ASSUME NEW w \in Seq(UpFrames), NEW f \in UpFrames, NEW s, NEW v, NEW i, NEW x
    PROVE  /\ f \in SnapsOf(x) => Shows(w \o <<f>>, s, v, i, x)
           /\ f \notin Snaps /\ Shows(w, s, v, i, x) => Shows(w \o <<f>>, s, v, i, x)
<1> DEFINE now == Seen(s, v, i, x)  G == SnapsOf(x)
<1>1. now \in BOOLEAN /\ G \in SUBSET Snaps  BY SeenBoolean
<1>2. Shows(w, s, v, i, x) => Settles(w, Snaps, G, now)  BY DEF Shows
<1> HIDE DEF now, G
<1>3. f \in G => Settles(w \o <<f>>, Snaps, G, now)  BY <1>1, SettlesSend
<1>4. f \notin Snaps /\ Shows(w, s, v, i, x) => Settles(w \o <<f>>, Snaps, G, now)  BY <1>1, <1>2, SettlesSend
<1> QED  BY <1>3, <1>4 DEF Shows, now, G

\* Nothing is owed yet: the page's watch or its refusal is under way, or window i does not mirror or is
\* about to push afresh.
Excused(b, i) == \/ Waits(b, i) \/ hub[i].conn = 0
                 \/ Occurs(Coming(i), "RequestSnapshot") \/ ~hub[i].watching
ShowInv == \A p \in Pages, i \in Instances :
    page[p].ws # 0 /\ page[p].sel = i =>
        \/ Excused(tabs[page[p].ws], i)
        \/ Shows(Way(i), tabs[page[p].ws].down, page[p].view, i, pushed[i].text)

LEMMA ShowPage == ASSUME IInv, ShowInv, NEW p \in Pages, PageMove(p) PROVE ShowInv'
<1> SUFFICES ASSUME NEW q \in Pages, NEW i \in Instances, page'[q].ws # 0, page'[q].sel = i
             PROVE  \/ Waits(tabs'[page'[q].ws], i) \/ hub'[i].conn = 0
                    \/ Occurs(Coming(i)', "RequestSnapshot") \/ ~hub'[i].watching
                    \/ Shows(Way(i)', tabs'[page'[q].ws].down, page'[q].view, i, pushed'[i].text)
  BY DEF ShowInv, Excused
<1>0. hub' = hub /\ pushed' = pushed /\ Coming(i)' = Coming(i) /\ Way(i)' = Way(i)
  BY PagesAside DEF PageMove, Coming, Way, Socketed
<1> DEFINE x == pushed[i].text  d == tabs'[page'[q].ws]
           Free == hub[i].conn = 0 \/ Occurs(Coming(i), "RequestSnapshot") \/ ~hub[i].watching
<1> SUFFICES Waits(d, i) \/ Free \/ Shows(Way(i), d.down, page'[q].view, i, x)  BY <1>0
<1>1. CASE q # p
  <2>1. page'[q] = page[q] /\ tabs'[page[q].ws] = tabs[page[q].ws]  BY <1>1, OthersStay
  <2> QED  BY <2>1 DEF ShowInv, Excused
<1>2. CASE q = p
  <2> DEFINE b == tabs[page[p].ws]
  <2>0. i # None  BY RelayAssumption
  <2>1. Asks(d) \/ (page[p].ws # 0 /\ Keeps(page[p], b, page'[p], d))  BY <1>2, <2>0, MoveActs DEF PageActs
  <2>2. CASE Asks(d)  BY <2>2 DEF Waits
  <2>3. CASE page[p].ws # 0 /\ Keeps(page[p], b, page'[p], d)
    <3>1. page[p].sel = i  BY <1>2, <2>3 DEF Keeps
    <3>2. Waits(b, i) \/ Free \/ Shows(Way(i), b.down, page[p].view, i, x)  BY <2>3, <3>1 DEF ShowInv, Excused
    <3>3. b \in Browsers  BY <2>3, PageTab
    <3>4. Waits(b, i) => Waits(d, i)  BY <2>3, <3>1, <3>3, WaitsKept
    <3>5. ASSUME Shows(Way(i), b.down, page[p].view, i, x) PROVE Shows(Way(i), d.down, page'[p].view, i, x)
      <4> DEFINE g == page[p]  h == page'[p]
      <4>0. Keeps(g, b, h, d) /\ g.sel = i /\ b \in Browsers  BY <2>3, <3>1, <3>3
      <4> HIDE DEF g, h, b, d, x
      <4>1. Seen(b.down, g.view, i, x) => Seen(d.down, h.view, i, x)  BY <4>0, SeenKept
      <4> USE DEF g, h, b, d, x
      <4> QED  BY <3>5, <4>1, ShowsStill
    <3> QED  BY <1>2, <3>2, <3>4, <3>5
  <2> QED  BY <2>1, <2>2, <2>3
<1> QED  BY <1>1, <1>2

(* A push sends the transcript of the moment.                              *)
LEMMA PushShows ==
    ASSUME NEW x \in PagerState, NEW w \in Seq(UpFrames), NEW s, NEW v, NEW i, NEW z
    PROVE  /\ Shows(w \o <<Snapshot(x)>>, s, v, i, x.text)
           /\ Shows(w, s, v, i, z) => Shows(w \o <<SessionCatalog(x)>>, s, v, i, z)
<1>1. Snapshot(x) \in SnapsOf(x.text) /\ Snapshot(x) \in UpFrames  BY DEF Snapshot, SnapsOf, Snaps, UpFrames, PagerState
<1>2. SessionCatalog(x) \notin Snaps /\ SessionCatalog(x) \in UpFrames  BY DEF SessionCatalog, Snaps, UpFrames, PagerState
<1>3. Shows(w \o <<Snapshot(x)>>, s, v, i, x.text)  BY <1>1, ShowsSent
<1>4. Shows(w, s, v, i, z) => Shows(w \o <<SessionCatalog(x)>>, s, v, i, z)  BY <1>2, ShowsSent
<1> QED  BY <1>3, <1>4

(* A page that waits for nothing after a step waited for nothing before    *)
(* it, and its window was connected: a new connection finds it waiting.    *)
LEMMA ShowDue ==
    ASSUME IInv, IInv', AgreeInv, AgreeInv', SelInv, NoSocketReplaced, RelayStep \/ \E j \in Instances : WindowMove(j),
           NEW p \in Pages, NEW i \in Instances, page[p].ws # 0, page[p].sel = i,
           ~Waits(tabs'[page[p].ws], i), hub'[i].conn # 0, ~Occurs(Coming(i)', "RequestSnapshot")
    PROVE  /\ hub[i].conn # 0 /\ ~Waits(tabs[page[p].ws], i)
           /\ ~(RelayStep /\ \E u : OnWatch(u) \/ TabClose(u))
<1> DEFINE t == page[p].ws  b == tabs[t]
<1>0. [Next]_vars  BY DEF Next, WindowMove
<1>1. t \in 1..Len(tabs) /\ b \in Browsers /\ b.live /\ b.st = "open"  BY PageTab DEF AgreeInv, Informed
<1>2. ~Refused(b, i)  BY <1>1, RefusedStays DEF Waits
<1>3. Asks(b) => RelayStep /\ OnWatch(t)  BY <1>1, StepTells DEF Waits
<1>4. hub[i].conn # 0
  <2>1. ASSUME hub[i].conn = 0 PROVE FALSE
    <3>1. AgentsOf(agents, i) = {}  BY <2>1 DEF NoSocketReplaced, Comes
    <3>2. Waits(b, i)  BY <3>1 DEF SelInv, Attended
    <3>3. hub' = hub  BY <1>2, <1>3, <3>2 DEF Waits, RelayStep
    <3> QED  BY <2>1, <3>3
  <2> QED  BY <2>1
<1>5. ASSUME RelayStep, NEW u, OnWatch(u) \/ TabClose(u) PROVE FALSE
  BY <1>4, <1>5, Reordered DEF Waits
<1> QED  BY <1>2, <1>3, <1>4, <1>5 DEF Waits

LEMMA ShowSnapshot ==
    ASSUME IInv, IInv', AgreeInv, hub' = hub, NEW c, OnSnapshot(c),
           NEW p \in Pages, NEW i \in Instances, page[p].ws # 0, page[p].sel = i, ~Asks(tabs[page[p].ws]), hub[i].conn # 0,
           NEW v, NEW x, Shows(Way(i), tabs[page[p].ws].down, v, i, x)
    PROVE  Shows(Way(i)', tabs'[page[p].ws].down, v, i, x)
<1> DEFINE t == page[p].ws  s == tabs[t].down  r == tabs'[t].down  f == Head(agents[c].up)  j == agents[c].inst
<1>0. i # None  BY RelayAssumption
<1>1. t \in 1..Len(tabs) /\ tabs \in Seq(Browsers) /\ tabs[t] \in Browsers /\ Governs(tabs[t], Len(tabs[t].up), i)
  BY <1>0, PageTab
<1>2. tabs[t].live /\ tabs[t].st = "open"  BY DEF AgreeInv, Informed
<1>3. s \in Seq(TabFrames)  BY <1>1 DEF Browsers, Browser
<1>4. (i # j => UpIdle(i)) /\ (i = j => UpTaken(i, f))  BY RelayTakes
<1>5. f \in Snaps  BY RelayShows
<1>6. \/ j \notin watchedInstanceIds(tabs) /\ tabs' = tabs
      \/ \E z \in TabSnapsOf(j, f.text) : r = s \o <<z>>
  BY <1>1, <1>2, SnapshotHears DEF Hears
<1>7. i \in watchedInstanceIds(tabs)  BY <1>1, <1>2, SilentWatches
<1>8. Way(i) \in Seq(UpFrames)  BY WindowTyped
<1>9. CASE i # j
  <2>1. Seen(s, v, i, x) => Seen(r, v, i, x)
    <3>1. CASE tabs' = tabs  BY <3>1
    <3>2. ASSUME NEW z \in TabSnapsOf(j, f.text), r = s \o <<z>> PROVE Seen(s, v, i, x) => Seen(r, v, i, x)
      BY <1>3, <1>9, <3>2, SeenSent
    <3> QED  BY <1>6, <3>1, <3>2
  <2>2. Way(i)' = Way(i)  BY <1>4, <1>9 DEF UpIdle
  <2> QED  BY <2>1, <2>2, ShowsStill
<1>10. CASE i = j
  <2>1. PICK z \in TabSnapsOf(j, f.text) : r = s \o <<z>>  BY <1>6, <1>7, <1>10
  <2> DEFINE w == Way(i)
  <2>2. w # <<>> /\ Head(w) = f /\ Way(i)' = Tail(w)  BY <1>4, <1>10 DEF UpTaken
  <2>3. ASSUME Head(w) \in SnapsOf(x) PROVE Seen(r, v, i, x)
    <3>1. f.text = x  BY <2>2, <2>3 DEF SnapsOf
    <3> QED  BY <1>3, <1>10, <2>1, <3>1, SeenSent
  <2> HIDE DEF w, r, s, f
  <2>4. Shows(Tail(w), r, v, i, x)
    <3>1. Shows(w, s, v, i, x) /\ w \in Seq(UpFrames)  BY <1>8 DEF w, s
    <3> QED  BY <1>5, <2>2, <2>3, <3>1, ShowsTaken
  <2> QED  BY <2>2, <2>4 DEF r
<1> QED  BY <1>9, <1>10

\* Window i mirrors as before, and a request still to handle is still to handle.
Unmoved(i) == /\ hub'[i].watching = hub[i].watching
              /\ Occurs(Coming(i), "RequestSnapshot") => Occurs(Coming(i)', "RequestSnapshot")

LEMMA DownUnmoved == ASSUME NEW i \in Instances, DownIdle(i) PROVE Unmoved(i)
BY DEF DownIdle, Unmoved

LEMMA ShowRelay ==
    ASSUME IInv, IInv', RelayStep, ~(\E u : OnWatch(u) \/ TabClose(u)), NEW i \in Instances, hub[i].conn # 0
    PROVE  /\ Unmoved(i)
           /\ (\E c \in DOMAIN agents : OnSnapshot(c)) \/ UpIdle(i) \/ (\E f \in UpFrames \ Snaps : UpTaken(i, f))
<1>0. Relay /\ hub' = hub  BY DEF RelayStep
<1>1. ASSUME NEW c \in DOMAIN agents, OnHello(c) \/ OnSessionCatalog(c)
      PROVE  Unmoved(i) /\ (UpIdle(i) \/ (\E f \in UpFrames \ Snaps : UpTaken(i, f)))
  <2>1. Head(agents[c].up).type # "snapshot"  BY <1>1 DEF OnHello, OnSessionCatalog, AgentFrame
  <2>2. Head(agents[c].up) \in UpFrames \ Snaps  BY <1>0, <1>1, <2>1, RelayTakes DEF Snaps
  <2>3. DownIdle(i)  BY <1>0, <1>1, RelayTakes
  <2>4. UpIdle(i) \/ UpTaken(i, Head(agents[c].up))  BY <1>0, <1>1, RelayTakes
  <2> QED  BY <2>2, <2>3, <2>4, DownUnmoved
<1>2. ASSUME NEW c \in DOMAIN agents, OnSnapshot(c) PROVE Unmoved(i)
  BY <1>0, <1>2, RelayTakes, DownUnmoved
<1>3. ASSUME NEW c \in DOMAIN agents, HelloSaves(c) \/ HelloFails(c) \/ HelloBroadcasts(c) \/ AgentClose(c)
      PROVE  Unmoved(i) /\ UpIdle(i)
  BY <1>0, <1>3, RelayNotes, DownUnmoved
<1>4. ASSUME NEW t, OnPrompt(t) PROVE Unmoved(i) /\ UpIdle(i)
  <2>1. UpIdle(i) /\ hub'[i] = hub[i] /\ (Coming(i)' = Coming(i) \/ Coming(i)' = Coming(i) \o <<"InboundPrompt">>)
    BY <1>0, <1>4, RelayPrompts
  <2>2. Coming(i) \in Seq(Events) /\ "InboundPrompt" \in Events  BY WindowTyped DEF Events
  <2>3. Occurs(Coming(i), "RequestSnapshot") => Occurs(Coming(i)', "RequestSnapshot")  BY <2>1, <2>2, OccursSend
  <2> QED  BY <2>1, <2>3 DEF Unmoved
<1> QED  BY <1>0, <1>1, <1>2, <1>3, <1>4 DEF Relay

LEMMA ShowWindow ==
    ASSUME IInv, IInv', Room, NEW j \in Instances, WindowMove(j), NEW i \in Instances, hub[i].conn # 0, hub'[i].conn # 0,
           ~Occurs(Coming(i)', "RequestSnapshot"), hub'[i].watching,
           NEW s, NEW v, Occurs(Coming(i), "RequestSnapshot") \/ ~hub[i].watching \/ Shows(Way(i), s, v, i, pushed[i].text)
    PROVE  Shows(Way(i)', s, v, i, pushed'[i].text)
<1> DEFINE Before == Shows(Way(i), s, v, i, pushed[i].text)  After == Shows(Way(i)', s, v, i, pushed'[i].text)
<1>1. ASSUME UpIdle(i), DownIdle(i), pushed'[i] = pushed[i] PROVE After
  <2>1. Unmoved(i)  BY <1>1, DownUnmoved
  <2>2. Way(i)' = Way(i) /\ pushed'[i] = pushed[i]  BY <1>1 DEF UpIdle
  <2>3. Before  BY <2>1 DEF Unmoved
  <2> QED  BY <2>2, <2>3
<1>2. CASE Connect(j) \/ Pump(j) \/ Receive(j) \/ Drop(j)
  <2>1. pushed' = pushed  BY <1>2 DEF Connect, Pump, Receive, Drop
  <2>2. Connect(j) => j # i  BY DEF Connect
  <2>3. Drop(j) => j # i  BY WindowDrops
  <2>4. UpIdle(i) /\ DownIdle(i)  BY <1>2, <2>2, <2>3, WindowComes, WindowPumps, WindowReceives, WindowDrops
  <2> QED  BY <1>1, <2>1, <2>4
<1>3. CASE (StateChanged(j) \/ HandleEvent(j)) /\ j # i  BY <1>1, <1>3, PagerElsewhere
<1>4. CASE StateChanged(i)
  <2>1. DownIdle(i) /\ pager'[i] \in PagerState /\ pushed'[i] = pager'[i]  BY <1>4, WindowPushes
  <2>2. hub[i].watching  BY <2>1 DEF DownIdle
  <2>3. PICK w \in Seq(UpFrames) : Way(i)' = w \o <<Snapshot(pager'[i])>>  BY <1>4, <2>2, WindowPushes
  <2> QED  BY <2>1, <2>3, PushShows
<1>5. CASE HandleEvent(i)
  <2>1. PICK e \in Events : Handles(i, e)  BY <1>5, WindowHandles
  <2>2. pager[i] \in PagerState /\ Way(i) \in Seq(UpFrames) /\ Coming(i) \in Seq(Events)  BY HubSocket, WindowTyped
  <2>3. CASE e = "RequestSnapshot"
    <3>1. PICK w \in Seq(UpFrames) : Way(i)' = w \o <<Snapshot(pager[i])>>  BY <2>1, <2>3 DEF Handles
    <3>2. pushed'[i].text = pager[i].text  BY <2>1, <2>3 DEF Handles
    <3> QED  BY <2>2, <3>1, <3>2, PushShows
  <2>4. CASE e \notin Orders
    <3>1. Coming(i) # <<>> /\ Head(Coming(i)) = e /\ Coming(i)' = Tail(Coming(i)) /\ hub'[i].watching = hub[i].watching
      BY <2>1, <2>4 DEF Handles
    <3>2. e # "RequestSnapshot"  BY <2>4 DEF Orders
    <3>3. ~Occurs(Coming(i), "RequestSnapshot")  BY <2>2, <3>1, <3>2, OccursTake
    <3>4. Before  BY <3>1, <3>3
    <3>5. Way(i)' = Way(i) \/ Way(i)' = Way(i) \o <<SessionCatalog(pager[i])>>  BY <2>1, <3>2 DEF Handles
    <3>6. pushed'[i].text = pushed[i].text  BY <2>1, <3>2 DEF Handles
    <3> QED  BY <2>2, <3>4, <3>5, <3>6, PushShows
  <2>5. e # "StopWatching"  BY <2>1 DEF Handles
  <2> QED  BY <2>3, <2>4, <2>5 DEF Orders
<1> QED  BY <1>2, <1>3, <1>4, <1>5 DEF WindowMove

LEMMA ShowElsewhere ==
    ASSUME IInv, IInv', AgreeInv, AgreeInv', SelInv, ShowInv, Room, NoSocketReplaced,
           RelayStep \/ \E j \in Instances : WindowMove(j)
    PROVE  ShowInv'
<1>0. page' = page
  <2>1. CASE RelayStep  BY <2>1 DEF RelayStep
  <2>2. ASSUME NEW j \in Instances, WindowMove(j) PROVE page' = page
    BY <2>2 DEF WindowMove, Connect, Pump, Receive, Drop, StateChanged, HandleEvent
  <2> QED  BY <2>1, <2>2
<1> SUFFICES ASSUME NEW p \in Pages, NEW i \in Instances, page[p].ws # 0, page[p].sel = i,
                    ~Waits(tabs'[page[p].ws], i), hub'[i].conn # 0, ~Occurs(Coming(i)', "RequestSnapshot"), hub'[i].watching
             PROVE  Shows(Way(i)', tabs'[page[p].ws].down, page[p].view, i, pushed'[i].text)
  BY <1>0 DEF ShowInv, Excused
<1> DEFINE t == page[p].ws  s == tabs[t].down  r == tabs'[t].down  v == page[p].view
<1>1. hub[i].conn # 0 /\ ~Waits(tabs[t], i) /\ ~(RelayStep /\ \E u : OnWatch(u) \/ TabClose(u))  BY ShowDue
<1>2. Occurs(Coming(i), "RequestSnapshot") \/ ~hub[i].watching \/ Shows(Way(i), s, v, i, pushed[i].text)
  BY <1>1 DEF ShowInv, Excused
<1>3. t \in 1..Len(tabs) /\ tabs[t] \in Browsers /\ tabs[t].live /\ tabs[t].st = "open"  BY PageTab DEF AgreeInv, Informed
<1>4. s \in Seq(TabFrames)  BY <1>3 DEF Browsers, Browser
<1>5. CASE RelayStep
  <2> DEFINE x == pushed[i].text
  <2>0. hub' = hub /\ pushed' = pushed  BY <1>5 DEF RelayStep
  <2>1. Unmoved(i)  BY <1>1, <1>5, ShowRelay
  <2>2. Shows(Way(i), s, v, i, x)  BY <1>2, <2>1 DEF Unmoved
  <2>3. ASSUME NEW c \in DOMAIN agents, OnSnapshot(c) PROVE Shows(Way(i)', r, v, i, x)
    BY <1>1, <2>0, <2>2, <2>3, ShowSnapshot DEF Waits
  <2>4. ASSUME ~\E c \in DOMAIN agents : OnSnapshot(c) PROVE Shows(Way(i)', r, v, i, x)
    <3>1. PICK fs : Hears(t, fs) /\ TextFree(fs)  BY <1>1, <1>3, <1>5, <2>4, StepHears
    <3>2. fs \in Seq(TabFrames) /\ r = s \o fs  BY <3>1 DEF Hears
    <3>3. Seen(s, v, i, x) => Seen(r, v, i, x)  BY <1>4, <3>1, <3>2, SeenFree
    <3>4. CASE UpIdle(i)
      <4>1. Way(i)' = Way(i)  BY <3>4 DEF UpIdle
      <4> HIDE DEF r, s, v, x
      <4>2. Shows(Way(i), r, v, i, x)  BY <2>2, <3>3, ShowsStill
      <4> QED  BY <4>1, <4>2
    <3>5. ASSUME NEW f \in UpFrames \ Snaps, UpTaken(i, f) PROVE Shows(Way(i)', r, v, i, x)
      <4> DEFINE w == Way(i)
      <4>1. w # <<>> /\ Head(w) = f /\ Way(i)' = Tail(w)  BY <3>5 DEF UpTaken
      <4>2. w \in Seq(UpFrames)  BY <1>1, WindowTyped
      <4>3. Head(w) \notin SnapsOf(x)  BY <4>1 DEF SnapsOf
      <4>4. Shows(w, s, v, i, x)  BY <2>2
      <4> HIDE DEF w, r, s, v, x
      <4> QED  BY <3>3, <4>1, <4>2, <4>3, <4>4, ShowsTaken
    <3>6. UpIdle(i) \/ \E f \in UpFrames \ Snaps : UpTaken(i, f)  BY <1>1, <1>5, <2>4, ShowRelay
    <3> HIDE DEF r, s, v, x
    <3> QED  BY <3>4, <3>5, <3>6
  <2> QED  BY <2>0, <2>3, <2>4
<1>6. ASSUME NEW j \in Instances, WindowMove(j) PROVE Shows(Way(i)', r, v, i, pushed'[i].text)
  <2>1. CASE RelayStep  BY <1>5, <2>1
  <2>2. CASE ~RelayStep
    <3>1. PICK fs : Hears(t, fs) /\ TextFree(fs)  BY <1>3, <1>6, <2>2, StepHears
    <3>2. fs \in Seq(TabFrames) /\ r = s \o fs  BY <3>1 DEF Hears
    <3> DEFINE y == pushed'[i].text
    <3>3. Seen(s, v, i, y) => Seen(r, v, i, y)  BY <1>4, <3>1, <3>2, SeenFree
    <3>4. Shows(Way(i)', s, v, i, y)  BY <1>1, <1>2, <1>6, ShowWindow
    <3> QED  BY <3>3, <3>4, ShowsStill
  <2> QED  BY <2>1, <2>2
<1> QED  BY <1>5, <1>6

LEMMA ShowStep ==
    AgreementInv /\ AgreementInv' /\ SelInv /\ ShowInv /\ Room /\ NoSocketReplaced /\ [Next]_vars => ShowInv'
<1> SUFFICES ASSUME AgreementInv, AgreementInv', SelInv, ShowInv, Room, NoSocketReplaced, [Next]_vars PROVE ShowInv'  OBVIOUS
<1>0. IInv /\ IInv' /\ AgreeInv /\ AgreeInv'  BY DEF AgreementInv
<1>1. CASE RelayStep \/ \E j \in Instances : WindowMove(j)  BY <1>0, <1>1, ShowElsewhere
<1>2. ASSUME NEW p \in Pages, PageMove(p) PROVE ShowInv'  BY <1>0, <1>2, ShowPage
<1>3. CASE Aside
  BY <1>3, AsideStays DEF ShowInv, Excused, Coming, Way, Socketed
<1> QED  BY <1>1, <1>2, <1>3 DEF Next, Aside, WindowMove, PageMove

(* While every push finds room in the outbound buffer and no window        *)
(* connects before the relay has noticed that its earlier socket is gone,  *)
(* a page that selected a window which is mirroring shows the transcript   *)
(* of its last push when nothing is under way: no snapshot is lost between *)
(* the window's push, the relay's broadcast and the page                   *)
(* (push_snapshot_if_connected, broadcastBrowsers, forSelectedInstance).   *)
THEOREM ViewSettles == Spec /\ []Room /\ [][NoSocketReplaced]_vars => []ViewIsLastPushed
<1>1. AgreementInv /\ SelInv /\ ShowInv => ViewIsLastPushed
  <2> SUFFICES ASSUME IInv, SelInv, ShowInv, Quiet, NEW p \in Pages, page[p].ws # 0, page[p].sel # None,
                      hub[page[p].sel].watching
               PROVE  page[p].view = [inst |-> page[p].sel, text |-> pushed[page[p].sel].text]
    BY DEF AgreementInv, ViewIsLastPushed
  <2> DEFINE b == tabs[page[p].ws]  i == page[p].sel  x == pushed[i].text  v == page[p].view
  <2>1. page[p] \in PageStates /\ page[p].ws \in DOMAIN tabs  BY PageTab
  <2>2. i \in Instances  BY <2>1 DEF PageStates, PageState
  <2>3. b.up = <<>> /\ b.down = <<>>  BY <2>1 DEF Quiet
  <2>4. Len(<<>>) = 0 /\ 1..0 = {}  OBVIOUS
  <2>5. ~Waits(b, i)  BY <2>3, <2>4 DEF Waits, Asks, Refused, Occurs
  <2>6. hub[i].conn # 0
    <3>1. AgentsOf(agents, i) # {}  BY <2>2, <2>5 DEF SelInv, Attended
    <3>2. PICK c \in DOMAIN agents : agents[c].st = "open" /\ agents[c].inst = i  BY <3>1 DEF AgentsOf, OpenAgents
    <3>3. agents[c].live  BY <3>2 DEF Quiet
    <3>4. c \in 1..Len(agents)  BY LenProperties DEF IInv, WiresInv
    <3>5. hub[i].conn = c  BY <3>2, <3>3, <3>4 DEF IInv, SocketInv
    <3> QED  BY <3>4, <3>5
  <2>7. Way(i) = <<>> /\ Coming(i) = <<>>  BY <2>2, <2>6, QuietWindow
  <2>8. ~Occurs(Coming(i), "RequestSnapshot")  BY <2>4, <2>7 DEF Occurs
  <2>9. Shows(<<>>, <<>>, v, i, x)  BY <2>2, <2>3, <2>5, <2>6, <2>7, <2>8 DEF ShowInv, Excused
  <2>10. Seen(<<>>, v, i, x)  BY <2>9, SeenBoolean, SettlesEmpty DEF Shows
  <2> QED  BY <2>10, SeenBoolean, SettlesEmpty DEF Seen
<1>2. UNCHANGED vars => NoSocketReplaced  BY DEF vars, NoSocketReplaced, Comes
<1>3. AgreementInv /\ SelInv /\ ShowInv /\ Room /\ [Next]_vars /\ [NoSocketReplaced]_vars
      => AgreementInv' /\ SelInv' /\ ShowInv'
  BY <1>2, AgreementStep, SelStep, ShowStep
<1>4. Init => ShowInv
  <2>1. ASSUME Init PROVE \A p \in Pages : page[p].ws = 0  BY <2>1 DEF Init
  <2> QED  BY <2>1 DEF ShowInv
<1> QED  BY <1>1, <1>3, <1>4, AgreementInit, SelInit, PTL DEF Spec

=============================================================================
