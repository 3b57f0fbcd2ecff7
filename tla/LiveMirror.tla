----------------------------- MODULE LiveMirror -----------------------------
(***************************************************************************)
(* A machine's relay with the two programs it joins: the Grok windows      *)
(* (xai-grokcraft's client and hub, the pager's mirror and its handler of  *)
(* inbound events) and the browser pages (cloud/public/js/app.js).         *)
(*                                                                         *)
(* In a window two tasks run: the client, which owns the socket, and the   *)
(* pager's event loop.  They meet in the hub: the outbound broadcast       *)
(* buffer, the inbound event queue and the flags connected and watching.   *)
(***************************************************************************)
EXTENDS MachineRelay, Functions

CONSTANTS ByCode,      \* instances that may connect with a pairing code
          OUTBOUND_CAP,\* frames the outbound buffer keeps
          MaxList,     \* bound: versions of a window's session list
          MaxText,     \* bound: versions of a window's transcript
          MaxInputs,   \* bound: clicks and prompts of the users
          MaxDrops,    \* bound: connections that break
          MaxBusy      \* bound: frames and events under way when something new
                       \*   starts (not when a connection breaks)

ASSUME MirrorAssumption == /\ ByCode \subseteq Instances
                           /\ OUTBOUND_CAP \in Nat \ {0}
                           /\ MaxList \in Nat \ {0} /\ MaxText \in Nat
                           /\ MaxInputs \in Nat /\ MaxDrops \in Nat /\ MaxBusy \in Nat

VARIABLES hub,     \* instance -> the window's hub and mirror
          pager,   \* instance -> what the pager shows: session list, transcript
          pushed,  \* history: instance -> what the pager showed at its last push
          page,    \* page -> state of app.js
          inputs,  \* clicks and prompts so far
          drops    \* connections that broke so far
vars == <<agents, tabs, catalog, hub, pager, pushed, page, inputs, drops>>

Waiting(S) == FoldFunction(LAMBDA s, n : n + Len(s.up) + Len(s.down), 0, S)
Busy == Waiting(agents) + Waiting(tabs) + FoldFunction(LAMBDA h, n : n + Len(h.out) + Len(h.in), 0, hub)
MayStart == Busy =< MaxBusy

\* conn is the client's socket, 0 when connected is false; key is LAST_CATALOG.
Disconnected(h) == [h EXCEPT !.conn = 0, !.watching = FALSE, !.out = <<>>]

\* A receiver that lags loses the oldest frames of the broadcast buffer.
Emit(out, frames) ==
    LET all == out \o frames
    IN SubSeq(all, 1 + (IF Len(all) > OUTBOUND_CAP THEN Len(all) - OUTBOUND_CAP ELSE 0), Len(all))

SessionCatalog(x) == [type |-> "session_catalog", list |-> x.list]
\* Fault: the placeholder session is sent as the active one.
SnapshotOfPlaceholder(x) == [type |-> "snapshot", text |-> x.text,
                             active |-> IF x.list = 1 THEN "live" ELSE "real"]
\* The pager has an active session unless its list is the placeholder alone.
Snapshot(x) == [type |-> "snapshot", text |-> x.text,
                active |-> IF x.list = 1 THEN "" ELSE "real"]

\* The hub after a push of what the pager shows, x.  The fingerprint of a
\* catalog is recorded before its frame is emitted.
push_catalog_if_connected(h, x) ==
    IF h.conn = 0 \/ h.key = x.list THEN h
    ELSE [h EXCEPT !.key = x.list, !.out = Emit(@, <<SessionCatalog(x)>>)]

\* Fault: a snapshot is sent only with a new catalog.
PushWithCatalogOnly(h, x) ==
    IF h.key = x.list THEN h
    ELSE LET g == push_catalog_if_connected(h, x)
         IN IF g.conn = 0 \/ ~g.watching THEN g
            ELSE [g EXCEPT !.out = Emit(@, <<Snapshot(x)>>)]

push_snapshot_if_connected(h, x) ==
    LET g == push_catalog_if_connected(h, x)
    IN IF g.conn = 0 \/ ~g.watching THEN g
       ELSE [g EXCEPT !.out = Emit(@, <<Snapshot(x)>>)]

\* Fault: the fingerprint survives a reconnect.
KeepCatalogCache(h) == h
reset_catalog_cache(h) == [h EXCEPT !.key = None]

-----------------------------------------------------------------------------
(* The client.                                                             *)

\* run_once up to its loop: hello is on the wire before any other frame.
Connect(i) ==
    /\ MayStart
    /\ hub[i].conn = 0
    /\ \E code \in IF i \in ByCode THEN BOOLEAN ELSE {FALSE} :
         /\ AcceptAgent(i, code, <<Frame("hello")>>)
         /\ hub' = [hub EXCEPT ![i].conn = Len(agents'),
                               ![i].in = Append(@, IF code THEN "PairingReady" ELSE "Status")]
    /\ UNCHANGED <<pager, pushed, page, inputs, drops>>

\* The select loop sends the next outbound frame.
Pump(i) ==
    /\ hub[i].conn # 0 /\ hub[i].out # <<>>
    /\ hub' = [hub EXCEPT ![i].out = Tail(@)]
    /\ agents' = IF agents[hub[i].conn].st = "open"
                 THEN [agents EXCEPT ![hub[i].conn].up = Append(@, Head(hub[i].out))]
                 ELSE agents
    /\ UNCHANGED <<tabs, catalog, pager, pushed, page, inputs, drops>>

event_from_cloud(frame) ==
    CASE frame.type = "subscribe"   -> "RequestSnapshot"
      [] frame.type = "unsubscribe" -> "StopWatching"
      [] frame.type = "prompt"      -> "InboundPrompt"

\* The select loop receives a frame and queues its event for the pager.
Receive(i) ==
    /\ hub[i].conn # 0 /\ agents[hub[i].conn].down # <<>>
    /\ hub' = [hub EXCEPT ![i].in =
                  Append(@, event_from_cloud(Head(agents[hub[i].conn].down)))]
    /\ agents' = [agents EXCEPT ![hub[i].conn].down = Tail(@)]
    /\ UNCHANGED <<tabs, catalog, pager, pushed, page, inputs, drops>>

\* The connection breaks: the relay still gets some of the frames on the wire,
\* run_once returns and run_client calls set_connected(false).
Drop(i) ==
    /\ drops < MaxDrops /\ drops' = drops + 1
    /\ hub[i].conn # 0
    /\ LET c == hub[i].conn
       IN \E n \in 0..Len(agents[c].up) :
            agents' = [agents EXCEPT ![c].live = FALSE, ![c].down = <<>>, ![c].up = SubSeq(@, 1, n)]
    /\ hub' = [hub EXCEPT ![i] = Disconnected(@)]
    /\ UNCHANGED <<tabs, catalog, pager, pushed, page, inputs>>

-----------------------------------------------------------------------------
(* The pager's event loop.                                                 *)

\* What the window may show after a change of its list, its transcript or both.
Later(x) == {y \in [list : {x.list, x.list + 1}, text : {x.text, x.text + 1}] :
                y # x /\ y.list =< MaxList /\ y.text =< MaxText}

\* The arm of ACP messages: the session changed what the window shows, and the
\* change is pushed.
StateChanged(i) ==
    /\ MayStart
    /\ \E x \in Later(pager[i]) : pager' = [pager EXCEPT ![i] = x]
    /\ hub' = [hub EXCEPT ![i] = push_snapshot_if_connected(@, pager'[i])]
    /\ pushed' = IF hub[i].conn = 0 THEN pushed ELSE [pushed EXCEPT ![i] = pager'[i]]
    /\ UNCHANGED <<agents, tabs, catalog, page, inputs, drops>>

\* The arms of task results (a session created, the answer of a prompt) and of
\* the keyboard change what the window shows and push nothing.
ChangedUnpushed(i) ==
    /\ MayStart
    /\ \E x \in Later(pager[i]) : pager' = [pager EXCEPT ![i] = x]
    /\ UNCHANGED <<agents, tabs, catalog, hub, pushed, page, inputs, drops>>

\* handle_event, on the next inbound event; a prompt is shown, and starts a turn
\* or waits for one, without a push.
HandleEvent(i) ==
    /\ hub[i].in # <<>>
    /\ LET h == [hub[i] EXCEPT !.in = Tail(@)]
           event == Head(hub[i].in)
       IN /\ hub' = [hub EXCEPT ![i] =
                CASE event = "Status" -> push_catalog_if_connected(reset_catalog_cache(h), pager[i])
                  [] event = "RequestSnapshot" ->
                        push_snapshot_if_connected([h EXCEPT !.watching = TRUE], pager[i])
                  [] event = "StopWatching" -> [h EXCEPT !.watching = FALSE]
                  [] OTHER -> h]
          /\ \E x \in {pager[i]} \cup (IF event = "InboundPrompt" THEN Later(pager[i]) ELSE {}) :
                pager' = [pager EXCEPT ![i] = x]
          /\ pushed' = [pushed EXCEPT ![i] =
                IF hub[i].conn = 0 THEN @
                ELSE CASE event = "Status" -> [@ EXCEPT !.list = pager[i].list]
                       [] event = "RequestSnapshot" -> pager[i]
                       [] OTHER -> @]
    /\ UNCHANGED <<agents, tabs, catalog, page, inputs, drops>>

-----------------------------------------------------------------------------
(* The browser page.                                                       *)
firstSessionId(list) == IF list = 0 THEN "" ELSE IF list = 1 THEN "live" ELSE "real"
Watch(i) == [type |-> "watch", inst |-> i]
canCompose(g) == g.online /\ g.sel # None

\* sendJson: nothing is sent while the socket is not open.
SendJson(T, g, frames) ==
    IF g.ws = 0 THEN T ELSE [T EXCEPT ![g.ws].up = @ \o frames]

\* selectSession: another session clears the transcript; the watch frame follows.
Selected(g, i, s) == [g EXCEPT !.sel = i, !.sess = s,
                               !.view = IF g.sel = i /\ g.sess = s THEN @ ELSE None]
SelectFrames(g, i) == <<Watch(i)>>

\* Fault: the open event does not repeat the watch.
PageConnectsSilently(p) ==
    /\ MayStart
    /\ page[p].ws = 0
    /\ AcceptTab(p, <<>>)
    /\ page' = [page EXCEPT ![p].ws = Len(tabs')]
    /\ UNCHANGED <<hub, pager, pushed, inputs, drops>>

\* connectWs and the open event, which repeats the watch of a selection.
PageConnects(p) ==
    /\ MayStart
    /\ page[p].ws = 0
    /\ AcceptTab(p, IF page[p].sel # None THEN <<Watch(page[p].sel)>> ELSE <<>>)
    /\ page' = [page EXCEPT ![p].ws = Len(tabs')]
    /\ UNCHANGED <<hub, pager, pushed, inputs, drops>>

PageDrops(p) ==
    /\ drops < MaxDrops /\ drops' = drops + 1
    /\ page[p].ws # 0
    /\ LET t == page[p].ws
       IN \E n \in 0..Len(tabs[t].up) :
            tabs' = [tabs EXCEPT ![t].live = FALSE, ![t].down = <<>>, ![t].up = SubSeq(@, 1, n)]
    /\ page' = [page EXCEPT ![p].ws = 0, ![p].online = FALSE]
    /\ UNCHANGED <<agents, catalog, hub, pager, pushed, inputs>>

\* A click on a row of the sidebar.  For a session that is not the window's active
\* one the page also sends load_session, which is routed as a prompt is.
Click(p) ==
    /\ MayStart /\ inputs < MaxInputs
    /\ inputs' = inputs + 1
    /\ \E i \in {j \in Instances : page[p].known[j] # None} :
         LET first == firstSessionId(page[p].known[i])
             g == Selected(page[p], i, IF first = "live" THEN "" ELSE first)
         IN /\ page' = [page EXCEPT ![p] = g]
            /\ tabs' = SendJson(tabs, g, SelectFrames(g, i))
    /\ UNCHANGED <<agents, catalog, hub, pager, pushed, drops>>

\* Sending a prompt first selects the only instance when none is selected; where
\* the page cannot send, that selection alone takes effect, as with a click.
Compose(p) ==
    /\ MayStart /\ inputs < MaxInputs
    /\ page[p].ws # 0
    /\ LET known == {j \in Instances : page[p].known[j] # None}
           only == page[p].sel = None /\ Cardinality(known) = 1
           i == IF only THEN CHOOSE j \in known : TRUE ELSE page[p].sel
           g == IF only THEN Selected(page[p], i, firstSessionId(page[p].known[i])) ELSE page[p]
       IN /\ canCompose(g)
          /\ page' = [page EXCEPT ![p] = g]
          /\ tabs' = SendJson(tabs, g, (IF only THEN SelectFrames(g, i) ELSE <<>>)
                                        \o <<[type |-> "prompt", inst |-> i]>>)
    /\ inputs' = inputs + 1
    /\ UNCHANGED <<agents, catalog, hub, pager, pushed, drops>>

\* applyCatalog: the page after the frame, and the instance it selects, if any.
applyCatalog(g, f) ==
    LET known == {j \in Instances : f.entries[j] # None}
        gone == g.sel # None /\ g.sel \notin known
        h == [g EXCEPT !.known = f.entries, !.online = f.online /\ known # {},
                       !.sel = IF gone THEN None ELSE @, !.sess = IF gone THEN "" ELSE @,
                       !.view = IF gone THEN None ELSE @]
        first == firstSessionId(f.entries[h.sel])
        only == CHOOSE j \in known : TRUE
    IN IF h.sel = None /\ Cardinality(known) = 1
       THEN [page |-> Selected(h, only, firstSessionId(f.entries[only])), picks |-> TRUE]
       ELSE IF h.sel # None /\ h.sess \in {"", "live"} /\ first \notin {"", h.sess}
       THEN [page |-> Selected(h, h.sel, first), picks |-> TRUE]
       ELSE [page |-> h, picks |-> FALSE]

\* Fault: a snapshot is shown whatever window it is of.
ForAnyInstance(g, f) == g.sel # None
forSelectedInstance(g, f) == g.sel # None /\ f.inst = g.sel

\* onMessage for the other frames.
Shown(g, f) ==
    CASE f.type = "machine_online"  -> [g EXCEPT !.online = TRUE]
      [] f.type = "machine_offline" -> [g EXCEPT !.online = FALSE]
      [] f.type = "instance_offline" ->
            IF f.inst = g.sel THEN [g EXCEPT !.sel = None, !.sess = ""] ELSE g
      [] f.type = "snapshot" ->
            IF ~forSelectedInstance(g, f) THEN g
            ELSE [g EXCEPT !.online = TRUE, !.sess = IF @ = "" THEN f.active ELSE @,
                           !.view = [inst |-> f.inst, text |-> f.text]]

OnMessage(p) ==
    /\ page[p].ws # 0 /\ tabs[page[p].ws].down # <<>>
    /\ LET t == page[p].ws
           f == Head(tabs[t].down)
           T == [tabs EXCEPT ![t].down = Tail(@)]
           r == IF f.type = "catalog" THEN applyCatalog(page[p], f)
                ELSE [page |-> Shown(page[p], f), picks |-> FALSE]
       IN /\ page' = [page EXCEPT ![p] = r.page]
          /\ tabs' = IF r.picks THEN SendJson(T, r.page, SelectFrames(r.page, r.page.sel)) ELSE T
    /\ UNCHANGED <<agents, catalog, hub, pager, pushed, inputs, drops>>

-----------------------------------------------------------------------------
Init ==
    /\ RelayInit
    /\ hub = [i \in Instances |-> [conn |-> 0, watching |-> FALSE, key |-> None,
                                   out |-> <<>>, in |-> <<>>]]
    /\ pager = [i \in Instances |-> [list |-> 1, text |-> 0]] /\ pushed = pager
    /\ page = [p \in Pages |-> [ws |-> 0, sel |-> None, sess |-> "", online |-> FALSE,
                                known |-> [i \in Instances |-> None], view |-> None]]
    /\ inputs = 0 /\ drops = 0

RelayStep == Relay /\ UNCHANGED <<hub, pager, pushed, page, inputs, drops>>
Next == \/ RelayStep
        \/ \E i \in Instances : \/ Connect(i) \/ Pump(i) \/ Receive(i) \/ Drop(i)
                                \/ StateChanged(i) \/ ChangedUnpushed(i) \/ HandleEvent(i)
        \/ \E p \in Pages : \/ PageConnects(p) \/ PageDrops(p) \/ Click(p)
                            \/ Compose(p) \/ OnMessage(p)
Spec == Init /\ [][Next]_vars

-----------------------------------------------------------------------------
(* Properties.                                                             *)
Versions == 0..MaxList
Entries == [Instances -> Versions \cup {None}]
UpFrames == {Frame("hello")} \cup [type : {"session_catalog"}, list : Versions]
            \cup [type : {"snapshot"}, text : 0..MaxText, active : {"", "real"}]
DownFrames == {Frame("subscribe"), Frame("unsubscribe")} \cup [type : {"prompt"}, inst : Instances]
TabFrames == {Frame("machine_online"), Frame("machine_offline")}
             \cup [type : {"catalog"}, entries : Entries, online : BOOLEAN]
             \cup [type : {"instance_offline"}, inst : Instances]
             \cup [type : {"snapshot"}, inst : Instances, text : 0..MaxText, active : {"", "real"}]
Events == {"Status", "PairingReady", "RequestSnapshot", "StopWatching", "InboundPrompt"}

\* Every variable has its type: the frames of each wire, the flags of the hub,
\* the state of each page.
TypeOK ==
    /\ agents \in Seq([inst : Instances, code : BOOLEAN, st : {"open", "closing", "closed"},
                       live : BOOLEAN, hello : {"none", "meta", "touch", "done", "failed"},
                       up : Seq(UpFrames), down : Seq(DownFrames)])
    /\ tabs \in Seq([page : Pages, st : {"open", "closed"}, live : BOOLEAN,
                     watch : Instances \cup {None},
                     up : Seq([type : {"watch", "prompt"}, inst : Instances]),
                     down : Seq(TabFrames)])
    /\ catalog \in Entries
    /\ hub \in [Instances -> [conn : 0..Len(agents), watching : BOOLEAN,
                              key : Versions \cup {None},
                              out : Seq(UpFrames), in : Seq(Events)]]
    /\ pager \in [Instances -> [list : Versions, text : 0..MaxText]]
    /\ pushed \in [Instances -> [list : Versions, text : 0..MaxText]]
    /\ page \in [Pages -> [ws : 0..Len(tabs), sel : Instances \cup {None},
                           sess : {"", "live", "real"}, online : BOOLEAN, known : Entries,
                           view : {None} \cup [inst : Instances, text : 0..MaxText]]]
    /\ inputs \in 0..MaxInputs /\ drops \in 0..MaxDrops

\* The catalog agrees with the sockets (webSocketClose against a reconnect of the
\* same instance, and against hello): an entry has an open socket, unless a hello
\* that came with a pairing code was saved after its socket was lost, and an
\* instance whose hello was saved keeps its entry for as long as it has a socket.
LateHello(i) == \E c \in DOMAIN agents :
    agents[c].inst = i /\ agents[c].code /\ ~agents[c].live /\ agents[c].hello \in {"touch", "done"}
CatalogMatchesSockets ==
    /\ \A i \in Instances : catalog[i] # None => AgentsOf(agents, i) # {} \/ LateHello(i)
    /\ \A c \in OpenAgents(agents) :
          agents[c].hello \in {"touch", "done"} => catalog[agents[c].inst] # None

\* A prompt reaches only the window that was selected when it was sent, although
\* the relay routes it by the last watch frame and not by the prompt.
PromptReachesSelection ==
    \A c \in DOMAIN agents : \A k \in DOMAIN agents[c].down :
        agents[c].down[k].type = "prompt" => agents[c].down[k].inst = agents[c].inst

\* A page never shows the transcript of another window than the selected one,
\* although every browser gets the snapshots of every watched window.
ViewOfSelection ==
    \A p \in Pages : page[p].sel # None /\ page[p].view # None => page[p].view.inst = page[p].sel

\* Nothing is under way: no frame, no event, no pending close or database call.
Quiet ==
    /\ \A c \in DOMAIN agents : /\ agents[c].hello \notin {"meta", "touch"}
                                /\ agents[c].up = <<>> /\ agents[c].down = <<>>
                                /\ agents[c].st = "closed" \/ agents[c].live
    /\ \A t \in DOMAIN tabs : /\ tabs[t].up = <<>> /\ tabs[t].down = <<>>
                              /\ tabs[t].st = "closed" \/ tabs[t].live
    /\ \A i \in Instances : hub[i].out = <<>> /\ hub[i].in = <<>>

\* When nothing is under way, a connected page knows the relay's catalog, calls
\* the machine online exactly when a window can be reached, and the relay knows
\* its selection.
PageAgrees ==
    Quiet => \A p \in {q \in Pages : page[q].ws # 0} :
        /\ page[p].known = catalog
        /\ page[p].online <=> OpenAgents(agents) # {} /\ \E i \in Instances : catalog[i] # None
        /\ page[p].sel # None => tabs[page[p].ws].watch = page[p].sel

\* When nothing is under way, a page that selected a window which is mirroring
\* shows the transcript the window showed when it last pushed.  Nothing is said
\* of what it shows since: the answer of a prompt, an inbound prompt and the
\* keyboard change the transcript without a push.
ViewIsLastPushed ==
    Quiet => \A p \in {q \in Pages : page[q].ws # 0 /\ page[q].sel # None} :
        hub[page[p].sel].watching =>
            page[p].view = [inst |-> page[p].sel, text |-> pushed[page[p].sel].text]

\* When nothing is under way, the window a page selected is mirroring, if it is
\* connected.
SelectionIsMirrored ==
    Quiet => \A p \in {q \in Pages : page[q].ws # 0 /\ page[q].sel # None} :
        hub[page[p].sel].conn # 0 => hub[page[p].sel].watching

\* When nothing is under way, a window mirrors only if a browser watches it.
MirrorsOnlyWatched ==
    Quiet => \A i \in Instances :
        hub[i].conn # 0 /\ hub[i].watching => i \in watchedInstanceIds(tabs)

\* When nothing is under way, the catalog has the session list that a window on
\* its token had when it last pushed, although the fingerprint is recorded before
\* the frame is sent.  A list changed since by a task result is not pushed.
CatalogIsLastPushed ==
    Quiet => \A i \in Instances :
        hub[i].conn # 0 /\ ~agents[hub[i].conn].code => catalog[i] = pushed[i].list
=============================================================================
