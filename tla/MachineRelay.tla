---------------------------- MODULE MachineRelay ----------------------------
(***************************************************************************)
(* The relay of one machine: the Durable Object of cloud/src/relay.ts.     *)
(*                                                                         *)
(* It holds the sockets of the agents (one per Grok window, called an      *)
(* instance), the sockets of the browsers, and the catalog of instances it *)
(* shows to browsers.  An event (a frame, a close, an upgrade) is handled  *)
(* to its end before the next one, except where the handler awaits D1:     *)
(* the storage calls hold the object's input gate, the database does not.  *)
(* Only hello awaits D1, before the catalog is saved when the agent came   *)
(* with a pairing code, and always between the save and the broadcast.     *)
(*                                                                         *)
(* A socket is a record that also holds the two directions of its wire:    *)
(* up towards the relay, down from it.  live says that the other end still *)
(* exists; the relay learns of its loss only through the close event.      *)
(***************************************************************************)
EXTENDS Integers, Sequences, FiniteSets

CONSTANTS Instances,   \* Grok windows of the machine
          Pages,       \* browser pages
          None,        \* no instance, no entry, no text
          AgentConns,  \* bound: agent sockets ever accepted
          TabConns     \* bound: browser sockets ever accepted

ASSUME RelayAssumption == /\ None \notin Instances /\ None \notin Nat
                          /\ AgentConns \in Nat
                          /\ TabConns \in Nat

VARIABLES agents,   \* agent sockets, in the order they were accepted
          tabs,     \* browser sockets, in the order they were accepted
          catalog   \* instance -> version of its session list, None if absent
relayVars == <<agents, tabs, catalog>>

\* A session list: 0 is the empty list hello creates, 1 holds the placeholder
\* session alone, any other holds a saved session first.
Frame(type) == [type |-> type]
CatalogFrame(c, online) == [type |-> "catalog", entries |-> c, online |-> online]
InstanceOffline(i) == [type |-> "instance_offline", inst |-> i]

OpenAgents(A) == {c \in DOMAIN A : A[c].st = "open"}
AgentsOf(A, i) == {c \in OpenAgents(A) : A[c].inst = i}
AgentByInstance(A, i) == CHOOSE c \in AgentsOf(A, i) : \A d \in AgentsOf(A, i) : d =< c
OpenTabs(T) == {t \in DOMAIN T : T[t].st = "open"}
watchedInstanceIds(T) == {T[t].watch : t \in OpenTabs(T)} \ {None}

\* Frames sent to a socket whose other end is gone are lost.
Sent(s, frames) == IF s.live THEN [s EXCEPT !.down = @ \o frames] ELSE s
broadcastBrowsers(T, frames) ==
    [t \in DOMAIN T |-> IF T[t].st = "open" THEN Sent(T[t], frames) ELSE T[t]]
recomputeSubscriptions(A, T) ==
    [c \in DOMAIN A |->
        IF A[c].st # "open" THEN A[c]
        ELSE IF A[c].inst \in watchedInstanceIds(T) THEN Sent(A[c], <<Frame("subscribe")>>)
        ELSE Sent(A[c], <<Frame("unsubscribe")>>)]
sendAgentInstance(A, i, frame) ==
    [c \in DOMAIN A |->
        IF AgentsOf(A, i) # {} /\ c = AgentByInstance(A, i) THEN Sent(A[c], <<frame>>) ELSE A[c]]
CatalogNow(A) == CatalogFrame(catalog, OpenAgents(A) # {})

RelayInit == /\ agents = <<>> /\ tabs = <<>>
             /\ catalog = [i \in Instances |-> None]

-----------------------------------------------------------------------------
(* Upgrades.  The agent's and the page's side of the same event is in      *)
(* LiveMirror.  Only an older socket of the same instance is closed.       *)
AcceptAgent(i, code, firstFrames) ==
    /\ Len(agents) < AgentConns
    /\ LET kept == [c \in DOMAIN agents |->
                      IF c \in AgentsOf(agents, i)
                      THEN [agents[c] EXCEPT !.st = "closing", !.up = <<>>] ELSE agents[c]]
       IN agents' = Append(kept, [inst |-> i, code |-> code, st |-> "open", live |-> TRUE,
                                  hello |-> "none", up |-> firstFrames, down |-> <<>>])
    /\ tabs' = broadcastBrowsers(tabs, <<Frame("machine_online"), CatalogFrame(catalog, TRUE)>>)
    /\ UNCHANGED catalog

AcceptTab(p, firstFrames) ==
    /\ Len(tabs) < TabConns
    /\ LET state == Frame(IF OpenAgents(agents) = {} THEN "machine_offline" ELSE "machine_online")
       IN tabs' = Append(tabs, [page |-> p, st |-> "open", live |-> TRUE, watch |-> None,
                                up |-> firstFrames, down |-> <<state, CatalogNow(agents)>>])
    /\ UNCHANGED <<agents, catalog>>

-----------------------------------------------------------------------------
(* Frames of agents.                                                       *)
AgentFrame(c, type) == /\ c \in OpenAgents(agents)
                       /\ agents[c].up # <<>>
                       /\ Head(agents[c].up).type = type
TakeUp(c) == [agents EXCEPT ![c].up = Tail(@)]

\* hello keeps the session list of an entry that is already there.
HelloEntry(i) == [catalog EXCEPT ![i] = IF @ = None THEN 0 ELSE @]

OnHello(c) ==
    /\ AgentFrame(c, "hello")
    /\ agents' = [TakeUp(c) EXCEPT ![c].hello = IF agents[c].code THEN "meta" ELSE "touch"]
    /\ catalog' = IF agents[c].code THEN catalog ELSE HelloEntry(agents[c].inst)
    /\ UNCHANGED tabs

\* updatePairingMeta answered: hello goes on, whatever happened to the socket.
HelloSaves(c) ==
    /\ c \in DOMAIN agents /\ agents[c].hello = "meta"
    /\ agents' = [agents EXCEPT ![c].hello = "touch"]
    /\ catalog' = HelloEntry(agents[c].inst)
    /\ UNCHANGED tabs

\* updatePairingMeta failed: the handler throws, nothing is saved.
HelloFails(c) ==
    /\ c \in DOMAIN agents /\ agents[c].hello = "meta"
    /\ agents' = [agents EXCEPT ![c].hello = "failed"]
    /\ UNCHANGED <<tabs, catalog>>

\* touchMachine answered, or failed, which is caught: the catalog goes out.
HelloBroadcasts(c) ==
    /\ c \in DOMAIN agents /\ agents[c].hello = "touch"
    /\ agents' = [agents EXCEPT ![c].hello = "done"]
    /\ tabs' = broadcastBrowsers(tabs, <<CatalogNow(agents)>>)
    /\ UNCHANGED catalog

\* Fault: the catalog is saved and not broadcast.
SessionCatalogSilent(c) ==
    /\ AgentFrame(c, "session_catalog")
    /\ catalog' = [catalog EXCEPT ![agents[c].inst] = Head(agents[c].up).list]
    /\ agents' = TakeUp(c)
    /\ UNCHANGED tabs

OnSessionCatalog(c) ==
    /\ AgentFrame(c, "session_catalog")
    /\ LET after == [catalog EXCEPT ![agents[c].inst] = Head(agents[c].up).list]
       IN /\ catalog' = after
          /\ tabs' = broadcastBrowsers(tabs, <<CatalogFrame(after, OpenAgents(agents) # {})>>)
    /\ agents' = TakeUp(c)

\* A live frame reaches every browser, or none when nobody watches its instance.
OnSnapshot(c) ==
    /\ AgentFrame(c, "snapshot")
    /\ LET i == agents[c].inst
           f == Head(agents[c].up)
           frame == [type |-> "snapshot", inst |-> i, text |-> f.text, active |-> f.active]
       IN tabs' = IF i \in watchedInstanceIds(tabs)
                  THEN broadcastBrowsers(tabs, <<frame>>) ELSE tabs
    /\ agents' = TakeUp(c)
    /\ UNCHANGED catalog

\* Fault: the close of a replaced socket deletes the entry of its successor.
AgentCloseAlwaysDeletes(c) ==
    /\ c \in DOMAIN agents /\ agents[c].st \in {"open", "closing"}
    /\ ~agents[c].live /\ agents[c].up = <<>>
    /\ agents' = [agents EXCEPT ![c].st = "closed"]
    /\ catalog' = [catalog EXCEPT ![agents[c].inst] = None]
    /\ tabs' = broadcastBrowsers(tabs, <<InstanceOffline(agents[c].inst),
                                         CatalogFrame(catalog', OpenAgents(agents') # {})>>)

\* The close event comes after the frames the socket still delivered.
AgentClose(c) ==
    /\ c \in DOMAIN agents /\ agents[c].st \in {"open", "closing"}
    /\ ~agents[c].live /\ agents[c].up = <<>>
    /\ LET i == agents[c].inst
           A == [agents EXCEPT ![c].st = "closed"]
           stillHere == AgentsOf(A, i) # {}
           after == IF stillHere THEN catalog ELSE [catalog EXCEPT ![i] = None]
       IN /\ agents' = A
          /\ catalog' = after
          /\ tabs' = broadcastBrowsers(tabs,
                (IF stillHere THEN <<>> ELSE <<InstanceOffline(i)>>)
                \o <<CatalogFrame(after, OpenAgents(A) # {})>>
                \o (IF OpenAgents(A) = {} THEN <<Frame("machine_offline")>> ELSE <<>>))

-----------------------------------------------------------------------------
(* Frames of browsers.                                                     *)
TabFrame(t, type) == /\ t \in OpenTabs(tabs)
                     /\ tabs[t].up # <<>>
                     /\ Head(tabs[t].up).type = type

\* Fault: a later watch does not replace the first.
OnWatchKeepsFirst(t) ==
    /\ TabFrame(t, "watch")
    /\ LET i == Head(tabs[t].up).inst
           T == [tabs EXCEPT ![t].up = Tail(@), ![t].watch = IF @ = None THEN i ELSE @]
       IN /\ agents' = sendAgentInstance(recomputeSubscriptions(agents, T), i, Frame("subscribe"))
          /\ tabs' = T
    /\ UNCHANGED catalog

OnWatch(t) ==
    /\ TabFrame(t, "watch")
    /\ LET i == Head(tabs[t].up).inst
           T == [tabs EXCEPT ![t].up = Tail(@), ![t].watch = i]
           A == recomputeSubscriptions(agents, T)
       IN /\ agents' = sendAgentInstance(A, i, Frame("subscribe"))
          /\ tabs' = IF AgentsOf(agents, i) # {} THEN T
                     ELSE [T EXCEPT ![t] = Sent(@, <<InstanceOffline(i)>>)]
    /\ UNCHANGED catalog

\* Every frame but watch goes to the watched instance, else to the one it names.
OnPrompt(t) ==
    /\ TabFrame(t, "prompt")
    /\ LET frame == Head(tabs[t].up)
           i == IF tabs[t].watch # None THEN tabs[t].watch ELSE frame.inst
           T == [tabs EXCEPT ![t].up = Tail(@)]
       IN /\ agents' = sendAgentInstance(agents, i, frame)
          /\ tabs' = IF AgentsOf(agents, i) # {} THEN T
                     ELSE [T EXCEPT ![t] = Sent(@, <<InstanceOffline(i)>>)]
    /\ UNCHANGED catalog

\* Fault: a closed browser leaves the subscriptions as they were.
TabCloseKeepsSubscriptions(t) ==
    /\ t \in OpenTabs(tabs) /\ ~tabs[t].live /\ tabs[t].up = <<>>
    /\ tabs' = [tabs EXCEPT ![t].st = "closed"]
    /\ UNCHANGED <<agents, catalog>>

TabClose(t) ==
    /\ t \in OpenTabs(tabs) /\ ~tabs[t].live /\ tabs[t].up = <<>>
    /\ LET T == [tabs EXCEPT ![t].st = "closed"]
       IN /\ tabs' = T
          /\ agents' = recomputeSubscriptions(agents, T)
    /\ UNCHANGED catalog

Relay == \/ \E c \in DOMAIN agents : \/ OnHello(c) \/ HelloSaves(c) \/ HelloFails(c)
                                     \/ HelloBroadcasts(c) \/ OnSessionCatalog(c)
                                     \/ OnSnapshot(c) \/ AgentClose(c)
         \/ \E t \in DOMAIN tabs : OnWatch(t) \/ OnPrompt(t) \/ TabClose(t)
=============================================================================
