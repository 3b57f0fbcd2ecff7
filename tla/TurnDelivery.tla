---------------------------- MODULE TurnDelivery ----------------------------
(***************************************************************************)
(* The turn lifecycle of one session actor (xai-grok-shell) and the        *)
(* delivery of messages from its owning parent agent.                      *)
(*                                                                         *)
(* One command loop handles prompts, parent messages, cancels and turn     *)
(* completions, one at a time, but every handler gives up the state lock   *)
(* at its awaits; between two of its lock sections the turn future and the *)
(* restored plan approval (both spawned on the same LocalSet) run. Each    *)
(* action below is one lock section of the loop, or one step of a spawned  *)
(* future. A turn is named by its epoch: start_next_turn never reuses one, *)
(* so the epoch stands for the whole TurnBinding and for TaskIdentity.     *)
(***************************************************************************)
EXTENDS Naturals, Sequences, FiniteSets

CONSTANTS
    Users,      \* prompts a user sends
    Resumes,    \* prompts queued by a restored plan approval, off the loop
    Msgs,       \* messages of the parent agent, by message_id
    NoPrompt,   \* None, where the code has an optional prompt id
    MaxSlots,   \* MAX_PARENT_SAFE_POINT_SLOTS
    MaxAdmits   \* bound: how often the parent sends one message_id

ASSUME ConstantsAssumption ==
    /\ Users \cap Msgs = {} /\ Resumes \cap Msgs = {} /\ Users \cap Resumes = {}
    /\ NoPrompt \notin Users \cup Resumes \cup Msgs
    /\ IsFiniteSet(Msgs)
    /\ MaxSlots \in Nat /\ MaxAdmits \in Nat

VARIABLES
    queue,       \* State.pending_inputs, front first; a running prompt stays at the front
    running,     \* State.running_task; NoTask for None
    epoch,       \* TurnReportSlot.epoch
    rewindable,  \* State.rewindable
    gate,        \* FinalizationGate.active
    slot,        \* MessageDeliveryLifecycle.slots, by message id
    serial,      \* admissions so far: the order of the VecDeque
    signal,      \* ParentInterjectSignal.has_pending
    mark,        \* ParentInterjectSignal.wait_aborted_turn, 0 for None
    turn,        \* the turn future: off, idle (between safe points) or barrier
    waits,       \* epochs captured by wait tools that are still polling
    done,        \* completions in the channel
    pc,          \* where the command loop's current handler stands
    lease,       \* what the handler holds across its awaits
    settling,    \* message completions the handler has taken but not answered
    asked,       \* plan approvals that wait for a decision, then for their kick
    prompted,    \* users' prompts sent so far
    admits,      \* receipts handed out, per message
    resolved,    \* receipts answered, per message
    shown,       \* history: parent texts pushed to the conversation at safe points
    noted        \* history: the running turn aborted a wait since its last drain

actorVars == <<queue, running, epoch, rewindable, gate>>
slotVars == <<slot, serial, signal, mark, noted>>
futureVars == <<turn, waits, done>>
loopVars == <<pc, lease, settling>>
inputVars == <<asked, prompted, admits, resolved, shown>>
vars == <<actorVars, slotVars, futureVars, loopVars, inputVars>>

-----------------------------------------------------------------------------
Prompts == Users \cup Resumes \cup Msgs
Slots == [st : {"Free", "Pending", "Projecting", "Delivered"}, turn : Nat,
          op : {"Steer", "Interject"}, at : Nat]
Entries == [id : Msgs, nth : Nat, op : {"Steer", "Interject"}, at : Nat, turn : Nat, from : Nat]
NoSlot == [st |-> "Free", turn |-> 0, op |-> "Steer", at |-> 0]
Live == {m \in Msgs : slot[m].st # "Free"}
Tasks == [prompt : Prompts, epoch : Nat \ {0}]
NoTask == [prompt |-> NoPrompt, epoch |-> 0]
IsRunning == running # NoTask
Front(q) == IF q = <<>> THEN NoPrompt ELSE Head(q)
InQueue(p) == \E i \in DOMAIN queue : queue[i] = p
Queued(q) == {m \in Msgs : \E i \in DOMAIN q : q[i] = m}

Leases == [kind : {"none", "completion", "soft", "hard", "rewind", "rewound"},
           task : Tasks \cup {NoTask}, front : Prompts \cup {NoPrompt},
           named : Prompts \cup {NoPrompt}]
NoLease == [kind |-> "none", task |-> NoTask, front |-> NoPrompt, named |-> NoPrompt]

(* pending_messages: the Pending slots bound to turn e *)
Pending(s, e) == {m \in Msgs : s[m].st = "Pending" /\ s[m].turn = e}

(* sync_interject_signal: recounted from the slots of the running turn *)
Signal(s, run) ==
    /\ run # NoTask
    /\ \E m \in Pending(s, run.epoch) : s[m].op = "Interject"

(* The messages of S in the order of the VecDeque *)
InOrder(S) ==
    CHOOSE f \in [1..Cardinality(S) -> S] :
        \A i, j \in 1..Cardinality(S) : i < j => slot[f[i]].at < slot[f[j]].at

(* Fault: one class, in slot order *)
UnclassedOrder(S) == InOrder(S)

(* order_for_delivery: Interject before Steer, each class in slot order *)
OrderForDelivery(S) ==
    LET class(op) == InOrder({m \in S : slot[m].op = op})
    IN class("Interject") \o class("Steer")

Answer(S) == resolved' = [m \in Msgs |-> IF m \in S THEN resolved[m] + 1 ELSE resolved[m]]

-----------------------------------------------------------------------------
(* MessageDeliveryLifecycle::transition together with its wrapper: the    *)
(* slots of the target leave, Pending ones as fallbacks when the cause     *)
(* falls back, the others as completions for the handler to answer.        *)
(* A target is an epoch, or All. *)
FallsBack(cause) == cause \in {"Completion", "SoftCancel", "Rewind"}

All == 0

(* Fault: a message that is being projected is left in its slot *)
HitNotProjecting(target) ==
    {m \in Live : slot[m].st # "Projecting" /\ (target = All \/ slot[m].turn = target)}

Hit(target) == {m \in Live : target = All \/ slot[m].turn = target}

(* Fault: messages already delivered fall back as well *)
FallbacksDelivered(target, cause) ==
    {m \in Hit(target) : slot[m].st # "Projecting" /\ FallsBack(cause)}

Fallbacks(target, cause) ==
    {m \in Hit(target) : slot[m].st = "Pending" /\ FallsBack(cause)}

(* Fault: the receipt of a projecting message is forgotten *)
CompletionsDeliveredOnly(target, cause) ==
    {m \in Hit(target) \ Fallbacks(target, cause) : slot[m].st # "Projecting"}

(* Fault: a message that falls back is answered as completed, too *)
CompletionsOfAll(target, cause) == Hit(target)

Completions(target, cause) == Hit(target) \ Fallbacks(target, cause)

(* Fault: the signal is not recounted when slots leave *)
TransitionKeepsSignal(target, cause, run) ==
    LET ends == target = All \/ run = NoTask \/ run.epoch = target
    IN /\ slot' = [m \in Msgs |-> IF m \in Hit(target) THEN NoSlot ELSE slot[m]]
       /\ mark' = IF ends THEN 0 ELSE mark
       /\ noted' = (noted /\ ~ends)
       /\ UNCHANGED <<serial, signal>>

Transition(target, cause, run) ==
    LET ends == target = All \/ run = NoTask \/ run.epoch = target
    IN /\ slot' = [m \in Msgs |-> IF m \in Hit(target) THEN NoSlot ELSE slot[m]]
       /\ signal' = Signal(slot', run)
       /\ mark' = IF ends THEN 0 ELSE mark
       /\ noted' = (noted /\ ~ends)
       /\ UNCHANGED serial

WithFallbacks(q, target, cause) == q \o InOrder(Fallbacks(target, cause))

-----------------------------------------------------------------------------
(* Fault: the row goes in front of the running prompt *)
PromptAtFront(u) ==
    /\ pc = "loop" /\ u \in Users \ prompted
    /\ prompted' = prompted \cup {u}
    /\ queue' = <<u>> \o queue
    /\ pc' = "kick"
    /\ UNCHANGED <<running, epoch, rewindable, gate, slotVars, futureVars, lease,
                   settling, asked, admits, resolved, shown>>

(* SessionCommand::Prompt: queue_input's plain append, then the kick *)
Prompt(u) ==
    /\ pc = "loop" /\ u \in Users \ prompted
    /\ prompted' = prompted \cup {u}
    /\ queue' = Append(queue, u)
    /\ pc' = "kick"
    /\ UNCHANGED <<running, epoch, rewindable, gate, slotVars, futureVars, lease,
                   settling, asked, admits, resolved, shown>>

(* start_resume_turn: the spawned plan approval queues its prompt whenever *)
(* the user decides, whatever the loop is doing, and kicks afterwards      *)
Resume(r) ==
    /\ pc # "ended" /\ asked[r] = "asked"
    /\ asked' = [asked EXCEPT ![r] = "queued"]
    /\ queue' = Append(queue, r)
    /\ UNCHANGED <<running, epoch, rewindable, gate, slotVars, futureVars, loopVars,
                   prompted, admits, resolved, shown>>

(* admit_parent_agent_message_inner, the section under the state lock *)
Admit(m, requested) ==
    LET effective == IF IsRunning THEN requested ELSE "Queue"
    IN /\ pc = "loop" /\ admits[m] < MaxAdmits
       /\ m \notin Live /\ ~InQueue(m)
       /\ effective # "Queue" => Cardinality(Live) < MaxSlots
       /\ admits' = [admits EXCEPT ![m] = @ + 1]
       /\ IF effective = "Queue"
            THEN queue' = Append(queue, m) /\ UNCHANGED slotVars
            ELSE /\ slot' = [slot EXCEPT ![m] = [st |-> "Pending", turn |-> running.epoch,
                                                op |-> effective, at |-> serial + 1]]
                 /\ serial' = serial + 1
                 /\ signal' = Signal(slot', running)
                 /\ UNCHANGED <<queue, mark, noted>>
       /\ pc' = "kick"
       /\ UNCHANGED <<running, epoch, rewindable, gate, futureVars, lease, settling,
                      asked, prompted, resolved, shown>>

(* maybe_start_running_task: promote the front unless a turn runs or is    *)
(* being finalized                                                         *)
CanStart == ~IsRunning /\ ~gate /\ queue # <<>>

(* Fault: the task is bound before the epoch advances *)
StartBeforeBump ==
    IF CanStart
      THEN /\ epoch' = epoch + 1
           /\ running' = [prompt |-> Head(queue), epoch |-> epoch]
           /\ rewindable' = TRUE
           /\ turn' = "idle"
           /\ UNCHANGED <<waits, done>>
      ELSE UNCHANGED <<epoch, running, rewindable, futureVars>>

Start ==
    IF CanStart
      THEN /\ epoch' = epoch + 1
           /\ running' = [prompt |-> Head(queue), epoch |-> epoch + 1]
           /\ rewindable' = TRUE
           /\ turn' = "idle"
           /\ UNCHANGED <<waits, done>>
      ELSE UNCHANGED <<epoch, running, rewindable, futureVars>>

Kick ==
    /\ pc = "kick" /\ Start
    /\ pc' = "loop"
    /\ UNCHANGED <<queue, gate, slotVars, lease, settling, inputVars>>

ResumeKick(r) ==
    /\ pc # "ended" /\ asked[r] = "queued" /\ Start
    /\ asked' = [asked EXCEPT ![r] = "kicked"]
    /\ UNCHANGED <<queue, gate, slotVars, loopVars, prompted, admits, resolved, shown>>

-----------------------------------------------------------------------------
(* The turn future *)

(* close_rewind_window: the first output of the turn *)
FirstOutput ==
    /\ turn = "idle" /\ rewindable
    /\ rewindable' = FALSE
    /\ UNCHANGED <<queue, running, epoch, gate, slotVars, futureVars, loopVars, inputVars>>

(* drain_parent_messages_at_safe_point up to the barrier's await; a turn   *)
(* reaches a safe point only after the tools it started have returned      *)
SafePoint ==
    /\ turn = "idle" /\ IsRunning /\ running.epoch \notin waits
    /\ LET batch == Pending(slot, running.epoch)
       IN /\ slot' = [m \in Msgs |-> IF m \in batch THEN [slot[m] EXCEPT !.st = "Projecting"]
                                                    ELSE slot[m]]
          /\ turn' = IF batch = {} THEN "idle" ELSE "barrier"
    /\ signal' = Signal(slot', running)
    /\ mark' = 0
    /\ noted' = FALSE
    /\ UNCHANGED <<actorVars, serial, waits, done, loopVars, inputVars>>

(* FlushAndAck failed, or the persistence actor is gone *)
BarrierFails ==
    /\ turn = "barrier"
    /\ turn' = "idle"
    /\ UNCHANGED <<actorVars, slotVars, waits, done, loopVars, inputVars>>

(* finish_delivery: everything projecting for this turn becomes visible in *)
(* one batch. `from` tells the batches of the history apart, `nth` the     *)
(* admissions of one message_id.                                           *)
Projecting == {m \in Msgs : slot[m].st = "Projecting" /\ IsRunning /\ slot[m].turn = running.epoch}

Commit ==
    /\ turn = "barrier"
    /\ turn' = "idle"
    /\ slot' = [m \in Msgs |-> IF m \in Projecting THEN [slot[m] EXCEPT !.st = "Delivered"]
                                                  ELSE slot[m]]
    /\ LET batch == OrderForDelivery(Projecting)
       IN shown' = shown \o [i \in 1..Len(batch) |->
                      [id |-> batch[i], nth |-> admits[batch[i]], op |-> slot[batch[i]].op,
                       at |-> slot[batch[i]].at, turn |-> slot[batch[i]].turn,
                       from |-> Len(shown)]]
    /\ UNCHANGED <<actorVars, serial, signal, mark, noted, waits, done, loopVars,
                   asked, prompted, admits, resolved>>

(* a downstream actor is unavailable: the slots stay projecting *)
CommitFails ==
    /\ turn = "barrier" /\ Projecting # {}
    /\ turn' = "idle"
    /\ UNCHANGED <<actorVars, slotVars, waits, done, loopVars, inputVars>>

(* An interruptible wait tool starts, captures the turn and polls; it may  *)
(* outlive an aborted turn                                                 *)
WaitStarts ==
    /\ turn = "idle" /\ IsRunning /\ running.epoch \notin waits
    /\ waits' = waits \cup {running.epoch}
    /\ UNCHANGED <<actorVars, slotVars, turn, done, loopVars, inputVars>>

(* Fault: a late note of an earlier turn overwrites the mark *)
WaitAbortsAlways(e) ==
    /\ e \in waits /\ signal
    /\ waits' = waits \ {e}
    /\ mark' = e
    /\ noted' = (noted \/ (IsRunning /\ running.epoch = e))
    /\ UNCHANGED <<actorVars, slot, serial, signal, turn, done, loopVars, inputVars>>

(* note_wait_aborted: the poll found the signal raised *)
WaitAborts(e) ==
    /\ e \in waits /\ signal
    /\ waits' = waits \ {e}
    /\ mark' = IF mark <= e THEN e ELSE mark
    /\ noted' = (noted \/ (IsRunning /\ running.epoch = e))
    /\ UNCHANGED <<actorVars, slot, serial, signal, turn, done, loopVars, inputVars>>

WaitReturns(e) ==
    /\ e \in waits
    /\ waits' = waits \ {e}
    /\ UNCHANGED <<actorVars, slotVars, turn, done, loopVars, inputVars>>

(* run_task: the last thing the future does is to send its completion *)
TurnEnds ==
    /\ turn = "idle" /\ IsRunning /\ running.epoch \notin waits
    /\ turn' = "off"
    /\ done' = done \cup {running}
    /\ UNCHANGED <<actorVars, slotVars, waits, loopVars, inputVars>>

-----------------------------------------------------------------------------
(* handle_completion *)

(* claim_task_finalization *)
Claimable(c) == ~gate /\ Front(queue) = c.prompt /\ running = c

CompletionClaim(c) ==
    /\ pc = "loop" /\ c \in done
    /\ done' = done \ {c}
    /\ IF Claimable(c)
         THEN /\ gate' = TRUE /\ pc' = "complete"
              /\ lease' = [NoLease EXCEPT !.kind = "completion", !.task = c]
         ELSE UNCHANGED <<gate, pc, lease>>
    /\ UNCHANGED <<queue, running, epoch, rewindable, slotVars, turn, waits, settling,
                   inputVars>>

(* The front prompt is answered and dequeued, its turn's slots settle *)
CompletionTransition ==
    LET c == lease.task
        owned == queue # <<>> /\ Head(queue) = c.prompt
        rest == IF owned THEN Tail(queue) ELSE queue
    IN /\ pc = "complete"
       /\ queue' = WithFallbacks(rest, c.epoch, "Completion")
       /\ settling' = Completions(c.epoch, "Completion")
       /\ Answer(IF owned THEN {c.prompt} ELSE {})
       /\ Transition(c.epoch, "Completion", running)
       /\ pc' = "settle"
       /\ UNCHANGED <<running, epoch, rewindable, gate, futureVars, lease,
                      asked, prompted, admits, shown>>

-----------------------------------------------------------------------------
(* cancel_running_task *)

(* claim_cancel_finalization, for a cancel that keeps the history: soft or *)
(* with kill_background_tasks (hard)                                       *)
CancelClaim(kind) ==
    /\ pc = "loop" /\ kind \in {"soft", "hard"}
    /\ ~gate
    /\ IsRunning => Front(queue) = running.prompt
    /\ gate' = TRUE
    /\ lease' = [NoLease EXCEPT !.kind = kind, !.task = running, !.front = Front(queue)]
    /\ pc' = "cancel"
    /\ UNCHANGED <<queue, running, epoch, rewindable, slotVars, futureVars, settling,
                   inputVars>>

(* cancel_subagents: the turn is aborted before the teardown's awaits *)
EarlyAbort ==
    /\ pc = "cancel" /\ lease.kind \in {"soft", "hard"} /\ lease.task # NoTask
    /\ turn # "off"
    /\ turn' = "off"
    /\ UNCHANGED <<actorVars, slotVars, waits, done, loopVars, inputVars>>

(* A rewind of the named front, claimed and settled under one lock; a      *)
(* named row behind the front is dropped, any other name is a no-op        *)
RewindNamed(p) ==
    /\ pc = "loop" /\ p \in Users \cup Resumes
    /\ Front(queue) = p /\ rewindable
    /\ running' = IF running.prompt = p THEN NoTask ELSE running
    /\ turn' = IF running.prompt = p THEN "off" ELSE turn
    /\ rewindable' = FALSE
    /\ Transition(epoch, "Rewind", running')
    /\ queue' = Tail(WithFallbacks(queue, epoch, "Rewind"))
    /\ settling' = Completions(epoch, "Rewind")
    /\ lease' = [NoLease EXCEPT !.kind = "rewound"]
    /\ pc' = "settle"
    /\ UNCHANGED <<epoch, gate, waits, done, inputVars>>

RewindDropsRow(p) ==
    /\ pc = "loop" /\ p \in Prompts
    /\ Front(queue) # p /\ running.prompt # p
    /\ \E i \in DOMAIN queue :
         queue[i] = p /\ queue' = SubSeq(queue, 1, i - 1) \o SubSeq(queue, i + 1, Len(queue))
    /\ Answer({p})
    /\ pc' = "kick"
    /\ UNCHANGED <<running, epoch, rewindable, gate, slotVars, futureVars, lease,
                   settling, asked, prompted, admits, shown>>

(* A rewind without a name, or of a front whose window is closed, runs the *)
(* generic teardown without a lease                                        *)
RewindGeneric(named) ==
    /\ pc = "loop"
    /\ named # NoPrompt => Front(queue) = named /\ (~rewindable \/ named \in Msgs)
    /\ lease' = [NoLease EXCEPT !.kind = "rewind", !.named = named]
    /\ pc' = "cancel"
    /\ UNCHANGED <<actorVars, slotVars, futureVars, settling, inputVars>>

(* finalization_binding_is_current *)
BindingIsCurrent ==
    /\ gate
    /\ IF lease.task # NoTask THEN running = lease.task /\ Front(queue) = lease.task.prompt
                            ELSE running = NoTask /\ Front(queue) = lease.front

(* The teardown's lock section. `rewound`: the legacy rewind pops a user's *)
(* front; otherwise the front is cancelled and the rest of the queue kept, *)
(* or everything cancelled by a hard cancel.                               *)
CancelTransition ==
    LET keep == lease.kind \in {"soft", "hard"}
        rewound == /\ lease.kind = "rewind" /\ lease.named = NoPrompt /\ rewindable
                   /\ queue # <<>> /\ Head(queue) \notin Msgs
        cause == IF lease.kind = "hard" THEN "HardTeardown"
                 ELSE IF rewound THEN "Rewind" ELSE "SoftCancel"
        target == IF lease.kind = "hard" \/ rewound \/ ~IsRunning THEN All ELSE running.epoch
        all == WithFallbacks(queue, target, cause)
        cancelled == IF rewound \/ all = <<>> THEN {}
                     ELSE IF lease.kind = "hard" THEN Queued(all)
                     ELSE {Head(all)} \cap Msgs
    IN /\ pc = "cancel"
       /\ keep => BindingIsCurrent
       /\ lease.named # NoPrompt => Front(queue) = lease.named
       /\ running' = IF keep THEN running ELSE NoTask
       /\ turn' = IF IsRunning THEN "off" ELSE turn
       /\ rewindable' = (rewindable /\ ~rewound)
       /\ Transition(target, cause, running')
       /\ queue' = IF lease.kind = "hard" \/ all = <<>> THEN <<>> ELSE Tail(all)
       /\ settling' = Completions(target, cause) \cup cancelled
       /\ pc' = "settle"
       /\ UNCHANGED <<epoch, gate, waits, done, lease, inputVars>>

(* The claimed cancel lost its binding, or the named front changed: the    *)
(* handler returns CancelOutcome::noop() and drops what it holds           *)
CancelNoop ==
    /\ pc = "cancel"
    /\ IF lease.kind \in {"soft", "hard"} THEN ~BindingIsCurrent
                                        ELSE lease.named # NoPrompt /\ Front(queue) # lease.named
    /\ pc' = IF lease.kind = "rewind" THEN "kick" ELSE "loop"
    /\ lease' = NoLease
    /\ UNCHANGED <<actorVars, slotVars, futureVars, settling, inputVars>>

-----------------------------------------------------------------------------
(* settle_parent_message_completions and the answers to cancelled prompts *)
Settle ==
    /\ pc = "settle"
    /\ Answer(settling)
    /\ settling' = {}
    /\ pc' = IF lease.kind \in {"rewind", "rewound"} THEN "kick"
             ELSE IF lease.task # NoTask THEN "release" ELSE "finish"
    /\ lease' = IF lease.kind \in {"rewind", "rewound"} THEN NoLease ELSE lease
    /\ UNCHANGED <<actorVars, slotVars, futureVars, asked, prompted, admits, shown>>

(* release_finalizing_task *)
Release ==
    /\ pc = "release"
    /\ running' = IF gate /\ running = lease.task THEN NoTask ELSE running
    /\ IF gate /\ running = lease.task
         THEN pc' = "finish" /\ UNCHANGED lease
         ELSE pc' = "loop" /\ lease' = NoLease
    /\ UNCHANGED <<queue, epoch, rewindable, gate, slotVars, futureVars, settling, inputVars>>

(* Fault: the queue is not kicked once the gate is open *)
FinishWithoutKick ==
    /\ pc = "finish"
    /\ gate' = (gate /\ IsRunning)
    /\ pc' = "loop"
    /\ lease' = NoLease
    /\ UNCHANGED <<queue, running, epoch, rewindable, slotVars, futureVars, settling,
                   inputVars>>

(* Fault: the lease is dropped and the gate stays closed *)
FinishKeepsGate ==
    /\ pc = "finish"
    /\ pc' = "kick"
    /\ lease' = NoLease
    /\ UNCHANGED <<actorVars, slotVars, futureVars, settling, inputVars>>

(* finish_finalization *)
Finish ==
    /\ pc = "finish"
    /\ gate' = (gate /\ IsRunning)
    /\ pc' = IF gate /\ IsRunning THEN "loop" ELSE "kick"
    /\ lease' = NoLease
    /\ UNCHANGED <<queue, running, epoch, rewindable, slotVars, futureVars, settling,
                   inputVars>>

(* SessionCommand::Shutdown, or a closed channel: settle_all_parent_messages *)
(* answers every slot, and the inputs that remain die with the actor         *)
Shutdown ==
    /\ pc = "loop"
    /\ Transition(All, "HardTeardown", running)
    /\ Answer(Completions(All, "HardTeardown") \cup Queued(queue))
    /\ queue' = <<>>
    /\ pc' = "ended"
    /\ UNCHANGED <<running, epoch, rewindable, gate, futureVars, lease, settling,
                   asked, prompted, admits, shown>>

-----------------------------------------------------------------------------
Init ==
    /\ queue = <<>> /\ running = NoTask /\ epoch = 0 /\ rewindable = FALSE /\ gate = FALSE
    /\ slot = [m \in Msgs |-> NoSlot] /\ serial = 0
    /\ signal = FALSE /\ mark = 0 /\ noted = FALSE
    /\ turn = "off" /\ waits = {} /\ done = {}
    /\ pc = "loop" /\ lease = NoLease /\ settling = {}
    /\ asked = [r \in Resumes |-> "asked"] /\ prompted = {}
    /\ admits = [m \in Msgs |-> 0] /\ resolved = [m \in Msgs |-> 0]
    /\ shown = <<>>

LoopNext ==
    \/ Kick \/ CompletionTransition \/ EarlyAbort \/ CancelTransition \/ CancelNoop
    \/ Settle \/ Release \/ Finish

TurnNext ==
    \/ FirstOutput \/ SafePoint \/ BarrierFails \/ Commit \/ CommitFails
    \/ WaitStarts \/ TurnEnds
    \/ \E e \in waits : WaitAborts(e) \/ WaitReturns(e)

CommandNext ==
    \/ \E u \in Users : Prompt(u)
    \/ \E m \in Msgs, op \in {"Queue", "Steer", "Interject"} : Admit(m, op)
    \/ \E c \in done : CompletionClaim(c)
    \/ \E k \in {"soft", "hard"} : CancelClaim(k)
    \/ \E p \in Users \cup Resumes : RewindNamed(p)
    \/ \E p \in Prompts : RewindDropsRow(p)
    \/ \E named \in Prompts \cup {NoPrompt} : RewindGeneric(named)
    \/ Shutdown

ResumeNext == \E r \in Resumes : Resume(r) \/ ResumeKick(r)

Next == LoopNext \/ TurnNext \/ CommandNext \/ ResumeNext

Spec == Init /\ [][Next]_vars

(* A handler's await returns, a barrier resolves, a tool returns, a        *)
(* completion is taken from the channel, and a turn does not call tools    *)
(* for ever: it ends if it is given the chance infinitely often.           *)
Fairness ==
    /\ WF_vars(LoopNext)
    /\ WF_vars(\E c \in done : CompletionClaim(c))
    /\ WF_vars(BarrierFails \/ Commit \/ CommitFails)
    /\ WF_vars(\E e \in waits : WaitAborts(e) \/ WaitReturns(e))
    /\ SF_vars(TurnEnds)

FairSpec == Spec /\ Fairness

-----------------------------------------------------------------------------
(* The state stays within its types. *)
TypeOK ==
    /\ queue \in Seq(Prompts)
    /\ running \in Tasks \cup {NoTask}
    /\ epoch \in Nat /\ rewindable \in BOOLEAN /\ gate \in BOOLEAN
    /\ slot \in [Msgs -> Slots]
    /\ serial \in Nat /\ signal \in BOOLEAN /\ mark \in Nat /\ noted \in BOOLEAN
    /\ turn \in {"off", "idle", "barrier"} /\ waits \subseteq Nat
    /\ done \subseteq Tasks
    /\ pc \in {"loop", "kick", "complete", "cancel", "settle", "release", "finish", "ended"}
    /\ lease \in Leases
    /\ settling \subseteq Msgs
    /\ asked \in [Resumes -> {"asked", "queued", "kicked"}] /\ prompted \subseteq Users
    /\ admits \in [Msgs -> Nat] /\ resolved \in [Msgs -> Nat]
    /\ shown \in Seq(Entries)

(* While a turn runs, its prompt is the front row of pending_inputs: what  *)
(* claim_task_finalization and the cancel's `idx == 0` both rely on. The   *)
(* exception is the tail of a finalization, which has dequeued it already. *)
FrontIsRunning ==
    IsRunning /\ pc # "ended" /\ ~(gate /\ pc \in {"settle", "release"})
        => Front(queue) = running.prompt

(* No parent message is left in a slot whose turn is over: every occupied  *)
(* slot is bound to the turn that is running now.                          *)
SlotsBelongToRunningTurn ==
    \A m \in Live : IsRunning /\ slot[m].turn = running.epoch

(* Every receipt handed out for a parent message is owned exactly once:    *)
(* by a slot, by a queued prompt, by a handler about to answer it, or it   *)
(* has been answered.                                                      *)
ReceiptOwnedOnce ==
    \A m \in Msgs :
        admits[m] = resolved[m] + (IF m \in Live THEN 1 ELSE 0)
                                + (IF m \in settling THEN 1 ELSE 0)
                                + Cardinality({i \in DOMAIN queue : queue[i] = m})

(* A parent's text enters the conversation at most once per admission:     *)
(* never in two batches, and never in a batch and again as its own turn.   *)
ShownAtMostOnce ==
    \A m \in Msgs :
        Cardinality({i \in DOMAIN shown : shown[i].id = m})
            + (IF InQueue(m) THEN 1 ELSE 0) <= admits[m]

(* parent_interject.rs: within a batch Interject precedes Steer, and each  *)
(* class keeps admission order over all the batches of a turn, also when a *)
(* barrier failed and an earlier batch is delivered late.                  *)
DeliveryOrder ==
    \A i, j \in DOMAIN shown : i < j /\ shown[i].turn = shown[j].turn =>
        /\ shown[i].op = shown[j].op => shown[i].at < shown[j].at
        /\ shown[i].from = shown[j].from => ~(shown[i].op = "Steer" /\ shown[j].op = "Interject")

(* The interject signal is true exactly while an Interject waits for the   *)
(* running turn's next safe point, in every state a tool can poll it in.   *)
SignalIsExact == signal <=> Signal(slot, running)

(* The wait-abort mark names the running turn exactly when that turn       *)
(* aborted a wait it has not drained for, whatever late tools of earlier   *)
(* turns note.                                                             *)
MarkIsLiveTurns == IsRunning => (noted <=> mark = running.epoch)

(* No prompt is stranded: when the loop waits for a command and no turn    *)
(* runs or is being finalized, nothing is queued. (A plan approval that    *)
(* has queued its prompt kicks the queue itself.)                          *)
NoStrandedPrompt ==
    pc = "loop" /\ ~IsRunning /\ ~gate /\ (\A r \in Resumes : asked[r] # "queued")
        => queue = <<>>

(* turn_task.rs: "a committed finalization lease must be finished". While  *)
(* the gate is closed some handler holds the lease that will open it.      *)
GateHasOwner == gate => lease.kind \in {"completion", "soft", "hard"}

(* Every message the parent was told is admitted gets its answer. *)
EveryReceiptAnswered ==
    \A m \in Msgs : admits[m] > resolved[m] ~> admits[m] = resolved[m]

(* Which admission of which message entered the conversation. *)
Texts == [i \in DOMAIN shown |-> [id |-> shown[i].id, nth |-> shown[i].nth]]

Abstract == INSTANCE Receipt WITH given <- admits, answered <- resolved, texts <- Texts

(* The actor implements what Receipt promises the parent: whatever the     *)
(* interleaving of turns, fallbacks, cancels, rewinds and failed barriers, *)
(* a receipt is handed out only when the last one of its message is        *)
(* answered, answered once, and the text enters the conversation at most   *)
(* once per admission and never after the answer.                          *)
ImplementsReceipt == Abstract!ReceiptSpec
=============================================================================
