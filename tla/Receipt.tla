------------------------------ MODULE Receipt ------------------------------
(***************************************************************************)
(* What the delivery of parent messages promises the parent, without       *)
(* turns, slots, queues or cancels: a message is admitted, its text enters *)
(* the conversation at a safe point at most once and only while the        *)
(* receipt is open, and the receipt is answered once.  A message_id may be *)
(* admitted again after that.                                              *)
(***************************************************************************)
EXTENDS Naturals, Sequences

CONSTANTS Msgs   \* messages of the parent agent, by message_id

VARIABLES given,     \* receipts handed out, per message
          answered,  \* receipts answered, per message
          texts      \* what entered the conversation: which admission of which message
receiptVars == <<given, answered, texts>>

Open == {m \in Msgs : answered[m] < given[m]}
Spoken(m) == \E i \in DOMAIN texts : texts[i] = [id |-> m, nth |-> given[m]]

ReceiptInit ==
    /\ given = [m \in Msgs |-> 0] /\ answered = [m \in Msgs |-> 0]
    /\ texts = <<>>

Give(m) ==
    /\ m \notin Open
    /\ given' = [given EXCEPT ![m] = @ + 1]
    /\ UNCHANGED <<answered, texts>>

\* A batch of open messages, each of them for the first time.
Speak ==
    /\ Len(texts) < Len(texts')
    /\ SubSeq(texts', 1, Len(texts)) = texts
    /\ \A i \in Len(texts) + 1..Len(texts') :
          /\ \E m \in Open : ~Spoken(m) /\ texts'[i] = [id |-> m, nth |-> given[m]]
          /\ \A j \in Len(texts) + 1..i - 1 : texts'[j] # texts'[i]
    /\ UNCHANGED <<given, answered>>

Close ==
    /\ \E S \in SUBSET Open :
          answered' = [m \in Msgs |-> IF m \in S THEN answered[m] + 1 ELSE answered[m]]
    /\ UNCHANGED <<given, texts>>

ReceiptNext == (\E m \in Msgs : Give(m)) \/ Speak \/ Close
ReceiptSpec == ReceiptInit /\ [][ReceiptNext]_receiptVars
=============================================================================
