------------------------------ MODULE CallOnce ------------------------------
(***************************************************************************)
(* What the execution ledgers promise about calls that cost money or leave *)
(* a mark outside: a call is reserved before it is made, it is made at     *)
(* most once whatever crashes and restarts, and the answer recorded for it *)
(* is final and true.  A recovery that finds a reserved call without an    *)
(* answer cannot know whether it was made and may only record "LOST".      *)
(***************************************************************************)
EXTENDS Naturals

CONSTANT Calls

VARIABLES
    reserved,   \* the calls a ledger has written down
    sent,       \* sent[k]: how often call k left the process
    answer      \* answer[k]: what the ledger says became of it

vars == <<reserved, sent, answer>>

Answers == {"OPEN", "OK", "LOST", "UNSENT"}

Init ==
    /\ reserved = {}
    /\ sent = [k \in Calls |-> 0]
    /\ answer = [k \in Calls |-> "OPEN"]

(* The intent is durable before anything leaves the process.               *)
Reserve(k) ==
    /\ k \notin reserved
    /\ reserved' = reserved \cup {k}
    /\ UNCHANGED <<sent, answer>>

(* A call that was declared unsent is never made; one that was declared    *)
(* lost may still be on its way when a recovery overtook its process.      *)
Send(k) ==
    /\ k \in reserved
    /\ sent[k] = 0
    /\ answer[k] \in {"OPEN", "LOST"}
    /\ sent' = [sent EXCEPT ![k] = 1]
    /\ UNCHANGED <<reserved, answer>>

Settle(k, a) ==
    /\ k \in reserved
    /\ answer[k] = "OPEN"
    /\ a = "OK" => sent[k] = 1
    /\ a = "UNSENT" => sent[k] = 0
    /\ answer' = [answer EXCEPT ![k] = a]
    /\ UNCHANGED <<reserved, sent>>

Next == \E k \in Calls :
    \/ Reserve(k)
    \/ Send(k)
    \/ \E a \in {"OK", "LOST", "UNSENT"} : Settle(k, a)

Spec == Init /\ [][Next]_vars
=============================================================================
