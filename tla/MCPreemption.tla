---------------------------- MODULE MCPreemption ----------------------------
(* Small instances of Preemption for TLC. *)
EXTENDS Preemption, TLC

CONSTANTS e1, e2, d1, d2, g1, w1, w2, id1, root, child1, child2, f1,
          card1, card2, mark, product1, product2

\* One record of each event, at one instant.
MCEventOf    == [d \in Deliveries |-> IF d = d1 THEN e1 ELSE e2]
MCDigestOf   == [d \in Deliveries |-> g1]
MCReceivedAt == [d \in Deliveries |-> 0]
MCWorkerId   == [w \in Processes |-> id1]

MCChildOf   == [e \in Events |-> IF e = e1 THEN child1 ELSE child2]
MCProductOf == [e \in Events |-> IF e = e1 THEN product1 ELSE product2]

\* The cards of the batch, and the sold-out write of each emergency plan.
MCKeysOf    == [p \in {root} \cup Children |-> IF p = root THEN Keys \ {mark} ELSE {mark}]
MCDependsOn == [k \in Keys |-> {}]
MCResourceKeys ==
    [p \in {root} \cup Children |->
        [k \in Keys |-> CASE p = root /\ k = card1   -> {product1}
                          [] p = root /\ k = card2   -> {product2}
                          [] p = child1 /\ k = mark  -> {product1}
                          [] p = child2 /\ k = mark  -> {product2}
                          [] OTHER -> {}]]

\* The events arrive, and the batch is opened, before anybody acts on them.
ArrivedNext ==
    IF \E d \in Deliveries : occurrence[d] = None THEN Deliver
    ELSE IF planRun[root].state = "ABSENT" THEN OpenBatch ELSE Next
ArrivedSpec == Init /\ [][ArrivedNext]_vars

Twins == Permutations(Processes)

=============================================================================
