---------------------------- MODULE MCEventInbox ----------------------------
(* Small instances of EventInbox for TLC. *)
EXTENDS EventInbox, TLC

CONSTANTS e1, e2, d1, d2, d3, d4, g1, g2, w1, w2, id1, root, room1, room2, child1, child2, a1, a2

\* Three records of e1, the third with another payload, and one of e2, which was
\* received first.
MCEventOf    == [d \in Deliveries |-> IF d = d4 THEN e2 ELSE e1]
MCDigestOf   == [d \in Deliveries |-> IF d = d3 THEN g2 ELSE g1]
MCReceivedAt == [d \in Deliveries |-> IF d = d4 THEN 0 ELSE IF d = d3 THEN 2 ELSE 1]

\* One event for each room.
MCRoomOf == [e \in Events |-> IF e = e1 THEN room1 ELSE room2]

\* Two processes of one deployment, configured with one worker_id.
MCWorkerId == (w1 :> id1) @@ (w2 :> id1)

\* Deliveries against claims of both events; and, while nobody has claimed
\* anything, coordinators and their stale copies on the application of an event.
ClaimsNext == InboxTick \/ (\E d \in Deliveries : RegisterEvent(d)) \/ ClaimStep
InboxNext ==
    \/ /\ \A e \in Events : application[e][root] = AbsentApplication
       /\ ClaimsNext
    \/ /\ clock = 0
       /\ \A d \in Deliveries : occurrence[d] # None <=> d = d1
       /\ ApplicationStep
InboxSpec == Init /\ [][InboxNext]_vars

=============================================================================
