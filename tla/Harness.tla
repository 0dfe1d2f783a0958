------------------------------ MODULE Harness ------------------------------
(***************************************************************************)
(* The agent of the dashboard: HarnessDashboardService runs the harness    *)
(* graph for a trace and keeps the session people see.  LangGraph          *)
(* (external) saves a checkpoint after each node; nodes without an effect  *)
(* outside are one step here.  Requests for the trace may overlap or stop  *)
(* anywhere, each under the routes its process froze when it started.  The *)
(* trace may come from before the upgrade that took tools with an          *)
(* authorization from the graph: it waits for an approval, or its          *)
(* checkpoint has execute_tool next.  No tool of the current catalog       *)
(* interrupts the graph, so save_pending never runs.  No request takes the *)
(* lock of a session or lets it expire: nothing                            *)
(* under src calls those.                                                  *)
(***************************************************************************)
EXTENDS Naturals

CONSTANTS
    Requests, NoOne,
    Reads,          \* tools of the live stage that execute by themselves
    Write,          \* handle_sold_out_event: needs an authorization
    Foreign,        \* a tool of another stage, or of none
    Routes,         \* the pairs of routes a process may be configured with
    MaxIterations, MaxRepeated,
    MaxRequests     \* bound: requests of a behaviour

VARIABLES
    requests,       \* how many there were
    thread,         \* the checkpoint of the trace, or NoOne
    session,        \* the session of the trace, or NoOne
    job,            \* the request each process serves
    executed,       \* what the executor was asked for last, and under which routes
    told            \* start_session answered with a session it completed

vars == <<requests, thread, session, job, executed, told>>

Tools == Reads \cup {Write, Foreign}
Nodes == {"reason", "interrupt", "execute", "audit", "end"}
Decisions == {"approved", "rejected"}
Checkpoints ==
    [next : Nodes, tool : Tools \cup {NoOne}, iteration : 0..MaxIterations]
Sessions ==
    [status : {"pending_human", "completed", "rejected", "error"},
     decision : Decisions \cup {NoOne}]
JobRecords ==
    [kind : {"START", "RESUME", "CHECK", "SAVE"}, routes : Routes, at : Checkpoints,
     decision : Decisions \cup {NoOne}, failed : BOOLEAN,
     last : Tools \cup {NoOne}, repeated : 0..MaxRepeated]

Completed == [status |-> "completed", decision |-> NoOne]

At(next, tool) == [next |-> next, tool |-> tool, iteration |-> 0]
Old == {[thread |-> At(next, Write), session |-> [status |-> "pending_human", decision |-> NoOne]]
           : next \in {"interrupt", "execute"}}
New == [thread |-> NoOne, session |-> NoOne]

Init ==
    /\ \E trace \in Old \cup {New} :
          thread = trace.thread /\ session = trace.session
    /\ requests = 0
    /\ job = [r \in Requests |-> NoOne]
    /\ executed = NoOne
    /\ told = FALSE

Begin(r, new) ==
    /\ job[r] = NoOne
    /\ requests < MaxRequests
    /\ requests' = requests + 1
    /\ job' = [job EXCEPT ![r] = new]

Node(r, kinds, node) ==
    job[r] # NoOne /\ job[r].kind \in kinds /\ job[r].at.next = node
InGraph == {"START", "RESUME"}

(* A node is done: the checkpoint has its result.                          *)
Advance(r, at) ==
    /\ job' = [job EXCEPT ![r].at = at]
    /\ thread' = at

Audited(r) == [job[r].at EXCEPT !.next = "audit", !.tool = NoOne]

(* Something raised.  A start ends without a session; an approval records  *)
(* the error.                                                              *)
Failed(r) ==
    job' = [job EXCEPT ![r] =
        IF @.kind = "START" THEN NoOne ELSE [@ EXCEPT !.kind = "CHECK", !.failed = TRUE]]

-----------------------------------------------------------------------------
(* start_session: a fresh state at the entry of the graph, whatever the    *)
(* thread was at.  load_context and pre_reasoning_hook only fill it.       *)
Start(r, routes) ==
    /\ Begin(r, [kind |-> "START", routes |-> routes, at |-> At("reason", NoOne),
                 decision |-> NoOne, failed |-> FALSE, last |-> NoOne, repeated |-> 0])
    /\ thread' = At("reason", NoOne)
    /\ UNCHANGED <<session, executed, told>>

(* submit_approval: an open session resumes the graph where its checkpoint *)
(* stands, and a closed one is returned.                                   *)
Approve(r, routes, decision) ==
    /\ session # NoOne
    /\ session.status \notin {"completed", "rejected"}
    /\ Begin(r, [kind |-> "RESUME", routes |-> routes, at |-> thread,
                 decision |-> decision, failed |-> FALSE, last |-> NoOne, repeated |-> 0])
    /\ UNCHANGED <<thread, session, executed, told>>

(* agent_reasoning and post_reasoning_hook end the run when no tool is     *)
(* proposed, which only the planner does where neither route keeps it from *)
(* being asked, or when the proposal contradicts the facts.                *)
Conclude(r) ==
    /\ Node(r, InGraph, "reason")
    /\ Advance(r, Audited(r))
    /\ UNCHANGED <<requests, session, executed, told>>

(* pre_tool_call_hook: an authorization is required, or the tool is of     *)
(* another stage or was called too often in this request, or it may        *)
(* execute.                                                                *)
Propose(r, tool) ==
    /\ Node(r, InGraph, "reason")
    /\ ~job[r].routes.planEngine /\ job[r].routes.decisionSupport
    /\ LET calls == IF job[r].last = tool THEN job[r].repeated ELSE 0
       IN  IF tool \in {Write, Foreign} \/ calls >= MaxRepeated
           THEN Advance(r, Audited(r))
           ELSE /\ thread' = [job[r].at EXCEPT !.next = "execute", !.tool = tool]
                /\ job' = [job EXCEPT ![r].at = thread', ![r].last = tool,
                                      ![r].repeated = calls + 1]
    /\ UNCHANGED <<requests, session, executed, told>>

(* human_approval_interrupt: an answer about another room or tool raises;  *)
(* any other is recorded and opens nothing.                                *)
Interrupt(r, matches) ==
    /\ Node(r, {"RESUME"}, "interrupt")
    /\ IF matches THEN Advance(r, Audited(r)) ELSE Failed(r) /\ UNCHANGED thread
    /\ UNCHANGED <<requests, session, executed, told>>

(* execute_tool checks both again, for a checkpoint that never saw the     *)
(* hook or was saved under other routes; the rest of the graph keeps that. *)
Refuse(r) ==
    /\ Node(r, InGraph, "execute")
    /\ ~job[r].routes.decisionSupport \/ job[r].at.tool = Write
    /\ Advance(r, Audited(r))
    /\ UNCHANGED <<requests, session, executed, told>>

(* The executor is called; what it returns is observed, and the graph      *)
(* reasons again unless the iterations are used up.                        *)
Execute(r, raises) ==
    /\ Node(r, InGraph, "execute")
    /\ job[r].routes.decisionSupport /\ job[r].at.tool # Write
    /\ executed' = [tool |-> job[r].at.tool, routes |-> job[r].routes]
    /\ IF raises
       THEN Failed(r) /\ UNCHANGED thread
       ELSE LET iteration == job[r].at.iteration + 1
            IN  Advance(r, [tool |-> NoOne, iteration |-> iteration,
                            next |-> IF iteration >= MaxIterations THEN "audit" ELSE "reason"])
    /\ UNCHANGED <<requests, session, told>>

(* write_audit, also when the writer raises.                               *)
Audit(r) ==
    /\ Node(r, InGraph, "audit")
    /\ Advance(r, [job[r].at EXCEPT !.next = "end"])
    /\ UNCHANGED <<requests, session, executed, told>>

(* Any other node, the checkpointer, the resumption of a graph that has    *)
(* ended or the final UPDATE may raise, and once that is recorded no more. *)
Raise(r) ==
    /\ job[r] # NoOne /\ job[r].kind # "CHECK" /\ ~job[r].failed
    /\ Failed(r)
    /\ UNCHANGED <<requests, thread, session, executed, told>>

(* save_terminal: one INSERT, and the session that is there wins.          *)
SaveTerminal(r) ==
    /\ Node(r, {"START"}, "end")
    /\ session' = IF session = NoOne THEN Completed ELSE session
    /\ told' = (told \/ session' = Completed)
    /\ job' = [job EXCEPT ![r] = NoOne]
    /\ UNCHANGED <<requests, thread, executed>>

(* save_final_state reads the session: a closed one is returned.           *)
CheckFinal(r) ==
    /\ Node(r, {"RESUME"}, "end") \/ Node(r, {"CHECK"}, job[r].at.next)
    /\ job' = [job EXCEPT ![r] =
          IF session.status \in {"completed", "rejected"} THEN NoOne
          ELSE [@ EXCEPT !.kind = "SAVE"]]
    /\ UNCHANGED <<requests, thread, session, executed, told>>

(* The UPDATE of save_final_state has no condition.                        *)
SaveFinal(r) ==
    /\ Node(r, {"SAVE"}, job[r].at.next)
    /\ session' = [decision |-> job[r].decision,
                   status |-> CASE job[r].failed -> "error"
                                [] ~job[r].failed /\ job[r].decision = "approved" -> "completed"
                                [] OTHER -> "rejected"]
    /\ job' = [job EXCEPT ![r] = NoOne]
    /\ UNCHANGED <<requests, thread, executed, told>>

Crash(r) ==
    /\ job[r] # NoOne
    /\ job' = [job EXCEPT ![r] = NoOne]
    /\ UNCHANGED <<requests, thread, session, executed, told>>

Next == \E r \in Requests :
    \/ \E routes \in Routes :
          Start(r, routes) \/ \E decision \in Decisions : Approve(r, routes, decision)
    \/ Conclude(r) \/ \E tool \in Tools : Propose(r, tool)
    \/ Refuse(r) \/ Audit(r) \/ Raise(r)
    \/ \E yes \in BOOLEAN : Interrupt(r, yes) \/ Execute(r, yes)
    \/ SaveTerminal(r) \/ CheckFinal(r) \/ SaveFinal(r) \/ Crash(r)

Spec == Init /\ [][Next]_vars

-----------------------------------------------------------------------------
TypeOK ==
    /\ requests \in 0..MaxRequests
    /\ thread \in Checkpoints \cup {NoOne}
    /\ session \in Sessions \cup {NoOne}
    /\ job \in [Requests -> JobRecords \cup {NoOne}]
    /\ executed \in [tool : Tools, routes : Routes] \cup {NoOne}
    /\ told \in BOOLEAN

(* However requests overlap and stop, under whatever routes and from       *)
(* whatever checkpoint: the executor is asked only for tools without an    *)
(* authorization and only under decision support; a session is concluded   *)
(* only once its approval is closed in the graph, and tells the decision;  *)
(* and what start_session said is completed stays (_execute_tool_node,     *)
(* submit_approval, save_terminal).                                        *)
OutcomesAreTrue ==
    /\ executed # NoOne => executed.tool \in Reads /\ executed.routes.decisionSupport
    /\ session # NoOne =>
          /\ session.status = "completed" => session.decision # "rejected"
          /\ session.status = "rejected" => session.decision = "rejected"
          /\ thread.next = "interrupt" => session.status \in {"pending_human", "error"}
    /\ told => session = Completed
=============================================================================
