------------------------------ MODULE Dispatcher ------------------------------
(***************************************************************************)
(* The commands of a direct workflow: what the clauses of completed tasks  *)
(* ask for, how the dispatcher carries it out, and the backlog that keeps  *)
(* what follows a "pause" until the workflow is resumed.  A completion and *)
(* a resume load the execution (Begin...) and commit later; in between     *)
(* transactions overlap.  The column of the backlog is written as a whole  *)
(* by a transaction that changed it.  The action of a task is a choice of  *)
(* its result, on-complete is part of the two other clauses.               *)
(***************************************************************************)
EXTENDS Integers, SequencesExt

CONSTANTS Name,           (* the names of tasks                              *)
          Scenarios       (* workflow specifications, each with a bound: the *)
                          (* pauses and stops that operators make            *)

SetState   == [pause |-> "PAUSED", fail |-> "ERROR", succeed |-> "SUCCESS"]
Engine     == DOMAIN SetState \cup {"noop"}
Final      == {"SUCCESS", "ERROR", "CANCELLED"}
Result     == {"SUCCESS", "ERROR"}

\* What may leave a workflow waiting for ever, and what may run a task again.
Forgotten == {"missed",      (* a completion that saw PAUSED overlapped a resume *)
              "onlyNoops",   (* a resume found nothing but noops                 *)
              "lateJoin",    (* a resume dispatched a join                       *)
              "restoredJoin" (* a join went through the backlog                  *)}
Repeated  == {"restarted",   (* a resume asked for a start that came before it   *)
              "rejoined"     (* a join was deferred after it had begun           *)}
Incident  == Forgotten \cup Repeated

Definition == [start : SUBSET Name, clause : [Name -> [Result -> Seq(Name \cup Engine)]],
               joins : SUBSET Name, results : [Name -> (SUBSET Result) \ {{}}]]

\* Joins wait for all that lead to them; there are no cycles.
ASSUME DispatcherAssumption ==
    /\ Name \cap Engine = {} /\ IsFiniteSet(Name)
    /\ \A c \in Scenarios : c[1] \in Definition /\ c[2] \in [pause : Nat, stop : Nat]

VARIABLES
    spec,       \* the specification
    state,      \* the state of the workflow execution, "NONE": not started
    execs,      \* the task executions in the order of their creation
    backlog,    \* the commands in its runtime context
    msgs,       \* start_task messages, completion checks, refreshes of joins
    opened,     \* transactions that have loaded the execution
    left,       \* what operators may still do
    history     \* SUBSET Incident: what has happened

dispatcherVars == <<spec, state, execs, backlog, msgs, opened, left, history>>

(* A command: the name of a task or engine command; whether it waits; the    *)
(* execution to run, or 0; and where it is from: the execution, which of its *)
(* runs, and the place in the clause.                                        *)
Command(n, e, k, from) == [name |-> n, wait |-> n \in spec.joins, exec |-> e, from |-> <<from, k>>]

Execution(c, s) == [name |-> c.name, state |-> s, run |-> 1, processed |-> FALSE,
                    handled |-> FALSE, result |-> "NONE", keyed |-> c.wait, from |-> c.from]

DispatcherTypeOK ==
    /\ \E c \in Scenarios : spec = c[1]
    /\ state \in {"NONE", "RUNNING", "PAUSED"} \cup Final
    /\ \A i \in DOMAIN execs : /\ execs[i].name \in Name
                               /\ execs[i].state \in {"IDLE", "WAITING", "RUNNING"} \cup Result
    /\ \A i \in DOMAIN backlog : backlog[i].name \in Name \cup Engine
    /\ \A m \in msgs : m[1] \in {"start", "again", "check", "refresh"} /\ m[2] \in DOMAIN execs
    /\ left \in [pause : Nat, stop : Nat] /\ history \subseteq Incident

DispatcherInit ==
    /\ \E c \in Scenarios : spec = c[1] /\ left = c[2]
    /\ state = "NONE"
    /\ execs = <<>> /\ backlog = <<>> /\ msgs = {} /\ opened = {}
    /\ history = {}

\* What s has at the places P, in its order.
Chosen(s, P) ==
    LET Upto[k \in 0..Len(s)] ==
          IF k = 0 THEN <<>> ELSE IF k \in P THEN Append(Upto[k - 1], s[k]) ELSE Upto[k - 1]
    IN  Upto[Len(s)]

Places(cmds, S) == {k \in DOMAIN cmds : cmds[k].name \in S}
Others(cmds, S) == DOMAIN cmds \ Places(cmds, S)

-----------------------------------------------------------------------------
(* The controller.                                                          *)

\* _find_next_commands_for_task(), of execution i that ended in s.
NextCommands(es, i, s) ==
    LET names == spec.clause[es[i].name][s]
    IN  [k \in DOMAIN names |-> Command(names[k], 0, k, <<i, es[i].run>>)]

\* _find_start_commands()
StartCommands == LET ns == SetToSeq(spec.start)
                 IN  [k \in DOMAIN ns |-> Command(ns[k], 0, k, <<0, 0>>)]

\* has_next_tasks: engine commands do not count.
HasNextCounted(cmds) == cmds # <<>>                   \* mutant: they do
HasNext(cmds) == \E k \in DOMAIN cmds : cmds[k].name \in Name

Follow(n) == {m \in Name : \E s \in Result : \E k \in DOMAIN spec.clause[n][s] :
                spec.clause[n][s][k] = m}

\* _check_affected_tasks(): the joins that have executions, reached without
\* passing another one; of several executions any one is found.
AffectedJoins(es, n) ==
    LET exist == {es[i].name : i \in DOMAIN es} \cap spec.joins
        Reach[k \in 0..Cardinality(Name)] ==
          IF k = 0 THEN Follow(n)
          ELSE Reach[k - 1] \cup UNION {Follow(m) : m \in Reach[k - 1] \ exist}
    IN  Reach[Cardinality(Name)] \cap exist

Refreshes(es, n) ==
    {{<<"refresh", f[j]>> : j \in DOMAIN f} :
       f \in {g \in [AffectedJoins(es, n) -> DOMAIN es] :
                \A j \in DOMAIN g : es[g[j]].name = j}}

InOrder(es, S) == Chosen([i \in DOMAIN es |-> i], S)

\* _find_next_commands(): executions in IDLE are run again.
IdleCommands(es) ==
    LET idle == InOrder(es, {i \in DOMAIN es : es[i].state = "IDLE"})
    IN  [k \in DOMAIN idle |-> [Command(es[idle[k]].name, idle[k], 0, <<idle[k], es[idle[k]].run>>)
                                  EXCEPT !.wait = FALSE]]

\* Of the executions that had completed and were not processed, in the states they had.
UnprocessedCommands(es, done) ==
    LET is == InOrder(es, DOMAIN done)
        Joined[k \in 0..Len(is)] ==
          IF k = 0 THEN <<>> ELSE Joined[k - 1] \o NextCommands(es, is[k], done[is[k]])
    IN  Joined[Len(is)]

-----------------------------------------------------------------------------
(* The dispatcher.                                                          *)

First(S) == CHOOSE k \in S : \A l \in S : k <= l

\* _rearrange_commands(): joins last; nothing follows "fail" and "succeed"; what
\* follows "pause" is for the backlog.  Noops are left out.
Arranged(cmds, keeping) ==
    LET real    == Others(cmds, {"noop"})
        waiting == {k \in real : cmds[k].wait}
        stops   == Places(cmds, DOMAIN SetState)
        stop    == {k \in stops : \A l \in stops : k <= l}
        before  == {k \in real : \A l \in stops : k < l}
        behind  == {k \in real : \E l \in stop : l < k /\ cmds[l].name \in keeping}
    IN  Chosen(cmds, before \ waiting) \o Chosen(cmds, before \cap waiting)
          \o Chosen(cmds, stop \cup behind)
RearrangedCut(cmds) == Arranged(cmds, {})             \* mutant: or "pause"
Rearranged(cmds)    == Arranged(cmds, {"pause"})

\* restore_command_from_dict(): a join does not wait any more, and a command to
\* run an existing execution creates one.
Restored(cmds) == [k \in DOMAIN cmds |-> [cmds[k] EXCEPT !.wait = FALSE, !.exec = 0]]

(* Processing changes a record: "seen", the state of the execution in the    *)
(* session; "state", the one in the database; execs; msgs; and what it saves.*)

WithNew(r, c, s) == [r EXCEPT !.execs = Append(@, Execution(c, s))]

\* Task.defer(): one execution of a join, found by its unique key.
Deferred(r, c) ==
    LET same == {i \in DOMAIN r.execs : r.execs[i].name = c.name /\ r.execs[i].keyed}
    IN  IF same = {} THEN WithNew(r, c, "WAITING")
        ELSE IF \E i \in same : r.execs[i].state = "WAITING" THEN r
        ELSE [r EXCEPT !.execs[First(same)].state = "WAITING"]

\* set_workflow_state(): UPDATE ... WHERE state = <the state in the session>.
StateSet(r, s) == IF r.state = r.seen THEN [r EXCEPT !.state = s, !.seen = s] ELSE r

\* The loop of _process_commands()
Processed(r, c) ==
    CASE r.seen \in Final  -> r
      [] r.seen = "PAUSED" -> [r EXCEPT !.saved = Append(@, c)]
      [] r.seen = "RUNNING" /\ c.name \in DOMAIN SetState -> StateSet(r, SetState[c.name])
      [] r.seen = "RUNNING" /\ c.name \in Name /\ c.exec # 0 ->
            [r EXCEPT !.msgs = @ \cup {<<"again", c.exec>>}]
      [] r.seen = "RUNNING" /\ c.name \in Name /\ c.exec = 0 /\ c.wait -> Deferred(r, c)
      [] r.seen = "RUNNING" /\ c.name \in Name /\ c.exec = 0 /\ ~c.wait ->
            [WithNew(r, c, "IDLE") EXCEPT !.msgs = @ \cup {<<"start", Len(r.execs) + 1>>}]

\* dispatch_workflow_commands(): the backlog of the session, then the new ones.
ToDo(loaded, cmds) == Rearranged(Restored(loaded)) \o Rearranged(cmds)

\* Results[k] is what k commands made of r.
Dispatched(r, todo) ==
    LET Results[k \in 0..Len(todo)] ==
          IF k = 0 THEN {r} ELSE {Processed(q, todo[k]) : q \in Results[k - 1]}
    IN  CHOOSE q \in Results[Len(todo)] : TRUE

Session(seen, now, es, ms) == [seen |-> seen, state |-> now, execs |-> es, msgs |-> ms, saved |-> <<>>]

\* The commit of a session that dispatched, after it polled "loaded".
Stores(r, loaded) ==
    /\ state' = r.state /\ execs' = r.execs /\ msgs' = r.msgs
    /\ backlog' = IF loaded # <<>> \/ r.saved # <<>> THEN r.saved ELSE backlog

\* What happens is S, and maybe that of the executions es one is deferred again.
Happened(S, es) ==
    history' = history \cup S \cup
      {i \in {"rejoined"} : \E k \in DOMAIN es : es[k].state # "WAITING" /\ execs'[k].state = "WAITING"}

-----------------------------------------------------------------------------
(* The handlers.                                                            *)

\* start_workflow()
StartDirect ==
    /\ state = "NONE"
    /\ \E todo \in {ToDo(<<>>, StartCommands)} :
          Stores(Dispatched(Session("RUNNING", "RUNNING", execs, msgs), todo), <<>>)
    /\ UNCHANGED <<spec, opened, left, history>>

\* run_task() of a new execution.
RunTask(m) ==
    /\ m[1] = "start"
    /\ msgs' = msgs \ {m}
    /\ execs' = [execs EXCEPT ![m[2]].state = IF @ = "IDLE" THEN "RUNNING" ELSE @]
    /\ UNCHANGED <<spec, state, backlog, opened, left, history>>

\* run_task() of an existing one: if it succeeded meanwhile, the error rolls the
\* transaction back.
RunTaskAgain(m) ==
    LET e == execs[m[2]] IN
    /\ m[1] = "again"
    /\ msgs' = msgs \ {m}
    /\ IF e.state = "SUCCESS"
       THEN UNCHANGED <<execs, history>>
       ELSE /\ execs' = [execs EXCEPT ![m[2]] = [e EXCEPT
                           !.state = "RUNNING", !.run = @ + 1, !.processed = FALSE]]
            /\ history' = IF e.state = "IDLE" THEN history ELSE history \cup {"restarted"}
    /\ UNCHANGED <<spec, state, backlog, opened, left>>

\* on_action_complete(): task and workflow are loaded.
Opens(op, i, S) == opened' = opened \cup
    {[op |-> op, exec |-> i, seen |-> state, loaded |-> backlog,
      done |-> [j \in S |-> execs[j].state]]}

BeginCompletion(i) ==
    /\ execs[i].state = "RUNNING"
    /\ \A x \in opened : x.exec # i
    /\ Opens("complete", i, {})
    /\ UNCHANGED <<spec, state, execs, backlog, msgs, left, history>>

\* Task.complete(s) and _check_affected_tasks(), of execution i of a workflow that
\* was loaded as x; ms are the messages.
Completes(x, i, s, ms) ==
    LET cmds == IF x.seen \in Final THEN <<>> ELSE NextCommands(execs, i, s)
        done == [execs EXCEPT ![i] = [@ EXCEPT
                   !.state = s, !.result = s, !.processed = x.seen # "PAUSED",
                   !.handled = s = "ERROR" /\ cmds # <<>>]]
        check == IF HasNext(cmds) THEN {} ELSE {<<"check", i>>}
    IN  IF x.seen = "PAUSED"
        THEN /\ execs' = done /\ UNCHANGED <<state, backlog>>
             /\ \E new \in Refreshes(done, done[i].name) : msgs' = ms \cup new
             /\ history' = IF state # "PAUSED" \/ \E y \in opened : y.op = "resume"
                           THEN history \cup {"missed"} ELSE history
        ELSE /\ \E todo \in {ToDo(x.loaded, cmds)} :
                \E r \in {Dispatched(Session(x.seen, state, done, ms \cup check), todo)} :
                \E new \in IF r.seen \in Final THEN {{}} ELSE Refreshes(r.execs, done[i].name) :
                   Stores([r EXCEPT !.msgs = @ \cup new], x.loaded)
             /\ Happened({}, done)

Completion(x) ==
    /\ x.op = "complete"
    /\ opened' = opened \ {x}
    /\ IF execs[x.exec].state = "RUNNING"
       THEN \E s \in spec.results[execs[x.exec].name] : Completes(x, x.exec, s, msgs)
       ELSE UNCHANGED <<state, execs, backlog, msgs, history>>
    /\ UNCHANGED <<spec, left>>

\* _get_join_logical_state(): of the executions of the tasks that lead to it.
Leads(i, j) == execs[j].name \in {spec.clause[execs[i].name][execs[i].result][k] :
                                    k \in DOMAIN spec.clause[execs[i].name][execs[i].result]}
LeadingTo(j) == {n \in Name : execs[j].name \in Follow(n)}
Ended(n)     == {i \in DOMAIN execs : execs[i].name = n /\ execs[i].state \in Result}

JoinState(j) ==
    IF \E n \in LeadingTo(j) : Ended(n) = {} THEN "WAITING"
    ELSE IF \A n \in LeadingTo(j) : \E i \in Ended(n) : Leads(i, j) THEN "RUNNING"
    ELSE "ERROR"

\* _refresh_task_state()
RefreshJoin(m) ==
    LET j    == m[2]
        here == execs[j].state \in {"IDLE", "WAITING"} /\ state \notin Final
    IN  /\ m[1] = "refresh"
        /\ \/ /\ here /\ JoinState(j) = "RUNNING"
              /\ execs' = [execs EXCEPT ![j].state = "RUNNING"]
              /\ msgs' = msgs \ {m} /\ UNCHANGED <<state, backlog, history>>
           \/ /\ here /\ JoinState(j) = "ERROR"
              /\ Completes([seen |-> state, loaded |-> backlog], j, "ERROR", msgs \ {m})
           \/ /\ ~here \/ JoinState(j) = "WAITING"
              /\ msgs' = msgs \ {m} /\ UNCHANGED <<state, execs, backlog, history>>
        /\ UNCHANGED <<spec, opened, left>>

\* check_and_complete(): the backlog does not count.
Outcome(es) ==
    LET some(S) == \E i \in DOMAIN es : es[i].state \in S
    IN  IF some({"IDLE", "WAITING", "RUNNING"}) THEN "RUNNING"
        ELSE IF \E i \in DOMAIN es : es[i].state = "ERROR" /\ ~es[i].handled THEN "ERROR"
        ELSE "SUCCESS"

CheckCompletion(m) ==
    /\ m[1] = "check"
    /\ msgs' = msgs \ {m}
    /\ state' = IF state = "RUNNING" THEN Outcome(execs) ELSE state
    /\ UNCHANGED <<spec, execs, backlog, opened, left, history>>

-----------------------------------------------------------------------------
(* Operators.                                                               *)

PauseByOperator ==
    /\ state = "RUNNING" /\ left.pause > 0
    /\ state' = "PAUSED" /\ left' = [left EXCEPT !.pause = @ - 1]
    /\ UNCHANGED <<spec, execs, backlog, msgs, opened, history>>

StopByOperator(s) ==
    /\ left.stop > 0 /\ (state = "RUNNING" \/ (state = "PAUSED" /\ s = "CANCELLED"))
    /\ state' = s /\ left' = [left EXCEPT !.stop = @ - 1]
    /\ UNCHANGED <<spec, execs, backlog, msgs, opened, history>>

\* resume_workflow(): the task executions are loaded with the workflow.  Resumes do
\* not overlap here: the second one would leave in the backlog of a RUNNING
\* workflow what the first one dispatched.
BeginResumption ==
    /\ state = "PAUSED" /\ \A x \in opened : x.op # "resume"
    /\ Opens("resume", 0, {i \in DOMAIN execs : execs[i].state \in Result
                                                /\ ~execs[i].processed})
    /\ UNCHANGED <<spec, state, execs, backlog, msgs, left, history>>

\* resume() and _continue_workflow(): the commands of the tasks that completed
\* meanwhile, except "pause".  If the workflow was stopped meanwhile, the
\* session still has PAUSED and saves them all.  Commands, even if they are only
\* noops, take the place of the completion check.
Resumption(x) ==
    LET ok   == state = "PAUSED"
        all  == IdleCommands(execs) \o UnprocessedCommands(execs, x.done)
        cmds == Chosen(all, Others(all, {"pause"}))
        es   == [i \in DOMAIN execs |-> IF i \in DOMAIN x.done THEN [execs[i] EXCEPT !.processed = TRUE]
                                        ELSE execs[i]]
        seen == IF ok THEN "RUNNING" ELSE "PAUSED"
        now  == IF ok THEN "RUNNING" ELSE state
    IN  /\ x.op = "resume"
        /\ opened' = opened \ {x}
        /\ IF cmds # <<>> \/ x.loaded # <<>>
           THEN \E todo \in {ToDo(x.loaded, cmds)} :
                  \E r \in {Dispatched(Session(seen, now, es, msgs), todo)} : Stores(r, x.loaded)
           ELSE /\ execs' = es /\ state' = IF ok THEN Outcome(es) ELSE state
                /\ UNCHANGED <<backlog, msgs>>
        /\ Happened((IF cmds # <<>> /\ x.loaded = <<>> /\ Others(cmds, {"noop"}) = {}
                     THEN {"onlyNoops"} ELSE {})
             \cup (IF \E k \in DOMAIN cmds : cmds[k].wait THEN {"lateJoin"} ELSE {})
             \cup (IF Places(x.loaded, spec.joins) # {} THEN {"restoredJoin"} ELSE {}), es)
        /\ UNCHANGED <<spec, left>>

-----------------------------------------------------------------------------
DispatcherStep ==
    \/ \E m \in msgs : RunTask(m) \/ RunTaskAgain(m) \/ CheckCompletion(m) \/ RefreshJoin(m)
    \/ \E i \in DOMAIN execs : BeginCompletion(i)
    \/ \E x \in opened : Completion(x) \/ Resumption(x)

InterventionStep ==
    \/ StartDirect \/ PauseByOperator \/ BeginResumption
    \/ \E s \in Final : StopByOperator(s)

DispatcherNext == DispatcherStep \/ InterventionStep

DispatcherSpec == DispatcherInit /\ [][DispatcherNext]_dispatcherVars

\* Messages are delivered, actions end, transactions commit.
DispatcherFairSpec == DispatcherSpec /\ WF_dispatcherVars(DispatcherStep)

-----------------------------------------------------------------------------
\* A command of a clause is carried out once per run of its task, whatever lies in
\* the backlog when pauses, resumes and completions meet (_process_commands).
\* (Place 0: the executions that a resume runs again.)
DispatchedOnce ==
  history \cap Repeated = {} =>
    \A i, j \in DOMAIN execs :
      i # j /\ execs[i].from = execs[j].from => execs[i].from[2] = 0

\* No command is lost: while a workflow is RUNNING or PAUSED, every task that a
\* processed execution asks for, not after its "fail" or "succeed", has been
\* created or is in the backlog, unless a "fail" or "succeed" is there to end the
\* workflow at the next resume (_rearrange_commands, _save_command_to_backlog).
Asked(i) ==
    LET names == spec.clause[execs[i].name][execs[i].result]
    IN  {k \in DOMAIN names : /\ names[k] \in Name
                              /\ \A l \in 1..k : names[l] \notin {"fail", "succeed"}}
Kept(i, k) ==
    LET from == <<<<i, execs[i].run>>, k>>
        name == spec.clause[execs[i].name][execs[i].result][k]
    IN  \/ \E j \in DOMAIN execs : \/ execs[j].from = from
                                   \/ execs[j].name = name /\ name \in spec.joins
        \/ \E b \in DOMAIN backlog : \/ backlog[b].from = from
                                     \/ backlog[b].name \in {"fail", "succeed"}
NothingLost ==
    history \cap Repeated = {} /\ state \in {"RUNNING", "PAUSED"} =>
      \A i \in DOMAIN execs :
        execs[i].processed => \A k \in Asked(i) : Kept(i, k)

\* A RUNNING workflow has no backlog: nothing but a resume would look into it, and
\* check_and_complete() does not.
BacklogOnlyWhilePaused ==
    state = "RUNNING" => backlog = <<>>

\* A join that the dispatcher deferred runs after all that lead to it ended and
\* triggered it; one that went through the backlog has lost its "wait" and does not
\* (restore_command_from_dict).
DeferredJoinsWait ==
  history \cap Repeated = {} =>
    \A j \in DOMAIN execs :
      execs[j].keyed /\ execs[j].state \in {"RUNNING", "SUCCESS"} =>
        \A n \in LeadingTo(j) : \E i \in DOMAIN execs :
          execs[i].name = n /\ execs[i].result # "NONE" /\ Leads(i, j)

CommandsInv == DispatcherTypeOK /\ DispatchedOnce /\ NothingLost
                 /\ BacklogOnlyWhilePaused /\ DeferredJoinsWait

\* A RUNNING workflow ends or is paused, unless what it waits for was forgotten in
\* one of the ways of Incident.
CommandsEnd == state = "RUNNING" ~> (state \in Final \cup {"PAUSED"} \/ history \cap Forgotten # {})
=============================================================================
