------------------------------ MODULE CronTrigger ------------------------------
(***************************************************************************)
(* Cron triggers.  Every engine polls the table, keeps stale copies of the *)
(* rows that are due, and the one that manages to advance or delete the    *)
(* row starts the workflow.  There is one name; a trigger that is created  *)
(* under it after the first was deleted is another generation.             *)
(***************************************************************************)
EXTENDS Executions

CONSTANTS Engine,     (* the engines that poll                               *)
          Period,     (* the pattern fires at the multiples of Period        *)
          Lookahead,  (* a trigger is loaded this much early                 *)
          MaxTime,    (* bound of the clock                                  *)
          MaxGen      (* bound of the generations                            *)

ASSUME CronAssumption ==
    /\ {Period, Lookahead, MaxTime, MaxGen} \subseteq Nat \ {0}

VARIABLES
    now,      \* 0..MaxTime
    trigger,  \* the row: [gen, next, remaining], gen = 0 when there is none
    gens,     \* 0..MaxGen: the generations created so far
    count,    \* the number of executions the first one was created for
    copy,     \* Engine -> the row as it was loaded
    step,     \* Engine -> "idle", "loaded", "won"
    cause,    \* Execs -> [gen, due]: the trigger that started it, gen = 0: none
    missed,   \* SUBSET [gen, due]: won, but not started because of a failure
    trust     \* SUBSET 1..MaxGen: the trusts that exist in Keystone

cronVars == <<now, trigger, gens, count, copy, step, cause, missed, trust>>

Unlimited == -1
NoRow     == [gen |-> 0, next |-> 0, remaining |-> 0]
NoCause   == [gen |-> 0, due |-> 0]
Cause     == [gen : 0..MaxGen, due : 0..(MaxTime + Lookahead + Period)]

CronTypeOK ==
    /\ now \in 0..MaxTime /\ gens \in 0..MaxGen
    /\ trigger.gen \in {0, gens} /\ trigger.remaining \in Nat \cup {Unlimited}
    /\ step \in [Engine -> {"idle", "loaded", "won"}]
    /\ \A en \in Engine : step[en] = "idle" <=> copy[en] = NoRow
    /\ cause \in [Execs -> Cause] /\ missed \subseteq Cause
    /\ trust \subseteq 1..gens

NextTime(t) == ((t \div Period) + 1) * Period

Row(gen, remaining) == [gen |-> gen, next |-> NextTime(now), remaining |-> remaining]

CronInit ==
    /\ now = 0
    /\ count \in IF left["cron"] = 0 THEN {Unlimited} ELSE {1, 2, Unlimited}
    /\ trigger = IF left["cron"] = 0 THEN NoRow
                 ELSE [gen |-> 1, next |-> NextTime(0), remaining |-> count]
    /\ gens = trigger.gen /\ trust = 1..gens
    /\ copy = [en \in Engine |-> NoRow] /\ step = [en \in Engine |-> "idle"]
    /\ cause = [e \in Execs |-> NoCause] /\ missed = {}

Tick == /\ now < MaxTime /\ left["cron"] > 0
        /\ now' = now + 1
        /\ UNCHANGED <<trigger, gens, count, copy, step, cause, missed, trust, left>>
        /\ UNCHANGED execVars

-----------------------------------------------------------------------------
(* The loop of an engine, one step per database or RPC call.                *)

Due(row) == row.next < now + Lookahead

GetNextCronTriggers(en) ==
    /\ step[en] = "idle"
    /\ trigger.gen # 0 /\ Due(trigger)
    /\ copy' = [copy EXCEPT ![en] = trigger]
    /\ step' = [step EXCEPT ![en] = "loaded"]
    /\ UNCHANGED <<now, trigger, gens, count, cause, missed, trust, left>>
    /\ UNCHANGED execVars

Decremented(r) == IF r > 0 THEN r - 1 ELSE r

Advanced(c) == [gen |-> trigger.gen,
                next |-> NextTime(IF now > c.next THEN now ELSE c.next),
                remaining |-> Decremented(c.remaining)]

\* The row after advance_cron_trigger(copy), and whether it was modified.  The
\* row is found by its name: it may be another generation than the copy.
AdvanceBlind(c) ==                       \* mutant: no query_filter in the UPDATE
    IF trigger.gen = 0 THEN [row |-> NoRow, modified |-> FALSE]
    ELSE IF Decremented(c.remaining) = 0 THEN [row |-> NoRow, modified |-> TRUE]
    ELSE [row |-> Advanced(c), modified |-> TRUE]
Advance(c) ==
    IF trigger.gen = 0 THEN [row |-> NoRow, modified |-> FALSE]
    ELSE IF Decremented(c.remaining) = 0 THEN [row |-> NoRow, modified |-> TRUE]
    ELSE IF trigger.next # c.next THEN [row |-> trigger, modified |-> FALSE]
    ELSE [row |-> Advanced(c), modified |-> TRUE]

AdvanceCronTrigger(en) ==
    /\ step[en] = "loaded"
    /\ LET a == Advance(copy[en]) IN
       /\ trigger' = a.row
       /\ step' = [step EXCEPT ![en] = IF a.modified THEN "won" ELSE "idle"]
       /\ copy' = [copy EXCEPT ![en] = IF a.modified THEN @ ELSE NoRow]
    /\ UNCHANGED <<now, gens, count, cause, missed, trust, left>>
    /\ UNCHANGED execVars

CauseOf(en) == [gen |-> copy[en].gen, due |-> copy[en].next]

Rest(en) == /\ step' = [step EXCEPT ![en] = "idle"]
            /\ copy' = [copy EXCEPT ![en] = NoRow]

StartByCron(en, e) ==
    /\ step[en] = "won" /\ copy[en].gen \in trust
    /\ StartWorkflow(e)
    /\ cause' = [cause EXCEPT ![e] = CauseOf(en)]
    /\ Rest(en)
    /\ UNCHANGED <<now, trigger, gens, count, missed, trust, left>>

\* The engine dies, or Keystone or the start_workflow RPC fails: the exception
\* is logged and the loop goes on.  Without the trust there is no context.
CronFails(en) ==
    /\ step[en] # "idle"
    /\ IF step[en] = "won" /\ copy[en].gen \notin trust
       THEN UNCHANGED left ELSE Spend("fault")
    /\ missed' = IF step[en] = "won" THEN missed \cup {CauseOf(en)} ELSE missed
    /\ Rest(en)
    /\ UNCHANGED <<now, trigger, gens, count, cause, trust>>
    /\ UNCHANGED execVars

-----------------------------------------------------------------------------
(* The API, and the end of a workflow.                                      *)

CreateCronTrigger(remaining) ==
    /\ trigger.gen = 0 /\ gens < MaxGen /\ gens > 0
    /\ Spend("api")
    /\ gens' = gens + 1
    /\ trigger' = Row(gens + 1, remaining)
    /\ trust' = trust \cup {gens + 1}
    /\ UNCHANGED <<now, count, copy, step, cause, missed>>
    /\ UNCHANGED execVars

DeleteCronTrigger ==
    /\ trigger.gen # 0
    /\ Spend("api")
    /\ trigger' = NoRow
    /\ trust' = trust \ {trigger.gen}
    /\ UNCHANGED <<now, gens, count, copy, step, cause, missed>>
    /\ UNCHANGED execVars

\* set_state() of a completed root workflow: the trust goes when the trigger is
\* gone, whether other executions still use it or not.
TrustAfter(done) ==
    trust \ {g \in trust : g # trigger.gen /\ \E e \in done : cause[e].gen = g}

-----------------------------------------------------------------------------
Started == {cause[e] : e \in Execs} \ {NoCause}

\* At most one engine starts the workflow for a due time of a trigger, and a
\* trigger with a count starts no more than that many: the engines advance the
\* row by UPDATE ... WHERE next_execution_time = loaded, and delete it on the
\* last execution.  It holds as long as the name is not used a second time.
OncePerDueTime ==
    gens <= 1 => \A e, d \in Execs : cause[e] = cause[d] /\ e # d => cause[e] = NoCause

\* The count of a trigger is used up exactly: the executions that were started,
\* won, or missed by a failure and the ones that remain add up to it, although
\* every engine decrements its own copy of remaining_executions.
Spent ==
    Started \cup missed \cup {CauseOf(en) : en \in {x \in Engine : step[x] = "won"}}
CountAddsUp ==
    gens = 1 /\ count # Unlimited =>
      IF trigger.gen = 1 THEN Cardinality(Spent) + trigger.remaining = count
      ELSE Cardinality(Spent) <= count

\* A trust is not left behind: once the row of a trigger is gone, nobody is about
\* to start its workflow and all its executions have ended, the trust is deleted.
\* Unless a start was lost, or the name was used again: then a stale copy may
\* delete the new trigger and leave its trust.
TrustReleased ==
    gens <= 1 /\ missed = {} =>
      \A g \in trust \ {trigger.gen} :
        \/ \E en \in Engine : step[en] = "won" /\ copy[en].gen = g
        \/ \E e \in Execs : cause[e].gen = g /\ state[e] \in {"RUNNING", "PAUSED"}

\* Each due time of a trigger that is not deleted is started or missed by a
\* failure of the engine that had advanced the row (at most once, not at least
\* once); times that pass while nobody polls are skipped over by next_time.
DueTimesStart ==
    \A d \in 1..(MaxTime + Lookahead - 1) :
      (trigger.gen = 1 /\ trigger.next = d /\ left["api"] = 0)
        ~> ([gen |-> 1, due |-> d] \in Started \cup missed)
=============================================================================
