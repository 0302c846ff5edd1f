------------------------------- MODULE JoinLocks -------------------------------
(***************************************************************************)
(* Task.defer() in overlapping transactions: the completions of several    *)
(* tasks dispatch commands for the same joins, and each join must get one  *)
(* task execution.  A transaction looks for a WAITING row without a lock;  *)
(* if there is none it takes the named lock of the join, looks again and   *)
(* inserts.  The lock is the unique name of a row of named_locks: who      *)
(* inserts it holds it until the end of its transaction, although          *)
(* named_lock() deletes the row before.  Joins are those with "all", which *)
(* no command finds started.                                               *)
(***************************************************************************)
EXTENDS Transactions, FiniteSetsExt

CONSTANTS Inbound,    (* tasks that lead to the joins                        *)
          Join,       (* the joins, in the order of their unique keys        *)
          Branches    (* the workflows: the commands of each inbound task    *)

Plain == 0            \* the command of a task that is no join

ASSUME JoinAssumption == /\ Join \subseteq Nat \ {Plain} /\ IsFiniteSet(Join)
                         /\ Branches # {}
                         /\ Branches \subseteq [Inbound -> SUBSET (Join \cup {Plain})]

VARIABLES
    branch,     \* Inbound -> the commands of its clauses
    continued,  \* SUBSET Inbound: their commands were dispatched and committed
    joinRows    \* Join -> Nat: task executions with that unique key

joinVars == <<branch, continued, joinRows>>

JoinTypeOK == /\ branch \in Branches /\ continued \subseteq Inbound
              /\ joinRows \in [Join -> Nat]
              /\ \A p \in Running("dispatch") :
                     /\ tx[p].step \in {"check", "lock", "locked"}
                     /\ tx[p].made \subseteq Join

JoinInit ==
    /\ branch \in IF left["dispatch"] > 0 THEN Branches
                  ELSE {CHOOSE b \in Branches : TRUE}
    /\ continued = {} /\ joinRows = [j \in Join |-> 0]

-----------------------------------------------------------------------------
CommandsOf(T) == UNION {branch[t] : t \in T}

\* _rearrange_commands(): commands that do not wait go first, joins by their keys.
\* The commands that may be dispatched next:
NextAsFound(cmds) == cmds                         \* mutant: the sort is dropped
NextOf(cmds) == {c \in cmds : \A d \in cmds : c <= d}

\* A transaction with the commands that are left to it and the one it deals with.
Dispatching(T) == [kind |-> "dispatch", of |-> T, cmds |-> CommandsOf(T), cmd |-> Plain,
                   step |-> "check", made |-> {}, locks |-> {}]

NotYet(T) == T \cap (continued \cup UNION {tx[q].of : q \in Running("dispatch")}) = {}

\* The result of a task, or a resume that continues the tasks which completed while
\* the workflow was paused.
DispatchCommands(p, T) ==
    /\ T # {} /\ NotYet(T) /\ Spend("dispatch")
    /\ Open(p, Dispatching(T))
    /\ UNCHANGED joinVars

\* _get_join_unique_key(): the name of the lock.
UniqueKey(j) == <<"join-task", j>>

SeesUncommitted(p, j) ==                          \* mutant: dirty reads
    joinRows[j] > 0 \/ \E q \in Running("dispatch") : j \in tx[q].made

\* READ COMMITTED: the rows of finished transactions and one's own.
SeesRow(p, j) == joinRows[j] > 0 \/ j \in tx[p].made

\* defer(), without the lock.
FastCheck(p) ==
    /\ tx[p].kind = "dispatch" /\ tx[p].step = "check"
    /\ \E c \in NextOf(tx[p].cmds) :
          Change(p, [tx[p] EXCEPT !.cmds = @ \ {c}, !.cmd = c,
                                  !.step = IF c = Plain \/ SeesRow(p, c) THEN "check"
                                                                        ELSE "lock"])
    /\ UNCHANGED <<joinVars, left>>

\* create_named_lock(): the INSERT waits for whoever inserted that name.
TakeNamedLock(p) ==
    /\ tx[p].kind = "dispatch" /\ tx[p].step = "lock" /\ Free(p, UniqueKey(tx[p].cmd))
    /\ Change(p, [tx[p] EXCEPT !.step = "locked", !.locks = @ \cup {UniqueKey(tx[p].cmd)}])
    /\ UNCHANGED <<joinVars, left>>

\* What is inserted under the lock.
MissingUnread(p, j) == {j}                        \* mutant: no second look
Missing(p, j) == IF SeesRow(p, j) THEN {} ELSE {j}

CreateUnderLock(p) ==
    /\ tx[p].kind = "dispatch" /\ tx[p].step = "locked"
    /\ Change(p, [tx[p] EXCEPT !.step = "check", !.made = @ \cup Missing(p, tx[p].cmd)])
    /\ UNCHANGED <<joinVars, left>>

CommitDispatch(p) ==
    /\ tx[p].kind = "dispatch" /\ tx[p].step = "check" /\ tx[p].cmds = {}
    /\ joinRows' = [j \in Join |-> joinRows[j] + IF j \in tx[p].made THEN 1 ELSE 0]
    /\ continued' = continued \cup tx[p].of
    /\ Close(p)
    /\ UNCHANGED <<branch, left>>

\* A deadlock or a lost connection: the transaction is rolled back and made again.
RetryDispatch(p) ==
    /\ tx[p].kind = "dispatch" /\ Spend("fault")
    /\ Change(p, Dispatching(tx[p].of))
    /\ UNCHANGED joinVars

JoinStep(p) ==
    \/ \E T \in SUBSET Inbound : DispatchCommands(p, T)
    \/ FastCheck(p) \/ TakeNamedLock(p) \/ CreateUnderLock(p) \/ CommitDispatch(p)
    \/ RetryDispatch(p)

-----------------------------------------------------------------------------
\* A join that a committed transaction dispatched has exactly one task execution, a
\* join that none dispatched has no execution (Task.defer: the check without the
\* lock may be outdated, and a row it relies on must not be rolled back).
OneExecutionPerJoin ==
    \A j \in Join : joinRows[j] =
        IF \E t \in continued : j \in branch[t] THEN 1 ELSE 0

WaitsFor(p, q) == /\ tx[p].kind = "dispatch" /\ tx[p].step = "lock"
                  /\ UniqueKey(tx[p].cmd) \in tx[q].locks /\ p # q

\* No transactions wait for each other's named locks in a circle: in every set of
\* processes one waits for none of them (_compare_task_commands: "the same locking
\* order ... in parallel transactions").
NoCircularWait ==
    \A S \in (SUBSET Process) \ {{}} : \E p \in S : \A q \in S : ~WaitsFor(p, q)

\* What Task.defer(), named_lock() and the order of the commands achieve together.
JoinLocksInv == OneExecutionPerJoin /\ NoCircularWait
=============================================================================
