------------------------------ MODULE Transactions ------------------------------
(***************************************************************************)
(* Database transactions as the API and the engine processes make them.    *)
(* A process-wide lock lets one thread of a process at a time hold a       *)
(* session, so a process has at most one transaction; transactions of      *)
(* different processes overlap.  The isolation level is READ COMMITTED: a  *)
(* statement reads what is committed when it runs, an UPDATE or an INSERT  *)
(* holds its row (or its unique key) until the end of the transaction, and *)
(* a row that was loaded once is not read again.                           *)
(***************************************************************************)
EXTENDS Integers, FiniteSets

CONSTANTS Process,    (* API and engine processes                            *)
          Budgets     (* What -> Nat: how often each kind of event may occur *)

What == {"fault", "workbook", "edit", "code", "action", "find", "share",
         "trigger", "start", "restart", "delete", "list", "write",
         "dispatch"}

ASSUME TransactionsAssumption == Budgets \subseteq [What -> Nat]

VARIABLES
    left,   \* What -> Nat: what is left of the chosen budget
    tx      \* Process -> the open transaction, a record that names its kind

NoTx == [kind |-> "none", locks |-> {}]

TxInit == left \in Budgets /\ tx = [p \in Process |-> NoTx]

Spend(w) == left[w] > 0 /\ left' = [left EXCEPT ![w] = @ - 1]

Open(p, t)   == tx[p] = NoTx /\ tx' = [tx EXCEPT ![p] = t]
Change(p, t) == tx' = [tx EXCEPT ![p] = t]
Close(p)     == tx' = [tx EXCEPT ![p] = NoTx]

\* No other transaction holds the row: a statement that writes it may run.
Free(p, row) == \A q \in Process \ {p} : row \notin tx[q].locks

Running(kind) == {p \in Process : tx[p].kind = kind}

TxTypeOK == /\ left \in [What -> Nat]
            /\ \A p, q \in Process : p # q => tx[p].locks \cap tx[q].locks = {}
=============================================================================
