------------------------------- MODULE Expiration -------------------------------
(***************************************************************************)
(* The expiration policy.  Every engine runs it from time to time: it      *)
(* fetches completed root executions, first those older than the limit and *)
(* then those beyond the number to keep, and deletes them batch by batch   *)
(* until nothing is fetched.  A batch is one transaction that locks a row  *)
(* only when it deletes it.                                                *)
(***************************************************************************)
EXTENDS Executions

CONSTANTS Cleaner,      (* the engines that run the policy                   *)
          MaxFinished,  (* max_finished_executions, 0 for no limit           *)
          BatchSize,    (* batch_size, 0 for no limit                        *)
          Ignored       (* ignored_states                                    *)

ASSUME ExpirationAssumption ==
    /\ MaxFinished \in Nat /\ BatchSize \in Nat /\ Ignored \subseteq Terminal

VARIABLES
    pass,     \* Cleaner -> "idle", "expired", "superfluous"
    expired,  \* Cleaner -> SUBSET Execs: completed before exp_time of the pass
    batch,    \* Cleaner -> SUBSET Execs: fetched and still to be deleted
    fetched   \* Cleaner -> BOOLEAN: a batch is being deleted

expVars == <<pass, expired, batch, fetched>>

ExpTypeOK ==
    /\ pass \in [Cleaner -> {"idle", "expired", "superfluous"}]
    /\ expired \in [Cleaner -> SUBSET Execs]
    /\ batch \in [Cleaner -> SUBSET Execs]
    /\ \A c \in Cleaner : ~fetched[c] => batch[c] = {}

ExpInit ==
    /\ pass = [c \in Cleaner |-> "idle"] /\ expired = [c \in Cleaner |-> {}]
    /\ batch = [c \in Cleaner |-> {}] /\ fetched = [c \in Cleaner |-> FALSE]

CompletedRoots == {e \in Completed : state[e] \notin Ignored}
NewerThan(e)   == {d \in CompletedRoots : e \in older[d]}

\* The newest MaxFinished are kept.
SuperfluousOneMore ==                       \* mutant: keeps one less
    {e \in CompletedRoots : MaxFinished > 0 /\ Cardinality(NewerThan(e)) + 1 >= MaxFinished}
SuperfluousOneLess ==                       \* mutant: keeps one more
    {e \in CompletedRoots : MaxFinished > 0 /\ Cardinality(NewerThan(e)) > MaxFinished}
Superfluous ==
    {e \in CompletedRoots : MaxFinished > 0 /\ Cardinality(NewerThan(e)) >= MaxFinished}

Found(c) == IF pass[c] = "expired" THEN expired[c] \cap CompletedRoots
            ELSE Superfluous

Limited(es) == {b \in SUBSET es : Cardinality(b) =
    IF BatchSize = 0 \/ BatchSize > Cardinality(es) THEN Cardinality(es) ELSE BatchSize}

-----------------------------------------------------------------------------
\* exp_time is taken once: some of the oldest executions are older than that.
BeginPass(c) ==
    /\ pass[c] = "idle"
    /\ left["expire"] > 0
    /\ \E old \in SUBSET Completed :
         /\ \A e \in old : older[e] \subseteq old
         /\ expired' = [expired EXCEPT ![c] = old]
    /\ pass' = [pass EXCEPT ![c] = "expired"]
    /\ UNCHANGED <<batch, fetched, left>> /\ UNCHANGED execVars

Fetch(c) ==
    /\ pass[c] # "idle" /\ ~fetched[c] /\ Found(c) # {}
    /\ \E b \in Limited(Found(c)) : batch' = [batch EXCEPT ![c] = b]
    /\ fetched' = [fetched EXCEPT ![c] = TRUE]
    /\ UNCHANGED <<pass, expired, left>> /\ UNCHANGED execVars

FetchNothing(c) ==
    /\ pass[c] # "idle" /\ ~fetched[c] /\ Found(c) = {}
    /\ pass' = [pass EXCEPT ![c] = IF @ = "expired" THEN "superfluous" ELSE "idle"]
    /\ expired' = [expired EXCEPT ![c] = {}]
    /\ UNCHANGED <<batch, fetched, left>> /\ UNCHANGED execVars

\* Another engine may have deleted it: the exception is logged.
Delete(c, e) ==
    /\ e \in batch[c]
    /\ batch' = [batch EXCEPT ![c] = @ \ {e}]
    /\ IF state[e] = "DELETED" THEN UNCHANGED execVars ELSE DeleteWorkflow(e)
    /\ UNCHANGED <<pass, expired, fetched, left>>

\* The exception is logged and the row stays; the next fetch finds it again.
DeleteFails(c, e) ==
    /\ e \in batch[c]
    /\ Spend("fault")
    /\ batch' = [batch EXCEPT ![c] = @ \ {e}]
    /\ UNCHANGED <<pass, expired, fetched>> /\ UNCHANGED execVars

EndBatch(c) ==
    /\ fetched[c] /\ batch[c] = {}
    /\ fetched' = [fetched EXCEPT ![c] = FALSE]
    /\ UNCHANGED <<pass, expired, batch, left>> /\ UNCHANGED execVars

-----------------------------------------------------------------------------
\* Among executions that are not rerun, only completed ones are deleted, and
\* those deleted for their number are older than MaxFinished others that stay: two
\* engines that fetched the same rows, in turn with failures and new completions,
\* do not delete one more each.  (A rerun between the fetch and the deletion is not
\* seen: the DELETE is by id, and takes the execution that runs again.)
KeepsNewest ==
    [][\A c \in Cleaner : \A e \in batch[c] :
         state[e] # "DELETED" /\ state'[e] = "DELETED" /\ reran = {} =>
           /\ state[e] \in Terminal
           /\ \/ \E d \in Cleaner : e \in expired[d]
              \/ Cardinality(NewerThan(e)) >= MaxFinished]_<<state, batch>>

\* Old executions do not pile up: when more than MaxFinished have completed, the
\* passes of the engines, their failures and the reruns between a fetch and its
\* deletions notwithstanding, the number comes down to MaxFinished again.
FinishedAreBounded ==
    Cardinality(CompletedRoots) > MaxFinished /\ MaxFinished > 0 /\ left["expire"] > 0
      ~> Cardinality(CompletedRoots) <= MaxFinished
=============================================================================
