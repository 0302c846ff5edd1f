----------------------------- MODULE ExecutionStart -----------------------------
(***************************************************************************)
(* POST /executions with an id of the client's choice, while the workflow  *)
(* definition is being updated.  The API checks whether the execution      *)
(* exists and asks an engine by RPC; the engine takes the specification    *)
(* from a cache by the definition's id and updated_at, stores it with the  *)
(* execution, and keeps it in a second cache by the id of the execution.   *)
(* The processes of this module are engines; the API only forwards.        *)
(***************************************************************************)
EXTENDS Transactions

CONSTANTS Client,      (* the requests in flight                             *)
          ExecutionId, (* ids that clients choose                            *)
          MaxSecond    (* bound of the clock, which counts whole seconds     *)

ASSUME StartAssumption == MaxSecond \in Nat

VARIABLES
    second,      \* 0..MaxSecond: utc_now_sec
    definition,  \* the row: [text, updated_at], updated_at = Null when created
    hurried,     \* two updates of the definition carry one updated_at
    byDefinition,\* Process -> (updated_at -> text): _WF_DEF_CACHE
    byExecution, \* Process -> (id -> text): _WF_EX_CACHE
    execution,   \* ExecutionId -> the text of the stored specification, or 0
    reused,      \* ids under which an execution was begun more than once
    begun,       \* ids under which an execution was begun
    request,     \* Client -> [step, id, engine]
    troubled     \* clients that met a failure of an engine or of the database,
                 \* or the deletion of the execution

startVars == <<second, definition, hurried, byDefinition, byExecution, execution,
               reused, begun, request, troubled>>

Null    == -1
Stamps  == {Null} \cup 0..MaxSecond
Uncached == 0
NoRequest == [step |-> "new", id |-> "none"]

Steps == {"new", "sent", "answered", "failed"}

StartTypeOK ==
    /\ second \in 0..MaxSecond /\ hurried \in BOOLEAN
    /\ definition \in [text : Nat \ {0}, updated_at : Stamps]
    /\ byDefinition \in [Process -> [Stamps -> Nat]]
    /\ byExecution \in [Process -> [ExecutionId -> Nat]]
    /\ execution \in [ExecutionId -> Nat]
    /\ reused \subseteq begun /\ begun \subseteq ExecutionId
    /\ request \in [Client -> [step : Steps, id : ExecutionId \cup {"none"}]]
    /\ troubled \subseteq Client

NothingCached ==
    /\ byDefinition = [p \in Process |-> [s \in Stamps |-> Uncached]]
    /\ byExecution = [p \in Process |-> [x \in ExecutionId |-> Uncached]]

StartInit ==
    /\ second = 0 /\ hurried = FALSE /\ NothingCached
    /\ definition = [text |-> 1, updated_at |-> Null]
    /\ execution = [x \in ExecutionId |-> 0] /\ reused = {} /\ begun = {}
    /\ request = [c \in Client |-> NoRequest] /\ troubled = {}

-----------------------------------------------------------------------------
(* The definition.                                                          *)

Second ==
    /\ second < MaxSecond /\ left["write"] + left["start"] > 0
    /\ second' = second + 1
    /\ UNCHANGED <<definition, hurried, byDefinition, byExecution, execution, reused,
                   begun, request, troubled, left, tx>>

\* The ORM sets updated_at when it writes the row, to a whole second.
StampNever(now, old) == old                       \* mutant: onupdate is missing
Stamp(now, old) == now

UpdateDefinition ==
    /\ Spend("write")
    /\ definition' = [text |-> definition.text + 1,
                      updated_at |-> Stamp(second, definition.updated_at)]
    /\ hurried' = (hurried \/ definition.updated_at = second)
    /\ UNCHANGED <<second, byDefinition, byExecution, execution, reused, begun,
                   request, troubled, tx>>

-----------------------------------------------------------------------------
(* The API.                                                                 *)

Answer(c, step) == request' = [request EXCEPT ![c].step = step]

\* A client that was told of a failure may post the same request again.
Post(c, x) ==
    /\ request[c] = NoRequest \/ (request[c].step = "failed" /\ request[c].id = x)
    /\ Spend("start")
    /\ request' = [request EXCEPT ![c] =
                      [step |-> IF execution[x] # 0 THEN "answered" ELSE "sent", id |-> x]]
    /\ UNCHANGED <<second, definition, hurried, byDefinition, byExecution, execution,
                   reused, begun, troubled, tx>>

\* DELETE /executions: of a completed execution, or of any with force.
DeleteExecution(x) ==
    /\ execution[x] # 0
    /\ Spend("delete")
    /\ execution' = [execution EXCEPT ![x] = 0]
    /\ troubled' = troubled \cup {c \in Client : request[c].id = x}
    /\ UNCHANGED <<second, definition, hurried, byDefinition, byExecution, reused, begun,
                   request, tx>>

-----------------------------------------------------------------------------
(* start_workflow in an engine, a transaction.                              *)

ByDefinitionIdOnly(p, row) ==                     \* mutant: updated_at not in the key
    IF \E s \in Stamps : byDefinition[p][s] # Uncached
    THEN byDefinition[p][CHOOSE s \in Stamps : byDefinition[p][s] # Uncached]
    ELSE row.text
ByDefinitionId(p, row) ==
    IF byDefinition[p][row.updated_at] # Uncached THEN byDefinition[p][row.updated_at]
                                                  ELSE row.text

\* get_workflow_definition, then the specification of the row as it was loaded.
LoadWorkflow(p, c) ==
    /\ request[c].step = "sent" /\ \A q \in Running("start") : tx[q].client # c
    /\ LET spec == ByDefinitionId(p, definition) IN
       /\ byDefinition' = [byDefinition EXCEPT ![p][definition.updated_at] = spec]
       /\ Open(p, [kind |-> "start", stage |-> "loaded", client |-> c, id |-> request[c].id,
                   spec |-> spec, row |-> definition.text, locks |-> {}])
    /\ UNCHANGED <<second, definition, hurried, byExecution, execution, reused, begun,
                   request, troubled, left>>

\* The row of the execution is inserted: the primary key makes the transaction
\* wait for another that inserts the same id.  The second cache is filled
\* whatever becomes of the transaction.
CreateExecution(p) ==
    /\ tx[p].kind = "start" /\ tx[p].stage = "loaded"
    /\ LET x == tx[p].id IN
       /\ Free(p, x) /\ execution[x] = 0
       /\ byExecution' = [byExecution EXCEPT ![p][x] = tx[p].spec]
       /\ begun' = begun \cup {x} /\ reused' = reused \cup ({x} \cap begun)
       /\ Change(p, [tx[p] EXCEPT !.stage = "created", !.locks = {x}])
    /\ UNCHANGED <<second, definition, hurried, byDefinition, execution, request,
                   troubled, left>>

CommitStart(p) ==
    /\ tx[p].kind = "start" /\ tx[p].stage = "created"
    /\ execution' = [execution EXCEPT ![tx[p].id] = tx[p].spec]
    /\ Answer(tx[p].client, "answered")
    /\ Close(p)
    /\ UNCHANGED <<second, definition, hurried, byDefinition, byExecution, reused, begun,
                   troubled, left>>

\* DBDuplicateEntryError: a second transaction reads the execution that exists.
ExistingRaises(c) == Answer(c, "failed")          \* mutant: the error reaches the client
Existing(c) == Answer(c, "answered")

DuplicateEntry(p) ==
    /\ tx[p].kind = "start" /\ tx[p].stage = "loaded"
    /\ execution[tx[p].id] # 0 /\ Free(p, tx[p].id)
    /\ Existing(tx[p].client)
    /\ Close(p)
    /\ UNCHANGED <<second, definition, hurried, byDefinition, byExecution, execution,
                   reused, begun, troubled, left>>

\* The database fails the transaction and it is retried, or something raises and
\* the client is told.
StartFails(p) ==
    /\ tx[p].kind = "start"
    /\ Spend("fault")
    /\ Answer(tx[p].client, "sent") \/ Answer(tx[p].client, "failed")
    /\ troubled' = troubled \cup {tx[p].client}
    /\ Close(p)
    /\ UNCHANGED <<second, definition, hurried, byDefinition, byExecution, execution,
                   reused, begun>>

\* The process is restarted, which also ends its transaction (see Api).
RestartEngine(p) ==
    /\ byDefinition' = [byDefinition EXCEPT ![p] = [s \in Stamps |-> Uncached]]
    /\ byExecution' = [byExecution EXCEPT ![p] = [x \in ExecutionId |-> Uncached]]
    /\ IF tx[p].kind = "start"
       THEN /\ Answer(tx[p].client, "failed")
            /\ troubled' = troubled \cup {tx[p].client}
       ELSE UNCHANGED <<request, troubled>>
    /\ UNCHANGED <<second, definition, hurried, execution, reused, begun>>

-----------------------------------------------------------------------------
(* An engine handles a message of an execution: a result, a scheduled job.  *)

ByExecutionId(p, x) ==
    IF byExecution[p][x] # Uncached THEN byExecution[p][x] ELSE execution[x]

HandleMessage(p, x) ==
    /\ tx[p] = NoTx /\ execution[x] # 0
    /\ byExecution' = [byExecution EXCEPT ![p][x] = ByExecutionId(p, x)]
    /\ UNCHANGED <<second, definition, hurried, byDefinition, execution, reused, begun,
                   request, troubled, left, tx>>

Evict(p) ==                                       \* an LRUCache of 100 entries
    /\ Spend("restart")
    /\ \/ \E x \in ExecutionId : byExecution' = [byExecution EXCEPT ![p][x] = Uncached]
          /\ UNCHANGED byDefinition
       \/ \E s \in Stamps : byDefinition' = [byDefinition EXCEPT ![p][s] = Uncached]
          /\ UNCHANGED byExecution
    /\ UNCHANGED <<second, definition, hurried, execution, reused, begun, request,
                   troubled, tx>>

StartStep(p) ==
    \/ \E c \in Client : LoadWorkflow(p, c)
    \/ CreateExecution(p) \/ CommitStart(p) \/ DuplicateEntry(p) \/ StartFails(p)
    \/ Evict(p) \/ \E x \in ExecutionId : HandleMessage(p, x)

StartRequest ==
    \/ Second \/ UpdateDefinition
    \/ \E x \in ExecutionId : DeleteExecution(x) \/ \E c \in Client : Post(c, x)

-----------------------------------------------------------------------------
\* An execution is started from the definition as the engine has loaded it,
\* although the specification may come from the cache, unless two updates fell
\* into one second (get_workflow_spec_by_definition_id).
StartsWhatItLoaded ==
    hurried \/ \A p \in Running("start") : tx[p].spec = tx[p].row

\* All engines run an execution by the specification that is stored with it,
\* whatever happens to the definition and to their caches, unless the id was
\* used for an execution before, even for one whose start was rolled back
\* (get_workflow_spec_by_execution_id).
RunsItsSpecification ==
    \A p \in Process, x \in ExecutionId \ reused :
        (execution[x] # 0 /\ byExecution[p][x] # Uncached) => byExecution[p][x] = execution[x]

\* A request with an id is idempotent: a client whom no fault befalls is never
\* told of an error, however many clients post the same id at once, and when it
\* is answered the execution is there (start_workflow, DBDuplicateEntryError).
PostIsIdempotent ==
    \A c \in Client \ troubled :
        /\ request[c].step # "failed"
        /\ request[c].step = "answered" => execution[request[c].id] # 0
=============================================================================
