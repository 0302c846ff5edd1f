------------------------------ MODULE EventEngine ------------------------------
(***************************************************************************)
(* Event triggers.  The API changes the table and sends, before it commits, *)
(* the trigger and the events of all triggers it sees to the event engine, *)
(* which keeps a map of the triggers and a listener for their events.  What *)
(* the listener accepts is queued in memory and starts workflows.           *)
(* All triggers are of one exchange and topic, each with an event of its   *)
(* own.                                                                    *)
(***************************************************************************)
EXTENDS Executions

CONSTANT Trigger      (* the event triggers                                  *)

VARIABLES
    rows,      \* SUBSET Trigger: the table
    request,   \* Trigger -> "none", "creating", "deleting": open transactions
    calls,     \* SUBSET [kind, trigger, events]: RPC messages to the engine
    known,     \* SUBSET Trigger: event_triggers_map
    heard,     \* SUBSET Trigger: the triggers whose events the listener accepts
    queue,     \* Trigger -> Nat: events accepted and not yet processed
    alive,     \* BOOLEAN: the thread that processes them
    firedBy,   \* Execs -> Trigger or NoTrigger
    disturbed  \* BOOLEAN: history, see Disturbs

eventVars == <<rows, request, calls, known, heard, queue, alive, firedBy, disturbed>>

NoTrigger == "none"
Call == [kind : {"create", "delete"}, trigger : Trigger, events : SUBSET Trigger]

EventTypeOK ==
    /\ rows \subseteq Trigger /\ known \subseteq Trigger /\ heard \subseteq Trigger
    /\ request \in [Trigger -> {"none", "creating", "deleting"}]
    /\ calls \subseteq Call
    /\ queue \in [Trigger -> Nat]
    /\ firedBy \in [Execs -> Trigger \cup {NoTrigger}]
    /\ alive \in BOOLEAN /\ disturbed \in BOOLEAN

EventInit ==
    /\ rows = {} /\ request = [t \in Trigger |-> "none"] /\ calls = {}
    /\ known = {} /\ heard = {} /\ queue = [t \in Trigger |-> 0] /\ alive = TRUE
    /\ firedBy = [e \in Execs |-> NoTrigger] /\ disturbed = FALSE

\* The list of events of a call is that of its transaction.  It is of no use to
\* the engine when another call is on its way: the last one handled wins.
Disturbs == calls # {} \/ \E t \in Trigger : request[t] # "none"

-----------------------------------------------------------------------------
(* The API.                                                                 *)

CreateEventTrigger(t) ==
    /\ t \notin rows /\ request[t] = "none"
    /\ Spend("trigger")
    /\ request' = [request EXCEPT ![t] = "creating"]
    /\ calls' = calls \cup {[kind |-> "create", trigger |-> t, events |-> rows \cup {t}]}
    /\ disturbed' = (disturbed \/ Disturbs)
    /\ UNCHANGED <<rows, known, heard, queue, alive, firedBy>> /\ UNCHANGED execVars

DeletedEventsAll(t) == rows                            \* mutant: its own event too
DeletedEvents(t) == rows \ {t}

DeleteEventTrigger(t) ==
    /\ t \in rows /\ request[t] = "none"
    /\ Spend("trigger")
    /\ request' = [request EXCEPT ![t] = "deleting"]
    /\ calls' = calls \cup {[kind |-> "delete", trigger |-> t, events |-> DeletedEvents(t)]}
    /\ disturbed' = (disturbed \/ Disturbs)
    /\ UNCHANGED <<rows, known, heard, queue, alive, firedBy>> /\ UNCHANGED execVars

CommitRequest(t) ==
    /\ request[t] # "none"
    /\ rows' = IF request[t] = "creating" THEN rows \cup {t} ELSE rows \ {t}
    /\ request' = [request EXCEPT ![t] = "none"]
    /\ UNCHANGED <<calls, known, heard, queue, alive, firedBy, disturbed, left>>
    /\ UNCHANGED execVars

\* The message cannot be taken back.
RollbackRequest(t) ==
    /\ request[t] # "none"
    /\ Spend("fault")
    /\ request' = [request EXCEPT ![t] = "none"]
    /\ disturbed' = TRUE
    /\ UNCHANGED <<rows, calls, known, heard, queue, alive, firedBy>>
    /\ UNCHANGED execVars

-----------------------------------------------------------------------------
(* The event engine.                                                        *)

\* _add_event_listener(): the listener is started again with the events of the
\* call, whatever the map says; without events it is removed.
HandleCall(call) ==
    /\ call \in calls
    /\ calls' = calls \ {call}
    /\ IF call.kind = "create" THEN /\ known' = known \cup {call.trigger}
                                    /\ heard' = call.events
       ELSE IF call.trigger \in known THEN /\ known' = known \ {call.trigger}
                                           /\ heard' = call.events
       ELSE UNCHANGED <<known, heard>>              \* the assertion fails
    /\ UNCHANGED <<rows, request, queue, alive, firedBy, disturbed, left>>
    /\ UNCHANGED execVars

\* A notification arrives; one that the filter of the listener does not match
\* is dropped.
Notify(t) ==
    /\ Spend("event")
    /\ queue' = IF t \in heard THEN [queue EXCEPT ![t] = @ + 1] ELSE queue
    /\ UNCHANGED <<rows, request, calls, known, heard, alive, firedBy, disturbed>>
    /\ UNCHANGED execVars

\* An event whose trigger is gone is taken from the queue all the same.
Taken(t) == queue[t] - 1

ProcessEvent(t, e) ==
    /\ alive /\ queue[t] > 0
    /\ queue' = [queue EXCEPT ![t] = Taken(t)]
    /\ IF t \in known
       THEN StartWorkflow(e) /\ firedBy' = [firedBy EXCEPT ![e] = t]
       ELSE UNCHANGED execVars /\ UNCHANGED firedBy
    /\ UNCHANGED <<rows, request, calls, known, heard, alive, disturbed, left>>

\* create_context() raises, for a trust that is gone or a Keystone that does not
\* answer, outside the try of _start_workflow(): the thread ends.
LoopDies(t) ==
    /\ alive /\ queue[t] > 0 /\ t \in known
    /\ Spend("fault")
    /\ queue' = [queue EXCEPT ![t] = @ - 1]
    /\ alive' = FALSE
    /\ UNCHANGED <<rows, request, calls, known, heard, firedBy, disturbed>>
    /\ UNCHANGED execVars

\* start() loads the table; queue and messages of the old process are lost.
Loaded == rows

Restart ==
    /\ Spend("restart")
    /\ known' = Loaded /\ heard' = Loaded
    /\ queue' = [t \in Trigger |-> 0] /\ alive' = TRUE /\ calls' = {}
    /\ disturbed' = \E t \in Trigger : request[t] # "none"
    /\ UNCHANGED <<rows, request, firedBy>> /\ UNCHANGED execVars

-----------------------------------------------------------------------------
\* The engine knows and hears what is in the table once no request is open and
\* all calls are handled, if requests do not overlap with one another or with a
\* restart and are not rolled back; a restart repairs what they left behind.
EngineFollowsTable ==
    ~disturbed /\ calls = {} /\ (\A t \in Trigger : request[t] = "none")
      => known = rows /\ heard = rows

\* What the listener has accepted starts workflows, unless the thread died of an
\* exception or the process was restarted; an event whose trigger was deleted in
\* the meantime leaves the queue without an execution.
AcceptedEventsAreProcessed ==
    \A t \in Trigger : queue[t] > 0 ~> (queue[t] = 0 \/ ~alive)
=============================================================================
