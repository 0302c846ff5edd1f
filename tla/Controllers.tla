------------------------------ MODULE Controllers ------------------------------
(***************************************************************************)
(* A workflow is continued by the controller of its type, "direct" or      *)
(* "reverse" (get_controller): Dispatcher and ReverseWorkflow.             *)
(***************************************************************************)
EXTENDS ReverseWorkflow, Dispatcher

VARIABLE type    \* the type of the workflow, which does not change

controllersVars == <<vars, dispatcherVars, type>>

\* The part of the other type has an arbitrary specification and does nothing.
ControllersInit ==
    \/ /\ type = "direct" /\ DispatcherInit
       /\ Init /\ doc = (CHOOSE d \in Documents : TRUE) /\ pauses = (CHOOSE b \in Budgets : TRUE)[1]
       /\ reruns = (CHOOSE b \in Budgets : TRUE)[2]
    \/ /\ type = "reverse" /\ Init
       /\ DispatcherInit
       /\ spec = (CHOOSE c \in Scenarios : TRUE)[1] /\ left = (CHOOSE c \in Scenarios : TRUE)[2]

DirectStep  == type = "direct" /\ DispatcherNext /\ UNCHANGED <<vars, type>>
ReverseStep == type = "reverse" /\ Next /\ UNCHANGED <<dispatcherVars, type>>

ControllersNext == DirectStep \/ ReverseStep

\* Messages are delivered, actions end and transactions commit.
ControllersFairSpec ==
    /\ ControllersInit /\ [][ControllersNext]_controllersVars
    /\ WF_controllersVars(type = "direct" /\ DispatcherStep /\ UNCHANGED <<vars, type>>)
    /\ WF_controllersVars(type = "reverse" /\ EngineStep /\ UNCHANGED <<dispatcherVars, type>>)
=============================================================================
