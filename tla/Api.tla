---------------------------------- MODULE Api ----------------------------------
(***************************************************************************)
(* The REST API beside the engines: workbooks and their members, source    *)
(* code and dynamic actions, the sharing of workflows, executions that are *)
(* started with an id of the client's choice, listings, and the engines'   *)
(* creation of join tasks.  What they have in common is the database, the  *)
(* one transaction per process and the budgets of requests and faults;     *)
(* each step belongs to one of them.                                       *)
(***************************************************************************)
EXTENDS Workbooks, CodeSources, Sharing, ExecutionStart, Listing, JoinLocks

vars == <<left, tx, workbookVars, codeVars, sharingVars, startVars, listVars,
          joinVars>>

Init == /\ TxInit /\ WorkbookInit /\ CodeInit /\ SharingInit /\ StartInit
        /\ ListInit /\ JoinInit

NotBooks   == UNCHANGED workbookVars
NotCode    == UNCHANGED codeVars
NotSharing == UNCHANGED sharingVars
NotStart   == UNCHANGED startVars
NotList    == UNCHANGED listVars
NotJoins   == UNCHANGED joinVars

Books(p)   == WorkbookStep(p) /\ NotCode /\ NotSharing /\ NotStart /\ NotList /\ NotJoins
Code(p)    == CodeStep(p) /\ NotBooks /\ NotSharing /\ NotStart /\ NotList /\ NotJoins
Shares(p)  == SharingStep(p) /\ NotBooks /\ NotCode /\ NotStart /\ NotList /\ NotJoins
Starts(p)  == StartStep(p) /\ NotBooks /\ NotCode /\ NotSharing /\ NotList /\ NotJoins
Posts      == StartRequest /\ NotBooks /\ NotCode /\ NotSharing /\ NotList /\ NotJoins
Lists(p)   == ListStep(p) /\ NotBooks /\ NotCode /\ NotSharing /\ NotStart /\ NotJoins
Browses    == ListRequest /\ NotBooks /\ NotCode /\ NotSharing /\ NotStart /\ NotJoins
Joins(p)   == JoinStep(p) /\ NotBooks /\ NotCode /\ NotSharing /\ NotStart /\ NotList

\* A process that is restarted forgets its caches and its transaction.
RestartProcess(p) ==
    /\ Spend("restart") /\ Close(p)
    /\ RestartProvider(p) /\ RestartEngine(p) /\ RestartListing(p)
    /\ NotBooks /\ NotSharing /\ NotJoins

Next ==
    \/ Posts \/ Browses
    \/ \E p \in Process : \/ Books(p) \/ Code(p) \/ Shares(p) \/ Starts(p) \/ Lists(p)
                          \/ Joins(p) \/ RestartProcess(p)

ApiSpec == Init /\ [][Next]_vars

-----------------------------------------------------------------------------
ApiTypeOK ==
    /\ TxTypeOK /\ WorkbookTypeOK /\ CodeTypeOK /\ SharingTypeOK /\ StartTypeOK
    /\ ListTypeOK /\ JoinTypeOK

\* What the database holds and what the processes keep of it agree: the members of
\* a workbook, the modules of code sources, the specifications of executions.
CopiesAgree ==
    /\ ApiTypeOK /\ MembersFollowWorkbook /\ LatestCodeRuns
    /\ StartsWhatItLoaded /\ RunsItsSpecification

\* What clients are told agrees with the database: a POST with an id is idempotent,
\* and whoever follows the links of a listing misses nothing.
AnswersAreTrue == PostIsIdempotent /\ ListsEachOnce
=============================================================================
