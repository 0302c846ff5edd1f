-------------------------------- MODULE Sharing --------------------------------
(***************************************************************************)
(* One workflow definition, the projects it is shared with, and the cron   *)
(* and event triggers that start it.  A private definition is visible to   *)
(* its owner and to the members that accepted it, a public one to all.  A  *)
(* trigger starts the workflow with the rights of the project it is of.    *)
(***************************************************************************)
EXTENDS Transactions

CONSTANTS Project, Owner,     (* Owner created the definition                *)
          Trigger             (* cron and event triggers                     *)

Nobody == "nobody"

ASSUME SharingAssumption == Owner \in Project /\ Nobody \notin Project

VARIABLES
    scope,       \* of the row: "private", "public", or "gone" without a row
    membership,  \* Project -> "none", "pending", "accepted", "rejected"
    trigger,     \* Trigger -> its project, or Nobody
    raced,       \* triggers that were created while the scope was being changed
    withdrawn    \* triggers whose project was an accepted member and is no more

sharingVars == <<scope, membership, trigger, raced, withdrawn>>

SharingTypeOK ==
    /\ scope \in {"private", "public", "gone"}
    /\ membership \in [Project -> {"none", "pending", "accepted", "rejected"}]
    /\ trigger \in [Trigger -> Project \cup {Nobody}]
    /\ raced \subseteq Trigger /\ withdrawn \subseteq Trigger

SharingInit ==
    /\ scope \in IF \E w \in {"share", "trigger"} : left[w] > 0
                 THEN {"private", "public"} ELSE {"private"}
    /\ membership = [x \in Project |-> "none"]
    /\ trigger = [t \in Trigger |-> Nobody]
    /\ raced = {} /\ withdrawn = {}

\* _secure_query: the row belongs to the project, is public, or was accepted.
Sees(x) == /\ scope # "gone"
           /\ x = Owner \/ scope = "public" \/ membership[x] = "accepted"

TriggersOf(x) == {t \in Trigger : trigger[t] = x}
Foreign       == {t \in Trigger : trigger[t] \notin {Owner, Nobody}}

-----------------------------------------------------------------------------
(* PUT /workflows with another scope, and DELETE /workflows.                *)

Reads(p, what) ==
    /\ scope # "gone" /\ scope # what
    /\ Spend("share")
    /\ Open(p, [kind |-> "write", what |-> what, stage |-> "loaded", known |-> {}, locks |-> {}])
    /\ UNCHANGED sharingVars

\* The triggers that forbid the write.
BlockingNone(what) == {}                          \* mutant: the check is dropped
Blocking(what) == CASE what = "private" -> Foreign
                    [] what = "gone"    -> {t \in Trigger : trigger[t] # Nobody}
                    [] what = "public"  -> {}

CheckTriggers(p) ==
    /\ tx[p].kind = "write" /\ tx[p].stage = "loaded"
    /\ IF Blocking(tx[p].what) = {}
       THEN Change(p, [tx[p] EXCEPT !.stage = "checked", !.known = Foreign])
       ELSE Close(p)
    /\ UNCHANGED <<sharingVars, left>>

\* The members of a deleted definition are deleted with it; the foreign keys of
\* the triggers refuse the deletion if one was created since the check.
CommitWrite(p) ==
    /\ tx[p].kind = "write" /\ tx[p].stage = "checked"
    /\ IF scope = "gone" \/ (tx[p].what = "gone" /\ \E t \in Trigger : trigger[t] # Nobody)
       THEN UNCHANGED <<scope, membership, raced>>
       ELSE /\ scope' = tx[p].what
            /\ membership' = IF tx[p].what = "gone" THEN [x \in Project |-> "none"]
                                                    ELSE membership
            /\ raced' = IF tx[p].what = "private" THEN raced \cup (Foreign \ tx[p].known)
                                                  ELSE raced
    /\ Close(p)
    /\ UNCHANGED <<trigger, withdrawn, left>>

-----------------------------------------------------------------------------
(* Members.                                                                 *)

\* POST /workflows/<id>/members by the owner.
Share(p, x) ==
    /\ tx[p] = NoTx
    /\ scope = "private" /\ x # Owner /\ membership[x] = "none"
    /\ Spend("share")
    /\ membership' = [membership EXCEPT ![x] = "pending"]
    /\ UNCHANGED <<scope, trigger, raced, withdrawn, tx>>

Withdrawn(x) == IF membership[x] = "accepted" THEN TriggersOf(x) ELSE {}

\* PUT members/<id> by the member: it may also take its word back.
SetStatus(p, x, status) ==
    /\ tx[p] = NoTx
    /\ membership[x] \notin {"none", status}
    /\ Spend("share")
    /\ withdrawn' = withdrawn \cup Withdrawn(x)
    /\ membership' = [membership EXCEPT ![x] = status]
    /\ UNCHANGED <<scope, trigger, raced, tx>>

\* DELETE members/<id> by the owner; the triggers of the member are not checked.
Unshare(p, x) ==
    /\ tx[p] = NoTx
    /\ membership[x] # "none"
    /\ Spend("share")
    /\ withdrawn' = withdrawn \cup Withdrawn(x)
    /\ membership' = [membership EXCEPT ![x] = "none"]
    /\ UNCHANGED <<scope, trigger, raced, tx>>

-----------------------------------------------------------------------------
(* Triggers: the definition is looked up with the rights of the project,    *)
(* and the trigger is stored in the same transaction.                       *)

Visible(x) == Sees(x)

FindWorkflow(p, t, x) ==
    /\ trigger[t] = Nobody /\ Visible(x)
    /\ \A q \in Running("trigger") : tx[q].trigger # t
    /\ Spend("trigger")
    /\ Open(p, [kind |-> "trigger", trigger |-> t, project |-> x, found |-> scope,
                member |-> membership[x], locks |-> {}])
    /\ UNCHANGED sharingVars

StoreTrigger(p) ==
    /\ tx[p].kind = "trigger"
    /\ LET t == tx[p].trigger
           x == tx[p].project
       IN /\ trigger' = IF scope = "gone" THEN trigger ELSE [trigger EXCEPT ![t] = x]
          /\ raced' = IF <<scope, membership[x]>> # <<tx[p].found, tx[p].member>>
                      THEN raced \cup {t} ELSE raced
    /\ Close(p)
    /\ UNCHANGED <<scope, membership, withdrawn, left>>

RemoveTrigger(p, t) ==
    /\ tx[p] = NoTx /\ trigger[t] # Nobody
    /\ Spend("trigger")
    /\ trigger' = [trigger EXCEPT ![t] = Nobody]
    /\ raced' = raced \ {t} /\ withdrawn' = withdrawn \ {t}
    /\ UNCHANGED <<scope, membership, tx>>

SharingStep(p) ==
    \/ \E what \in {"private", "public", "gone"} : Reads(p, what)
    \/ CheckTriggers(p) \/ CommitWrite(p)
    \/ \E x \in Project : \/ Share(p, x) \/ Unshare(p, x)
                          \/ \E s \in {"accepted", "rejected"} : SetStatus(p, x, s)
                          \/ \E t \in Trigger : FindWorkflow(p, t, x)
    \/ StoreTrigger(p) \/ \E t \in Trigger : RemoveTrigger(p, t)

-----------------------------------------------------------------------------
\* A trigger can start its workflow: its project sees the definition, which is
\* why update_workflow_definition and delete_workflow_definition look for
\* triggers.  Excepted are the triggers that were created while the scope was
\* changed, and those of a project whose membership ended (the TODO in
\* delete_resource_member).
TriggersCanStart ==
    \A t \in Trigger \ (raced \cup withdrawn) : trigger[t] # Nobody => Sees(trigger[t])
=============================================================================
