------------------------------- MODULE Workbooks -------------------------------
(***************************************************************************)
(* A workbook and the actions and workflows that are created from it.  The *)
(* workbook is a row with the whole document; every member of the document *)
(* is also a row of its own, found by the name "workbook.member", and that *)
(* row is what the engine runs.  A document is abstracted to the version   *)
(* of each member in it, 0 for a member it does not have.                  *)
(***************************************************************************)
EXTENDS Transactions

CONSTANTS Actions, Workflows,   (* the members a document may have           *)
          Documents             (* the documents that clients send           *)

Members == Actions \cup Workflows

Wb == <<"workbook">>                 \* the lock on the row of the workbook

ASSUME WorkbooksAssumption == Documents \subseteq [Members -> Nat] /\ Wb \notin Members

VARIABLES
    workbook,      \* the document of the row, NoDocument when there is no row
    member,        \* Members -> Nat: the version of the row, 0 for no row
    edited,        \* SUBSET Members: rows changed past the workbook since
    resubmitted    \* a PUT of the document a client had read met another PUT

workbookVars == <<workbook, member, edited, resubmitted>>

NoDocument == [m \in Members |-> 0]

WorkbookTypeOK ==
    /\ workbook \in Documents \cup {NoDocument}
    /\ member \in [Members -> Nat] /\ edited \subseteq Members
    /\ resubmitted \in BOOLEAN

WorkbookInit ==
    /\ workbook = NoDocument /\ member = NoDocument
    /\ edited = {} /\ resubmitted = FALSE

Of(document) == {m \in Members : document[m] # 0}

Transaction(stage, document, read) ==
    [kind |-> "workbook", stage |-> stage, document |-> document, read |-> read,
     seen |-> <<>>, todo |-> Of(document), written |-> {}, locks |-> {}]

-----------------------------------------------------------------------------
(* Requests.  Every handler is one transaction.                             *)

\* POST /workbooks: the row is inserted at once and the unique key refuses a
\* second one.
CreateWorkbook(p, document) ==
    /\ workbook = NoDocument /\ Free(p, Wb)
    /\ Spend("workbook")
    /\ Open(p, [Transaction("members", document, NoDocument) EXCEPT !.locks = {Wb}])
    /\ UNCHANGED workbookVars

\* PUT /workbooks loads the row; the change is flushed before the next query.
UpdateWorkbook(p, document) ==
    /\ workbook # NoDocument
    /\ Spend("workbook")
    /\ Open(p, Transaction("loaded", document, workbook))
    /\ UNCHANGED workbookVars

\* The ORM writes the row only if the document differs from the loaded one;
\* only then is the row locked.
Flush(p) ==
    /\ tx[p].kind = "workbook" /\ tx[p].stage = "loaded"
    /\ \/ /\ tx[p].document # tx[p].read
          /\ Free(p, Wb) /\ workbook # NoDocument
          /\ Change(p, [tx[p] EXCEPT !.stage = "members", !.locks = @ \cup {Wb}])
       \/ /\ tx[p].document = tx[p].read
          /\ Change(p, [tx[p] EXCEPT !.stage = "members"])
    /\ UNCHANGED <<workbookVars, left>>

\* Actions are handled before workflows.
NextMembers(t) == IF t.todo \cap Actions # {} THEN t.todo \cap Actions ELSE t.todo

\* create_or_update_*_definition looks for the member's row.
LookUpMember(p, m) ==
    /\ tx[p].kind = "workbook" /\ tx[p].stage = "members"
    /\ m \in NextMembers(tx[p])
    /\ Change(p, [tx[p] EXCEPT !.stage = "member", !.seen = <<m, member[m]>>])
    /\ UNCHANGED <<workbookVars, left>>

\* What the second statement does with the row the first one has seen.
ToWriteIfMissing(version, seen) == seen = 0       \* mutant: rows are only created
ToWrite(version, seen) == seen # version

StoreMember(p) ==
    /\ tx[p].kind = "workbook" /\ tx[p].stage = "member"
    /\ LET m == tx[p].seen[1]
           seen == tx[p].seen[2]
           done == [tx[p] EXCEPT !.stage = "members", !.todo = @ \ {m}]
       IN \/ /\ ToWrite(tx[p].document[m], seen)
             /\ Free(p, m)
             /\ (seen = 0) <=> (member[m] = 0)    \* else a duplicate or a lost row
             /\ Change(p, [done EXCEPT !.written = @ \cup {m}, !.locks = @ \cup {m}])
          \/ /\ ~ToWrite(tx[p].document[m], seen)
             /\ Change(p, done)
    /\ UNCHANGED <<workbookVars, left>>

CommitWorkbook(p) ==
    /\ tx[p].kind = "workbook" /\ tx[p].stage = "members" /\ tx[p].todo = {}
    /\ LET t == tx[p] IN
       /\ workbook' = IF Wb \in t.locks THEN t.document ELSE workbook
       /\ member' = [m \in Members |-> IF m \in t.written THEN t.document[m] ELSE member[m]]
       /\ edited' = edited \ t.written
       /\ resubmitted' = \/ resubmitted
                         \/ /\ Wb \notin t.locks
                            /\ workbook # t.document \/ Running("workbook") # {p}
    /\ Close(p)
    /\ UNCHANGED left

\* The row of a member appeared or went away between the two statements, or the
\* workbook was deleted: the handler fails and nothing of it remains.
Stale(t) ==
    \/ /\ t.stage = "loaded" /\ t.document # t.read /\ workbook = NoDocument
    \/ /\ t.stage = "member" /\ ToWrite(t.document[t.seen[1]], t.seen[2])
       /\ (t.seen[2] = 0) # (member[t.seen[1]] = 0)

\* Two transactions wait for each other: the database fails one of them.
Waits(p, q) ==
    LET row == IF tx[p].stage = "loaded" THEN Wb ELSE tx[p].seen[1] IN
    tx[p].kind = "workbook" /\ tx[p].stage \in {"loaded", "member"} /\ row \in tx[q].locks

RollBackWorkbook(p) ==
    /\ tx[p].kind = "workbook"
    /\ \/ (Stale(tx[p]) \/ \E q \in Process : Waits(p, q) /\ Waits(q, p)) /\ UNCHANGED left
       \/ Spend("fault")
    /\ Close(p)
    /\ UNCHANGED workbookVars

\* DELETE /workbooks removes the row of the workbook alone.
DeleteWorkbook(p) ==
    /\ tx[p] = NoTx /\ workbook # NoDocument /\ Free(p, Wb)
    /\ Spend("edit")
    /\ workbook' = NoDocument
    /\ UNCHANGED <<member, edited, resubmitted, tx>>

\* PUT or DELETE /workflows (or /actions) for a member of the workbook.
EditMember(p, m, version) ==
    /\ tx[p] = NoTx /\ member[m] \notin {0, version} /\ Free(p, m)
    /\ Spend("edit")
    /\ member' = [member EXCEPT ![m] = version]
    /\ edited' = edited \cup {m}
    /\ UNCHANGED <<workbook, resubmitted, tx>>

WorkbookStep(p) ==
    \/ \E d \in Documents : CreateWorkbook(p, d) \/ UpdateWorkbook(p, d)
    \/ Flush(p) \/ \E m \in Members : LookUpMember(p, m)
    \/ StoreMember(p) \/ CommitWorkbook(p) \/ RollBackWorkbook(p)
    \/ DeleteWorkbook(p)
    \/ \E m \in Members, d \in Documents \cup {NoDocument} : EditMember(p, m, d[m])

-----------------------------------------------------------------------------
\* What the engine would run is what the workbook says: between requests every
\* member of the document has a row of the same version (workbooks.py updates
\* them in one transaction), unless the row was edited on its own, or a PUT of an
\* unchanged document, which locks nothing, overlapped another PUT.
MembersFollowWorkbook ==
    (Running("workbook") = {} /\ ~resubmitted) =>
        \A m \in Of(workbook) \ edited : member[m] = workbook[m]
=============================================================================
