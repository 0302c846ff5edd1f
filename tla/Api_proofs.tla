------------------------------- MODULE Api_proofs -------------------------------
(***************************************************************************)
(* Proofs about Api.  Its six parts share the transactions: a step of one  *)
(* part opens, changes or closes a transaction of its own kinds and leaves *)
(* the others', which lets each part have an invariant of its own.         *)
(***************************************************************************)
EXTENDS Api, FiniteSetTheorems, SequenceTheorems, WellFoundedInduction, TLAPS

-----------------------------------------------------------------------------
(* Transactions.                                                            *)

BookFields == [kind : {"workbook"}, stage : {"loaded", "members", "member"},
               document : Documents, read : Documents \cup {NoDocument},
               seen : {<<>>} \cup (Members \X Nat), todo : SUBSET Members,
               written : SUBSET Members, locks : SUBSET ({Wb} \cup Members)]
BookTx == {t \in BookFields : t.stage = "member" => t.seen \in Members \X Nat}

CodeTx == [kind : {"code"}, row : [id : Nat, text : Nat, version : Nat],
           text : Nat, locks : {{}}]

FindTx == [kind : {"find", "found"}, id : Nat, version : Nat, locks : {{}}]

WriteTx == [kind : {"write"}, what : {"private", "public", "gone"},
            stage : {"loaded", "checked"}, known : SUBSET Trigger, locks : {{}}]

TriggerTx == [kind : {"trigger"}, trigger : Trigger, project : Project,
              found : {"private", "public"},
              member : {"none", "pending", "accepted", "rejected"}, locks : {{}}]

StartTx == [kind : {"start"}, stage : {"loaded", "created"}, client : Client,
            id : ExecutionId, spec : Nat, row : Nat, locks : SUBSET ExecutionId]

ListTx == [kind : {"list"}, rows : SUBSET Row, locks : {{}}]

JoinTx == [kind : {"dispatch"}, of : SUBSET Inbound,
           cmds : SUBSET (Join \cup {Plain}), cmd : Join \cup {Plain},
           step : {"check", "lock", "locked"}, made : SUBSET Join,
           locks : SUBSET {UniqueKey(j) : j \in Join \cup {Plain}}]

AnyTx == {NoTx} \cup BookTx \cup CodeTx \cup FindTx \cup WriteTx \cup TriggerTx
         \cup StartTx \cup ListTx \cup JoinTx

BookKinds  == {"workbook"}
CodeKinds  == {"code", "find", "found"}
ShareKinds == {"write", "trigger"}
StartKinds == {"start"}
ListKinds  == {"list"}
JoinKinds  == {"dispatch"}

\* The kind of a transaction tells its other fields.
LEMMA KindTells ==
    ASSUME NEW t \in AnyTx
    PROVE  /\ t.kind = "workbook" => t \in BookTx
           /\ t.kind = "code" => t \in CodeTx
           /\ t.kind \in {"find", "found"} => t \in FindTx
           /\ t.kind = "write" => t \in WriteTx
           /\ t.kind = "trigger" => t \in TriggerTx
           /\ t.kind = "start" => t \in StartTx
           /\ t.kind = "list" => t \in ListTx
           /\ t.kind = "dispatch" => t \in JoinTx
           /\ t.kind = "none" => t = NoTx
  BY DEF AnyTx, NoTx, BookTx, BookFields, CodeTx, FindTx, WriteTx, TriggerTx, StartTx, ListTx, JoinTx

TxOK == left \in [What -> Nat] /\ tx \in [Process -> AnyTx]

LocksOK == \A p, q \in Process : p # q => tx[p].locks \cap tx[q].locks = {}

\* A step that only touches transactions of the kinds K.
Moves(K) == \A q \in Process : \/ tx'[q] = tx[q]
                               \/ /\ tx[q].kind \in K \cup {"none"}
                                  /\ tx'[q].kind \in K \cup {"none"}

\* A process's locks after a step: what it had, and a row that was free.
Acquires(p) == /\ \A q \in Process \ {p} : tx'[q] = tx[q]
               /\ \E row : /\ tx'[p].locks \subseteq tx[p].locks \cup {row}
                           /\ Free(p, row) \/ tx'[p].locks \subseteq tx[p].locks

\* What is left of a budget stays a natural number.
LEMMA Spent ==
    ASSUME left \in [What -> Nat], NEW w, Spend(w)
    PROVE  left' \in [What -> Nat]
  <1>1. CASE w \in What
    BY <1>1 DEF Spend
  <1>2. CASE w \notin What
    BY <1>2 DEF Spend
  <1> QED BY <1>1, <1>2

\* Locks stay exclusive when one process takes free rows.
LEMMA LocksKept ==
    ASSUME NEW p \in Process, LocksOK, Acquires(p)
    PROVE  LocksOK'
  BY DEF LocksOK, Acquires, Free


-----------------------------------------------------------------------------
(* Workbooks.                                                               *)

\* What a workbook's step does to transactions, and the types of its state.
LEMMA BookMoves ==
    ASSUME TxOK, WorkbookTypeOK, NEW p \in Process, WorkbookStep(p)
    PROVE  /\ TxOK' /\ WorkbookTypeOK'
           /\ Moves(BookKinds) /\ Acquires(p)
  <1> USE WorkbooksAssumption DEF TxOK, WorkbookTypeOK, Moves, BookKinds, Acquires,
        workbookVars
  <1>0. /\ tx[p] \in AnyTx /\ NoTx \in AnyTx /\ NoDocument \in [Members -> Nat]
        /\ tx[p].kind = "workbook" => tx[p] \in BookTx
        /\ BookTx \subseteq AnyTx
        /\ NoTx.kind = "none" /\ NoTx.locks = {}
    BY KindTells DEF AnyTx, NoTx, NoDocument
  <1>1. ASSUME NEW d \in Documents, CreateWorkbook(p, d) PROVE TxOK' /\ WorkbookTypeOK'
           /\ Moves(BookKinds) /\ Acquires(p)
    <2> DEFINE t == [Transaction("members", d, NoDocument) EXCEPT !.locks = {Wb}]
    <2>1. t \in BookTx /\ t.kind = "workbook" /\ t.locks = {Wb}
      BY DEF Transaction, BookTx, BookFields, Of
    <2>2. tx' = [tx EXCEPT ![p] = t] /\ Free(p, Wb) /\ tx[p] = NoTx
      BY <1>1 DEF CreateWorkbook, Open
    <2> HIDE DEF t
    <2> QED BY <1>0, <1>1, <2>1, <2>2, Spent DEF CreateWorkbook
  <1>2. ASSUME NEW d \in Documents, UpdateWorkbook(p, d) PROVE TxOK' /\ WorkbookTypeOK'
           /\ Moves(BookKinds) /\ Acquires(p)
    <2> DEFINE t == Transaction("loaded", d, workbook)
    <2>1. t \in BookTx /\ t.kind = "workbook" /\ t.locks = {}
      BY DEF Transaction, BookTx, BookFields, Of
    <2>2. tx' = [tx EXCEPT ![p] = t] /\ tx[p] = NoTx
      BY <1>2 DEF UpdateWorkbook, Open
    <2> HIDE DEF t
    <2> QED BY <1>0, <1>2, <2>1, <2>2, Spent DEF UpdateWorkbook
  <1>3. CASE Flush(p)
    <2> DEFINE t == [tx[p] EXCEPT !.stage = "members"]
               u == [tx[p] EXCEPT !.stage = "members", !.locks = @ \cup {Wb}]
    <2>1. /\ t \in BookTx /\ t.kind = "workbook" /\ t.locks = tx[p].locks
          /\ u \in BookTx /\ u.kind = "workbook" /\ u.locks = tx[p].locks \cup {Wb}
      BY <1>0, <1>3 DEF Flush, BookTx, BookFields
    <2>2. \/ tx' = [tx EXCEPT ![p] = t]
          \/ tx' = [tx EXCEPT ![p] = u] /\ Free(p, Wb)
      BY <1>3 DEF Flush, Change
    <2> HIDE DEF t, u
    <2> QED BY <1>0, <1>3, <2>1, <2>2 DEF Flush
  <1>4. ASSUME NEW m \in Members, LookUpMember(p, m) PROVE TxOK' /\ WorkbookTypeOK'
           /\ Moves(BookKinds) /\ Acquires(p)
    <2> DEFINE t == [tx[p] EXCEPT !.stage = "member", !.seen = <<m, member[m]>>]
    <2>1. t \in BookTx /\ t.kind = "workbook" /\ t.locks = tx[p].locks
      BY <1>0, <1>4 DEF LookUpMember, BookTx, BookFields
    <2>2. tx' = [tx EXCEPT ![p] = t]
      BY <1>4 DEF LookUpMember, Change
    <2> HIDE DEF t
    <2> QED BY <1>0, <1>4, <2>1, <2>2 DEF LookUpMember
  <1>5. CASE StoreMember(p)
    <2> DEFINE m == tx[p].seen[1]
               t == [tx[p] EXCEPT !.stage = "members", !.todo = @ \ {m}]
               u == [t EXCEPT !.written = @ \cup {m}, !.locks = @ \cup {m}]
    <2>0. tx[p] \in BookTx /\ m \in Members
      BY <1>0, <1>5 DEF StoreMember, BookTx
    <2>1. t \in BookTx /\ t.kind = "workbook" /\ t.locks = tx[p].locks
      BY <2>0 DEF BookTx, BookFields
    <2>2. u \in BookTx /\ u.kind = "workbook" /\ u.locks = tx[p].locks \cup {m}
      BY <2>0 DEF BookTx, BookFields
    <2>3. \/ tx' = [tx EXCEPT ![p] = t]
          \/ tx' = [tx EXCEPT ![p] = u] /\ Free(p, m)
      BY <1>5 DEF StoreMember, Change
    <2> HIDE DEF t, u
    <2> QED BY <1>0, <1>5, <2>1, <2>2, <2>3 DEF StoreMember
  <1>6. CASE CommitWorkbook(p)
    <2>1. /\ workbook' \in Documents \cup {NoDocument} /\ member' \in [Members -> Nat]
          /\ edited' \subseteq Members /\ resubmitted' \in BOOLEAN
      BY <1>0, <1>6 DEF CommitWorkbook, BookTx, BookFields
    <2> QED BY <1>0, <1>6, <2>1 DEF CommitWorkbook, Close
  <1>7. CASE RollBackWorkbook(p)
    BY <1>0, <1>7, Spent DEF RollBackWorkbook, Close
  <1>8. CASE DeleteWorkbook(p)
    <2>1. tx' = tx /\ left' \in [What -> Nat] /\ WorkbookTypeOK'
      BY <1>0, <1>8, Spent DEF DeleteWorkbook
    <2> QED BY <2>1
  <1>9. ASSUME NEW m \in Members, NEW d \in Documents \cup {NoDocument},
               EditMember(p, m, d[m])
        PROVE TxOK' /\ WorkbookTypeOK' /\ Moves(BookKinds) /\ Acquires(p)
    <2>1. tx' = tx /\ left' \in [What -> Nat] /\ WorkbookTypeOK'
      BY <1>0, <1>9, Spent DEF EditMember
    <2> QED BY <2>1
  <1> QED
    BY <1>1, <1>2, <1>3, <1>4, <1>5, <1>6, <1>7, <1>8, <1>9 DEF WorkbookStep


\* The members have the versions of a document, but for the rows that were edited on
\* their own and those of S.
Agree(document, S) == \A m \in Of(document) \ (edited \cup S) : member[m] = document[m]

\* A transaction that holds the row of the workbook: what it is done with agrees with
\* its document, and what it has seen of a member is still so.
BookTxKept(p) ==
    /\ tx[p].written \subseteq tx[p].locks
    /\ tx[p].stage = "loaded" => tx[p].todo = Of(tx[p].document) /\ tx[p].written = {}
    /\ (~resubmitted /\ Wb \in tx[p].locks) =>
           /\ Agree(tx[p].document, tx[p].todo \cup tx[p].written)
           /\ tx[p].stage = "member" => \/ tx[p].seen[1] \in edited
                                        \/ tx[p].seen[2] = member[tx[p].seen[1]]

BookKept == /\ ~resubmitted => Agree(workbook, {})
            /\ \A p \in Process : tx[p].kind = "workbook" => BookTxKept(p)

\* A step of another part keeps the invariant of workbooks.
LEMMA BookFrame ==
    ASSUME BookKept, UNCHANGED workbookVars,
           \A q \in Process : tx'[q].kind = "workbook" => tx'[q] = tx[q]
    PROVE  BookKept'
  BY DEF BookKept, BookTxKept, workbookVars, Agree

\* A commit leaves the members as the document that is stored says: a transaction
\* that did not lock the workbook and met another one is recorded as such.
LEMMA CommitKeeps ==
    ASSUME TxOK, LocksOK, WorkbookTypeOK, BookKept, NEW p \in Process, CommitWorkbook(p)
    PROVE  BookKept'
  <1> USE WorkbooksAssumption DEF TxOK, WorkbookTypeOK
  <1> DEFINE t == tx[p]
  <1>0. t \in BookFields /\ BookTxKept(p) /\ t.todo = {} /\ t.kind = "workbook"
        /\ t.document \in [Members -> Nat] /\ t.written \subseteq Members
    BY KindTells DEF CommitWorkbook, BookKept, BookTx, BookFields
  <1>1. /\ workbook' = IF Wb \in t.locks THEN t.document ELSE workbook
        /\ member' = [m \in Members |-> IF m \in t.written THEN t.document[m] ELSE member[m]]
        /\ edited' = edited \ t.written
        /\ tx' = [tx EXCEPT ![p] = NoTx]
    BY DEF CommitWorkbook, Close
  <1>2. ASSUME ~resubmitted' PROVE /\ ~resubmitted
                                   /\ Wb \notin t.locks => workbook = t.document
                                   /\ \A q \in Process \ {p} :
                                        tx[q].kind = "workbook" => Wb \notin tx[q].locks
    <2>1. /\ ~resubmitted
          /\ Wb \notin t.locks => workbook = t.document /\ Running("workbook") = {p}
      BY <1>2 DEF CommitWorkbook
    <2> QED BY <2>1 DEF LocksOK, Running
  <1>3. ASSUME ~resubmitted' PROVE Agree(workbook, {})'
    <2>1. workbook' = t.document
      BY <1>1, <1>2, <1>3
    <2>2. \A m \in Of(t.document) \ (edited \cup t.written) : member[m] = t.document[m]
      BY <1>0, <1>2, <1>3 DEF BookTxKept, Agree, BookKept
    <2>3. \A m \in Members : member'[m] = IF m \in t.written THEN t.document[m] ELSE member[m]
      BY <1>1
    <2> HIDE DEF t
    <2> QED BY <1>0, <1>1, <2>1, <2>2, <2>3 DEF Agree, Of
  <1>4. ASSUME NEW q \in Process, tx'[q].kind = "workbook" PROVE BookTxKept(q)'
    <2>1. q # p /\ tx'[q] = tx[q]
      BY <1>1, <1>4 DEF NoTx
    <2>2. BookTxKept(q)
      BY <1>4, <2>1 DEF BookKept
    <2>3. ~resubmitted' => Wb \notin tx[q].locks
      BY <1>2, <1>4, <2>1
    <2> QED BY <2>1, <2>2, <2>3 DEF BookTxKept, Of
  <1> QED BY <1>3, <1>4 DEF BookKept

\* Workbooks keep their invariant.
LEMMA BookNext ==
    ASSUME TxOK, LocksOK, WorkbookTypeOK, BookKept, NEW p \in Process, WorkbookStep(p)
    PROVE  BookKept'
  <1> USE WorkbooksAssumption DEF TxOK, WorkbookTypeOK, workbookVars
  <1>0. /\ tx[p].kind = "workbook" => tx[p] \in BookTx /\ tx[p] \in BookFields /\ BookTxKept(p)
        /\ NoTx.kind = "none"
        /\ \A q \in Process : tx[q].kind = "workbook" => BookTxKept(q)
    BY KindTells DEF NoTx, BookTx, BookKept
  <1>a. ASSUME UNCHANGED workbookVars, NEW t, tx' = [tx EXCEPT ![p] = t],
               t.kind = "workbook" => BookTxKept(p)'
        PROVE  BookKept'
    <2>1. ASSUME NEW q \in Process \ {p}, tx'[q].kind = "workbook" PROVE BookTxKept(q)'
      <3>1. tx'[q] = tx[q]
        BY <1>a
      <3> QED BY <1>0, <1>a, <2>1, <3>1 DEF BookTxKept, Agree
    <2>2. tx'[p] = t
      BY <1>a
    <2> QED BY <1>a, <2>1, <2>2 DEF BookKept, Agree
  <1>1. ASSUME NEW d \in Documents, CreateWorkbook(p, d) PROVE BookKept'
    <2> DEFINE t == [Transaction("members", d, NoDocument) EXCEPT !.locks = {Wb}]
    <2>1. tx' = [tx EXCEPT ![p] = t] /\ UNCHANGED workbookVars
      BY <1>1 DEF CreateWorkbook, Open
    <2>2. /\ t.written = {} /\ t.stage = "members" /\ t.todo = Of(d) /\ t.document = d
      BY DEF Transaction
    <2>3. BookTxKept(p)'
      <3> HIDE DEF t
      <3> QED BY <2>1, <2>2 DEF BookTxKept, Agree, Of
    <2> QED BY <1>a, <2>1, <2>3
  <1>2. ASSUME NEW d \in Documents, UpdateWorkbook(p, d) PROVE BookKept'
    <2> DEFINE t == Transaction("loaded", d, workbook)
    <2>1. tx' = [tx EXCEPT ![p] = t] /\ UNCHANGED workbookVars
      BY <1>2 DEF UpdateWorkbook, Open
    <2>2. /\ t.written = {} /\ t.stage = "loaded" /\ t.todo = Of(d) /\ t.document = d
          /\ t.locks = {}
      BY DEF Transaction
    <2>3. BookTxKept(p)'
      <3> HIDE DEF t
      <3> QED BY <2>1, <2>2 DEF BookTxKept, Agree, Of
    <2> QED BY <1>a, <2>1, <2>3
  <1>3. CASE Flush(p)
    <2> DEFINE t == [tx[p] EXCEPT !.stage = "members"]
               u == [tx[p] EXCEPT !.stage = "members", !.locks = @ \cup {Wb}]
    <2>0. tx[p] \in BookFields /\ BookTxKept(p) /\ tx[p].stage = "loaded"
      BY <1>0, <1>3 DEF Flush
    <2>1. /\ t.written = {} /\ t.stage = "members" /\ t.todo = Of(t.document)
          /\ u.written = {} /\ u.stage = "members" /\ u.todo = Of(u.document)
      BY <2>0 DEF BookFields, BookTxKept
    <2>2. (tx' = [tx EXCEPT ![p] = t] \/ tx' = [tx EXCEPT ![p] = u]) /\ UNCHANGED workbookVars
      BY <1>3 DEF Flush, Change
    <2> HIDE DEF t, u
    <2>3. BookTxKept(p)'
      BY <2>1, <2>2 DEF BookTxKept, Agree, Of
    <2> QED BY <1>a, <2>2, <2>3
  <1>4. ASSUME NEW m \in Members, LookUpMember(p, m) PROVE BookKept'
    <2> DEFINE t == [tx[p] EXCEPT !.stage = "member", !.seen = <<m, member[m]>>]
    <2>0. tx[p] \in BookFields /\ BookTxKept(p)
      BY <1>0, <1>4 DEF LookUpMember
    <2>1. /\ t.written = tx[p].written /\ t.stage = "member" /\ t.locks = tx[p].locks
          /\ t.document = tx[p].document /\ t.todo = tx[p].todo
          /\ t.seen[1] = m /\ t.seen[2] = member[m]
      BY <2>0 DEF BookFields
    <2>2. tx' = [tx EXCEPT ![p] = t] /\ UNCHANGED workbookVars
      BY <1>4 DEF LookUpMember, Change
    <2> HIDE DEF t
    <2>3. BookTxKept(p)'
      BY <2>0, <2>1, <2>2 DEF BookTxKept, Agree, Of
    <2> QED BY <1>a, <2>2, <2>3
  <1>5. CASE StoreMember(p)
    <2> DEFINE m == tx[p].seen[1]
               t == [tx[p] EXCEPT !.stage = "members", !.todo = @ \ {m}]
               u == [t EXCEPT !.written = @ \cup {m}, !.locks = @ \cup {m}]
    <2>0. tx[p] \in BookFields /\ BookTxKept(p) /\ tx[p].stage = "member" /\ m \in Members
      BY <1>0, <1>5 DEF StoreMember, BookTx
    <2>1. /\ t.written = tx[p].written /\ t.stage = "members" /\ t.locks = tx[p].locks
          /\ t.document = tx[p].document /\ t.todo = tx[p].todo \ {m}
          /\ u.written = tx[p].written \cup {m} /\ u.stage = "members"
          /\ u.locks = tx[p].locks \cup {m}
          /\ u.document = tx[p].document /\ u.todo = tx[p].todo \ {m}
      BY <2>0 DEF BookFields
    <2>2. /\ UNCHANGED workbookVars
          /\ \/ tx' = [tx EXCEPT ![p] = t] /\ tx[p].document[m] = tx[p].seen[2]
             \/ tx' = [tx EXCEPT ![p] = u]
      BY <1>5 DEF StoreMember, Change, ToWrite
    <2>3. Wb # m
      BY <2>0 DEF Members
    <2> HIDE DEF t, u
    <2>4. BookTxKept(p)'
      <3>1. CASE tx' = [tx EXCEPT ![p] = u]
        <4>1. tx'[p] = u
          BY <3>1
        <4> QED BY <2>0, <2>1, <2>2, <2>3, <4>1 DEF BookTxKept, Agree, Of
      <3>2. CASE tx' = [tx EXCEPT ![p] = t] /\ tx[p].document[m] = tx[p].seen[2]
        <4>1. tx'[p] = t
          BY <3>2
        <4> QED BY <2>0, <2>1, <2>2, <3>2, <4>1 DEF BookTxKept, Agree, Of
      <3> QED BY <2>2, <3>1, <3>2
    <2> QED BY <1>a, <2>2, <2>4
  <1>6. CASE CommitWorkbook(p)
    BY <1>6, CommitKeeps
  <1>7. CASE RollBackWorkbook(p)
    BY <1>0, <1>7, <1>a DEF RollBackWorkbook, Close
  <1>8. CASE DeleteWorkbook(p)
    <2>1. Of(NoDocument) = {}
      BY DEF Of, NoDocument
    <2> QED BY <1>0, <1>8, <2>1 DEF DeleteWorkbook, BookKept, BookTxKept, Agree
  <1>9. ASSUME NEW m \in Members, NEW d \in Documents \cup {NoDocument},
               EditMember(p, m, d[m])
        PROVE BookKept'
    <2>1. /\ tx' = tx /\ workbook' = workbook /\ resubmitted' = resubmitted
          /\ edited' = edited \cup {m}
          /\ \A n \in Members \ {m} : member'[n] = member[n]
      BY <1>9 DEF EditMember
    <2>2. \A document, S : Agree(document, S) => Agree(document, S)'
      BY <2>1 DEF Agree, Of
    <2>3. ASSUME NEW q \in Process, tx[q].kind = "workbook" PROVE BookTxKept(q)'
      <3>1. tx[q] \in BookTx /\ BookTxKept(q)
        BY <1>0, <2>3, KindTells
      <3> QED BY <2>1, <2>2, <3>1 DEF BookTxKept, BookTx
    <2> QED BY <2>1, <2>2, <2>3 DEF BookKept
  <1> QED
    BY <1>1, <1>2, <1>3, <1>4, <1>5, <1>6, <1>7, <1>8, <1>9 DEF WorkbookStep


-----------------------------------------------------------------------------
(* Code sources.                                                            *)

CodeTyped(p) == TxOK' /\ CodeTypeOK' /\ Moves(CodeKinds) /\ Acquires(p)

\* A transaction on a code source refers to a source and texts that exist.
RefersToSource ==
    \A p \in Process :
        /\ tx[p].kind = "code" => /\ tx[p].text <= texts /\ tx[p].row.id \in 1..created
                                  /\ tx[p].row.text <= texts
        /\ tx[p].kind \in {"find", "found"} => tx[p].id \in 1..created

\* What a step of code sources does to transactions, and the types of its state.
LEMMA CodeMoves ==
    ASSUME TxOK, CodeTypeOK, RefersToSource, NEW p \in Process, CodeStep(p)
    PROVE  CodeTyped(p)
  <1> USE CodeAssumption DEF CodeTyped, TxOK, CodeTypeOK, Moves, CodeKinds, Acquires, codeVars
  <1>0. /\ tx[p] \in AnyTx /\ NoTx \in AnyTx
        /\ tx[p].kind = "code" => tx[p] \in CodeTx
        /\ tx[p].kind \in {"find", "found"} => tx[p] \in FindTx
        /\ CodeTx \subseteq AnyTx /\ FindTx \subseteq AnyTx
        /\ NoTx.kind = "none" /\ NoTx.locks = {}
    BY KindTells DEF AnyTx, NoTx
  <1>a. ASSUME UNCHANGED tx, left' \in [What -> Nat] PROVE TxOK' /\ Moves(CodeKinds) /\ Acquires(p)
    BY <1>a
  <1>b. ASSUME NEW t \in AnyTx, tx' = [tx EXCEPT ![p] = t], left' \in [What -> Nat],
               t.locks = {}, t.kind \in CodeKinds \cup {"none"},
               tx[p].kind \in CodeKinds \cup {"none"}
        PROVE  TxOK' /\ Moves(CodeKinds) /\ Acquires(p)
    BY <1>b
  <1>1. CASE CreateCodeSource(p)
    <2>1. CodeTypeOK'
      BY <1>1 DEF CreateCodeSource
    <2> QED BY <1>a, <1>1, <2>1, Spent DEF CreateCodeSource
  <1>2. CASE ReadForUpdate(p)
    <2> DEFINE t == [kind |-> "code", row |-> source, text |-> texts + 1, locks |-> {}]
    <2>1. t \in AnyTx /\ t.locks = {} /\ t.kind = "code"
      <3>1. t \in CodeTx
        BY <1>2 DEF ReadForUpdate, CodeTx
      <3> QED BY <1>0, <3>1
    <2>2. tx' = [tx EXCEPT ![p] = t] /\ tx[p] = NoTx /\ CodeTypeOK'
      BY <1>2 DEF ReadForUpdate, Open
    <2> HIDE DEF t
    <2> QED BY <1>0, <1>b, <1>2, <2>1, <2>2, Spent DEF ReadForUpdate
  <1>3. CASE UpdateCodeSource(p)
    <2>1. tx[p] \in CodeTx /\ tx[p].text \in 0..texts /\ tx[p].row.version \in Nat
      BY <1>0, <1>3 DEF UpdateCodeSource, CodeTx, RefersToSource
    <2>2. CodeTypeOK'
      <3> DEFINE s == [source EXCEPT !.text = tx[p].text, !.version = tx[p].row.version + 1]
      <3>1. s \in [id : 0..created, text : 0..texts, version : Nat]
        <4>1. tx[p].row.version + 1 \in Nat
          BY <2>1
        <4> QED BY <2>1, <4>1
      <3>2. source' = s
        BY <1>3 DEF UpdateCodeSource, NextVersion
      <3>3. overlapped' \in BOOLEAN
        BY <1>3 DEF UpdateCodeSource
      <3> HIDE DEF s
      <3> QED BY <1>3, <3>1, <3>2, <3>3 DEF UpdateCodeSource
    <2> QED BY <1>0, <1>b, <1>3, <2>2 DEF UpdateCodeSource, Close
  <1>4. CASE UpdateFails(p)
    BY <1>0, <1>b, <1>4, Spent DEF UpdateFails, Close
  <1>5. CASE DeleteCodeSource(p)
    <2>1. CodeTypeOK'
      BY <1>5 DEF DeleteCodeSource, NoSource
    <2> QED BY <1>a, <1>5, <2>1, Spent DEF DeleteCodeSource
  <1>6. CASE FindCodeSource(p)
    <2>1. CodeTypeOK'
      BY <1>6 DEF FindCodeSource
    <2> QED BY <1>a, <1>6, <2>1, Spent DEF FindCodeSource
  <1>7. ASSUME NEW n \in DynamicAction, StoreDynamicAction(p, n) PROVE CodeTyped(p)
    <2>1. CodeTypeOK'
      BY <1>7 DEF StoreDynamicAction
    <2> QED BY <1>a, <1>7, <2>1 DEF StoreDynamicAction
  <1>8. ASSUME NEW n \in DynamicAction, DeleteDynamicAction(p, n) PROVE CodeTyped(p)
    <2>1. CodeTypeOK'
      BY <1>8 DEF DeleteDynamicAction
    <2> QED BY <1>a, <1>8, <2>1, Spent DEF DeleteDynamicAction
  <1>9. ASSUME NEW n \in DynamicAction, LoadDefinition(p, n) PROVE CodeTyped(p)
    <2> DEFINE t == [kind |-> "find", id |-> action[n], version |-> 0, locks |-> {}]
    <2>1. t \in AnyTx /\ t.locks = {} /\ t.kind = "find"
      <3>1. t \in FindTx
        BY <1>9 DEF FindTx
      <3> QED BY <1>0, <3>1
    <2>2. tx' = [tx EXCEPT ![p] = t] /\ tx[p] = NoTx
      BY <1>9 DEF LoadDefinition, Open
    <2> HIDE DEF t
    <2> QED BY <1>0, <1>b, <1>9, <2>1, <2>2, Spent DEF LoadDefinition
  <1>10. CASE ReadVersion(p)
    <2> DEFINE t == [tx[p] EXCEPT !.version = source.version]
    <2>1. t \in AnyTx /\ t.locks = {} /\ t.kind = "find" /\ tx[p].kind = "find"
      <3>1. t \in FindTx /\ t.kind = "find" /\ t.locks = {} /\ tx[p].kind = "find"
        BY <1>0, <1>10 DEF FindTx, ReadVersion
      <3> QED BY <1>0, <3>1
    <2>2. tx' = [tx EXCEPT ![p] = t]
      BY <1>10 DEF ReadVersion, Change
    <2> HIDE DEF t
    <2> QED BY <1>b, <1>10, <2>1, <2>2 DEF ReadVersion
  <1>11. CASE EnsureLatest(p)
    <2> DEFINE t == [tx[p] EXCEPT !.kind = "found"]
    <2>1. t \in AnyTx /\ t.locks = {} /\ t.kind = "found" /\ tx[p].kind = "find"
      <3>1. t \in FindTx /\ t.kind = "found" /\ t.locks = {} /\ tx[p].kind = "find"
        BY <1>0, <1>11 DEF FindTx, EnsureLatest
      <3> QED BY <1>0, <3>1
    <2>2. tx' = [tx EXCEPT ![p] = t]
      BY <1>11 DEF EnsureLatest, Change
    <2>3. CodeTypeOK'
      <3>1. tx[p].id \in Sources
        BY <1>11 DEF EnsureLatest, RefersToSource, Sources
      <3> DEFINE m == [text |-> source.text, version |-> source.version]
      <3>2. m \in [text : 0..texts, version : Nat]
        OBVIOUS
      <3>3. \/ loaded' = [loaded EXCEPT ![p][source.id] = m] /\ source.id \in Sources
            \/ loaded' = loaded
        BY <1>11, <3>1 DEF EnsureLatest
      <3>4. loaded' \in [Process -> [Sources -> [text : 0..texts, version : Nat]]]
        <4> DEFINE T == [text : 0..texts, version : Nat]
        <4>1. loaded \in [Process -> [Sources -> T]] /\ m \in T
          BY <3>2
        <4> HIDE DEF m, T
        <4>2. source.id \in Sources => [loaded[p] EXCEPT ![source.id] = m] \in [Sources -> T]
          BY <4>1
        <4>3. loaded' \in [Process -> [Sources -> T]]
          BY <3>3, <4>1, <4>2
        <4> QED BY <4>3 DEF T
      <3> QED BY <1>11, <3>4 DEF EnsureLatest
    <2> HIDE DEF t
    <2> QED BY <1>b, <1>11, <2>1, <2>2, <2>3 DEF EnsureLatest
  <1>12. CASE UseModule(p)
    BY <1>0, <1>b, <1>12 DEF UseModule, Close
  <1>13. CASE FindFails(p)
    BY <1>0, <1>b, <1>13 DEF FindFails, Close
  <1> QED
    BY <1>1, <1>2, <1>3, <1>4, <1>5, <1>6, <1>7, <1>8, <1>9, <1>10, <1>11, <1>12, <1>13
       DEF CodeStep


\* The modules of a source are not newer than it, and one of its version has its text.
ModulesFit(p) ==
    /\ \A i \in Sources : i = source.id =>
           /\ loaded[p][i].version <= source.version
           /\ loaded[p][i].version = source.version => loaded[p][i].text = source.text
    /\ (tx[p].kind = "find" /\ tx[p].id = source.id) => tx[p].version <= source.version
    /\ tx[p].kind = "found" => loaded[p][tx[p].id].version >= tx[p].version

CodeKept ==
    /\ RefersToSource
    /\ \A n \in DynamicAction : action[n] # 0 => action[n] = source.id
    /\ \A p \in Process, i \in Sources : i > created => loaded[p][i] = NotLoaded
    /\ source.id # 0 => source.version >= 1
    /\ overlapped \/ \A p \in Process : ModulesFit(p)

\* A step of another part keeps the invariant of code sources.
LEMMA CodeFrame ==
    ASSUME CodeKept, UNCHANGED codeVars,
           \A q \in Process : tx'[q].kind \in CodeKinds => tx'[q] = tx[q]
    PROVE  CodeKept'
  BY DEF CodeKept, RefersToSource, ModulesFit, codeVars, CodeKinds

\* A restart ends the transaction and forgets the modules.
LEMMA CodeRestarts ==
    ASSUME TxOK, CodeTypeOK, CodeKept, NEW p \in Process, RestartProvider(p), Close(p)
    PROVE  CodeTypeOK' /\ CodeKept'
  <1> USE DEF TxOK, CodeTypeOK
  <1>1. /\ tx' = [tx EXCEPT ![p] = NoTx] /\ NoTx.kind = "none"
        /\ loaded' = [loaded EXCEPT ![p] = [i \in Sources |-> NotLoaded]]
        /\ UNCHANGED <<source, created, texts, action, overlapped>>
    BY DEF RestartProvider, Close, NoTx
  <1>2. CodeTypeOK'
    <2> DEFINE T == [text : 0..texts, version : Nat]
    <2>1. loaded \in [Process -> [Sources -> T]] /\ NotLoaded \in T
      BY DEF NotLoaded
    <2> HIDE DEF T
    <2>2. loaded' \in [Process -> [Sources -> T]]
      BY <1>1, <2>1
    <2> QED BY <1>1, <2>2 DEF T, RestartProvider
  <1>3. RefersToSource'
    BY <1>1 DEF CodeKept, RefersToSource
  <1>4. \A q \in Process, i \in Sources :
            loaded'[q][i] = IF q = p THEN NotLoaded ELSE loaded[q][i]
    BY <1>1
  <1>5. ASSUME ~overlapped', NEW q \in Process PROVE ModulesFit(q)'
    <2>1. ModulesFit(q) /\ source.version \in Nat /\ (source.id # 0 => source.version >= 1)
      BY <1>1, <1>5 DEF CodeKept
    <2>2. CASE q = p
      BY <1>1, <1>4, <2>1, <2>2 DEF ModulesFit, NotLoaded, Sources
    <2>3. CASE q # p
      BY <1>1, <2>1, <2>3 DEF ModulesFit
    <2> QED BY <2>2, <2>3
  <1> QED BY <1>1, <1>2, <1>3, <1>4, <1>5 DEF CodeKept

\* Code sources and dynamic actions keep their invariant.
LEMMA CodeNext ==
    ASSUME TxOK, CodeTypeOK, CodeKept, NEW p \in Process, CodeStep(p)
    PROVE  CodeKept'
  <1> USE CodeAssumption DEF TxOK, CodeTypeOK, codeVars
  <1>0. /\ tx[p].kind = "code" => tx[p] \in CodeTx
        /\ tx[p].kind \in {"find", "found"} => tx[p] \in FindTx
        /\ NoTx.kind = "none"
        /\ RefersToSource
        /\ ~overlapped => \A q \in Process : ModulesFit(q)
        /\ source.version \in Nat /\ source.id \in 0..created
    BY KindTells DEF NoTx, CodeKept
  <1>z. ASSUME NEW q \in Process
        PROVE  /\ \A i \in Sources : loaded[q][i].version \in Nat
               /\ tx[q].kind \in {"find", "found"} => tx[q].version \in Nat
    <2>1. tx[q].kind \in {"find", "found"} => tx[q] \in FindTx
      BY KindTells
    <2> QED BY <2>1 DEF FindTx
  \* Steps that only change the transaction of p.
  <1>a. ASSUME UNCHANGED codeVars, NEW t, tx' = [tx EXCEPT ![p] = t],
               t.kind = "code" => /\ t.text <= texts /\ t.row.id \in 1..created
                                  /\ t.row.text <= texts,
               t.kind \in {"find", "found"} => t.id \in 1..created,
               (t.kind = "find" /\ t.id = source.id) => t.version <= source.version,
               t.kind # "found"
        PROVE  CodeKept'
    <2>1. tx'[p] = t /\ \A q \in Process \ {p} : tx'[q] = tx[q]
      BY <1>a
    <2>2. RefersToSource'
      BY <1>a, <2>1 DEF CodeKept, RefersToSource
    <2>3. ~overlapped => \A q \in Process : ModulesFit(q)'
      BY <1>0, <1>a, <2>1 DEF ModulesFit
    <2> QED BY <1>a, <2>2, <2>3 DEF CodeKept
  <1>1. CASE CreateCodeSource(p)
    <2>1. /\ source' = [id |-> created + 1, text |-> texts + 1, version |-> 1]
          /\ created' = created + 1 /\ texts' = texts + 1 /\ source.id = 0
          /\ UNCHANGED <<action, wanted, loaded, overlapped, tx>>
      BY <1>1 DEF CreateCodeSource
    <2>2. RefersToSource'
      <3>1. ASSUME NEW q \in Process
            PROVE  /\ tx[q].kind = "code" => tx[q] \in CodeTx
                   /\ tx[q].kind \in {"find", "found"} => tx[q] \in FindTx
        BY KindTells
      <3> QED BY <1>0, <2>1, <3>1 DEF RefersToSource, CodeTx, FindTx
    <2>3. ASSUME ~overlapped', NEW q \in Process PROVE ModulesFit(q)'
      <3>1. ModulesFit(q) /\ (created + 1 \in Sources => loaded[q][created + 1] = NotLoaded)
        BY <1>0, <2>1, <2>3 DEF CodeKept
      <3>2. tx[q].kind = "find" => tx[q].id # created + 1
        BY <1>0 DEF RefersToSource
      <3>3. source'.id = created + 1 /\ source'.version = 1
        BY <2>1
      <3> HIDE DEF CodeTypeOK, TxOK
      <3> QED BY <2>1, <3>1, <3>2, <3>3 DEF ModulesFit, NotLoaded
    <2>4. source'.version = 1 /\ \A n \in DynamicAction : action[n] = 0
      BY <2>1 DEF CodeKept
    <2>5. \A q \in Process, i \in Sources : i > created + 1 => loaded[q][i] = NotLoaded
      BY DEF CodeKept, Sources
    <2> QED BY <2>1, <2>2, <2>3, <2>4, <2>5 DEF CodeKept
  <1>2. CASE ReadForUpdate(p)
    <2> DEFINE t == [kind |-> "code", row |-> source, text |-> texts + 1, locks |-> {}]
    <2>1. /\ tx' = [tx EXCEPT ![p] = t] /\ texts' = texts + 1
          /\ UNCHANGED <<source, created, action, wanted, loaded, overlapped>>
          /\ source.id # 0
      BY <1>2 DEF ReadForUpdate, Open
    <2>2. t.kind = "code" /\ t.text = texts + 1 /\ t.row = source
      OBVIOUS
    <2> HIDE DEF t
    <2>3. tx'[p] = t /\ \A q \in Process \ {p} : tx'[q] = tx[q]
      BY <2>1
    <2>4. RefersToSource'
      <3>1. ASSUME NEW q \in Process
            PROVE  tx[q].kind = "code" => tx[q] \in CodeTx
        BY KindTells
      <3> QED BY <1>0, <2>1, <2>2, <2>3, <3>1 DEF RefersToSource, CodeTx
    <2>5. ~overlapped => \A q \in Process : ModulesFit(q)'
      BY <1>0, <2>1, <2>2, <2>3 DEF ModulesFit
    <2> QED BY <2>1, <2>4, <2>5 DEF CodeKept
  <1>3. CASE UpdateCodeSource(p)
    <2>1. tx[p] \in CodeTx /\ tx[p].row.id = source.id /\ tx[p].row.version \in Nat
      BY <1>0, <1>3 DEF UpdateCodeSource, CodeTx
    <2>2. /\ source'.id = source.id /\ source'.version = tx[p].row.version + 1
          /\ source'.text = tx[p].text
          /\ overlapped' = (overlapped \/ source # tx[p].row)
          /\ tx' = [tx EXCEPT ![p] = NoTx]
          /\ UNCHANGED <<created, texts, action, wanted, loaded>>
      BY <1>3 DEF UpdateCodeSource, NextVersion, Close
    <2>3. RefersToSource'
      BY <1>0, <2>2 DEF RefersToSource
    <2>4. ASSUME ~overlapped', NEW q \in Process PROVE ModulesFit(q)'
      <3>1. ~overlapped /\ source = tx[p].row /\ ModulesFit(q)
        BY <1>0, <2>2, <2>4
      <3>2. q = p \/ tx'[q] = tx[q]
        BY <2>2
      <3>3. tx'[p].kind = "none"
        BY <1>0, <2>2
      <3>4. source'.version = source.version + 1 /\ source'.id = source.id
        BY <2>2, <3>1
      <3>5. \A i \in Sources : i = source.id => loaded[q][i].version < source'.version
        BY <1>0, <1>z, <3>1, <3>4 DEF ModulesFit
      <3>6. (q # p /\ tx[q].kind = "find" /\ tx[q].id = source.id)
                => tx[q].version <= source'.version
        BY <1>0, <1>z, <3>1, <3>4 DEF ModulesFit
      <3>7. loaded' = loaded /\ \A i \in Sources : loaded[q][i].version \in Nat
        BY <1>z, <2>2
      <3>8. \A i \in Sources : i = source'.id => /\ loaded'[q][i].version <= source'.version
                                               /\ loaded'[q][i].version # source'.version
        BY <1>0, <3>4, <3>5, <3>7
      <3> HIDE DEF CodeTypeOK, TxOK
      <3>9. CASE q = p
        BY <3>3, <3>8, <3>9 DEF ModulesFit
      <3>10. CASE q # p
        BY <3>1, <3>2, <3>4, <3>6, <3>7, <3>8, <3>10 DEF ModulesFit
      <3> QED BY <3>9, <3>10
    <2> QED BY <1>0, <2>1, <2>2, <2>3, <2>4 DEF CodeKept
  <1>4. CASE UpdateFails(p)
    BY <1>0, <1>4, <1>a DEF UpdateFails, Close
  <1>5. CASE DeleteCodeSource(p)
    <2>1. /\ source' = NoSource /\ tx' = tx
          /\ action' = [n \in DynamicAction |-> IF action[n] = source.id THEN 0 ELSE action[n]]
          /\ UNCHANGED <<created, texts, wanted, loaded, overlapped>>
      BY <1>5 DEF DeleteCodeSource
    <2>2. RefersToSource'
      BY <1>0, <2>1 DEF RefersToSource
    <2>3. ASSUME ~overlapped', NEW q \in Process PROVE ModulesFit(q)'
      <3>1. ModulesFit(q)
        BY <1>0, <2>1, <2>3
      <3>2. tx[q].kind = "find" => tx[q].id # 0
        BY <1>0 DEF RefersToSource
      <3> QED BY <2>1, <3>1, <3>2 DEF ModulesFit, NoSource, Sources
    <2> QED BY <2>1, <2>2, <2>3 DEF CodeKept, NoSource
  <1>6. CASE FindCodeSource(p)
    BY <1>6 DEF FindCodeSource, CodeKept, RefersToSource, ModulesFit
  <1>7. ASSUME NEW n \in DynamicAction, StoreDynamicAction(p, n) PROVE CodeKept'
    BY <1>7 DEF StoreDynamicAction, CodeKept, RefersToSource, ModulesFit
  <1>8. ASSUME NEW n \in DynamicAction, DeleteDynamicAction(p, n) PROVE CodeKept'
    BY <1>8 DEF DeleteDynamicAction, CodeKept, RefersToSource, ModulesFit
  <1>9. ASSUME NEW n \in DynamicAction, LoadDefinition(p, n) PROVE CodeKept'
    <2> DEFINE t == [kind |-> "find", id |-> action[n], version |-> 0, locks |-> {}]
    <2>1. tx' = [tx EXCEPT ![p] = t] /\ UNCHANGED codeVars /\ action[n] # 0
      BY <1>9 DEF LoadDefinition, Open
    <2>2. t.kind = "find" /\ t.id = action[n] /\ t.version = 0
      OBVIOUS
    <2>3. t.id \in 1..created /\ t.version <= source.version
      BY <1>0, <2>1
    <2> HIDE DEF t
    <2> QED BY <1>0, <1>a, <2>1, <2>2, <2>3
  <1>10. CASE ReadVersion(p)
    <2> DEFINE t == [tx[p] EXCEPT !.version = source.version]
    <2>1. tx' = [tx EXCEPT ![p] = t] /\ UNCHANGED codeVars
      BY <1>10 DEF ReadVersion, Change
    <2>2. t.kind = "find" /\ t.id = tx[p].id /\ t.version = source.version
      BY <1>0, <1>10 DEF ReadVersion, FindTx
    <2>3. t.id \in 1..created
      BY <1>0, <1>10, <2>2 DEF RefersToSource, ReadVersion
    <2>4. t.version <= source.version
      BY <1>0, <2>2
    <2> HIDE DEF t
    <2> QED BY <1>a, <2>1, <2>2, <2>3, <2>4
  <1>11. CASE EnsureLatest(p)
    <2> DEFINE t == [tx[p] EXCEPT !.kind = "found"]
               m == [text |-> source.text, version |-> source.version]
    <2>0. tx[p] \in FindTx /\ tx[p].kind = "find" /\ tx[p].id \in 1..created
      BY <1>0, <1>11 DEF EnsureLatest, RefersToSource
    <2>1. tx' = [tx EXCEPT ![p] = t] /\ UNCHANGED <<source, created, texts, action, wanted, overlapped>>
      BY <1>11 DEF EnsureLatest, Change
    <2>2. t.kind = "found" /\ t.id = tx[p].id /\ t.version = tx[p].version
      BY <2>0 DEF FindTx
    <2>3. \/ /\ source.id = tx[p].id /\ loaded' = [loaded EXCEPT ![p][source.id] = m]
          \/ /\ loaded' = loaded /\ ~(tx[p].version > loaded[p][tx[p].id].version)
      BY <1>11 DEF EnsureLatest, Reloads
    <2>4. m.text = source.text /\ m.version = source.version
      OBVIOUS
    <2>5. tx[p].id \in Sources /\ tx[p].version \in Nat
      BY <2>0 DEF Sources, FindTx
    <2> HIDE DEF t, m
    <2>6. tx'[p] = t /\ \A q \in Process \ {p} : tx'[q] = tx[q]
      BY <2>1
    <2>7. \A q \in Process, i \in Sources :
             \/ loaded'[q][i] = loaded[q][i]
             \/ loaded'[q][i] = m /\ q = p /\ i = source.id /\ source.id = tx[p].id
      BY <2>3, <2>5
    <2>8. RefersToSource'
      BY <1>0, <2>0, <2>1, <2>2, <2>6 DEF RefersToSource
    <2>9. \A q \in Process, i \in Sources : i > created => loaded'[q][i] = NotLoaded
      <3> SUFFICES ASSUME NEW q \in Process, NEW i \in Sources, i > created
                   PROVE  loaded'[q][i] = NotLoaded
        OBVIOUS
      <3>1. loaded[q][i] = NotLoaded
        BY DEF CodeKept
      <3>2. i # tx[p].id
        BY <2>0 DEF Sources
      <3> QED BY <2>7, <3>1, <3>2
    <2>10. ASSUME ~overlapped, NEW q \in Process PROVE ModulesFit(q)'
      <3>1. ModulesFit(q) /\ ModulesFit(p)
        BY <1>0, <2>10
      <3>2. CASE q # p
        <4>1. tx'[q] = tx[q] /\ source' = source /\ \A i \in Sources : loaded'[q][i] = loaded[q][i]
          BY <2>1, <2>6, <2>7, <3>2
        <4>2. tx[q].kind = "found" => tx[q].id \in Sources
          BY <1>0 DEF RefersToSource, Sources
        <4> HIDE DEF CodeTypeOK, TxOK
        <4> QED BY <3>1, <4>1, <4>2 DEF ModulesFit
      <3>3. CASE q = p
        <4>1. \A i \in Sources : i = source.id =>
                /\ loaded'[p][i].version <= source.version
                /\ loaded'[p][i].version = source.version => loaded'[p][i].text = source.text
          BY <2>4, <2>7, <3>1 DEF ModulesFit
        <4>2. loaded'[p][tx[p].id].version >= tx[p].version
          <5>1. CASE loaded' = loaded /\ ~(tx[p].version > loaded[p][tx[p].id].version)
            BY <2>5, <5>1
          <5>2. CASE source.id = tx[p].id /\ loaded' = [loaded EXCEPT ![p][source.id] = m]
            <6>1. loaded'[p][tx[p].id] = m
              BY <2>5, <5>2
            <6>2. tx[p].version <= source.version
              BY <2>0, <3>1, <5>2 DEF ModulesFit
            <6> QED BY <2>4, <2>5, <6>1, <6>2
          <5> QED BY <2>3, <5>1, <5>2
        <4> QED BY <2>1, <2>2, <2>6, <3>3, <4>1, <4>2 DEF ModulesFit
      <3> QED BY <3>2, <3>3
    <2> QED BY <2>1, <2>8, <2>9, <2>10 DEF CodeKept
  <1>12. CASE UseModule(p)
    BY <1>0, <1>12, <1>a DEF UseModule, Close
  <1>13. CASE FindFails(p)
    BY <1>0, <1>13, <1>a DEF FindFails, Close
  <1> QED
    BY <1>1, <1>2, <1>3, <1>4, <1>5, <1>6, <1>7, <1>8, <1>9, <1>10, <1>11, <1>12, <1>13
       DEF CodeStep

\* The invariant of code sources gives the property of the modules.
LEMMA CodeSafe ==
    ASSUME CodeKept PROVE LatestCodeRuns
  BY DEF CodeKept, LatestCodeRuns, ModulesFit, Running


-----------------------------------------------------------------------------
(* Sharing.                                                                 *)

\* Who looked a definition up saw it, and who checked the triggers before it made
\* the definition private found none of another project.
ShareKept ==
    /\ TriggersCanStart
    /\ \A p \in Process :
        /\ tx[p].kind = "trigger" => \/ tx[p].project = Owner \/ tx[p].found = "public"
                                     \/ tx[p].member = "accepted"
        /\ (tx[p].kind = "write" /\ tx[p].stage = "checked" /\ tx[p].what = "private")
               => tx[p].known = {}

\* A step of another part keeps the invariant of sharing.
LEMMA ShareFrame ==
    ASSUME ShareKept, UNCHANGED sharingVars,
           \A q \in Process : tx'[q].kind \in ShareKinds => tx'[q] = tx[q]
    PROVE  ShareKept'
  BY DEF ShareKept, TriggersCanStart, Sees, sharingVars, ShareKinds

ShareTyped(p) == TxOK' /\ SharingTypeOK' /\ Moves(ShareKinds) /\ Acquires(p)

\* What a step of sharing does: a definition is hidden from a trigger only if the
\* trigger is recorded as raced or withdrawn.
LEMMA ShareNext ==
    ASSUME TxOK, SharingTypeOK, ShareKept, NEW p \in Process, SharingStep(p)
    PROVE  ShareTyped(p) /\ ShareKept'
  <1> USE SharingAssumption DEF TxOK, SharingTypeOK, sharingVars
  <1> DEFINE Goal == ShareTyped(p) /\ ShareKept'
             Statuses == {"none", "pending", "accepted", "rejected"}
  <1>0. /\ tx[p] \in AnyTx /\ NoTx \in AnyTx
        /\ tx[p].kind = "write" => tx[p] \in WriteTx
        /\ tx[p].kind = "trigger" => tx[p] \in TriggerTx
        /\ WriteTx \subseteq AnyTx /\ TriggerTx \subseteq AnyTx
        /\ NoTx.kind = "none" /\ NoTx.locks = {}
    BY KindTells DEF AnyTx, NoTx
  \* Steps that only change a transaction, and steps that change none.
  <1>a. ASSUME NEW t \in AnyTx, tx' = [tx EXCEPT ![p] = t], left' \in [What -> Nat],
               t.locks = {}, t.kind \in ShareKinds \cup {"none"},
               tx[p].kind \in ShareKinds \cup {"none"}
        PROVE  TxOK' /\ Moves(ShareKinds) /\ Acquires(p)
    BY <1>a DEF Moves, Acquires
  <1>b. ASSUME UNCHANGED tx, left' \in [What -> Nat]
        PROVE  TxOK' /\ Moves(ShareKinds) /\ Acquires(p)
    BY <1>b DEF Moves, Acquires
  <1>1. ASSUME NEW what \in {"private", "public", "gone"}, Reads(p, what) PROVE Goal
    <2> DEFINE t == [kind |-> "write", what |-> what, stage |-> "loaded", known |-> {},
                     locks |-> {}]
    <2>1. t \in WriteTx /\ t.locks = {} /\ t.kind = "write" /\ t.stage = "loaded"
      BY DEF WriteTx
    <2>2. tx' = [tx EXCEPT ![p] = t] /\ tx[p] = NoTx /\ UNCHANGED sharingVars
      BY <1>1 DEF Reads, Open
    <2> HIDE DEF t
    <2>3. ShareTyped(p)
      BY <1>0, <1>1, <1>a, <2>1, <2>2, Spent DEF Reads, ShareTyped, ShareKinds
    <2> QED BY <2>1, <2>2, <2>3 DEF ShareKept, TriggersCanStart, Sees
  <1>2. CASE CheckTriggers(p)
    <2> DEFINE t == [tx[p] EXCEPT !.stage = "checked", !.known = Foreign]
    <2>0. tx[p] \in WriteTx
      BY <1>0, <1>2 DEF CheckTriggers
    <2>1. /\ t \in WriteTx /\ t.locks = {} /\ t.kind = "write" /\ t.what = tx[p].what
          /\ t.known = Foreign /\ tx[p].kind = "write"
      <3>1. Foreign \in SUBSET Trigger
        BY DEF Foreign
      <3> HIDE DEF Foreign
      <3> QED BY <2>0, <3>1 DEF WriteTx
    <2>2. /\ \/ tx' = [tx EXCEPT ![p] = t] /\ Blocking(tx[p].what) = {}
             \/ tx' = [tx EXCEPT ![p] = NoTx]
          /\ UNCHANGED <<sharingVars, left>>
      BY <1>2 DEF CheckTriggers, Change, Close
    <2>3. (tx[p].what = "private" /\ Blocking(tx[p].what) = {}) => Foreign = {}
      BY DEF Blocking
    <2> HIDE DEF t
    <2>4. ShareTyped(p)
      BY <1>0, <1>a, <2>1, <2>2 DEF ShareTyped, ShareKinds
    <2> QED BY <1>0, <2>1, <2>2, <2>3, <2>4 DEF ShareKept, TriggersCanStart, Sees
  <1>3. CASE CommitWrite(p)
    <2>0. tx[p] \in WriteTx /\ tx[p].kind = "write" /\ tx[p].stage = "checked"
      BY <1>0, <1>3 DEF CommitWrite
    <2>1. tx' = [tx EXCEPT ![p] = NoTx] /\ UNCHANGED <<trigger, withdrawn, left>>
      BY <1>3 DEF CommitWrite, Close
    <2>2. SharingTypeOK'
      BY <1>3, <2>0, <2>1 DEF CommitWrite, WriteTx, Foreign
    <2>3. ShareTyped(p)
      BY <1>0, <1>a, <2>0, <2>1, <2>2 DEF ShareTyped, ShareKinds
    <2>4. TriggersCanStart'
      <3>1. CASE UNCHANGED <<scope, membership, raced>>
        BY <2>1, <3>1 DEF ShareKept, TriggersCanStart, Sees
      <3>2. CASE /\ scope' = tx[p].what /\ membership' = membership
                 /\ tx[p].what = "public" /\ raced' = raced
        BY <2>1, <3>2 DEF ShareKept, TriggersCanStart, Sees
      <3>3. CASE /\ scope' = tx[p].what /\ membership' = membership /\ tx[p].what = "private"
                 /\ raced' = raced \cup (Foreign \ tx[p].known)
        <4>1. tx[p].known = {}
          BY <2>0, <3>3 DEF ShareKept
        <4> QED BY <2>1, <3>3, <4>1 DEF TriggersCanStart, Sees, Foreign
      <3>4. CASE \A t \in Trigger : trigger[t] = Nobody
        BY <2>1, <3>4 DEF TriggersCanStart
      <3> QED BY <1>3, <2>0, <3>1, <3>2, <3>3, <3>4 DEF CommitWrite, WriteTx
    <2> QED BY <1>0, <2>1, <2>3, <2>4 DEF ShareKept
  <1>4. ASSUME NEW x \in Project, Share(p, x) PROVE Goal
    <2>1. ShareTyped(p)
      BY <1>4, <1>b, Spent DEF Share, ShareTyped
    <2> QED BY <1>4, <2>1 DEF Share, ShareKept, TriggersCanStart, Sees
  <1>5. ASSUME NEW x \in Project, NEW s \in {"accepted", "rejected"}, SetStatus(p, x, s)
        PROVE Goal
    <2>1. ShareTyped(p)
      BY <1>5, <1>b, Spent DEF SetStatus, ShareTyped, Withdrawn, TriggersOf
    <2> QED BY <1>5, <2>1 DEF SetStatus, ShareKept, TriggersCanStart, Sees, Withdrawn, TriggersOf
  <1>6. ASSUME NEW x \in Project, Unshare(p, x) PROVE Goal
    <2>1. ShareTyped(p)
      BY <1>6, <1>b, Spent DEF Unshare, ShareTyped, Withdrawn, TriggersOf
    <2> QED BY <1>6, <2>1 DEF Unshare, ShareKept, TriggersCanStart, Sees, Withdrawn, TriggersOf
  <1>7. ASSUME NEW x \in Project, NEW k \in Trigger, FindWorkflow(p, k, x) PROVE Goal
    <2> DEFINE t == [kind |-> "trigger", trigger |-> k, project |-> x, found |-> scope,
                     member |-> membership[x], locks |-> {}]
    <2>0. scope \in {"private", "public"} /\ membership[x] \in Statuses
      BY <1>7 DEF FindWorkflow, Visible, Sees
    <2>1. /\ t \in TriggerTx /\ t.locks = {} /\ t.kind = "trigger" /\ t.project = x
          /\ t.found = scope /\ t.member = membership[x]
      BY <2>0 DEF TriggerTx
    <2>2. tx' = [tx EXCEPT ![p] = t] /\ tx[p] = NoTx /\ UNCHANGED sharingVars
      BY <1>7 DEF FindWorkflow, Open
    <2> HIDE DEF t
    <2>3. ShareTyped(p)
      BY <1>0, <1>7, <1>a, <2>1, <2>2, Spent DEF FindWorkflow, ShareTyped, ShareKinds
    <2>4. x = Owner \/ scope = "public" \/ membership[x] = "accepted"
      BY <1>7 DEF FindWorkflow, Visible, Sees
    <2> QED BY <2>1, <2>2, <2>3, <2>4 DEF ShareKept, TriggersCanStart, Sees
  <1>8. CASE StoreTrigger(p)
    <2> DEFINE k == tx[p].trigger
               x == tx[p].project
    <2>0. /\ tx[p].kind = "trigger" /\ k \in Trigger /\ x \in Project
          /\ tx[p].found \in {"private", "public"}
          /\ x = Owner \/ tx[p].found = "public" \/ tx[p].member = "accepted"
      BY <1>0, <1>8 DEF StoreTrigger, TriggerTx, ShareKept
    <2>1. /\ trigger' = IF scope = "gone" THEN trigger ELSE [trigger EXCEPT ![k] = x]
          /\ raced' = IF <<scope, membership[x]>> # <<tx[p].found, tx[p].member>>
                      THEN raced \cup {k} ELSE raced
          /\ tx' = [tx EXCEPT ![p] = NoTx]
          /\ UNCHANGED <<scope, membership, withdrawn, left>>
      BY <1>8 DEF StoreTrigger, Close
    <2> HIDE DEF k, x
    <2>2. ShareTyped(p)
      BY <1>0, <1>a, <2>0, <2>1 DEF ShareTyped, ShareKinds
    <2>3. TriggersCanStart'
      <3>1. raced \subseteq raced' /\ TriggersCanStart
        BY <2>1 DEF ShareKept
      <3>2. CASE k \in raced'
        BY <2>0, <2>1, <3>1, <3>2 DEF TriggersCanStart, Sees
      <3>3. CASE k \notin raced'
        <4>1. scope = tx[p].found /\ membership[x] = tx[p].member
          BY <2>1, <3>3
        <4>2. Sees(x)
          BY <2>0, <4>1 DEF Sees
        <4> QED BY <2>0, <2>1, <3>1, <4>2 DEF TriggersCanStart, Sees
      <3> QED BY <3>2, <3>3
    <2> QED BY <1>0, <2>1, <2>2, <2>3 DEF ShareKept
  <1>9. ASSUME NEW k \in Trigger, RemoveTrigger(p, k) PROVE Goal
    <2>1. ShareTyped(p)
      BY <1>9, <1>b, Spent DEF RemoveTrigger, ShareTyped
    <2> QED BY <1>9, <2>1 DEF RemoveTrigger, ShareKept, TriggersCanStart, Sees
  <1> QED
    BY <1>1, <1>2, <1>3, <1>4, <1>5, <1>6, <1>7, <1>8, <1>9 DEF SharingStep


-----------------------------------------------------------------------------
(* Executions that are started with an id.                                  *)

\* The transaction that starts an execution holds the request of its client.  When it
\* has created the execution, and no other ever did under that id, no engine has
\* another specification for it.
StartTxKept(p) ==
    LET t == tx[p] IN
    /\ request[t.client].id = t.id /\ request[t.client].step = "sent"
    /\ t.spec # 0 /\ (~hurried => t.spec = t.row)
    /\ t.stage = "created" =>
           /\ t.id \in begun /\ t.id \in t.locks
           /\ t.id \notin reused =>
                  /\ execution[t.id] = 0
                  /\ \A q \in Process : byExecution[q][t.id] \in {Uncached, t.spec}

OneStartPerClient ==
    \A p, q \in Process :
        (p # q /\ tx[p].kind = "start" /\ tx[q].kind = "start") => tx[p].client # tx[q].client

\* Of a definition that was not updated twice in a second, the cache has nothing that
\* is newer than the row, and with the stamp of the row its text.
CacheFits ==
    hurried \/ \A p \in Process, s \in Stamps : byDefinition[p][s] # Uncached =>
                   /\ s <= definition.updated_at
                   /\ s = definition.updated_at => byDefinition[p][s] = definition.text

NotBegun == \A x \in ExecutionId \ begun :
                execution[x] = 0 /\ \A p \in Process : byExecution[p][x] = Uncached

StartKept ==
    /\ \A p \in Process : tx[p].kind = "start" => StartTxKept(p)
    /\ OneStartPerClient /\ CacheFits /\ NotBegun
    /\ definition.updated_at <= second
    /\ \A c \in Client : request[c].step # "new" => request[c].id \in ExecutionId
    /\ RunsItsSpecification /\ PostIsIdempotent

\* A step of another part keeps the invariant of starts.
LEMMA StartFrame ==
    ASSUME StartKept, UNCHANGED startVars,
           \A q \in Process : tx'[q].kind \in StartKinds => tx'[q] = tx[q]
    PROVE  StartKept'
  <1>1. \A p \in Process : tx'[p].kind = "start" => tx[p].kind = "start" /\ StartTxKept(p)'
    BY DEF StartKept, StartTxKept, startVars, StartKinds
  <1>2. OneStartPerClient'
    BY DEF StartKept, OneStartPerClient, StartKinds
  <1>3. CacheFits' /\ NotBegun' /\ RunsItsSpecification' /\ PostIsIdempotent'
    BY DEF StartKept, CacheFits, NotBegun, RunsItsSpecification, PostIsIdempotent, startVars
  <1> QED BY <1>1, <1>2, <1>3 DEF StartKept, startVars

StartTyped == TxOK' /\ StartTypeOK' /\ Moves(StartKinds)

\* What the caches of specifications have as types.
LEMMA Caches ==
    ASSUME StartTypeOK, NEW p \in Process, NEW v \in Nat
    PROVE  /\ \A s \in Stamps : [byDefinition EXCEPT ![p][s] = v] \in [Process -> [Stamps -> Nat]]
           /\ \A x \in ExecutionId : [byExecution EXCEPT ![p][x] = v]
                                        \in [Process -> [ExecutionId -> Nat]]
  BY DEF StartTypeOK

\* The requests of clients, the clock and the definition.
LEMMA PostNext ==
    ASSUME TxOK, StartTypeOK, StartKept, StartRequest
    PROVE  StartTyped /\ tx' = tx /\ StartKept'
  <1> USE StartAssumption DEF TxOK, StartTypeOK, startVars
  <1> DEFINE Goal == StartTyped /\ tx' = tx /\ StartKept'
  <1>0. ASSUME NEW p \in Process, tx[p].kind = "start" PROVE tx[p] \in StartTx
    BY <1>0, KindTells
  <1>1. CASE Second
    <2>1. StartTypeOK' /\ UNCHANGED <<left, tx>>
      BY <1>1 DEF Second
    <2>2. StartKept'
      <3>1. UNCHANGED <<definition, hurried, byDefinition, byExecution, execution, reused,
                        begun, request, troubled, left, tx>> /\ second' = second + 1
        BY <1>1 DEF Second
      <3>2. definition.updated_at <= second + 1
        BY DEF StartKept, Stamps, Null
      <3> HIDE DEF TxOK, StartTypeOK
      <3> QED BY <3>1, <3>2 DEF StartKept, StartTxKept, OneStartPerClient, CacheFits, NotBegun,
                 RunsItsSpecification, PostIsIdempotent
    <2> QED BY <2>1, <2>2 DEF StartTyped, Moves
  <1>2. CASE UpdateDefinition
    <2>1. /\ tx' = tx /\ left' \in [What -> Nat]
          /\ definition' = [text |-> definition.text + 1, updated_at |-> second]
          /\ hurried' = (hurried \/ definition.updated_at = second)
          /\ UNCHANGED <<second, byDefinition, byExecution, execution, reused, begun,
                         request, troubled>>
      BY <1>2, Spent DEF UpdateDefinition, Stamp
    <2>2. StartTypeOK'
      <3>1. second \in Stamps /\ definition.text + 1 \in Nat \ {0}
        BY DEF Stamps
      <3>2. hurried' \in BOOLEAN
        BY <2>1
      <3> HIDE DEF Stamps
      <3> QED BY <2>1, <3>1, <3>2
    <2>a. definition'.updated_at = second
      BY <2>1
    <2>3. CacheFits'
      <3>1. SUFFICES ASSUME ~hurried', NEW p \in Process, NEW s \in Stamps,
                            byDefinition[p][s] # Uncached
                     PROVE  s < second
        <4> HIDE DEF TxOK, StartTypeOK
        <4>1. byDefinition' = byDefinition /\ second \in Int /\ Stamps \subseteq Int
          BY <2>1 DEF StartTypeOK, Stamps, Null
        <4> QED BY <2>a, <4>1 DEF CacheFits
      <3>2. s <= definition.updated_at
        BY <2>1, <3>1 DEF CacheFits, StartKept
      <3>3. definition.updated_at < second
        <4>1. definition.updated_at # second /\ definition.updated_at <= second
          BY <2>1, <3>1 DEF StartKept
        <4>2. definition.updated_at \in Stamps /\ second \in Int
          OBVIOUS
        <4> HIDE DEF TxOK, StartTypeOK
        <4>3. definition.updated_at \in Int
          BY <4>2 DEF Stamps, Null
        <4> QED BY <4>1, <4>2, <4>3
      <3> QED BY <3>2, <3>3 DEF Stamps, Null
    <2>4. definition'.updated_at <= second'
      BY <2>1
    <2> HIDE DEF TxOK, StartTypeOK
    <2>5. StartKept'
      BY <2>1, <2>3, <2>4 DEF StartKept, StartTxKept, OneStartPerClient, NotBegun,
                              RunsItsSpecification, PostIsIdempotent
    <2> QED BY <2>1, <2>2, <2>5 DEF StartTyped, Moves, TxOK
  <1>3. ASSUME NEW x \in ExecutionId, DeleteExecution(x) PROVE Goal
    <2>1. /\ tx' = tx /\ left' \in [What -> Nat]
          /\ execution' = [execution EXCEPT ![x] = 0]
          /\ troubled' = troubled \cup {c \in Client : request[c].id = x}
          /\ UNCHANGED <<second, definition, hurried, byDefinition, byExecution, reused, begun,
                         request>>
      BY <1>3, Spent DEF DeleteExecution
    <2>2. StartTypeOK'
      BY <2>1
    <2>3. \A y \in ExecutionId : execution'[y] = IF y = x THEN 0 ELSE execution[y]
      BY <2>1
    <2>4. \A p \in Process : tx[p].kind = "start" => tx[p].id \in ExecutionId
      BY <1>0 DEF StartTx
    <2>5. PostIsIdempotent'
      <3>1. ASSUME NEW c \in Client \ troubled' PROVE request[c].id # x /\ c \notin troubled
        BY <2>1, <3>1
      <3>2. \A c \in Client : request[c].step # "new" => request[c].id \in ExecutionId
        BY DEF StartKept
      <3> QED BY <2>1, <2>3, <3>1, <3>2 DEF PostIsIdempotent, StartKept
    <2> HIDE DEF TxOK, StartTypeOK
    <2>6. StartKept'
      BY <2>1, <2>3, <2>4, <2>5 DEF StartKept, StartTxKept, OneStartPerClient, CacheFits,
                                    NotBegun, RunsItsSpecification
    <2> QED BY <2>1, <2>2, <2>6 DEF StartTyped, Moves, TxOK
  <1>4. ASSUME NEW x \in ExecutionId, NEW c \in Client, Post(c, x) PROVE Goal
    <2> DEFINE r == [step |-> IF execution[x] # 0 THEN "answered" ELSE "sent", id |-> x]
    <2>1. /\ tx' = tx /\ left' \in [What -> Nat]
          /\ request[c] = NoRequest \/ (request[c].step = "failed" /\ request[c].id = x)
          /\ request' = [request EXCEPT ![c] = r]
          /\ UNCHANGED <<second, definition, hurried, byDefinition, byExecution, execution,
                         reused, begun, troubled>>
      BY <1>4, Spent DEF Post
    <2>2. /\ r \in [step : Steps, id : ExecutionId \cup {"none"}] /\ r.id = x
          /\ r.step \in {"answered", "sent"} /\ (r.step = "answered" => execution[x] # 0)
      BY DEF Steps
    <2>3. request[c].step # "sent"
      BY <2>1 DEF NoRequest
    <2> HIDE DEF r
    <2>4. StartTypeOK'
      BY <2>1, <2>2
    <2>5. \A d \in Client : request'[d] = IF d = c THEN r ELSE request[d]
      BY <2>1
    <2>6. \A p \in Process : tx[p].kind = "start" => tx[p].client \in Client
      BY <1>0 DEF StartTx
    <2> HIDE DEF TxOK, StartTypeOK
    <2>7. \A p \in Process : tx[p].kind = "start" => StartTxKept(p)'
      BY <2>1, <2>3, <2>5, <2>6 DEF StartKept, StartTxKept
    <2>8. PostIsIdempotent'
      BY <2>1, <2>2, <2>5 DEF StartKept, PostIsIdempotent
    <2>9. StartKept'
      BY <2>1, <2>2, <2>5, <2>7, <2>8 DEF StartKept, OneStartPerClient, CacheFits,
                                    NotBegun, RunsItsSpecification
    <2> QED BY <2>1, <2>4, <2>9 DEF StartTyped, Moves, TxOK
  <1> QED BY <1>1, <1>2, <1>3, <1>4 DEF StartRequest


\* A restart fails the request that its transaction was answering.
LEMMA StartRestarts ==
    ASSUME TxOK, StartTypeOK, StartKept, NEW p \in Process, RestartEngine(p), Close(p)
    PROVE  StartTypeOK' /\ StartKept'
  <1> DEFINE c == tx[p].client
             lost == IF tx[p].kind = "start" THEN {c} ELSE {}
  <1>0. /\ \A q \in Process : tx[q].kind = "start" => tx[q] \in StartTx
        /\ NoTx.kind = "none"
    BY KindTells DEF TxOK, NoTx
  <1>1. /\ byDefinition' = [byDefinition EXCEPT ![p] = [s \in Stamps |-> Uncached]]
        /\ byExecution' = [byExecution EXCEPT ![p] = [x \in ExecutionId |-> Uncached]]
        /\ request' = [d \in Client |-> IF d \in lost THEN [request[d] EXCEPT !.step = "failed"]
                                                     ELSE request[d]]
        /\ troubled' = troubled \cup lost
        /\ UNCHANGED <<second, definition, hurried, execution, reused, begun>>
        /\ tx' = [tx EXCEPT ![p] = NoTx]
    BY <1>0 DEF RestartEngine, Close, Answer, StartTypeOK, StartTx
  <1>2. /\ \A q \in Process \ {p} : tx'[q] = tx[q]
        /\ tx'[p] = NoTx
        /\ \A q \in Process, s \in Stamps :
              byDefinition'[q][s] = IF q = p THEN Uncached ELSE byDefinition[q][s]
        /\ \A q \in Process, x \in ExecutionId :
              byExecution'[q][x] = IF q = p THEN Uncached ELSE byExecution[q][x]
    BY <1>1 DEF TxOK, StartTypeOK
  <1>3. \A d \in Client :
            /\ request'[d] \in [step : Steps, id : ExecutionId \cup {"none"}]
            /\ request'[d].id = request[d].id
            /\ d \notin lost => request'[d] = request[d]
    BY <1>1 DEF StartTypeOK, Steps
  <1>4. lost \subseteq Client
    BY <1>0 DEF StartTx
  <1>5. StartTypeOK'
    <2>1. request' \in [Client -> [step : Steps, id : ExecutionId \cup {"none"}]]
      BY <1>1, <1>3
    <2>2. /\ byDefinition' \in [Process -> [Stamps -> Nat]]
          /\ byExecution' \in [Process -> [ExecutionId -> Nat]]
      BY <1>1 DEF StartTypeOK, Uncached
    <2> HIDE DEF lost
    <2> QED BY <1>1, <1>4, <2>1, <2>2 DEF StartTypeOK
  <1>6. ASSUME NEW q \in Process \ {p}, tx[q].kind = "start" PROVE tx[q].client \notin lost
    BY <1>6 DEF StartKept, OneStartPerClient
  <1>6a. \A q \in Process : tx[q].kind = "start" => tx[q].client \in Client /\ tx[q].id \in ExecutionId
    BY <1>0 DEF StartTx
  <1>7. ASSUME NEW q \in Process, tx'[q].kind = "start" PROVE StartTxKept(q)'
    <2>1. q # p /\ tx'[q] = tx[q] /\ StartTxKept(q) /\ tx[q].kind = "start"
      BY <1>0, <1>2, <1>7 DEF StartKept
    <2>2. request'[tx[q].client] = request[tx[q].client]
      BY <1>3, <1>6, <1>6a, <2>1
    <2>3. UNCHANGED <<hurried, execution, reused, begun>> /\ tx[q].id \in ExecutionId
      BY <1>1, <1>6a, <2>1
    <2>4. \A r \in Process : byExecution'[r][tx[q].id] \in {Uncached, byExecution[r][tx[q].id]}
      BY <1>2, <2>3
    <2> QED BY <2>1, <2>2, <2>3, <2>4 DEF StartTxKept
  <1>8. OneStartPerClient'
    BY <1>0, <1>2 DEF StartKept, OneStartPerClient
  <1>9. PostIsIdempotent'
    <2> HIDE DEF lost
    <2> QED BY <1>1, <1>3 DEF StartKept, PostIsIdempotent
  <1>10. CacheFits' /\ NotBegun' /\ RunsItsSpecification'
    <2> HIDE DEF lost
    <2> QED BY <1>1, <1>2 DEF StartKept, CacheFits, NotBegun, RunsItsSpecification
  <1>11. \A d \in Client : request'[d].step # "new" => request'[d].id \in ExecutionId
    BY <1>0, <1>1, <1>3, <1>6a DEF StartKept, StartTxKept
  <1> HIDE DEF lost
  <1> QED BY <1>1, <1>5, <1>7, <1>8, <1>9, <1>10, <1>11 DEF StartKept

\* An engine that starts an execution, or handles a message of one.
LEMMA StartNext ==
    ASSUME TxOK, LocksOK, StartTypeOK, StartKept, NEW p \in Process, StartStep(p)
    PROVE  StartTyped /\ Acquires(p) /\ StartKept'
  <1> DEFINE Goal == StartTyped /\ Acquires(p) /\ StartKept'
             Request == [step : Steps, id : ExecutionId \cup {"none"}]
  <1>0. /\ tx[p] \in AnyTx /\ NoTx \in AnyTx /\ StartTx \subseteq AnyTx
        /\ \A q \in Process : tx[q].kind = "start" => tx[q] \in StartTx
        /\ NoTx.kind = "none" /\ NoTx.locks = {}
        /\ left \in [What -> Nat]
    BY KindTells DEF TxOK, AnyTx, NoTx
  <1>z. \A q \in Process : tx[q].kind = "start" =>
            /\ StartTxKept(q) /\ tx[q].client \in Client /\ tx[q].id \in ExecutionId
            /\ tx[q].spec \in Nat
    BY <1>0 DEF StartKept, StartTx
  \* Steps that answer the client of p, or fail, and close the transaction.
  <1>a. ASSUME tx[p].kind = "start", Close(p),
               NEW step \in {"sent", "answered", "failed"}, Answer(tx[p].client, step),
               NEW S \in SUBSET {tx[p].client}, troubled' = troubled \cup S,
               left' \in [What -> Nat],
               UNCHANGED <<second, definition, hurried, byDefinition, byExecution, reused, begun>>,
               NEW x, x = tx[p].id,
               execution' \in [ExecutionId -> Nat],
               \A y \in ExecutionId \ {x} : execution'[y] = execution[y],
               execution'[x] = execution[x] \/ /\ tx[p].stage = "created"
                                               /\ execution'[x] = tx[p].spec,
               S = {} => step = "answered" /\ execution'[x] # 0
        PROVE  Goal
    <2> DEFINE c == tx[p].client
    <2>0. tx[p] \in StartTx /\ c \in Client /\ StartTxKept(p) /\ x \in ExecutionId
      BY <1>0, <1>a, <1>z
    <2>1. /\ \A d \in Client \ {c} : request'[d] = request[d]
          /\ request'[c].step = step /\ request'[c].id = x
          /\ request' \in [Client -> Request]
      BY <1>a, <2>0 DEF Answer, StartTypeOK, Steps, StartTxKept
    <2>2. tx'[p] = NoTx /\ \A q \in Process \ {p} : tx'[q] = tx[q]
      BY <1>a DEF Close, TxOK
    <2>3. TxOK' /\ Moves(StartKinds) /\ Acquires(p)
      BY <1>0, <1>a, <2>2 DEF TxOK, Moves, Acquires, StartKinds, Close
    <2>4. StartTypeOK'
      BY <1>a, <2>0, <2>1 DEF StartTypeOK
    <2>5. ASSUME NEW q \in Process, tx'[q].kind = "start" PROVE StartTxKept(q)'
      <3>1. q # p /\ tx'[q] = tx[q] /\ StartTxKept(q) /\ tx[q].kind = "start"
        BY <1>0, <1>z, <2>2, <2>5
      <3>2. request'[tx[q].client] = request[tx[q].client]
        BY <1>a, <1>z, <2>1, <3>1 DEF StartKept, OneStartPerClient
      <3>3. (tx[q].stage = "created" /\ execution'[x] # execution[x]) => tx[q].id # x
        BY <1>a, <2>0, <3>1 DEF StartTxKept, LocksOK
      <3> QED BY <1>a, <1>z, <3>1, <3>2, <3>3 DEF StartTxKept
    <2>6. OneStartPerClient'
      BY <1>0, <2>2 DEF StartKept, OneStartPerClient
    <2>7. PostIsIdempotent'
      <3>1. ASSUME NEW d \in Client \ troubled'
            PROVE  /\ request'[d].step # "failed"
                   /\ request'[d].step = "answered" => execution'[request'[d].id] # 0
        <4>1. CASE d = c
          BY <1>a, <2>0, <2>1, <3>1, <4>1
        <4>2. CASE d # c
          <5>1. request'[d] = request[d] /\ d \notin troubled
            BY <1>a, <2>1, <3>1, <4>2
          <5>2. execution[x] # 0 => execution'[x] # 0
            BY <1>a, <2>0 DEF StartTxKept
          <5>3. request[d].step # "new" => request[d].id \in ExecutionId
            BY DEF StartKept
          <5> QED BY <1>a, <5>1, <5>2, <5>3 DEF StartKept, PostIsIdempotent
        <4> QED BY <4>1, <4>2
      <3> QED BY <3>1 DEF PostIsIdempotent
    <2>8. CacheFits'
      BY <1>a DEF StartKept, CacheFits
    <2>9. NotBegun'
      BY <1>a, <2>0 DEF StartKept, NotBegun, StartTxKept
    <2>10. RunsItsSpecification'
      BY <1>a, <2>0 DEF StartKept, RunsItsSpecification, StartTxKept, Uncached
    <2>11. \A d \in Client : request'[d].step # "new" => request'[d].id \in ExecutionId
      BY <2>0, <2>1 DEF StartKept
    <2> QED BY <1>a, <2>3, <2>4, <2>5, <2>6, <2>7, <2>8, <2>9, <2>10, <2>11
               DEF StartKept, StartTyped
  <1>1. ASSUME NEW c \in Client, LoadWorkflow(p, c) PROVE Goal
    <2> DEFINE spec == ByDefinitionId(p, definition)
               t == [kind |-> "start", stage |-> "loaded", client |-> c, id |-> request[c].id,
                     spec |-> spec, row |-> definition.text, locks |-> {}]
    <2>0. /\ definition.text \in Nat \ {0} /\ definition.updated_at \in Stamps
          /\ spec \in Nat /\ spec # 0 /\ (~hurried => spec = definition.text)
      BY DEF ByDefinitionId, StartTypeOK, Uncached, StartKept, CacheFits
    <2>1. /\ request[c].step = "sent" /\ \A q \in Process : tx[q].kind = "start" => tx[q].client # c
          /\ byDefinition' = [byDefinition EXCEPT ![p][definition.updated_at] = spec]
          /\ tx[p] = NoTx /\ tx' = [tx EXCEPT ![p] = t]
          /\ UNCHANGED <<second, definition, hurried, byExecution, execution, reused, begun,
                         request, troubled, left>>
      BY <1>1 DEF LoadWorkflow, Open, Running
    <2>2. request[c].id \in ExecutionId
      BY <2>1 DEF StartKept
    <2>3. /\ t \in StartTx /\ t.kind = "start" /\ t.stage = "loaded" /\ t.client = c
          /\ t.id = request[c].id /\ t.spec = spec /\ t.row = definition.text /\ t.locks = {}
      BY <2>0, <2>2 DEF StartTx
    <2> HIDE DEF t, spec
    <2>4. tx'[p] = t /\ \A q \in Process \ {p} : tx'[q] = tx[q]
      BY <2>1 DEF TxOK
    <2>5. TxOK' /\ Moves(StartKinds) /\ Acquires(p)
      BY <1>0, <2>1, <2>3, <2>4 DEF TxOK, Moves, Acquires, StartKinds
    <2>6. StartTypeOK'
      BY <2>0, <2>1, Caches DEF StartTypeOK
    <2>7. ASSUME NEW q \in Process, tx'[q].kind = "start" PROVE StartTxKept(q)'
      BY <1>z, <2>0, <2>1, <2>3, <2>4, <2>7 DEF StartTxKept
    <2>8. OneStartPerClient'
      BY <2>1, <2>3, <2>4 DEF StartKept, OneStartPerClient
    <2>9. CacheFits'
      <3>1. \A q \in Process, s \in Stamps :
               \/ byDefinition'[q][s] = byDefinition[q][s]
               \/ s = definition.updated_at /\ byDefinition'[q][s] = spec
        BY <2>0, <2>1 DEF StartTypeOK
      <3>2. \A s \in Stamps : s <= s
        BY StartAssumption DEF Stamps, Null
      <3> QED BY <2>0, <2>1, <3>1, <3>2 DEF StartKept, CacheFits
    <2> QED BY <2>1, <2>5, <2>6, <2>7, <2>8, <2>9 DEF StartKept, StartTyped, NotBegun,
               RunsItsSpecification, PostIsIdempotent
  <1>2. CASE CreateExecution(p)
    <2> DEFINE x == tx[p].id
               t == [tx[p] EXCEPT !.stage = "created", !.locks = {x}]
    <2>0. /\ tx[p] \in StartTx /\ tx[p].kind = "start" /\ x \in ExecutionId /\ StartTxKept(p)
          /\ tx[p].spec \in Nat /\ tx[p].client \in Client
      BY <1>2, <1>z, <1>0 DEF CreateExecution
    <2>1. /\ Free(p, x) /\ execution[x] = 0
          /\ byExecution' = [byExecution EXCEPT ![p][x] = tx[p].spec]
          /\ begun' = begun \cup {x} /\ reused' = reused \cup ({x} \cap begun)
          /\ tx' = [tx EXCEPT ![p] = t]
          /\ UNCHANGED <<second, definition, hurried, byDefinition, execution, request,
                         troubled, left>>
      BY <1>2 DEF CreateExecution, Change
    <2>2. /\ t \in StartTx /\ t.kind = "start" /\ t.stage = "created" /\ t.client = tx[p].client
          /\ t.id = x /\ t.spec = tx[p].spec /\ t.row = tx[p].row /\ t.locks = {x}
      BY <2>0 DEF StartTx
    <2> HIDE DEF t
    <2>3. tx'[p] = t /\ \A q \in Process \ {p} : tx'[q] = tx[q]
      BY <2>1 DEF TxOK
    <2>4. TxOK' /\ Moves(StartKinds) /\ Acquires(p)
      BY <1>0, <2>0, <2>1, <2>2, <2>3 DEF TxOK, Moves, Acquires, StartKinds
    <2>5. StartTypeOK'
      BY <2>0, <2>1, Caches DEF StartTypeOK
    <2>6. \A q \in Process, y \in ExecutionId :
             byExecution'[q][y] = IF q = p /\ y = x THEN tx[p].spec ELSE byExecution[q][y]
      BY <2>0, <2>1 DEF StartTypeOK
    <2>7. x \notin reused' => x \notin begun /\ \A q \in Process : byExecution[q][x] = Uncached
      BY <2>0, <2>1 DEF StartKept, NotBegun
    <2>8. ASSUME NEW q \in Process, tx'[q].kind = "start" PROVE StartTxKept(q)'
      <3>1. CASE q = p
        <4>1. t.id \notin reused' => \A r \in Process : byExecution'[r][t.id] \in {Uncached, t.spec}
          BY <2>0, <2>2, <2>6, <2>7
        <4> QED BY <2>0, <2>1, <2>2, <2>3, <3>1, <4>1 DEF StartTxKept
      <3>2. CASE q # p
        <4>1. tx'[q] = tx[q] /\ tx[q].kind = "start" /\ StartTxKept(q) /\ tx[q].id \in ExecutionId
          BY <1>z, <2>3, <2>8, <3>2
        <4>2. tx[q].stage = "created" => tx[q].id # x
          BY <2>1, <3>2, <4>1 DEF StartTxKept, Free
        <4> QED BY <2>0, <2>1, <2>6, <4>1, <4>2 DEF StartTxKept
      <3> QED BY <3>1, <3>2
    <2>9. OneStartPerClient'
      BY <2>0, <2>2, <2>3 DEF StartKept, OneStartPerClient
    <2>10. NotBegun'
      BY <2>0, <2>1, <2>6 DEF StartKept, NotBegun
    <2>11. RunsItsSpecification'
      BY <2>0, <2>1, <2>6 DEF StartKept, RunsItsSpecification
    <2> QED BY <2>1, <2>4, <2>5, <2>8, <2>9, <2>10, <2>11 DEF StartKept, StartTyped, CacheFits,
               PostIsIdempotent
  <1>3. CASE CommitStart(p)
    <2>1. /\ tx[p].kind = "start" /\ tx[p].stage = "created" /\ tx[p].spec # 0
          /\ execution' = [execution EXCEPT ![tx[p].id] = tx[p].spec]
          /\ tx[p].id \in ExecutionId /\ tx[p].spec \in Nat
      BY <1>3, <1>z DEF CommitStart, StartTxKept
    <2>2. /\ execution' \in [ExecutionId -> Nat] /\ execution'[tx[p].id] = tx[p].spec
          /\ \A y \in ExecutionId \ {tx[p].id} : execution'[y] = execution[y]
      BY <2>1 DEF StartTypeOK
    <2>3. /\ Answer(tx[p].client, "answered") /\ Close(p) /\ troubled' = troubled \cup {}
          /\ UNCHANGED <<second, definition, hurried, byDefinition, byExecution, reused, begun, left>>
      BY <1>3 DEF CommitStart
    <2> QED BY <1>0, <1>a, <2>1, <2>2, <2>3
  <1>4. CASE DuplicateEntry(p)
    <2>1. tx[p].kind = "start" /\ execution[tx[p].id] # 0 /\ tx[p].id \in ExecutionId
      BY <1>4, <1>z DEF DuplicateEntry
    <2>2. /\ Answer(tx[p].client, "answered") /\ Close(p) /\ troubled' = troubled \cup {}
          /\ UNCHANGED <<second, definition, hurried, byDefinition, byExecution, execution,
                         reused, begun, left>>
      BY <1>4 DEF DuplicateEntry, Existing
    <2>3. execution' \in [ExecutionId -> Nat]
      BY <2>2 DEF StartTypeOK
    <2> QED BY <1>0, <1>a, <2>1, <2>2, <2>3
  <1>5. CASE StartFails(p)
    <2>1. tx[p].kind = "start" /\ tx[p].id \in ExecutionId /\ left' \in [What -> Nat]
      BY <1>0, <1>5, <1>z, Spent DEF StartFails
    <2>2. /\ Answer(tx[p].client, "sent") \/ Answer(tx[p].client, "failed")
          /\ Close(p) /\ troubled' = troubled \cup {tx[p].client}
          /\ UNCHANGED <<second, definition, hurried, byDefinition, byExecution, execution,
                         reused, begun>>
      BY <1>5 DEF StartFails
    <2>3. execution' \in [ExecutionId -> Nat] /\ {tx[p].client} # {}
      BY <2>2 DEF StartTypeOK
    <2>4. CASE Answer(tx[p].client, "sent")
      BY <1>a, <2>1, <2>2, <2>3, <2>4
    <2>5. CASE Answer(tx[p].client, "failed")
      BY <1>a, <2>1, <2>2, <2>3, <2>5
    <2> QED BY <2>2, <2>4, <2>5
  \* Steps that only touch the caches of p.
  <1>b. ASSUME tx' = tx, left' \in [What -> Nat],
               UNCHANGED <<second, definition, hurried, execution, reused, begun, request, troubled>>,
               byDefinition' \in [Process -> [Stamps -> Nat]],
               byExecution' \in [Process -> [ExecutionId -> Nat]],
               \A q \in Process, s \in Stamps :
                   byDefinition'[q][s] \in {Uncached, byDefinition[q][s]},
               \A q \in Process, x \in ExecutionId :
                   \/ byExecution'[q][x] \in {Uncached, byExecution[q][x]}
                   \/ byExecution'[q][x] = execution[x] /\ execution[x] # 0
        PROVE  Goal
    <2>1. TxOK' /\ Moves(StartKinds) /\ Acquires(p) /\ StartTypeOK'
      BY <1>0, <1>b DEF TxOK, Moves, Acquires, StartTypeOK
    <2>2. ASSUME NEW q \in Process, tx[q].kind = "start" PROVE StartTxKept(q)'
      <3>1. StartTxKept(q)
        BY <1>z, <2>2
      <3>2. ASSUME tx[q].stage = "created", tx[q].id \notin reused, NEW o \in Process
            PROVE  byExecution'[o][tx[q].id] \in {Uncached, tx[q].spec}
        <4>1. execution[tx[q].id] = 0 /\ byExecution[o][tx[q].id] \in {Uncached, tx[q].spec}
          BY <3>1, <3>2 DEF StartTxKept
        <4>2. tx[q].id \in ExecutionId
          BY <1>z, <2>2
        <4> QED BY <1>b, <4>1, <4>2
      <3> HIDE DEF Goal
      <3> QED BY <1>b, <3>1, <3>2, Zenon DEF StartTxKept
    <2>3. CacheFits'
      BY <1>b DEF StartKept, CacheFits
    <2>4. NotBegun'
      BY <1>b DEF StartKept, NotBegun
    <2>5. RunsItsSpecification'
      <3>1. ASSUME NEW q \in Process, NEW x \in ExecutionId \ reused, execution[x] # 0,
                   byExecution'[q][x] # Uncached
            PROVE  byExecution'[q][x] = execution[x]
        BY <1>b, <3>1 DEF StartKept, RunsItsSpecification
      <3> QED BY <1>b, <3>1 DEF RunsItsSpecification
    <2> QED BY <1>b, <2>1, <2>2, <2>3, <2>4, <2>5 DEF StartKept, StartTyped, OneStartPerClient,
               PostIsIdempotent
  <1>6. CASE Evict(p)
    <2>0. Uncached \in Nat /\ left' \in [What -> Nat]
      BY <1>0, <1>6, Spent DEF Uncached, Evict
    <2>1. ASSUME NEW x \in ExecutionId, byExecution' = [byExecution EXCEPT ![p][x] = Uncached],
                 byDefinition' = byDefinition
          PROVE  Goal
      <3>1. \A q \in Process, y \in ExecutionId : byExecution'[q][y] \in {Uncached, byExecution[q][y]}
        BY <2>1 DEF StartTypeOK
      <3> QED BY <1>6, <1>b, <2>0, <2>1, <3>1, Caches DEF Evict, StartTypeOK
    <2>2. ASSUME NEW s \in Stamps, byDefinition' = [byDefinition EXCEPT ![p][s] = Uncached],
                 byExecution' = byExecution
          PROVE  Goal
      <3>1. \A q \in Process, r \in Stamps : byDefinition'[q][r] \in {Uncached, byDefinition[q][r]}
        BY <2>2 DEF StartTypeOK
      <3> QED BY <1>6, <1>b, <2>0, <2>2, <3>1, Caches DEF Evict, StartTypeOK
    <2> QED BY <1>6, <2>1, <2>2 DEF Evict
  <1>7. ASSUME NEW x \in ExecutionId, HandleMessage(p, x) PROVE Goal
    <2> DEFINE v == ByExecutionId(p, x)
    <2>0. v \in Nat /\ (v = byExecution[p][x] \/ v = execution[x]) /\ execution[x] # 0
      BY <1>7 DEF HandleMessage, ByExecutionId, StartTypeOK
    <2>1. byExecution' = [byExecution EXCEPT ![p][x] = v]
      BY <1>7 DEF HandleMessage
    <2> HIDE DEF v
    <2>2. \A q \in Process, y \in ExecutionId :
             \/ byExecution'[q][y] = byExecution[q][y]
             \/ byExecution'[q][y] = execution[y] /\ execution[y] # 0
      BY <2>0, <2>1 DEF StartTypeOK
    <2> QED BY <1>0, <1>7, <1>b, <2>0, <2>1, <2>2, Caches DEF HandleMessage, StartTypeOK
  <1> QED
    BY <1>1, <1>2, <1>3, <1>4, <1>5, <1>6, <1>7 DEF StartStep


-----------------------------------------------------------------------------
(* Naturals, finite sets and sequences.                                     *)

\* A set of naturals has a least element, which stands in for induction.
LEMMA LeastExists ==
    ASSUME NEW T \in SUBSET Nat, T # {}
    PROVE  \E x \in T : \A y \in T : x <= y
  <1> DEFINE R == OpToRel(<, Nat)
  <1>1. IsWellFoundedOn(R, Nat)
    BY NatLessThanWellFounded
  <1>2. PICK x \in T : \A y \in T : ~(<<y, x>> \in R)
    <2> HIDE DEF R
    <2> QED BY <1>1, WFMin
  <1>3. \A y \in T : ~(y < x)
    BY <1>2 DEF OpToRel
  <1> QED BY <1>3

\* A finite set of naturals has a greatest element.
LEMMA GreatestExists ==
    ASSUME NEW S \in SUBSET Nat, IsFiniteSet(S), S # {}
    PROVE  \E x \in S : \A y \in S : y <= x
  <1> DEFINE Bad == {X \in SUBSET S : X # {} /\ ~\E x \in X : \A y \in X : y <= x}
             Sizes == {n \in Nat : \E X \in Bad : Cardinality(X) = n}
  <1>1. SUFFICES ASSUME Bad # {} PROVE FALSE
    OBVIOUS
  <1>2. \A X \in Bad : IsFiniteSet(X) /\ Cardinality(X) \in Nat
    BY FS_Subset, FS_CardinalityType
  <1>3. PICK n \in Sizes : \A m \in Sizes : n <= m
    <2>1. Sizes \in SUBSET Nat /\ Sizes # {}
      BY <1>1, <1>2
    <2> HIDE DEF Sizes
    <2> QED BY <2>1, LeastExists
  <1>4. PICK X \in Bad : Cardinality(X) = n
    BY <1>3
  <1>5. PICK x \in X : TRUE
    BY <1>4
  <1> DEFINE Y == X \ {x}
  <1>6. Y \subseteq S /\ Cardinality(Y) = n - 1 /\ Cardinality(Y) \in Nat
    BY <1>2, <1>4, <1>5, FS_RemoveElement, FS_CardinalityType
  <1>7. Y \notin Bad
    <2>1. SUFFICES ASSUME Y \in Bad PROVE FALSE
      OBVIOUS
    <2>2. Cardinality(Y) \in Sizes
      BY <1>6, <2>1
    <2>3. n <= Cardinality(Y)
      BY <1>3, <2>2
    <2> HIDE DEF Y
    <2> QED BY <1>3, <1>6, <2>3
  <1>8. CASE Y = {}
    BY <1>4, <1>5, <1>8
  <1>9. CASE Y # {}
    <2>1. PICK z \in Y : \A y \in Y : y <= z
      BY <1>6, <1>7, <1>9
    <2>2. x \in Nat /\ z \in Nat /\ z \in X /\ X \subseteq Nat
      BY <1>4, <1>5, <1>6, <2>1
    <2>3. \A y \in X : y = x \/ y <= z
      BY <2>1
    <2>4. (\A y \in X : y <= z) \/ (\A y \in X : y <= x)
      BY <2>2, <2>3
    <2> QED BY <1>4, <1>5, <2>2, <2>4
  <1> QED BY <1>8, <1>9

\* What is in a sequence, and whether it is in strictly increasing order.
In(r, s) == \E i \in DOMAIN s : s[i] = r
Increasing(s) == \A i, k \in DOMAIN s : i < k => s[i] < s[k]

\* Appending a greater element.
LEMMA AppendIncreases ==
    ASSUME NEW S \in SUBSET Nat, NEW s \in Seq(S), NEW r \in S, Increasing(s),
           \A x \in S : In(x, s) => x < r
    PROVE  /\ Append(s, r) \in Seq(S) /\ Increasing(Append(s, r))
           /\ \A x : In(x, Append(s, r)) <=> (In(x, s) \/ x = r)
           /\ Len(Append(s, r)) = Len(s) + 1
  <1>1. /\ Append(s, r) \in Seq(S) /\ Len(Append(s, r)) = Len(s) + 1
        /\ \A i \in 1..Len(s) : Append(s, r)[i] = s[i]
        /\ Append(s, r)[Len(s) + 1] = r
    BY AppendProperties
  <1>2. Len(s) \in Nat /\ DOMAIN s = 1..Len(s) /\ DOMAIN Append(s, r) = 1..(Len(s) + 1)
        /\ \A i \in DOMAIN s : s[i] \in S
    BY <1>1, LenProperties
  <1>3. \A i \in DOMAIN s : s[i] < r
    BY <1>2 DEF In
  <1>4. ASSUME NEW i \in 1..(Len(s) + 1), NEW k \in 1..(Len(s) + 1), i < k
        PROVE  Append(s, r)[i] < Append(s, r)[k]
    BY <1>1, <1>2, <1>3, <1>4 DEF Increasing
  <1>5. ASSUME NEW x PROVE In(x, Append(s, r)) <=> (In(x, s) \/ x = r)
    BY <1>1, <1>2 DEF In
  <1> QED BY <1>1, <1>2, <1>4, <1>5 DEF Increasing

\* Appending a sequence of greater elements.
LEMMA ConcatIncreases ==
    ASSUME NEW S \in SUBSET Nat, NEW s \in Seq(S), NEW t \in Seq(S), Increasing(s), Increasing(t),
           \A x, y \in S : In(x, s) /\ In(y, t) => x < y
    PROVE  /\ s \o t \in Seq(S) /\ Increasing(s \o t)
           /\ \A x : In(x, s \o t) <=> (In(x, s) \/ In(x, t))
  <1> DEFINE u == s \o t
  <1>1. /\ u \in Seq(S) /\ Len(u) = Len(s) + Len(t)
        /\ \A i \in 1..(Len(s) + Len(t)) : u[i] = IF i <= Len(s) THEN s[i] ELSE t[i - Len(s)]
    BY ConcatProperties
  <1>2. /\ Len(s) \in Nat /\ DOMAIN s = 1..Len(s) /\ Len(t) \in Nat /\ DOMAIN t = 1..Len(t)
        /\ DOMAIN u = 1..(Len(s) + Len(t))
        /\ \A i \in DOMAIN s : s[i] \in S
        /\ \A i \in DOMAIN t : t[i] \in S
    BY <1>1, LenProperties
  <1> HIDE DEF u
  <1>3. \A i \in DOMAIN s, k \in DOMAIN t : s[i] < t[k]
    BY <1>2 DEF In
  <1>4. ASSUME NEW i \in DOMAIN u, NEW k \in DOMAIN u, i < k PROVE u[i] < u[k]
    <2>1. CASE k <= Len(s)
      <3>1. i \in DOMAIN s /\ k \in DOMAIN s /\ u[i] = s[i] /\ u[k] = s[k]
        BY <1>1, <1>2, <1>4, <2>1
      <3> QED BY <1>4, <3>1 DEF Increasing
    <2>2. CASE i <= Len(s) /\ k > Len(s)
      <3>1. i \in DOMAIN s /\ k - Len(s) \in DOMAIN t /\ u[i] = s[i] /\ u[k] = t[k - Len(s)]
        BY <1>1, <1>2, <1>4, <2>2
      <3> QED BY <1>3, <3>1
    <2>3. CASE i > Len(s)
      <3>1. /\ i - Len(s) \in DOMAIN t /\ k - Len(s) \in DOMAIN t
            /\ u[i] = t[i - Len(s)] /\ u[k] = t[k - Len(s)] /\ i - Len(s) < k - Len(s)
        BY <1>1, <1>2, <1>4, <2>3
      <3> QED BY <3>1 DEF Increasing
    <2> QED BY <1>2, <1>4, <2>1, <2>2, <2>3
  <1>5. ASSUME NEW x PROVE In(x, u) <=> (In(x, s) \/ In(x, t))
    <2>1. ASSUME NEW i \in DOMAIN u PROVE (i \in DOMAIN s /\ u[i] = s[i])
                                          \/ (i - Len(s) \in DOMAIN t /\ u[i] = t[i - Len(s)])
      BY <1>1, <1>2
    <2>2. ASSUME NEW i \in DOMAIN s PROVE i \in DOMAIN u /\ u[i] = s[i]
      BY <1>1, <1>2
    <2>3. ASSUME NEW i \in DOMAIN t PROVE i + Len(s) \in DOMAIN u /\ u[i + Len(s)] = t[i]
      <3>1. i + Len(s) \in DOMAIN u /\ ~(i + Len(s) <= Len(s)) /\ (i + Len(s)) - Len(s) = i
        BY <1>2
      <3> QED BY <1>1, <1>2, <3>1
    <2>4. ASSUME In(x, u) PROVE In(x, s) \/ In(x, t)
      BY <2>1, <2>4 DEF In
    <2>5. ASSUME In(x, s) PROVE In(x, u)
      BY <2>2, <2>5 DEF In
    <2>6. ASSUME In(x, t) PROVE In(x, u)
      BY <2>3, <2>6 DEF In
    <2> QED BY <2>4, <2>5, <2>6
  <1> QED BY <1>1, <1>4, <1>5 DEF Increasing, u

\* A page has at most Limit rows, all before the others, and is everything if less.
LEMMA PageIsFirst ==
    ASSUME NEW S \in SUBSET Nat, IsFiniteSet(S)
    PROVE  /\ FirstOf(S) \subseteq S /\ IsFiniteSet(FirstOf(S))
           /\ Cardinality(FirstOf(S)) \in Nat /\ Cardinality(FirstOf(S)) <= Limit
           /\ Cardinality(FirstOf(S)) < Limit => FirstOf(S) = S
           /\ \A r \in S \ FirstOf(S) : \A q \in FirstOf(S) : q < r
  <1> DEFINE Below(r) == {q \in S : q < r}
             F == FirstOf(S)
  <1> USE ListingAssumption
  <1>1. \A r \in S : /\ Below(r) \subseteq S /\ IsFiniteSet(Below(r))
                     /\ Cardinality(Below(r)) \in Nat
    BY FS_Subset, FS_CardinalityType
  <1>2. F = {r \in S : Cardinality(Below(r)) < Limit}
    BY DEF FirstOf
  <1>3. F \subseteq S /\ IsFiniteSet(F) /\ Cardinality(F) \in Nat
    <2>1. F \subseteq S
      BY <1>2
    <2> HIDE DEF F
    <2> QED BY <2>1, FS_Subset, FS_CardinalityType
  <1>4. ASSUME NEW r \in S \ F, NEW q \in F PROVE q < r
    <2>1. SUFFICES ASSUME ~(q < r) PROVE FALSE
      OBVIOUS
    <2>2. q \in S /\ q \in Nat /\ r \in Nat
      BY <1>3
    <2>3. Below(r) \subseteq Below(q)
      <3>1. ASSUME NEW x \in S, x < r PROVE x < q
        <4>1. x \in Nat /\ r <= q
          BY <2>1, <2>2
        <4> QED BY <2>2, <3>1, <4>1
      <3> QED BY <3>1
    <2>4. Cardinality(Below(r)) <= Cardinality(Below(q))
      BY <1>1, <2>2, <2>3, FS_Subset
    <2>5. Cardinality(Below(q)) < Limit /\ ~(Cardinality(Below(r)) < Limit)
      BY <1>2, <1>4
    <2> HIDE DEF Below
    <2> QED BY <1>1, <2>2, <2>4, <2>5
  <1>5. Cardinality(F) <= Limit
    <2>1. CASE F = {}
      BY <2>1, FS_EmptySet
    <2>2. CASE F # {}
      <3>1. PICK r \in F : \A q \in F : q <= r
        <4>1. F \in SUBSET Nat
          BY <1>3
        <4> HIDE DEF F
        <4> QED BY <1>3, <2>2, <4>1, GreatestExists
      <3>2. F \subseteq Below(r) \cup {r}
        <4>1. ASSUME NEW q \in F PROVE q \in Below(r) \cup {r}
          <5>1. q \in S /\ q \in Nat /\ r \in Nat /\ q <= r
            BY <1>3, <3>1
          <5> QED BY <5>1
        <4> HIDE DEF F
        <4> QED BY <4>1
      <3>3. r \in S /\ Cardinality(Below(r)) < Limit /\ r \notin Below(r)
        <4>1. r \in S /\ r \in Nat /\ Cardinality(Below(r)) < Limit
          BY <1>2, <1>3, <3>1
        <4>2. ~(r < r)
          BY <4>1
        <4> QED BY <4>1, <4>2
      <3>4. /\ IsFiniteSet(Below(r) \cup {r})
            /\ Cardinality(Below(r) \cup {r}) = Cardinality(Below(r)) + 1
        BY <1>1, <3>3, FS_AddElement
      <3>5. Cardinality(F) <= Cardinality(Below(r) \cup {r})
        BY <3>2, <3>4, FS_Subset
      <3> HIDE DEF F, Below
      <3> QED BY <1>1, <1>3, <3>3, <3>4, <3>5
    <2> QED BY <2>1, <2>2
  <1>6. ASSUME Cardinality(F) < Limit PROVE F = S
    <2>1. SUFFICES ASSUME S \ F # {} PROVE FALSE
      BY <1>3
    <2>2. PICK r \in S \ F : \A q \in S \ F : r <= q
      <3>1. S \ F \in SUBSET Nat
        OBVIOUS
      <3> HIDE DEF F
      <3> QED BY <2>1, <3>1, LeastExists
    <2>3. Below(r) \subseteq F
      <3>1. ASSUME NEW q \in S, q < r PROVE q \in F
        BY <2>2, <3>1
      <3> HIDE DEF F
      <3> QED BY <3>1
    <2>4. Cardinality(Below(r)) <= Cardinality(F)
      BY <1>3, <2>3, FS_Subset
    <2>5. ~(Cardinality(Below(r)) < Limit)
      BY <1>2, <2>2
    <2> HIDE DEF F, Below
    <2> QED BY <1>1, <1>3, <1>6, <2>2, <2>4, <2>5
  <1> QED BY <1>3, <1>4, <1>5, <1>6


-----------------------------------------------------------------------------
(* Listings.                                                                *)

\* The page that a transaction converts: what it has still to convert comes behind
\* what it has converted, and what it will not have comes behind a full page.
PageFits(p) ==
    LET rows == tx[p].rows
        size == Len(listing.page) + Cardinality(rows)
    IN  /\ size <= Limit
        /\ \A r \in rows : r > listing.marker /\ \A x \in Row : In(x, listing.page) => x < r
        /\ \A r \in lasting : r > listing.marker =>
               \/ In(r, listing.page) \/ r \in rows
               \/ size = Limit /\ \A x \in Row : (In(x, listing.page) \/ x \in rows) => x < r

\* What was received is in order and complete up to the marker.
Complete ==
    /\ Increasing(received)
    /\ listing.step # "done" => \A r \in Row : In(r, received) => r <= listing.marker
    /\ \A r \in lasting : (r <= listing.marker \/ listing.step = "done") => In(r, received)
    /\ Increasing(listing.page) /\ \A r \in Row : In(r, listing.page) => r > listing.marker
    /\ Running("list") = {} => listing.page = <<>>
    /\ \A p \in Process : tx[p].kind = "list" => PageFits(p)

OneListing == \A p, q \in Process : tx[p].kind = "list" /\ tx[q].kind = "list" => p = q

ListKept == /\ lasting \subseteq present /\ OneListing
            /\ Running("list") # {} => listing.step = "asked"
            /\ listing.step # "asked" => listing.page = <<>>
            /\ ~torn => Complete

\* A step of another part keeps the invariant of listings.
LEMMA ListFrame ==
    ASSUME ListKept, UNCHANGED listVars,
           \A q \in Process : (tx[q].kind = "list" \/ tx'[q].kind = "list") => tx'[q] = tx[q]
    PROVE  ListKept'
  <1>1. Running("list")' = Running("list")
    BY DEF Running
  <1>2. \A p \in Process : tx'[p].kind = "list" => tx'[p] = tx[p]
    OBVIOUS
  <1>3. \A p \in Process : tx'[p].kind = "list" /\ PageFits(p) => PageFits(p)'
    BY <1>2 DEF PageFits, listVars
  <1>4. Complete => Complete'
    BY <1>1, <1>2, <1>3 DEF Complete, listVars
  <1>5. OneListing'
    BY <1>2 DEF ListKept, OneListing
  <1> QED BY <1>1, <1>4, <1>5 DEF ListKept, listVars

ListTyped == TxOK' /\ ListTypeOK' /\ Moves(ListKinds)

\* A restart loses the page.
LEMMA ListRestarts ==
    ASSUME TxOK, ListTypeOK, ListKept, NEW p \in Process, RestartListing(p), Close(p)
    PROVE  ListTypeOK' /\ ListKept'
  <1>1. /\ listing' = IF tx[p].kind = "list" THEN [listing EXCEPT !.page = <<>>] ELSE listing
        /\ UNCHANGED <<present, used, received, lasting, torn>>
        /\ tx'[p] = NoTx /\ NoTx.kind = "none" /\ \A q \in Process \ {p} : tx'[q] = tx[q]
    BY DEF RestartListing, Close, TxOK, NoTx
  <1>2. ListTypeOK'
    <2>1. <<>> \in Seq(Row)
      OBVIOUS
    <2> QED BY <1>1, <2>1 DEF ListTypeOK
  <1>3. CASE tx[p].kind # "list"
    <2>1. \A q \in Process : (tx[q].kind = "list" \/ tx'[q].kind = "list") => tx'[q] = tx[q]
      BY <1>1, <1>3
    <2> QED BY <1>1, <1>2, <1>3, <2>1, ListFrame DEF listVars
  <1>4. CASE tx[p].kind = "list"
    <2>1. Running("list")' = {} /\ \A q \in Process : tx'[q].kind # "list"
      BY <1>1, <1>4 DEF Running, ListKept, OneListing
    <2>2. /\ listing'.page = <<>> /\ listing'.step = listing.step
          /\ listing'.marker = listing.marker
      BY <1>1, <1>4 DEF ListTypeOK
    <2>3. Increasing(<<>>) /\ \A r : ~In(r, <<>>)
      BY DEF Increasing, In
    <2>4. Complete => Complete'
      BY <1>1, <2>1, <2>2, <2>3 DEF Complete
    <2> QED BY <1>1, <1>2, <2>1, <2>2, <2>4 DEF ListKept, OneListing
  <1> QED BY <1>3, <1>4

\* Other requests for rows, and the client's.
LEMMA BrowseNext ==
    ASSUME TxOK, ListTypeOK, ListKept, ListRequest
    PROVE  ListTyped /\ tx' = tx /\ ListKept'
  <1>0. tx' = tx /\ left' \in [What -> Nat]
    BY Spent DEF ListRequest, GetAll, MarkerGone, AddRow, RemoveRow, TxOK
  <1>1. TxOK' /\ Moves(ListKinds)
    BY <1>0 DEF TxOK, Moves
  <1>2. Running("list")' = Running("list")
    BY <1>0 DEF Running
  <1> USE DEF ListTypeOK
  <1>3. CASE GetAll
    <2>1. /\ listing'.step = "asked" /\ listing'.page = listing.page
          /\ listing'.marker = listing.marker /\ listing.step = "new"
          /\ UNCHANGED <<present, used, received, lasting, torn, tx>>
      BY <1>3 DEF GetAll
    <2>2. ListTypeOK'
      BY <1>3 DEF GetAll
    <2> HIDE DEF ListTypeOK
    <2>3. \A p \in Process : PageFits(p) => PageFits(p)'
      BY <2>1 DEF PageFits
    <2>4. Complete => Complete'
      BY <1>2, <2>1, <2>3 DEF Complete
    <2> QED BY <1>0, <1>1, <1>2, <2>1, <2>2, <2>4 DEF ListTyped, ListKept, OneListing
  <1>4. CASE MarkerGone
    <2>1. /\ listing'.step = "refused" /\ listing'.page = listing.page
          /\ listing'.marker = listing.marker /\ listing.page = <<>> /\ Running("list") = {}
          /\ listing.step = "asked"
          /\ UNCHANGED <<present, used, received, lasting, torn, tx>>
      BY <1>4 DEF MarkerGone
    <2>2. ListTypeOK'
      BY <1>4 DEF MarkerGone
    <2> HIDE DEF ListTypeOK
    <2>3. \A p \in Process : PageFits(p) => PageFits(p)'
      BY <2>1 DEF PageFits
    <2>4. Complete => Complete'
      BY <1>2, <2>1, <2>3 DEF Complete
    <2> QED BY <1>0, <1>1, <1>2, <2>1, <2>2, <2>4 DEF ListTyped, ListKept, OneListing
  <1>5. ASSUME NEW r \in Row, AddRow(r) \/ RemoveRow(r) PROVE ListTyped /\ ListKept'
    <2>1. /\ lasting' \subseteq lasting /\ lasting' \subseteq present'
          /\ UNCHANGED <<listing, received, torn, tx>>
      BY <1>5 DEF AddRow, RemoveRow, ListKept
    <2>2. ListTypeOK'
      BY <1>5 DEF AddRow, RemoveRow
    <2> HIDE DEF ListTypeOK
    <2>3. \A p \in Process : PageFits(p) => PageFits(p)'
      BY <2>1 DEF PageFits
    <2>4. Complete => Complete'
      BY <1>2, <2>1, <2>3 DEF Complete
    <2> QED BY <1>0, <1>1, <1>2, <2>1, <2>2, <2>4 DEF ListTyped, ListKept, OneListing
  <1> QED BY <1>0, <1>3, <1>4, <1>5 DEF ListRequest

\* The transaction that answers a page.
LEMMA ListNext ==
    ASSUME TxOK, ListTypeOK, ListKept, NEW p \in Process, ListStep(p)
    PROVE  ListTyped /\ Acquires(p) /\ ListKept'
  <1> DEFINE Goal == ListTyped /\ Acquires(p) /\ ListKept'
  <1> USE ListingAssumption
  <1>0. /\ tx[p] \in AnyTx /\ NoTx \in AnyTx /\ ListTx \subseteq AnyTx
        /\ \A q \in Process : tx[q].kind = "list" => tx[q] \in ListTx
        /\ NoTx.kind = "none" /\ NoTx.locks = {}
        /\ left \in [What -> Nat]
    BY KindTells DEF TxOK, AnyTx, NoTx
  <1>n. /\ Row \subseteq Nat /\ listing.marker \in Nat /\ Limit \in Nat
        /\ listing.page \in Seq(Row) /\ Len(listing.page) \in Nat
        /\ DOMAIN listing.page = 1..Len(listing.page)
        /\ \A i \in 1..Len(listing.page) : listing.page[i] \in Row
    <2>1. listing.page \in Seq(Row) /\ listing.marker \in Row \cup {0}
      BY DEF ListTypeOK, Begin
    <2>2. Row \subseteq Nat /\ Limit \in Nat
      OBVIOUS
    <2>3. listing.marker \in Nat
      <3>1. listing.marker \in Row \/ listing.marker = 0
        BY <2>1
      <3> DEFINE m == listing.marker
      <3>2. m \in Row \/ m = 0
        BY <3>1
      <3>3. m \in Nat
        <4> HIDE DEF m
        <4>1. CASE m \in Row
          BY <2>2, <4>1
        <4>2. CASE m = 0
          BY <4>2
        <4> QED BY <3>2, <4>1, <4>2
      <3> QED BY <3>3
    <2> QED BY <2>1, <2>2, <2>3, LenProperties
  <1>a. ASSUME NEW t \in AnyTx, tx' = [tx EXCEPT ![p] = t], left' \in [What -> Nat],
               t.locks = {}, t.kind \in {"list", "none"}, tx[p].kind \in {"list", "none"}
        PROVE  /\ TxOK' /\ Moves(ListKinds) /\ Acquires(p)
               /\ tx'[p] = t /\ \A q \in Process \ {p} : tx'[q] = tx[q]
    BY <1>a DEF TxOK, Moves, Acquires, ListKinds
  <1>1. CASE QueryPage(p)
    <2> DEFINE S == Behind(listing.marker)
               t == [kind |-> "list", rows |-> FirstOf(S), locks |-> {}]
    <2>1. /\ listing.step = "asked" /\ Running("list") = {} /\ tx[p] = NoTx
          /\ tx' = [tx EXCEPT ![p] = t]
          /\ UNCHANGED <<present, used, listing, received, lasting, torn, left>>
      BY <1>1 DEF QueryPage, Open
    <2>2. S \in SUBSET Nat /\ IsFiniteSet(S) /\ S \subseteq Row
      <3>1. S \subseteq Row /\ S \subseteq Nat
        BY <1>n DEF ListTypeOK, Behind
      <3> HIDE DEF S
      <3> QED BY <3>1, FS_Subset
    <2>3. /\ FirstOf(S) \subseteq S
          /\ Cardinality(FirstOf(S)) \in Nat /\ Cardinality(FirstOf(S)) <= Limit
          /\ Cardinality(FirstOf(S)) < Limit => FirstOf(S) = S
          /\ \A r \in S \ FirstOf(S) : \A q \in FirstOf(S) : q < r
      BY <2>2, PageIsFirst
    <2>4. /\ t \in ListTx /\ t.kind = "list" /\ t.locks = {} /\ t.rows = FirstOf(S)
      BY <2>2, <2>3 DEF ListTx
    <2> HIDE DEF t
    <2>5. /\ TxOK' /\ Moves(ListKinds) /\ Acquires(p)
          /\ tx'[p] = t /\ \A q \in Process \ {p} : tx'[q] = tx[q] /\ tx[q].kind # "list"
      BY <1>0, <1>a, <2>1, <2>4 DEF Running
    <2>6. ListTypeOK'
      BY <2>1 DEF ListTypeOK
    <2>7. OneListing' /\ Running("list")' # {}
      BY <2>4, <2>5 DEF OneListing, Running
    <2>8. ASSUME ~torn PROVE Complete'
      <3>1. listing.page = <<>> /\ Complete
        BY <2>1, <2>8 DEF ListKept, Complete
      <3>2. Len(<<>>) = 0 /\ \A r : ~In(r, <<>>)
        BY DEF In
      <3>3. \A r \in lasting : r > listing.marker => r \in S
        BY DEF ListKept, Behind
      <3>4. \A r \in S : r > listing.marker
        BY DEF Behind
      <3> HIDE DEF S
      <3>5. PageFits(p)'
        <4>1. Len(listing'.page) + Cardinality(tx'[p].rows) = Cardinality(FirstOf(S))
          BY <2>1, <2>3, <2>4, <2>5, <3>1, <3>2
        <4>2. \A r \in S \ FirstOf(S) : Cardinality(FirstOf(S)) = Limit
          BY <1>n, <2>3
        <4> QED BY <2>1, <2>3, <2>4, <2>5, <3>1, <3>2, <3>3, <3>4, <4>1, <4>2 DEF PageFits
      <3> QED BY <2>1, <2>5, <2>7, <3>1, <3>5 DEF Complete
    <2> QED BY <2>1, <2>5, <2>6, <2>7, <2>8 DEF ListTyped, ListKept
  <1>2. CASE Convert(p)
    <2>1. PICK r \in tx[p].rows :
             /\ \A q \in tx[p].rows : r <= q
             /\ tx' = [tx EXCEPT ![p] = [tx[p] EXCEPT !.rows = @ \ {r}]]
             /\ \/ listing' = [listing EXCEPT !.page = Append(@, r)] /\ torn' = torn
                \/ torn' = TRUE /\ listing' = listing
      BY <1>2 DEF Convert, Change
    <2>2. tx[p].kind = "list" /\ UNCHANGED <<present, used, received, lasting, left>>
      BY <1>2 DEF Convert
    <2> DEFINE t == [tx[p] EXCEPT !.rows = @ \ {r}]
               rows == tx[p].rows
    <2>3. /\ t \in ListTx /\ t.kind = "list" /\ t.locks = {} /\ t.rows = rows \ {r}
          /\ rows \subseteq Row /\ r \in Row
      BY <1>0, <2>1, <2>2 DEF ListTx
    <2>4. /\ IsFiniteSet(rows) /\ Cardinality(rows) \in Nat
          /\ Cardinality(rows \ {r}) = Cardinality(rows) - 1
      <3>1. IsFiniteSet(rows)
        BY <2>3, FS_Subset
      <3>2. r \in rows
        BY <2>1
      <3> HIDE DEF rows
      <3>3. Cardinality(rows) \in Nat
        BY <3>1, FS_CardinalityType, Zenon
      <3>4. Cardinality(rows \ {r}) = Cardinality(rows) - 1
        BY <3>1, <3>2, FS_RemoveElement, Zenon
      <3> QED BY <3>1, <3>3, <3>4, Zenon
    <2> HIDE DEF t, rows
    <2>5. /\ TxOK' /\ Moves(ListKinds) /\ Acquires(p)
          /\ tx'[p] = t /\ \A q \in Process \ {p} : tx'[q] = tx[q]
      BY <1>0, <1>a, <2>1, <2>2, <2>3 DEF t
    <2>6. Append(listing.page, r) \in Seq(Row)
      BY <1>n, <2>3, AppendProperties
    <2>7. ListTypeOK' /\ listing'.step = listing.step /\ listing'.marker = listing.marker
      BY <2>1, <2>2, <2>6 DEF ListTypeOK
    <2>8. OneListing' /\ Running("list")' # {} /\ Running("list") # {}
      BY <2>2, <2>3, <2>5 DEF OneListing, Running, ListKept
    <2>9. ASSUME ~torn' PROVE Complete'
      <3>1. ~torn /\ listing'.page = Append(listing.page, r) /\ Complete /\ PageFits(p)
        BY <2>1, <2>2, <2>7, <2>9 DEF ListTypeOK, ListKept, Complete
      <3>2. /\ r > listing.marker
            /\ \A x \in Row : In(x, listing.page) => x < r
            /\ \A q \in rows \ {r} : r < q
        <4>1. r \in rows /\ \A q \in rows : r <= q /\ q \in Nat
          BY <1>n, <2>1, <2>3 DEF rows
        <4>2. /\ r > listing.marker /\ \A x \in Row : In(x, listing.page) => x < r
          BY <3>1, <4>1 DEF PageFits, rows
        <4>3. \A q \in rows \ {r} : r < q
          <5>1. r \in Nat
            BY <4>1
          <5> QED BY <4>1, <5>1
        <4> QED BY <4>2, <4>3
      <3>3. /\ Increasing(listing'.page) /\ Len(listing'.page) = Len(listing.page) + 1
            /\ \A x : In(x, listing'.page) <=> (In(x, listing.page) \/ x = r)
        <4>1. Increasing(listing.page) /\ Row \in SUBSET Nat
          BY <1>n, <3>1 DEF Complete
        <4>2. /\ Increasing(Append(listing.page, r))
              /\ Len(Append(listing.page, r)) = Len(listing.page) + 1
              /\ \A x : In(x, Append(listing.page, r)) <=> (In(x, listing.page) \/ x = r)
          BY <1>n, <2>3, <3>2, <4>1, AppendIncreases
        <4> QED BY <3>1, <4>2
      <3>4. Len(listing'.page) + Cardinality(tx'[p].rows) = Len(listing.page) + Cardinality(rows)
        <4>1. tx'[p].rows = rows \ {r}
          BY <2>3, <2>5
        <4>2. Len(listing'.page) = Len(listing.page) + 1 /\ Len(listing.page) \in Nat
          BY <1>n, <3>3
        <4> QED BY <2>4, <4>1, <4>2
      <3>5. PageFits(p)'
        <4>1. /\ tx'[p].rows = rows \ {r} /\ lasting' = lasting /\ listing'.marker = listing.marker
              /\ r \in rows /\ tx[p].rows = rows
          BY <2>1, <2>2, <2>3, <2>5, <2>7 DEF rows
        <4>2. \A x : (In(x, listing'.page) \/ x \in rows \ {r})
                        <=> (In(x, listing.page) \/ x \in rows)
          BY <3>3, <4>1
        <4>3. /\ Len(listing.page) + Cardinality(rows) <= Limit
              /\ \A q \in rows : q > listing.marker /\ \A x \in Row : In(x, listing.page) => x < q
              /\ \A q \in lasting : q > listing.marker =>
                  \/ In(q, listing.page) \/ q \in rows
                  \/ /\ Len(listing.page) + Cardinality(rows) = Limit
                     /\ \A x \in Row : (In(x, listing.page) \/ x \in rows) => x < q
          BY <3>1, <4>1 DEF PageFits
        <4>4. \A q \in rows \ {r} : \A x \in Row : In(x, listing'.page) => x < q
          BY <3>2, <3>3, <4>3
        <4> QED BY <3>4, <4>1, <4>2, <4>3, <4>4 DEF PageFits
      <3>6. \A q \in Process : tx'[q].kind = "list" => q = p
        BY <2>2, <2>5 DEF ListKept, OneListing
      <3>7. \A x \in Row : In(x, listing'.page) => x > listing'.marker
        BY <2>7, <3>1, <3>2, <3>3 DEF Complete
      <3> QED BY <2>2, <2>7, <2>8, <3>1, <3>3, <3>5, <3>6, <3>7 DEF Complete
    <2>10. listing.step = "asked"
      BY <2>8 DEF ListKept
    <2> QED BY <2>2, <2>5, <2>7, <2>8, <2>9, <2>10 DEF ListTyped, ListKept
  <1>3. CASE ListFails(p)
    <2>1. /\ tx[p].kind = "list" /\ left' \in [What -> Nat] /\ tx' = [tx EXCEPT ![p] = NoTx]
          /\ torn' = (torn \/ listing.page # <<>>)
          /\ UNCHANGED <<present, used, listing, received, lasting>>
      BY <1>0, <1>3, Spent DEF ListFails, Close
    <2>2. /\ TxOK' /\ Moves(ListKinds) /\ Acquires(p)
          /\ tx'[p] = NoTx /\ \A q \in Process \ {p} : tx'[q] = tx[q]
      BY <1>0, <1>a, <2>1
    <2>3. Running("list")' = {} /\ \A q \in Process : tx'[q].kind # "list"
      BY <1>0, <2>1, <2>2 DEF ListKept, OneListing, Running
    <2>4. ListTypeOK'
      BY <2>1 DEF ListTypeOK
    <2>5. ~torn' => Complete'
      BY <2>1, <2>3 DEF ListKept, Complete
    <2> QED BY <2>1, <2>2, <2>3, <2>4, <2>5 DEF ListTyped, ListKept, OneListing
  <1>4. CASE AnswerPage(p)
    <2> DEFINE page == listing.page
    <2>1. /\ tx[p].kind = "list" /\ tx[p].rows = {} /\ received' = received \o page
          /\ listing' = IF HasNext
                        THEN [step |-> "asked", marker |-> Last(page), page |-> <<>>]
                        ELSE [listing EXCEPT !.step = "done", !.page = <<>>]
          /\ tx' = [tx EXCEPT ![p] = NoTx] /\ UNCHANGED <<present, used, lasting, torn, left>>
      BY <1>4 DEF AnswerPage, Close
    <2>2. /\ TxOK' /\ Moves(ListKinds) /\ Acquires(p)
          /\ tx'[p] = NoTx /\ \A q \in Process \ {p} : tx'[q] = tx[q]
      BY <1>0, <1>a, <2>1
    <2>3. Running("list")' = {} /\ \A q \in Process : tx'[q].kind # "list"
      BY <1>0, <2>1, <2>2 DEF ListKept, OneListing, Running
    <2>a. listing.step = "asked"
      BY <2>1 DEF ListKept, Running
    <2>4. /\ page \in Seq(Row) /\ Len(page) \in Nat /\ DOMAIN page = 1..Len(page)
          /\ received \in Seq(Row) /\ received' \in Seq(Row)
      BY <1>n, <2>1, ConcatProperties DEF ListTypeOK
    <2>5. HasNext => /\ Len(page) = Limit /\ Last(page) \in Row /\ In(Last(page), page)
                     /\ Last(page) = page[Len(page)]
      BY <2>4 DEF HasNext, Last, In
    <2>6. /\ HasNext => /\ listing'.step = "asked" /\ listing'.marker = Last(page)
          /\ ~HasNext => /\ listing'.step = "done" /\ listing'.marker = listing.marker
          /\ listing'.page = <<>> /\ <<>> \in Seq(Row)
      BY <2>1 DEF ListTypeOK
    <2>7. ListTypeOK'
      <3>1. HasNext => listing' \in [step : {"new", "asked", "done", "refused"},
                                     marker : Row \cup {Begin}, page : Seq(Row)]
        BY <2>1, <2>5, <2>6
      <3>2. ~HasNext => listing' \in [step : {"new", "asked", "done", "refused"},
                                      marker : Row \cup {Begin}, page : Seq(Row)]
        BY <2>1, <2>6 DEF ListTypeOK
      <3> QED BY <2>1, <2>4, <3>1, <3>2 DEF ListTypeOK
    <2>8. ASSUME ~torn PROVE Complete'
      <3>1. Complete /\ PageFits(p)
        BY <2>1, <2>8 DEF ListKept, Complete
      <3>2. \A x, y \in Row : In(x, received) /\ In(y, page) => x < y
        <4>1. ASSUME NEW x \in Row, NEW y \in Row, In(x, received), In(y, page) PROVE x < y
          <5>1. x <= listing.marker /\ y > listing.marker
            BY <2>a, <3>1, <4>1 DEF Complete
          <5> QED BY <1>n, <5>1
        <4> QED BY <4>1
      <3>3. /\ Increasing(received')
            /\ \A x : In(x, received') <=> (In(x, received) \/ In(x, page))
        <4>1. Increasing(received) /\ Increasing(page)
          BY <3>1 DEF Complete
        <4>2. Row \in SUBSET Nat /\ received \in Seq(Row) /\ page \in Seq(Row)
          BY <1>n, <2>4
        <4> HIDE DEF page
        <4>3. /\ Increasing(received \o page)
              /\ \A x : In(x, received \o page) <=> (In(x, received) \/ In(x, page))
          BY <3>2, <4>1, <4>2, ConcatIncreases
        <4> QED BY <2>1, <4>3
      <3>4. Cardinality(tx[p].rows) = 0
        BY <2>1, FS_EmptySet
      <3>5. /\ Len(page) <= Limit
            /\ \A r \in lasting : r > listing.marker =>
                 \/ In(r, page)
                 \/ Len(page) = Limit /\ \A x \in Row : In(x, page) => x < r
        <4>1. Len(page) + Cardinality(tx[p].rows) = Len(page)
          BY <2>4, <3>4
        <4> DEFINE size == Len(page) + Cardinality(tx[p].rows)
        <4>2. /\ size <= Limit
              /\ \A r \in lasting : r > listing.marker =>
                   \/ In(r, page) \/ r \in tx[p].rows
                   \/ size = Limit /\ \A x \in Row : (In(x, page) \/ x \in tx[p].rows) => x < r
          BY <3>1 DEF PageFits
        <4>3. size = Len(page) /\ tx[p].rows = {}
          BY <2>1, <4>1
        <4> HIDE DEF size, page
        <4> QED BY <4>2, <4>3
      <3>6. HasNext => \A x \in Row : In(x, page) => x <= Last(page)
        <4>1. SUFFICES ASSUME HasNext, NEW i \in 1..Len(page) PROVE page[i] <= page[Len(page)]
          BY <2>4, <2>5 DEF In
        <4>2. i = Len(page) \/ i < Len(page)
          BY <2>4
        <4>5. i \in DOMAIN page /\ Len(page) \in DOMAIN page
          BY <2>4
        <4>6. Increasing(page)
          BY <3>1 DEF Complete
        <4>3. i < Len(page) => page[i] < page[Len(page)]
          <5> HIDE DEF page
          <5> QED BY <4>5, <4>6 DEF Increasing
        <4>4. page[i] \in Nat /\ page[Len(page)] \in Nat
          BY <1>n, <4>5
        <4> QED BY <4>2, <4>3, <4>4
      <3>7. Increasing(<<>>) /\ \A r : ~In(r, <<>>)
        BY DEF Increasing, In
      <3>8. lasting \subseteq Row /\ \A r \in Row : r \in Nat /\ r <= r
        BY <1>n DEF ListTypeOK
      <3>9. CASE HasNext
        <4>1. Last(page) > listing.marker
          BY <2>5, <3>1, <3>9 DEF Complete
        <4>2. \A r \in Row : In(r, received') => r <= Last(page)
          <5>1. \A r \in Row : In(r, received) => r <= listing.marker
            BY <2>a, <3>1 DEF Complete
          <5>2. \A r \in Row : r <= listing.marker => r <= Last(page)
            <6>1. Last(page) \in Nat /\ listing.marker \in Nat /\ \A r \in Row : r \in Nat
              BY <1>n, <2>5, <3>9
            <6> HIDE DEF page
            <6>2. \A r \in Row : r <= listing.marker => r <= Last(page)
              BY <4>1, <6>1
            <6> QED BY <6>2
          <5> QED BY <3>3, <3>6, <3>9, <5>1, <5>2
        <4>3. \A r \in lasting : r <= Last(page) => In(r, received')
          <5>1. \A r \in lasting : r <= listing.marker => In(r, received)
            BY <3>1 DEF Complete
          <5>2. ASSUME NEW r \in lasting, r <= Last(page), r > listing.marker PROVE In(r, page)
            <6>1. r \in Nat /\ Last(page) \in Nat /\ ~(Last(page) < r)
              <7>1. r \in Nat /\ Last(page) \in Nat
                BY <1>n, <2>5, <3>8, <3>9
              <7> HIDE DEF page
              <7> QED BY <5>2, <7>1
            <6> HIDE DEF page
            <6> QED BY <2>5, <3>5, <3>9, <5>2, <6>1
          <5>3. \A r \in lasting : r <= listing.marker \/ r > listing.marker
            <6>1. \A r \in lasting : r \in Nat
              BY <3>8
            <6> QED BY <1>n, <6>1
          <5> QED BY <3>3, <5>1, <5>2, <5>3
        <4> QED BY <2>1, <2>3, <2>6, <3>3, <3>7, <3>9, <4>2, <4>3 DEF Complete
      <3>10. CASE ~HasNext
        <4>1. Len(page) # Limit \/ Len(page) = 0
          BY <3>10 DEF HasNext
        <4>2. Len(page) # Limit
          BY <1>n, <4>1
        <4>3. \A r \in lasting : In(r, received')
          <5>1. \A r \in lasting : r <= listing.marker => In(r, received)
            BY <3>1 DEF Complete
          <5>2. \A r \in lasting : r <= listing.marker \/ r > listing.marker
            <6>1. \A r \in lasting : r \in Nat
              BY <3>8
            <6> QED BY <1>n, <6>1
          <5> QED BY <3>3, <3>5, <4>2, <5>1, <5>2
        <4> QED BY <2>1, <2>3, <2>6, <3>3, <3>7, <3>10, <4>3 DEF Complete
      <3> QED BY <3>9, <3>10
    <2> QED BY <2>1, <2>2, <2>3, <2>6, <2>7, <2>8 DEF ListTyped, ListKept, OneListing
  <1> QED BY <1>1, <1>2, <1>3, <1>4 DEF ListStep

\* The invariant of listings gives the property of what the client received.
LEMMA ListSafe ==
    ASSUME ListTypeOK, ListKept PROVE ListsEachOnce
  <1> SUFFICES ASSUME ~torn PROVE
          /\ \A i, k \in DOMAIN received : i # k => received[i] # received[k]
          /\ listing.step = "done" => \A r \in lasting : \E i \in DOMAIN received : received[i] = r
    BY DEF ListsEachOnce
  <1>1. Complete
    BY DEF ListKept
  <1>2. ASSUME NEW i \in DOMAIN received, NEW k \in DOMAIN received, i # k
        PROVE  received[i] # received[k]
    <2>1. /\ DOMAIN received = 1..Len(received) /\ Len(received) \in Nat
          /\ \A j \in DOMAIN received : received[j] \in Nat
      <3>1. received \in Seq(Row) /\ Row \subseteq Nat
        BY ListingAssumption DEF ListTypeOK
      <3> QED BY <3>1, LenProperties
    <2>2. i < k \/ k < i
      BY <1>2, <2>1
    <2>3. received[i] < received[k] \/ received[k] < received[i]
      BY <1>1, <2>2 DEF Complete, Increasing
    <2> QED BY <2>1, <2>3
  <1> QED BY <1>1, <1>2 DEF Complete, In


-----------------------------------------------------------------------------
(* The named locks of joins.                                                *)

\* A transaction that dispatches commands: the rows it has made are under locks it
\* holds, each command is still to come, dealt with, or has its row, and the locks it
\* holds come before the joins that it has still to lock.
DispatchKept(p) ==
    LET t == tx[p] IN
    /\ t.made \subseteq CommandsOf(t.of) /\ t.cmds \subseteq CommandsOf(t.of)
    /\ \A j \in t.made : UniqueKey(j) \in t.locks /\ joinRows[j] = 0
    /\ t.step = "locked" => UniqueKey(t.cmd) \in t.locks
    /\ t.step # "check" => /\ t.cmd \in Join /\ t.cmd \in CommandsOf(t.of)
                           /\ \A c \in t.cmds : t.cmd < c
    /\ \A j \in Join \cap CommandsOf(t.of) :
           \/ j \in t.cmds \/ (t.step # "check" /\ j = t.cmd)
           \/ j \in t.made \/ joinRows[j] > 0
    /\ \A j \in Join : UniqueKey(j) \in t.locks =>
           /\ \A c \in t.cmds : j < c
           /\ t.step = "lock" => j < t.cmd

JoinKept == /\ OneExecutionPerJoin
            /\ \A p \in Process : tx[p].kind = "dispatch" => DispatchKept(p)

\* A step of another part keeps the invariant of joins.
LEMMA JoinFrame ==
    ASSUME JoinKept, JoinTypeOK, UNCHANGED joinVars,
           \A q \in Process : tx'[q].kind \in JoinKinds => tx'[q] = tx[q]
    PROVE  JoinKept' /\ JoinTypeOK'
  <1>1. \A p \in Process : tx'[p].kind = "dispatch" => tx'[p] = tx[p] /\ DispatchKept(p)'
    BY DEF JoinKept, JoinKinds, DispatchKept, CommandsOf, joinVars
  <1>2. OneExecutionPerJoin'
    BY DEF JoinKept, OneExecutionPerJoin, joinVars
  <1>3. JoinTypeOK'
    BY <1>1 DEF JoinTypeOK, joinVars, Running
  <1> QED BY <1>1, <1>2, <1>3 DEF JoinKept

JoinTyped == TxOK' /\ JoinTypeOK' /\ Moves(JoinKinds)

\* The transactions that dispatch commands.
LEMMA JoinNext ==
    ASSUME TxOK, LocksOK, JoinTypeOK, JoinKept, NEW p \in Process, JoinStep(p)
    PROVE  JoinTyped /\ Acquires(p) /\ JoinKept'
  <1> DEFINE Goal == JoinTyped /\ Acquires(p) /\ JoinKept'
             JC == Join \cup {Plain}
             Keys == {UniqueKey(j) : j \in JC}
  <1>0. /\ tx[p] \in AnyTx /\ NoTx \in AnyTx /\ JoinTx \subseteq AnyTx
        /\ \A q \in Process : tx[q].kind = "dispatch" => tx[q] \in JoinTx
        /\ NoTx.kind = "none" /\ NoTx.locks = {}
        /\ left \in [What -> Nat]
    BY KindTells DEF TxOK, AnyTx, NoTx
  <1>n. Join \subseteq Nat /\ JC \subseteq Nat
    BY JoinAssumption DEF Plain
  <1>b. /\ branch \in [Inbound -> SUBSET JC] /\ joinRows \in [Join -> Nat] /\ continued \subseteq Inbound
        /\ \A T \in SUBSET Inbound : CommandsOf(T) \subseteq JC
    <2>1. branch \in [Inbound -> SUBSET JC] /\ joinRows \in [Join -> Nat] /\ continued \subseteq Inbound
      BY JoinAssumption DEF JoinTypeOK
    <2> HIDE DEF JC
    <2> QED BY <2>1 DEF CommandsOf
  <1>k. \A i, j : UniqueKey(i) = UniqueKey(j) => i = j
    BY DEF UniqueKey
  \* Steps that only change the transaction of p.
  <1>a. ASSUME NEW t \in JoinTx, tx' = [tx EXCEPT ![p] = t], left' \in [What -> Nat],
               UNCHANGED joinVars, t.kind = "dispatch",
               tx[p].kind \in {"dispatch", "none"},
               t.locks \subseteq tx[p].locks \/
                   \E row : t.locks \subseteq tx[p].locks \cup {row} /\ Free(p, row),
               DispatchKept(p)'
        PROVE  Goal
    <2>1. tx'[p] = t /\ \A q \in Process \ {p} : tx'[q] = tx[q]
      BY <1>a DEF TxOK
    <2>2. TxOK' /\ Moves(JoinKinds)
      BY <1>0, <1>a, <2>1 DEF TxOK, Moves, JoinKinds
    <2>3. Acquires(p)
      BY <1>a, <2>1 DEF Acquires
    <2>4. ASSUME NEW q \in Process \ {p}, tx'[q].kind = "dispatch" PROVE DispatchKept(q)'
      BY <1>a, <2>1, <2>4 DEF DispatchKept, JoinKept, CommandsOf, joinVars
    <2>5. JoinTypeOK'
      <3>1. /\ \A q \in Running("dispatch")' : tx'[q] \in JoinTx
            /\ branch' = branch /\ continued' = continued /\ joinRows' = joinRows
        BY <1>0, <1>a, <2>1 DEF Running, joinVars
      <3> QED BY <3>1 DEF JoinTypeOK, JoinTx
    <2>6. OneExecutionPerJoin'
      BY <1>a DEF JoinKept, OneExecutionPerJoin, joinVars
    <2> QED BY <1>a, <2>1, <2>2, <2>3, <2>4, <2>5, <2>6 DEF JoinTyped, JoinKept
  <1>c. ASSUME NEW T \in SUBSET Inbound, tx' = [tx EXCEPT ![p] = Dispatching(T)],
               UNCHANGED joinVars, tx[p].kind \in {"dispatch", "none"}, left' \in [What -> Nat]
        PROVE  Goal
    <2> DEFINE t == Dispatching(T)
    <2>1. /\ t \in JoinTx /\ t.kind = "dispatch" /\ t.of = T /\ t.cmds = CommandsOf(T)
          /\ t.step = "check" /\ t.made = {} /\ t.locks = {}
      <3>1. CommandsOf(T) \in SUBSET JC
        BY <1>b
      <3> QED BY <3>1 DEF Dispatching, JoinTx
    <2>2. tx'[p] = t
      BY <1>c DEF TxOK
    <2> HIDE DEF t
    <2>3. CommandsOf(T)' = CommandsOf(T)
      BY <1>c DEF CommandsOf, joinVars
    <2>4. DispatchKept(p)'
      BY <2>1, <2>2, <2>3 DEF DispatchKept
    <2> QED BY <1>a, <1>c, <2>1, <2>4 DEF t
  <1>1. ASSUME NEW T \in SUBSET Inbound, DispatchCommands(p, T) PROVE Goal
    BY <1>0, <1>1, <1>c, Spent DEF DispatchCommands, Open
  <1>d. ASSUME tx[p].kind = "dispatch"
        PROVE  /\ tx[p] \in JoinTx /\ DispatchKept(p) /\ tx[p].of \in SUBSET Inbound
               /\ tx[p].cmds \subseteq Nat /\ CommandsOf(tx[p].of) \subseteq JC
    BY <1>0, <1>b, <1>d, <1>n DEF JoinTx, JoinKept
  <1>2. CASE FastCheck(p)
    <2>1. PICK c \in NextOf(tx[p].cmds) :
             tx' = [tx EXCEPT ![p] = [tx[p] EXCEPT !.cmds = @ \ {c}, !.cmd = c,
                        !.step = IF c = Plain \/ SeesRow(p, c) THEN "check" ELSE "lock"]]
      BY <1>2 DEF FastCheck, Change
    <2> DEFINE t == [tx[p] EXCEPT !.cmds = @ \ {c}, !.cmd = c,
                        !.step = IF c = Plain \/ SeesRow(p, c) THEN "check" ELSE "lock"]
    <2>2. /\ tx[p].kind = "dispatch" /\ tx[p].step = "check" /\ UNCHANGED <<joinVars, left>>
      BY <1>2 DEF FastCheck
    <2>3. c \in tx[p].cmds /\ c \in JC /\ \A d \in tx[p].cmds \ {c} : c < d
      <3>1. c \in tx[p].cmds /\ \A d \in tx[p].cmds : c <= d
        BY DEF NextOf
      <3>2. c \in Nat /\ \A d \in tx[p].cmds : d \in Nat
        BY <1>d, <2>2, <3>1
      <3>3. c \in JC
        BY <1>d, <2>2, <3>1 DEF JoinTx
      <3> QED BY <3>1, <3>2, <3>3
    <2>4. /\ t \in JoinTx /\ t.kind = "dispatch" /\ t.cmds = tx[p].cmds \ {c} /\ t.cmd = c
          /\ t.made = tx[p].made /\ t.locks = tx[p].locks /\ t.of = tx[p].of
          /\ t.step \in {"check", "lock"}
          /\ t.step = "check" <=> (c = Plain \/ SeesRow(p, c))
      BY <1>d, <2>2, <2>3 DEF JoinTx
    <2>5. tx'[p] = t
      BY <2>1 DEF TxOK
    <2> HIDE DEF t
    <2>6. CommandsOf(tx[p].of)' = CommandsOf(tx[p].of)' /\ joinRows' = joinRows /\ branch' = branch
      BY <2>2 DEF joinVars
    <2>7. DispatchKept(p)'
      <3>1. DispatchKept(p) /\ Plain \notin Join
        BY <1>d, <2>2, JoinAssumption
      <3>2. \A T : CommandsOf(T)' = UNION {branch[s] : s \in T}
        BY <2>6 DEF CommandsOf
      <3> QED BY <2>2, <2>3, <2>4, <2>5, <2>6, <3>1, <3>2 DEF DispatchKept, SeesRow, CommandsOf
    <2> QED BY <1>0, <1>a, <2>1, <2>2, <2>4, <2>7 DEF t
  <1>3. CASE TakeNamedLock(p)
    <2> DEFINE c == tx[p].cmd
               t == [tx[p] EXCEPT !.step = "locked", !.locks = @ \cup {UniqueKey(c)}]
    <2>1. /\ tx[p].kind = "dispatch" /\ tx[p].step = "lock" /\ Free(p, UniqueKey(c))
          /\ tx' = [tx EXCEPT ![p] = t] /\ UNCHANGED <<joinVars, left>>
      BY <1>3 DEF TakeNamedLock, Change
    <2>2. c \in Join
      BY <1>d, <2>1 DEF DispatchKept
    <2>3. /\ t \in JoinTx /\ t.kind = "dispatch" /\ t.cmds = tx[p].cmds /\ t.cmd = c
          /\ t.made = tx[p].made /\ t.locks = tx[p].locks \cup {UniqueKey(c)}
          /\ t.of = tx[p].of /\ t.step = "locked"
      BY <1>d, <2>1, <2>2 DEF JoinTx
    <2>4. tx'[p] = t
      BY <2>1 DEF TxOK
    <2> HIDE DEF t
    <2>5. DispatchKept(p)'
      <3>1. DispatchKept(p) /\ joinRows' = joinRows /\ \A T : CommandsOf(T)' = CommandsOf(T)
        BY <1>d, <2>1 DEF joinVars, CommandsOf
      <3> QED BY <1>k, <2>1, <2>2, <2>3, <2>4, <3>1 DEF DispatchKept
    <2> QED BY <1>0, <1>a, <2>1, <2>3, <2>5
  <1>4. CASE CreateUnderLock(p)
    <2> DEFINE c == tx[p].cmd
               t == [tx[p] EXCEPT !.step = "check", !.made = @ \cup Missing(p, c)]
    <2>1. /\ tx[p].kind = "dispatch" /\ tx[p].step = "locked"
          /\ tx' = [tx EXCEPT ![p] = t] /\ UNCHANGED <<joinVars, left>>
      BY <1>4 DEF CreateUnderLock, Change
    <2>2. c \in Join /\ UniqueKey(c) \in tx[p].locks /\ c \in CommandsOf(tx[p].of)
      BY <1>d, <2>1 DEF DispatchKept
    <2>3. Missing(p, c) \subseteq {c} /\ (Missing(p, c) = {} => joinRows[c] > 0 \/ c \in tx[p].made)
          /\ (Missing(p, c) # {} => joinRows[c] = 0)
      BY <1>b, <2>2 DEF Missing, SeesRow
    <2>4. /\ t \in JoinTx /\ t.kind = "dispatch" /\ t.cmds = tx[p].cmds /\ t.cmd = c
          /\ t.made = tx[p].made \cup Missing(p, c) /\ t.locks = tx[p].locks
          /\ t.of = tx[p].of /\ t.step = "check"
      BY <1>d, <2>1, <2>2, <2>3 DEF JoinTx
    <2>5. tx'[p] = t
      BY <2>1 DEF TxOK
    <2> HIDE DEF t
    <2>6. DispatchKept(p)'
      <3>1. DispatchKept(p) /\ joinRows' = joinRows /\ \A T : CommandsOf(T)' = CommandsOf(T)
        BY <1>d, <2>1 DEF joinVars, CommandsOf
      <3> QED BY <2>1, <2>2, <2>3, <2>4, <2>5, <3>1 DEF DispatchKept
    <2> QED BY <1>0, <1>a, <2>1, <2>4, <2>6
  <1>5. CASE CommitDispatch(p)
    <2> DEFINE t == tx[p]
    <2>1. /\ t.kind = "dispatch" /\ t.step = "check" /\ t.cmds = {}
          /\ joinRows' = [j \in Join |-> joinRows[j] + IF j \in t.made THEN 1 ELSE 0]
          /\ continued' = continued \cup t.of /\ branch' = branch /\ left' = left
          /\ tx' = [tx EXCEPT ![p] = NoTx]
      BY <1>5 DEF CommitDispatch, Close
    <2>2. t \in JoinTx /\ t.of \subseteq Inbound /\ DispatchKept(p) /\ t.made \subseteq Join
      BY <1>d, <2>1 DEF JoinTx
    <2>3. tx'[p] = NoTx /\ \A q \in Process \ {p} : tx'[q] = tx[q]
      BY <2>1 DEF TxOK
    <2>4. TxOK' /\ Moves(JoinKinds) /\ Acquires(p)
      BY <1>0, <2>1, <2>3 DEF TxOK, Moves, Acquires, JoinKinds
    <2>5. JoinTypeOK'
      <3>1. joinRows' \in [Join -> Nat]
        BY <1>b, <2>1
      <3>2. \A q \in Running("dispatch")' : tx'[q] \in JoinTx
        BY <1>0, <2>3 DEF Running
      <3> QED BY <2>1, <2>2, <3>1, <3>2 DEF JoinTypeOK, JoinTx
    <2>6. ASSUME NEW j \in Join
          PROVE  joinRows'[j] = IF \E s \in continued' : j \in branch'[s] THEN 1 ELSE 0
      <3>1. joinRows[j] = IF \E s \in continued : j \in branch[s] THEN 1 ELSE 0
        BY DEF JoinKept, OneExecutionPerJoin
      <3>2. joinRows'[j] = joinRows[j] + IF j \in t.made THEN 1 ELSE 0
        BY <2>1
      <3>3. j \in CommandsOf(t.of) <=> \E s \in t.of : j \in branch[s]
        BY DEF CommandsOf
      <3>4. CASE j \in t.made
        <4>1. joinRows[j] = 0 /\ j \in CommandsOf(t.of)
          BY <2>2, <3>4 DEF DispatchKept
        <4>2. \E s \in continued' : j \in branch'[s]
          BY <2>1, <3>3, <4>1
        <4> QED BY <3>2, <3>4, <4>1, <4>2
      <3>5. CASE j \notin t.made
        <4>1. j \in CommandsOf(t.of) => joinRows[j] > 0
          BY <2>1, <2>2, <3>5 DEF DispatchKept
        <4>2. (\E s \in continued' : j \in branch'[s])
                 <=> ((\E s \in continued : j \in branch[s]) \/ j \in CommandsOf(t.of))
          BY <2>1, <3>3
        <4>3. joinRows'[j] = joinRows[j]
          BY <1>b, <3>2, <3>5
        <4> QED BY <3>1, <4>1, <4>2, <4>3
      <3> QED BY <3>4, <3>5
    <2>7. ASSUME NEW q \in Process, tx'[q].kind = "dispatch" PROVE DispatchKept(q)'
      <3>1. q # p /\ tx'[q] = tx[q] /\ tx[q].kind = "dispatch"
        BY <1>0, <2>3, <2>7
      <3>2. tx[q] \in JoinTx /\ DispatchKept(q) /\ tx[q].made \subseteq Join
        BY <1>0, <3>1 DEF JoinKept, JoinTx
      <3>3. \A j \in tx[q].made : j \notin t.made
        BY <2>2, <3>1, <3>2 DEF DispatchKept, LocksOK
      <3>4. /\ \A j \in tx[q].made : joinRows'[j] = joinRows[j]
            /\ \A j \in Join : joinRows[j] > 0 => joinRows'[j] > 0
        BY <1>b, <2>1, <3>2, <3>3
      <3>5. \A T : CommandsOf(T)' = CommandsOf(T)
        BY <2>1 DEF CommandsOf
      <3> HIDE DEF t
      <3> QED BY <3>1, <3>2, <3>4, <3>5 DEF DispatchKept
    <2> QED BY <2>4, <2>5, <2>6, <2>7 DEF JoinTyped, JoinKept, OneExecutionPerJoin
  <1>6. CASE RetryDispatch(p)
    <2>1. tx[p].kind = "dispatch" /\ tx' = [tx EXCEPT ![p] = Dispatching(tx[p].of)]
          /\ UNCHANGED joinVars /\ left' \in [What -> Nat]
      BY <1>0, <1>6, Spent DEF RetryDispatch, Change
    <2> QED BY <1>c, <1>d, <2>1
  <1> QED BY <1>1, <1>2, <1>3, <1>4, <1>5, <1>6 DEF JoinStep

\* In a circle the transaction that waits for the greatest key would wait for one that
\* holds it and waits for a greater one.
LEMMA NoCircle ==
    ASSUME TxOK, JoinTypeOK, JoinKept PROVE NoCircularWait
  <1> SUFFICES ASSUME NEW S \in SUBSET Process, S # {}, \A p \in S : \E q \in S : WaitsFor(p, q)
               PROVE  FALSE
    <2>1. \A S \in (SUBSET Process) \ {{}} : ~\A p \in S : \E q \in S : WaitsFor(p, q)
      OBVIOUS
    <2> QED BY <2>1 DEF NoCircularWait
  <1> DEFINE K == {tx[p].cmd : p \in S}
  <1>1. \A p \in S : /\ tx[p].kind = "dispatch" /\ tx[p].step = "lock" /\ DispatchKept(p)
                     /\ tx[p].cmd \in Join
    BY DEF WaitsFor, JoinKept, DispatchKept
  <1>2. K \in SUBSET Join /\ K # {}
    BY <1>1
  <1>3. K \in SUBSET Nat /\ IsFiniteSet(K)
    BY <1>2, JoinAssumption, FS_Subset
  <1>4. PICK k \in K : \A m \in K : m <= k
    <2> HIDE DEF K
    <2> QED BY <1>2, <1>3, GreatestExists
  <1>5. PICK p \in S : tx[p].cmd = k
    OBVIOUS
  <1>6. PICK q \in S : UniqueKey(k) \in tx[q].locks
    BY <1>5 DEF WaitsFor
  <1>7. k \in Join /\ k < tx[q].cmd
    BY <1>1, <1>2, <1>6 DEF DispatchKept
  <1>8. tx[q].cmd \in K
    OBVIOUS
  <1>9. tx[q].cmd <= k /\ k \in Nat /\ tx[q].cmd \in Nat
    BY <1>3, <1>4, <1>8
  <1> QED BY <1>7, <1>9

-----------------------------------------------------------------------------
(* The composition.                                                         *)

\* The invariant: exclusive locks, and of each part its types and what it keeps.
ApiKept ==
    /\ TxOK /\ LocksOK
    /\ WorkbookTypeOK /\ BookKept
    /\ CodeTypeOK /\ CodeKept
    /\ SharingTypeOK /\ ShareKept
    /\ StartTypeOK /\ StartKept
    /\ ListTypeOK /\ ListKept
    /\ JoinTypeOK /\ JoinKept

\* What a step does not do to the transactions of the kinds K.
Spares(K) == \A q \in Process : (tx[q].kind \in K \/ tx'[q].kind \in K) => tx'[q] = tx[q]

\* A step of one part spares the transactions of every other.
LEMMA OthersAreSpared ==
    ASSUME NEW K, NEW L, Moves(K), L \cap (K \cup {"none"}) = {}
    PROVE  Spares(L)
  BY DEF Moves, Spares

\* The invariant of a part whose variables and transactions a step leaves alone.
LEMMA BookSpared ==
    ASSUME WorkbookTypeOK, BookKept, Spares(BookKinds), NotBooks
    PROVE  WorkbookTypeOK' /\ BookKept'
  BY BookFrame DEF Spares, BookKinds, NotBooks, workbookVars, WorkbookTypeOK

\* Code sources and dynamic actions, left alone.
LEMMA CodeSpared ==
    ASSUME CodeTypeOK, CodeKept, Spares(CodeKinds), NotCode
    PROVE  CodeTypeOK' /\ CodeKept'
  BY CodeFrame DEF Spares, CodeKinds, NotCode, codeVars, CodeTypeOK

\* Sharing, left alone.
LEMMA ShareSpared ==
    ASSUME SharingTypeOK, ShareKept, Spares(ShareKinds), NotSharing
    PROVE  SharingTypeOK' /\ ShareKept'
  BY ShareFrame DEF Spares, ShareKinds, NotSharing, sharingVars, SharingTypeOK

\* Starts of executions, left alone.
LEMMA StartSpared ==
    ASSUME StartTypeOK, StartKept, Spares(StartKinds), NotStart
    PROVE  StartTypeOK' /\ StartKept'
  BY StartFrame DEF Spares, StartKinds, NotStart, startVars, StartTypeOK

\* Listings, left alone.
LEMMA ListSpared ==
    ASSUME ListTypeOK, ListKept, Spares(ListKinds), NotList
    PROVE  ListTypeOK' /\ ListKept'
  BY ListFrame DEF Spares, ListKinds, NotList, listVars, ListTypeOK

\* Joins, left alone.
LEMMA JoinSpared ==
    ASSUME JoinTypeOK, JoinKept, Spares(JoinKinds), NotJoins
    PROVE  JoinTypeOK' /\ JoinKept'
  BY JoinFrame DEF Spares, JoinKinds, NotJoins

\* Initially nothing is open.
LEMMA ApiInit ==
    ASSUME Init PROVE ApiKept
  <1>1. /\ left \in [What -> Nat] /\ tx = [p \in Process |-> NoTx]
        /\ WorkbookInit /\ CodeInit /\ SharingInit /\ StartInit /\ ListInit /\ JoinInit
    BY TransactionsAssumption DEF Init, TxInit
  <1>2. TxOK /\ \A p \in Process : tx[p] = NoTx
    BY <1>1 DEF TxOK, AnyTx
  <1>3. \A p \in Process : tx[p].kind = "none" /\ tx[p].locks = {}
    BY <1>2 DEF NoTx
  <1>4. LocksOK /\ \A kind : kind # "none" => Running(kind) = {}
    BY <1>3 DEF LocksOK, Running
  <1>5. WorkbookTypeOK /\ BookKept
    BY <1>1, <1>3 DEF WorkbookInit, WorkbookTypeOK, BookKept, Agree, NoDocument
  <1>6. CodeTypeOK /\ CodeKept
    <2>1. /\ source = NoSource /\ created = 0 /\ texts = 0 /\ overlapped = FALSE
          /\ action = [n \in DynamicAction |-> 0] /\ wanted = [p \in Process |-> 0]
          /\ loaded = [p \in Process |-> [i \in Sources |-> NotLoaded]]
      BY <1>1 DEF CodeInit
    <2>2. CodeTypeOK
      <3> DEFINE Module == [text : 0..texts, version : Nat]
      <3>1. NotLoaded \in Module
        BY <2>1 DEF NotLoaded
      <3>2. loaded \in [Process -> [Sources -> Module]]
        <4> HIDE DEF Module
        <4> QED BY <2>1, <3>1
      <3>3. action \in [DynamicAction -> 0..created] /\ wanted \in [Process -> 0..created]
        BY <2>1
      <3>4. source \in [id : 0..created, text : 0..texts, version : Nat]
        BY <2>1 DEF NoSource
      <3>5. overlapped \in BOOLEAN
        BY <2>1
      <3>6. created \in 0..MaxSource /\ texts \in 0..MaxText
        BY <2>1, CodeAssumption
      <3> QED BY <3>2, <3>3, <3>4, <3>5, <3>6 DEF CodeTypeOK
    <2>3. \A p \in Process, i \in Sources : loaded[p][i] = NotLoaded
      BY <2>1
    <2>4. \A i \in Sources : i # source.id
      BY <2>1, CodeAssumption DEF Sources, NoSource
    <2>5. CodeKept
      BY <1>3, <2>1, <2>3, <2>4 DEF CodeKept, RefersToSource, ModulesFit, NoSource
    <2> QED BY <2>2, <2>5
  <1>7. SharingTypeOK /\ ShareKept
    BY <1>1, <1>3 DEF SharingInit, SharingTypeOK, ShareKept, TriggersCanStart
  <1>8. StartTypeOK /\ StartKept
    <2>1. /\ second = 0 /\ hurried = FALSE /\ definition = [text |-> 1, updated_at |-> Null]
          /\ byDefinition = [p \in Process |-> [s \in Stamps |-> Uncached]]
          /\ byExecution = [p \in Process |-> [x \in ExecutionId |-> Uncached]]
          /\ execution = [x \in ExecutionId |-> 0] /\ reused = {} /\ begun = {}
          /\ request = [c \in Client |-> NoRequest] /\ troubled = {}
      BY <1>1 DEF StartInit, NothingCached
    <2>2. StartTypeOK
      <3> DEFINE Request == [step : Steps, id : ExecutionId \cup {"none"}]
      <3>1. NoRequest \in Request
        BY DEF NoRequest, Steps
      <3>2. request \in [Client -> Request]
        <4> HIDE DEF Request
        <4> QED BY <2>1, <3>1
      <3>3. /\ byDefinition \in [Process -> [Stamps -> Nat]]
            /\ byExecution \in [Process -> [ExecutionId -> Nat]]
            /\ execution \in [ExecutionId -> Nat]
        BY <2>1 DEF Uncached
      <3>4. definition \in [text : Nat \ {0}, updated_at : Stamps]
        BY <2>1, StartAssumption DEF Stamps, Null
      <3>5. hurried \in BOOLEAN
        BY <2>1
      <3>6. /\ second \in 0..MaxSecond
            /\ reused \subseteq begun /\ begun \subseteq ExecutionId /\ troubled \subseteq Client
        BY <2>1, StartAssumption
      <3> QED BY <3>2, <3>3, <3>4, <3>5, <3>6 DEF StartTypeOK
    <2>3. /\ \A p \in Process, s \in Stamps : byDefinition[p][s] = Uncached
          /\ \A p \in Process, x \in ExecutionId : byExecution[p][x] = Uncached
          /\ \A x \in ExecutionId : execution[x] = 0
          /\ \A c \in Client : request[c].step = "new"
          /\ definition.updated_at <= second
      BY <2>1 DEF NoRequest, Null
    <2>4. StartKept
      BY <1>3, <2>3 DEF StartKept, OneStartPerClient, CacheFits, NotBegun,
         RunsItsSpecification, PostIsIdempotent
    <2> QED BY <2>2, <2>4
  <1>9. ListTypeOK /\ ListKept
    <2>1. /\ present \subseteq Row /\ used = present /\ lasting = present /\ torn = FALSE
          /\ listing = NoListing /\ received = <<>>
      BY <1>1 DEF ListInit
    <2>2. ListTypeOK
      <3>1. <<>> \in Seq(Row)
        OBVIOUS
      <3> QED BY <2>1, <3>1 DEF ListTypeOK, NoListing, Begin
    <2>3. /\ listing.page = <<>> /\ listing.step = "new" /\ listing.marker = 0
          /\ Running("list") = {} /\ DOMAIN received = {} /\ DOMAIN listing.page = {}
      BY <1>4, <2>1 DEF NoListing, Begin
    <2>4. \A r \in lasting : ~(r <= 0)
      BY <2>1, ListingAssumption
    <2>5. Complete
      BY <1>3, <2>3, <2>4 DEF Complete, Increasing, In
    <2> QED BY <1>3, <2>1, <2>2, <2>3, <2>5 DEF ListKept, OneListing
  <1>10. JoinTypeOK /\ JoinKept
    BY <1>1, <1>3, <1>4, JoinAssumption
       DEF JoinInit, JoinTypeOK, JoinKept, OneExecutionPerJoin
  <1> QED BY <1>2, <1>4, <1>5, <1>6, <1>7, <1>8, <1>9, <1>10 DEF ApiKept

\* Every step keeps the invariant: of the part it belongs to by what that part
\* proves, of the others because it spares them.
LEMMA ApiNext ==
    ASSUME ApiKept, [Next]_vars PROVE ApiKept'
  <1> USE DEF ApiKept
  <1>k. ASSUME NEW K \in {BookKinds, CodeKinds, ShareKinds, StartKinds, ListKinds, JoinKinds},
               Moves(K)
        PROVE  /\ K = BookKinds \/ Spares(BookKinds)
               /\ K = CodeKinds \/ Spares(CodeKinds)
               /\ K = ShareKinds \/ Spares(ShareKinds)
               /\ K = StartKinds \/ Spares(StartKinds)
               /\ K = ListKinds \/ Spares(ListKinds)
               /\ K = JoinKinds \/ Spares(JoinKinds)
    <2> DEFINE All == {BookKinds, CodeKinds, ShareKinds, StartKinds, ListKinds, JoinKinds}
    <2>1. \A L \in All : L = K \/ L \cap (K \cup {"none"}) = {}
      BY <1>k DEF BookKinds, CodeKinds, ShareKinds, StartKinds, ListKinds, JoinKinds
    <2>2. \A L \in All : L = K \/ Spares(L)
      BY <1>k, <2>1, OthersAreSpared
    <2> QED BY <2>2
  <1>d. /\ BookKinds # CodeKinds /\ BookKinds # ShareKinds /\ BookKinds # StartKinds
        /\ BookKinds # ListKinds /\ BookKinds # JoinKinds /\ CodeKinds # ShareKinds
        /\ CodeKinds # StartKinds /\ CodeKinds # ListKinds /\ CodeKinds # JoinKinds
        /\ ShareKinds # StartKinds /\ ShareKinds # ListKinds /\ ShareKinds # JoinKinds
        /\ StartKinds # ListKinds /\ StartKinds # JoinKinds /\ ListKinds # JoinKinds
    BY DEF BookKinds, CodeKinds, ShareKinds, StartKinds, ListKinds, JoinKinds
  <1>1. ASSUME NEW p \in Process, Books(p) PROVE ApiKept'
    <2>1. /\ WorkbookStep(p) /\ NotCode /\ NotSharing /\ NotStart /\ NotList /\ NotJoins
      BY <1>1 DEF Books
    <2>2. TxOK' /\ WorkbookTypeOK' /\ Moves(BookKinds) /\ Acquires(p) /\ BookKept'
      BY <2>1, BookMoves, BookNext
    <2>3. LocksOK'
      BY <2>2, LocksKept
    <2>4. /\ Spares(CodeKinds) /\ Spares(ShareKinds) /\ Spares(StartKinds)
          /\ Spares(ListKinds) /\ Spares(JoinKinds)
      BY <1>k, <1>d, <2>2
    <2> QED BY <2>1, <2>2, <2>3, <2>4, CodeSpared, ShareSpared, StartSpared, ListSpared,
               JoinSpared
  <1>2. ASSUME NEW p \in Process, Code(p) PROVE ApiKept'
    <2>1. /\ CodeStep(p) /\ NotBooks /\ NotSharing /\ NotStart /\ NotList /\ NotJoins
      BY <1>2 DEF Code
    <2>2. TxOK' /\ CodeTypeOK' /\ Moves(CodeKinds) /\ Acquires(p) /\ CodeKept'
      BY <2>1, CodeMoves, CodeNext DEF CodeTyped, CodeKept
    <2>3. LocksOK'
      BY <2>2, LocksKept
    <2>4. /\ Spares(BookKinds) /\ Spares(ShareKinds) /\ Spares(StartKinds)
          /\ Spares(ListKinds) /\ Spares(JoinKinds)
      BY <1>k, <1>d, <2>2
    <2> QED BY <2>1, <2>2, <2>3, <2>4, BookSpared, ShareSpared, StartSpared, ListSpared,
               JoinSpared
  <1>3. ASSUME NEW p \in Process, Shares(p) PROVE ApiKept'
    <2>1. /\ SharingStep(p) /\ NotBooks /\ NotCode /\ NotStart /\ NotList /\ NotJoins
      BY <1>3 DEF Shares
    <2>2. TxOK' /\ SharingTypeOK' /\ Moves(ShareKinds) /\ Acquires(p) /\ ShareKept'
      BY <2>1, ShareNext DEF ShareTyped
    <2>3. LocksOK'
      BY <2>2, LocksKept
    <2>4. /\ Spares(BookKinds) /\ Spares(CodeKinds) /\ Spares(StartKinds)
          /\ Spares(ListKinds) /\ Spares(JoinKinds)
      BY <1>k, <1>d, <2>2
    <2> QED BY <2>1, <2>2, <2>3, <2>4, BookSpared, CodeSpared, StartSpared, ListSpared,
               JoinSpared
  <1>4. ASSUME NEW p \in Process, Starts(p) PROVE ApiKept'
    <2>1. /\ StartStep(p) /\ NotBooks /\ NotCode /\ NotSharing /\ NotList /\ NotJoins
      BY <1>4 DEF Starts
    <2>2. TxOK' /\ StartTypeOK' /\ Moves(StartKinds) /\ Acquires(p) /\ StartKept'
      BY <2>1, StartNext DEF StartTyped
    <2>3. LocksOK'
      BY <2>2, LocksKept
    <2>4. /\ Spares(BookKinds) /\ Spares(CodeKinds) /\ Spares(ShareKinds)
          /\ Spares(ListKinds) /\ Spares(JoinKinds)
      BY <1>k, <1>d, <2>2
    <2> QED BY <2>1, <2>2, <2>3, <2>4, BookSpared, CodeSpared, ShareSpared, ListSpared,
               JoinSpared
  <1>5. ASSUME NEW p \in Process, Lists(p) PROVE ApiKept'
    <2>1. /\ ListStep(p) /\ NotBooks /\ NotCode /\ NotSharing /\ NotStart /\ NotJoins
      BY <1>5 DEF Lists
    <2>2. TxOK' /\ ListTypeOK' /\ Moves(ListKinds) /\ Acquires(p) /\ ListKept'
      BY <2>1, ListNext DEF ListTyped
    <2>3. LocksOK'
      BY <2>2, LocksKept
    <2>4. /\ Spares(BookKinds) /\ Spares(CodeKinds) /\ Spares(ShareKinds)
          /\ Spares(StartKinds) /\ Spares(JoinKinds)
      BY <1>k, <1>d, <2>2
    <2> QED BY <2>1, <2>2, <2>3, <2>4, BookSpared, CodeSpared, ShareSpared, StartSpared,
               JoinSpared
  <1>6. ASSUME NEW p \in Process, Joins(p) PROVE ApiKept'
    <2>1. /\ JoinStep(p) /\ NotBooks /\ NotCode /\ NotSharing /\ NotStart /\ NotList
      BY <1>6 DEF Joins
    <2>2. TxOK' /\ JoinTypeOK' /\ Moves(JoinKinds) /\ Acquires(p) /\ JoinKept'
      BY <2>1, JoinNext DEF JoinTyped
    <2>3. LocksOK'
      BY <2>2, LocksKept
    <2>4. /\ Spares(BookKinds) /\ Spares(CodeKinds) /\ Spares(ShareKinds)
          /\ Spares(StartKinds) /\ Spares(ListKinds)
      BY <1>k, <1>d, <2>2
    <2> QED BY <2>1, <2>2, <2>3, <2>4, BookSpared, CodeSpared, ShareSpared, StartSpared,
               ListSpared
  <1>7. ASSUME Posts \/ Browses \/ UNCHANGED vars PROVE ApiKept'
    <2>1. tx' = tx /\ TxOK'
      BY <1>7, PostNext, BrowseNext DEF Posts, Browses, StartTyped, ListTyped, vars, TxOK
    <2>2. LocksOK' /\ \A K : Spares(K)
      BY <2>1 DEF LocksOK, Spares
    <2>3. CASE Posts
      BY <2>1, <2>2, <2>3, PostNext, BookSpared, CodeSpared, ShareSpared, ListSpared, JoinSpared
         DEF Posts, StartTyped
    <2>4. CASE Browses
      BY <2>1, <2>2, <2>4, BrowseNext, BookSpared, CodeSpared, ShareSpared, StartSpared,
         JoinSpared DEF Browses, ListTyped
    <2>5. CASE UNCHANGED vars
      <3>1. NotBooks /\ NotCode /\ NotSharing /\ NotStart /\ NotList /\ NotJoins
        BY <2>5 DEF vars, NotBooks, NotCode, NotSharing, NotStart, NotList, NotJoins
      <3> QED BY <2>1, <2>2, <3>1, BookSpared, CodeSpared, ShareSpared, StartSpared,
                 ListSpared, JoinSpared
    <2> QED BY <1>7, <2>3, <2>4, <2>5
  <1>8. ASSUME NEW p \in Process, RestartProcess(p) PROVE ApiKept'
    <2>1. /\ Spend("restart") /\ Close(p) /\ RestartProvider(p) /\ RestartEngine(p)
          /\ RestartListing(p) /\ NotBooks /\ NotSharing /\ NotJoins
      BY <1>8 DEF RestartProcess
    <2>2. tx' = [tx EXCEPT ![p] = NoTx] /\ NoTx \in AnyTx /\ NoTx.kind = "none" /\ NoTx.locks = {}
      BY <2>1 DEF Close, AnyTx, NoTx
    <2>3. TxOK' /\ LocksOK'
      BY <2>1, <2>2, Spent DEF TxOK, LocksOK
    <2>4. \A q \in Process : tx'[q].kind # "none" => tx'[q] = tx[q]
      BY <2>2 DEF TxOK
    <2>5. WorkbookTypeOK' /\ BookKept'
      BY <2>1, <2>4, BookFrame DEF NotBooks, workbookVars, WorkbookTypeOK
    <2>6. SharingTypeOK' /\ ShareKept'
      BY <2>1, <2>4, ShareFrame DEF NotSharing, sharingVars, SharingTypeOK, ShareKinds
    <2>7. JoinTypeOK' /\ JoinKept'
      BY <2>1, <2>4, JoinFrame DEF NotJoins, JoinKinds
    <2> QED BY <2>1, <2>3, <2>5, <2>6, <2>7, CodeRestarts, StartRestarts, ListRestarts
  <1> HIDE DEF ApiKept
  <1> QED BY <1>1, <1>2, <1>3, <1>4, <1>5, <1>6, <1>7, <1>8 DEF Next

\* The invariant of the API and of the engines' creation of joins.
THEOREM ApiInvariant == ApiSpec => []ApiKept
  <1>1. Init => ApiKept
    BY ApiInit
  <1>2. ApiKept /\ [Next]_vars => ApiKept'
    BY ApiNext
  <1> QED BY <1>1, <1>2, PTL DEF ApiSpec

\* What the processes keep of the database agrees with it: outside a transaction of
\* a workbook its members are what the document says (workbooks.create_workbook_v2,
\* update_workbook_v2), a dynamic action runs the latest code its process met
\* (DynamicActionProvider._load_module), an execution starts with the definition that
\* was loaded and all engines run it by that specification (spec_parser's caches).
THEOREM CopiesAlwaysAgree == ApiSpec => []CopiesAgree
  <1>1. ApiKept => CopiesAgree
    <2> SUFFICES ASSUME ApiKept PROVE CopiesAgree
      OBVIOUS
    <2> USE DEF ApiKept
    <2>1. ApiTypeOK
      BY DEF ApiTypeOK, TxTypeOK, TxOK, LocksOK
    <2>2. MembersFollowWorkbook
      <3>1. ~resubmitted => \A m \in Of(workbook) \ edited : member[m] = workbook[m]
        BY DEF BookKept, Agree
      <3> QED BY <3>1 DEF MembersFollowWorkbook
    <2>3. LatestCodeRuns
      BY CodeSafe
    <2>4. StartsWhatItLoaded /\ RunsItsSpecification
      BY DEF StartKept, StartTxKept, StartsWhatItLoaded, Running
    <2> QED BY <2>1, <2>2, <2>3, <2>4 DEF CopiesAgree
  <1> QED BY <1>1, ApiInvariant, PTL

\* A trigger can start its workflow (Sees its definition), unless its creation met a
\* change of the scope or the owner of the definition withdrew the membership
\* (workflows.update_workflow_definition checks the triggers of other projects).
THEOREM TriggersAlwaysStart == ApiSpec => []TriggersCanStart
  <1>1. ApiKept => TriggersCanStart
    BY DEF ApiKept, ShareKept
  <1> QED BY <1>1, ApiInvariant, PTL

\* What clients are told is true: a POST with an id is idempotent (start_workflow and
\* DBDuplicateEntryError), and whoever follows the links of a listing gets every row
\* that lasts, each once (rest_utils.get_all).
THEOREM AnswersAreAlwaysTrue == ApiSpec => []AnswersAreTrue
  <1>1. ApiKept => AnswersAreTrue
    BY ListSafe DEF ApiKept, StartKept, AnswersAreTrue
  <1> QED BY <1>1, ApiInvariant, PTL

\* However many inbound tasks complete at once, a join has one execution and the
\* transactions that create joins do not wait for each other in a circle, because
\* each takes its named locks in the order of the keys (dispatcher).
THEOREM JoinLocksSafety == ApiSpec => []JoinLocksInv
  <1>1. ApiKept => JoinLocksInv
    BY NoCircle DEF ApiKept, JoinKept, JoinLocksInv
  <1> QED BY <1>1, ApiInvariant, PTL
=============================================================================
