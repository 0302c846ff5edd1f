------------------------------ MODULE CodeSources ------------------------------
(***************************************************************************)
(* Code sources and the dynamic actions made of them.  A code source is a  *)
(* row with its text and a version; a process that looks up a dynamic      *)
(* action loads the text as a Python module and keeps the module until it  *)
(* meets a higher version in the database.                                 *)
(***************************************************************************)
EXTENDS Transactions

CONSTANTS DynamicAction,   (* names of dynamic actions                       *)
          MaxSource,       (* bound of the code sources that are created     *)
          MaxText          (* bound of the texts: every one is another       *)

ASSUME CodeAssumption == MaxSource \in Nat /\ MaxText \in Nat

VARIABLES
    source,      \* the row: [id, text, version], id = 0 when there is none
    created,     \* 0..MaxSource: the ids given out
    texts,       \* 0..MaxText: the texts sent so far
    action,      \* DynamicAction -> the id of its code source, 0 for no row
    wanted,      \* Process -> the id a request is about to store, 0 for none
    loaded,      \* Process -> (id -> [text, version]): _code_sources
    overlapped   \* two updates of the code source overlapped

codeVars == <<source, created, texts, action, wanted, loaded, overlapped>>

NoSource  == [id |-> 0, text |-> 0, version |-> 0]
NotLoaded == [text |-> 0, version |-> 0]       \* stands for (None, -1)
Sources   == 1..MaxSource

CodeTypeOK ==
    /\ source \in [id : 0..created, text : 0..texts, version : Nat]
    /\ created \in 0..MaxSource /\ texts \in 0..MaxText
    /\ action \in [DynamicAction -> 0..created] /\ wanted \in [Process -> 0..created]
    /\ loaded \in [Process -> [Sources -> [text : 0..texts, version : Nat]]]
    /\ overlapped \in BOOLEAN

CodeInit ==
    /\ source = NoSource /\ created = 0 /\ texts = 0 /\ overlapped = FALSE
    /\ action = [n \in DynamicAction |-> 0] /\ wanted = [p \in Process |-> 0]
    /\ loaded = [p \in Process |-> [i \in Sources |-> NotLoaded]]

-----------------------------------------------------------------------------
(* Code sources.                                                            *)

CreateCodeSource(p) ==
    /\ tx[p] = NoTx /\ source.id = 0 /\ created < MaxSource /\ texts < MaxText
    /\ Spend("code")
    /\ created' = created + 1 /\ texts' = texts + 1
    /\ source' = [id |-> created + 1, text |-> texts + 1, version |-> 1]
    /\ UNCHANGED <<action, wanted, loaded, overlapped, tx>>

\* update_code_source reads the row, and writes the version it read plus one.
ReadForUpdate(p) ==
    /\ source.id # 0 /\ texts < MaxText
    /\ Spend("code")
    /\ texts' = texts + 1
    /\ Open(p, [kind |-> "code", row |-> source, text |-> texts + 1, locks |-> {}])
    /\ UNCHANGED <<source, created, action, wanted, loaded, overlapped>>

NextVersionSame(version) == version               \* mutant: the version is kept
NextVersion(version) == version + 1

UpdateCodeSource(p) ==
    /\ tx[p].kind = "code" /\ tx[p].row.id = source.id
    /\ source' = [source EXCEPT !.text = tx[p].text,
                                !.version = NextVersion(tx[p].row.version)]
    /\ overlapped' = (overlapped \/ source # tx[p].row)
    /\ Close(p)
    /\ UNCHANGED <<created, texts, action, wanted, loaded, left>>

UpdateFails(p) ==                    \* the row is gone, or the database fails
    /\ tx[p].kind = "code"
    /\ IF tx[p].row.id # source.id THEN UNCHANGED left ELSE Spend("fault")
    /\ Close(p)
    /\ UNCHANGED codeVars

\* The dynamic actions of the source go with it: ON DELETE CASCADE.
DeleteCodeSource(p) ==
    /\ tx[p] = NoTx /\ source.id # 0
    /\ Spend("delete")
    /\ source' = NoSource
    /\ action' = [n \in DynamicAction |-> IF action[n] = source.id THEN 0 ELSE action[n]]
    /\ UNCHANGED <<created, texts, wanted, loaded, overlapped, tx>>

-----------------------------------------------------------------------------
(* Dynamic actions.  The controller looks the code source up in a           *)
(* transaction of its own before it stores the definition.                  *)

FindCodeSource(p) ==
    /\ tx[p] = NoTx /\ wanted[p] = 0 /\ source.id # 0
    /\ Spend("action")
    /\ wanted' = [wanted EXCEPT ![p] = source.id]
    /\ UNCHANGED <<source, created, texts, action, loaded, overlapped, tx>>

\* POST needs a free name and PUT a taken one; the foreign key refuses a source
\* that was deleted meanwhile.
StoreDynamicAction(p, n) ==
    /\ tx[p] = NoTx /\ wanted[p] # 0
    /\ action' = IF wanted[p] = source.id THEN [action EXCEPT ![n] = wanted[p]] ELSE action
    /\ wanted' = [wanted EXCEPT ![p] = 0]
    /\ UNCHANGED <<source, created, texts, loaded, overlapped, tx, left>>

DeleteDynamicAction(p, n) ==
    /\ tx[p] = NoTx /\ action[n] # 0
    /\ Spend("delete")
    /\ action' = [action EXCEPT ![n] = 0]
    /\ UNCHANGED <<source, created, texts, wanted, loaded, overlapped, tx>>

-----------------------------------------------------------------------------
(* A process looks a dynamic action up: the definition, the version of the  *)
(* source, and the source itself if the version is higher than the module's.*)

LoadDefinition(p, n) ==
    /\ action[n] # 0
    /\ Spend("find")
    /\ Open(p, [kind |-> "find", id |-> action[n], version |-> 0, locks |-> {}])
    /\ UNCHANGED codeVars

ReadVersion(p) ==
    /\ tx[p].kind = "find" /\ tx[p].version = 0 /\ source.id = tx[p].id
    /\ Change(p, [tx[p] EXCEPT !.version = source.version])
    /\ UNCHANGED <<codeVars, left>>

ReloadsIfNew(p, version, id) == loaded[p][id] = NotLoaded     \* mutant: loaded once
Reloads(p, version, id) == version > loaded[p][id].version

EnsureLatest(p) ==
    /\ tx[p].kind = "find" /\ tx[p].version # 0
    /\ IF Reloads(p, tx[p].version, tx[p].id)
       THEN /\ source.id = tx[p].id
            /\ loaded' = [loaded EXCEPT ![p][source.id] =
                             [text |-> source.text, version |-> source.version]]
       ELSE UNCHANGED loaded
    /\ Change(p, [tx[p] EXCEPT !.kind = "found"])
    /\ UNCHANGED <<source, created, texts, action, wanted, overlapped, left>>

\* The action is created from the module and the transaction ends.
UseModule(p) ==
    /\ tx[p].kind = "found"
    /\ Close(p)
    /\ UNCHANGED <<codeVars, left>>

FindFails(p) ==                      \* DBEntityNotFoundError: the source is gone
    /\ tx[p].kind = "find" /\ source.id # tx[p].id
    /\ Close(p)
    /\ UNCHANGED <<codeVars, left>>

\* The process is restarted, which also ends its transaction (see Api).
RestartProvider(p) ==
    /\ loaded' = [loaded EXCEPT ![p] = [i \in Sources |-> NotLoaded]]
    /\ wanted' = [wanted EXCEPT ![p] = 0]
    /\ UNCHANGED <<source, created, texts, action, overlapped>>

CodeStep(p) ==
    \/ CreateCodeSource(p) \/ ReadForUpdate(p) \/ UpdateCodeSource(p)
    \/ UpdateFails(p) \/ DeleteCodeSource(p) \/ FindCodeSource(p)
    \/ \E n \in DynamicAction : StoreDynamicAction(p, n) \/ DeleteDynamicAction(p, n)
                                \/ LoadDefinition(p, n)
    \/ ReadVersion(p) \/ EnsureLatest(p) \/ UseModule(p) \/ FindFails(p)

-----------------------------------------------------------------------------
\* The module a process is about to use is not older than the source was when it
\* looked, and a module of the current version is the current text: the version
\* alone decides whether a process reloads (ensure_latest_module_version), which
\* is sound as long as no two updates of the source overlapped.  And a stored
\* action has its source.
LatestCodeRuns ==
    /\ overlapped \/ \A p \in Process, i \in Sources :
           /\ p \in Running("found") => loaded[p][tx[p].id].version >= tx[p].version
           /\ (i = source.id /\ loaded[p][i].version = source.version)
                  => loaded[p][i].text = source.text
    /\ \A n \in DynamicAction : action[n] # 0 => action[n] = source.id
=============================================================================
