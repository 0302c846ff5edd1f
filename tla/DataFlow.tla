-------------------------------- MODULE DataFlow --------------------------------
(***************************************************************************)
(* The variables that tasks publish, on their way to the tasks behind      *)
(* them.  A context carries a version for every key that was published;    *)
(* where branches meet, the value with the greater version is taken, since *)
(* the database returns the upstream tasks in any order.  One variable is  *)
(* enough here: it is published as a scalar, or as a dictionary with one   *)
(* entry, whose version is kept under the key of the entry.  (Defaults:    *)
(* [context_versioning] enabled, [engine] merge_strategy = replace.)       *)
(***************************************************************************)
EXTENDS Naturals, FiniteSets, SequencesExt

CONSTANTS Publisher,   (* the tasks                                          *)
          Nobody       (* "publisher" of a variable that is not there        *)

Kind == {"absent", "scalar", "dict"}

Context == [kind : Kind, by : Publisher \cup {Nobody}, versions : [Kind -> Nat]]

EmptyContext ==
    [kind |-> "absent", by |-> Nobody, versions |-> [k \in Kind |-> 0]]

\* get_in_context_with_versions() and update_dict(): the versions of the keys
\* that are published grow, the value is replaced.
NextVersionFirst(n) == 1                          \* mutant: always the first one
NextVersion(n) == n + 1

Outbound(ctx, t, kind) ==
    IF kind = "absent" THEN ctx
    ELSE [kind |-> kind, by |-> t,
          versions |-> [ctx.versions EXCEPT ![kind] = NextVersion(@)]]

\* The key under which two values of the variable are compared.
Compared(left, right) ==
    IF left.kind = "dict" /\ right.kind = "dict" THEN "dict" ELSE "scalar"

Newer(left, right) ==
    LET key == Compared(left, right) IN right.versions[key] > left.versions[key]

TakesRight(left, right) ==
    right.kind # "absent" /\ (left.kind = "absent" \/ Newer(left, right))

Greater(m, n) == IF m > n THEN m ELSE n

\* merge_context_by_version()
MergedContext(left, right) ==
    LET value == IF TakesRight(left, right) THEN right ELSE left
    IN  [kind |-> value.kind, by |-> value.by,
         versions |-> [k \in Kind |-> Greater(left.versions[k], right.versions[k])]]

\* evaluate_upstream_context() of the outbound contexts in the order in which
\* they were read: it begins with the last one.
UpstreamContext(contexts) ==
    IF contexts = <<>> THEN EmptyContext
    ELSE FoldLeft(MergedContext, Last(contexts), Front(contexts))
=============================================================================
