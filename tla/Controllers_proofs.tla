-------------------------- MODULE Controllers_proofs --------------------------
(***************************************************************************)
(* Proofs about ReverseWorkflow, for any document and any number of tasks, *)
(* and about Dispatcher, for any definition of a direct workflow, any      *)
(* length of its clauses and any number of pauses and stops.               *)
(*                                                                         *)
(* Reverse workflows.  What a task needs is the least set with the task    *)
(* that is closed under its requirements; where every task of a set waits  *)
(* for another one of it there is a cycle.  The fold that merges contexts  *)
(* returns the newest of them.  Every step has one of a few forms, as far  *)
(* as executions and the transactions that look for tasks are concerned;   *)
(* what is shown of runs in which these do not overlap (Serial) and of the *)
(* versions that reach a task (Versions) is shown form by form.            *)
(*                                                                         *)
(* Direct workflows.  A session of the dispatcher is a loop over commands. *)
(* What one round does (Round) gives what holds after k of them            *)
(* (SessionOf), and that gives what a session needs to be started with     *)
(* (Dispatchable) so that its commit neither loses a command nor carries   *)
(* one out twice (Dispatching).  Every handler then has one of three       *)
(* forms: it opens a transaction, it leaves the backlog alone (Quiet), or  *)
(* it commits a session (Committed).                                       *)
(***************************************************************************)
EXTENDS Controllers, FiniteSetTheorems, SequenceTheorems, NaturalsInduction,
        WellFoundedInduction, TLAPS

\* A set of naturals that is not empty has a least one.
LEMMA LeastExists ==
    ASSUME NEW T \in SUBSET Nat, T # {}
    PROVE  \E x \in T : \A y \in T : x <= y
<1> DEFINE R == OpToRel(<, Nat)
<1>1. IsWellFoundedOn(R, Nat)
  BY NatLessThanWellFounded
<1>2. PICK x \in T : \A y \in T : ~(<<y, x>> \in R)
  <2> HIDE DEF R
  <2> QED BY <1>1, WFMin
<1>3. \A y \in T : ~(y < x)
  BY <1>2 DEF OpToRel
<1> QED BY <1>3

\* A set of naturals with 0 and the successors of its members has them all.
LEMMA AllNaturals ==
    ASSUME NEW S, 0 \in S, \A n \in Nat : n \in S => n + 1 \in S
    PROVE  Nat \subseteq S
<1> DEFINE Bad == Nat \ S
<1>1. SUFFICES ASSUME Bad # {} PROVE FALSE
  OBVIOUS
<1>2. PICK n \in Bad : \A m \in Bad : n <= m
  <2>1. Bad \in SUBSET Nat
    OBVIOUS
  <2> HIDE DEF Bad
  <2> QED BY <1>1, <2>1, LeastExists
<1>3. n # 0 /\ n \in Nat
  BY <1>2
<1>4. n - 1 \in Nat /\ n - 1 \notin Bad
  BY <1>2, <1>3
<1> QED BY <1>2, <1>3, <1>4

\* The fold over the contexts, one after the other.
LEMMA FoldSteps ==
    ASSUME NEW s \in Seq(Context), NEW b \in Context
    PROVE  \E acc : /\ acc[0] = b
                    /\ \A k \in 1..Len(s) : acc[k] = MergedContext(acc[k - 1], s[k])
                    /\ FoldLeft(MergedContext, b, s) = acc[Len(s)]
<1> DEFINE D == DOMAIN s
           Value(f, d) == IF d = {} THEN b ELSE MergedContext(f[d \ {Max(d)}], s[Max(d)])
           Fits(n) == \E f : f = [d \in SUBSET (1..n) |-> Value(f, d)]
<1>1. Fits(0)
  <2> DEFINE f == [d \in SUBSET (1..0) |-> b]
  <2>1. \A d \in SUBSET (1..0) : d = {}
    OBVIOUS
  <2>2. f = [d \in SUBSET (1..0) |-> Value(f, d)]
    BY <2>1
  <2> QED BY <2>2
<1>2. ASSUME NEW n \in Nat, Fits(n) PROVE Fits(n + 1)
  <2>1. PICK f : f = [d \in SUBSET (1..n) |-> Value(f, d)]
    BY <1>2
  <2> DEFINE g == [d \in SUBSET (1..(n + 1)) |->
                     IF n + 1 \in d THEN MergedContext(f[d \ {n + 1}], s[n + 1]) ELSE f[d]]
  <2>2. ASSUME NEW d \in SUBSET (1..(n + 1)) PROVE g[d] = Value(g, d)
    <3>1. CASE n + 1 \in d
      <4>1. Max(d) = n + 1
        <5>1. \A y \in d : y \in Int /\ n + 1 >= y
          OBVIOUS
        <5>2. \A x \in d : (\A y \in d : x >= y) => x = n + 1
          BY <3>1, <5>1
        <5> QED BY <3>1, <5>1, <5>2 DEF Max
      <4>2. d \ {n + 1} \in SUBSET (1..(n + 1)) /\ n + 1 \notin d \ {n + 1} /\ d # {}
        BY <3>1
      <4>3. g[d \ {n + 1}] = f[d \ {n + 1}]
        BY <4>2
      <4> QED BY <3>1, <4>1, <4>2, <4>3
    <3>2. CASE n + 1 \notin d
      <4>1. d \in SUBSET (1..n)
        BY <3>2
      <4>2. g[d] = f[d] /\ f[d] = Value(f, d)
        BY <2>1, <3>2, <4>1
      <4>3. \A x : g[d \ {x}] = f[d \ {x}]
        BY <3>2, <4>1
      <4> QED BY <4>2, <4>3
    <3> QED BY <3>1, <3>2
  <2>3. g = [d \in SUBSET (1..(n + 1)) |-> Value(g, d)]
    <3> HIDE DEF Value
    <3> QED BY <2>2
  <2> QED BY <2>3
<1>3. Fits(Len(s))
  <2> DEFINE S == {n \in Nat : Fits(n)}
  <2>1. 0 \in S /\ \A n \in Nat : n \in S => n + 1 \in S
    <3> HIDE DEF Fits
    <3> QED BY <1>1, <1>2
  <2>2. Nat \subseteq S
    <3> HIDE DEF S
    <3> QED BY <2>1, AllNaturals
  <2>3. Len(s) \in Nat
    OBVIOUS
  <2> HIDE DEF Fits
  <2> QED BY <2>2, <2>3
<1> DEFINE iter == CHOOSE iter : iter = [d \in SUBSET D |->
                     IF d = {} THEN b ELSE MergedContext(iter[d \ {Max(d)}], s[Max(d)])]
<1>4. iter = [d \in SUBSET D |-> Value(iter, d)]
  <2>1. 1..Len(s) = D
    OBVIOUS
  <2> QED BY <1>3, <2>1
<1>5. FoldLeft(MergedContext, b, s) = iter[D]
  BY DEF FoldLeft, MapThenFoldSet
<1> HIDE DEF iter
<1> DEFINE acc == [k \in 0..Len(s) |-> iter[1..k]]
<1>6. acc[0] = b
  <2>1. 1..0 = {} /\ {} \in SUBSET D /\ 0 \in 0..Len(s)
    OBVIOUS
  <2> QED BY <1>4, <2>1
<1>7. ASSUME NEW k \in 1..Len(s) PROVE acc[k] = MergedContext(acc[k - 1], s[k])
  <2>1. Max(1..k) = k
    BY DEF Max
  <2>2. (1..k) \ {k} = 1..(k - 1) /\ 1..k \in SUBSET D /\ 1..k # {}
    OBVIOUS
  <2>3. k \in 0..Len(s) /\ k - 1 \in 0..Len(s)
    OBVIOUS
  <2> QED BY <1>4, <2>1, <2>2, <2>3
<1>8. D = 1..Len(s) /\ Len(s) \in 0..Len(s)
  OBVIOUS
<1> QED BY <1>5, <1>6, <1>7, <1>8
Doc == doc \in DocumentType

\* The tasks that u needs directly and that are defined.
Direct(u) == Requires(u) \cap doc.tasks

\* A set of tasks with all that its members need.
Closed(S) == \A u \in S : Direct(u) \subseteq S

\* Needs() by the number of steps.
LEMMA NeedsLevels ==
    ASSUME NEW t \in Task
    PROVE  \E Reach : /\ Needs(t) = Reach[Cardinality(Task)]
                      /\ Reach[0] = {t}
                      /\ \A n \in 1..Cardinality(Task) :
                           Reach[n] = Reach[n - 1] \cup UNION {Direct(u) : u \in Reach[n - 1]}
<1> DEFINE C == Cardinality(Task)
           Step(n, Q) == IF n = 0 THEN {t} ELSE Q \cup UNION {Direct(u) : u \in Q}
           Fits(n) == \E f : f = [k \in 0..n |-> Step(k, f[k - 1])]
<1>1. Fits(0)
  <2> DEFINE f == [k \in 0..0 |-> {t}]
  <2>1. f = [k \in 0..0 |-> Step(k, f[k - 1])]
    OBVIOUS
  <2> QED BY <2>1
<1>2. ASSUME NEW n \in Nat, Fits(n) PROVE Fits(n + 1)
  <2>0. \A Q, P : Step(0, Q) = Step(0, P)
    OBVIOUS
  <2> HIDE DEF Step
  <2>1. PICK f : f = [k \in 0..n |-> Step(k, f[k - 1])]
    BY <1>2
  <2> DEFINE g == [k \in 0..(n + 1) |-> IF k = n + 1 THEN Step(n + 1, f[n]) ELSE f[k]]
  <2>2. ASSUME NEW k \in 0..(n + 1) PROVE g[k] = Step(k, g[k - 1])
    <3>1. CASE k = n + 1
      BY <3>1
    <3>2. CASE k = 0
      BY <2>0, <2>1, <3>2
    <3>3. CASE k \in 1..n
      BY <2>1, <3>3
    <3> QED BY <3>1, <3>2, <3>3
  <2>3. g = [k \in 0..(n + 1) |-> Step(k, g[k - 1])]
    BY <2>2
  <2> QED BY <2>3
<1>3. C \in Nat
  BY ReverseAssumption, FS_CardinalityType
<1>4. Fits(C)
  <2> DEFINE S == {n \in Nat : Fits(n)}
  <2>1. 0 \in S /\ \A n \in Nat : n \in S => n + 1 \in S
    <3> HIDE DEF Fits
    <3> QED BY <1>1, <1>2
  <2>2. Nat \subseteq S
    <3> HIDE DEF S
    <3> QED BY <2>1, AllNaturals
  <2> HIDE DEF Fits, C
  <2> QED BY <1>3, <2>2
<1> DEFINE Reach == CHOOSE Reach : Reach = [n \in 0..C |->
             IF n = 0 THEN {t}
             ELSE Reach[n - 1] \cup UNION {Requires(u) \cap doc.tasks : u \in Reach[n - 1]}]
<1>5. Needs(t) = Reach[C]
  BY DEF Needs
<1>6. Reach = [n \in 0..C |->
             IF n = 0 THEN {t}
             ELSE Reach[n - 1] \cup UNION {Requires(u) \cap doc.tasks : u \in Reach[n - 1]}]
  <2> HIDE DEF C
  <2> QED BY <1>4 DEF Direct
<1> HIDE DEF Reach, C
<1>7. Reach[0] = {t}
  BY <1>3, <1>6
<1>8. ASSUME NEW n \in 1..C
      PROVE  Reach[n] = Reach[n - 1] \cup UNION {Direct(u) : u \in Reach[n - 1]}
  BY <1>3, <1>6 DEF Direct
<1> QED BY <1>5, <1>7, <1>8 DEF C

\* What t needs is a closed set with t, in which there is nothing too much.
LEMMA NeedsFacts ==
    ASSUME NEW t \in Task, Doc
    PROVE  /\ t \in Needs(t) /\ Needs(t) \subseteq Task
           /\ Closed(Needs(t))
           /\ \A S : t \in S /\ Closed(S) => Needs(t) \subseteq S
<1> DEFINE C == Cardinality(Task)
<1>1. PICK Reach :
        /\ Needs(t) = Reach[C]
        /\ Reach[0] = {t}
        /\ \A n \in 1..C : Reach[n] = Reach[n - 1] \cup UNION {Direct(u) : u \in Reach[n - 1]}
  BY NeedsLevels
<1>2. C \in Nat /\ IsFiniteSet(Task)
  BY ReverseAssumption, FS_CardinalityType
<1> HIDE DEF C
<1>3. \A n \in Nat : n + 1 <= C =>
        Reach[n + 1] = Reach[n] \cup UNION {Direct(u) : u \in Reach[n]}
  <2> TAKE n \in Nat
  <2> HAVE n + 1 <= C
  <2>1. n + 1 \in 1..C /\ (n + 1) - 1 = n
    BY <1>2
  <2> QED BY <1>1, <2>1
<1>4. \A u \in Task : Direct(u) \subseteq Task
  BY DEF Doc, DocumentType, Direct
<1>5. \A n \in Nat : n <= C => t \in Reach[n] /\ Reach[n] \subseteq Task
  <2> DEFINE P == {n \in Nat : n <= C => t \in Reach[n] /\ Reach[n] \subseteq Task}
  <2>1. 0 \in P
    BY <1>1
  <2>2. ASSUME NEW n \in Nat, n \in P PROVE n + 1 \in P
    <3> SUFFICES ASSUME n + 1 <= C PROVE t \in Reach[n + 1] /\ Reach[n + 1] \subseteq Task
      OBVIOUS
    <3>1. t \in Reach[n] /\ Reach[n] \subseteq Task
      BY <1>2, <2>2
    <3>2. Reach[n + 1] = Reach[n] \cup UNION {Direct(u) : u \in Reach[n]}
      BY <1>3
    <3> QED BY <1>4, <3>1, <3>2
  <2>3. Nat \subseteq P
    <3> HIDE DEF P
    <3> QED BY <2>1, <2>2, AllNaturals
  <2> QED BY <2>3
<1>6. ASSUME NEW S, t \in S, Closed(S) PROVE Needs(t) \subseteq S
  <2> DEFINE P == {n \in Nat : n <= C => Reach[n] \subseteq S}
  <2>1. 0 \in P
    BY <1>1, <1>6
  <2>2. ASSUME NEW n \in Nat, n \in P PROVE n + 1 \in P
    <3> SUFFICES ASSUME n + 1 <= C PROVE Reach[n + 1] \subseteq S
      OBVIOUS
    <3>1. Reach[n] \subseteq S
      BY <1>2, <2>2
    <3>2. Reach[n + 1] = Reach[n] \cup UNION {Direct(u) : u \in Reach[n]}
      BY <1>3
    <3> QED BY <1>6, <3>1, <3>2 DEF Closed
  <2>3. Nat \subseteq P
    <3> HIDE DEF P
    <3> QED BY <2>1, <2>2, AllNaturals
  <2> QED BY <1>1, <1>2, <2>3
\* As long as a level is not closed the next one has another task.
<1>7. Closed(Needs(t))
  <2> SUFFICES ASSUME ~Closed(Reach[C]) PROVE FALSE
    BY <1>1
  <2>1. ASSUME NEW n \in Nat, n + 1 <= C, Closed(Reach[n]) PROVE Reach[n + 1] = Reach[n]
    <3>1. Reach[n + 1] = Reach[n] \cup UNION {Direct(u) : u \in Reach[n]}
      BY <1>3, <2>1
    <3>2. UNION {Direct(u) : u \in Reach[n]} \subseteq Reach[n]
      BY <2>1 DEF Closed
    <3> QED BY <3>1, <3>2
  <2>2. ASSUME NEW n \in Nat, n <= C, Closed(Reach[n]) PROVE FALSE
    <3> DEFINE P == {k \in Nat : n + k <= C => Reach[n + k] = Reach[n]}
    <3>1. 0 \in P
      <4>1. n + 0 = n
        OBVIOUS
      <4> QED BY <4>1
    <3>2. ASSUME NEW k \in Nat, k \in P PROVE k + 1 \in P
      <4> SUFFICES ASSUME n + (k + 1) <= C PROVE Reach[n + (k + 1)] = Reach[n]
        OBVIOUS
      <4>1. n + k \in Nat /\ n + k <= C /\ (n + k) + 1 <= C /\ n + (k + 1) = (n + k) + 1
        BY <1>2
      <4>2. Reach[n + k] = Reach[n]
        BY <3>2, <4>1
      <4> QED BY <2>1, <2>2, <4>1, <4>2
    <3>3. Nat \subseteq P
      <4> HIDE DEF P
      <4> QED BY <3>1, <3>2, AllNaturals
    <3>4. C - n \in Nat /\ n + (C - n) = C
      BY <1>2, <2>2
    <3>5. Reach[C] = Reach[n]
      BY <3>3, <3>4
    <3> QED BY <2>2, <3>5
  <2> DEFINE P == {n \in Nat : n <= C => Cardinality(Reach[n]) > n}
  <2>3. 0 \in P
    BY <1>1, FS_Singleton
  <2>4. ASSUME NEW n \in Nat, n \in P PROVE n + 1 \in P
    <3> SUFFICES ASSUME n + 1 <= C PROVE Cardinality(Reach[n + 1]) > n + 1
      OBVIOUS
    <3>1. Cardinality(Reach[n]) > n /\ n <= C
      BY <1>2, <2>4
    <3>2. Reach[n + 1] = Reach[n] \cup UNION {Direct(u) : u \in Reach[n]}
      BY <1>3
    <3>3. PICK z \in Reach[n + 1] : z \notin Reach[n]
      BY <2>2, <3>1, <3>2 DEF Closed
    <3>4. IsFiniteSet(Reach[n]) /\ IsFiniteSet(Reach[n + 1])
      <4>1. Reach[n] \subseteq Task /\ Reach[n + 1] \subseteq Task
        BY <1>5, <3>1
      <4> QED BY <1>2, <4>1, FS_Subset
    <3>5. Cardinality(Reach[n] \cup {z}) = Cardinality(Reach[n]) + 1
      BY <3>3, <3>4, FS_AddElement
    <3>6. Reach[n] \cup {z} \subseteq Reach[n + 1]
      BY <3>2, <3>3
    <3>7. Cardinality(Reach[n] \cup {z}) <= Cardinality(Reach[n + 1])
      BY <3>4, <3>6, FS_Subset
    <3>8. Cardinality(Reach[n]) \in Nat /\ Cardinality(Reach[n + 1]) \in Nat
      BY <3>4, FS_CardinalityType
    <3> QED BY <3>1, <3>5, <3>7, <3>8
  <2>5. Nat \subseteq P
    <3> HIDE DEF P
    <3> QED BY <2>3, <2>4, AllNaturals
  <2>6. Cardinality(Reach[C]) > C
    BY <1>2, <2>5
  <2>7. Reach[C] \subseteq Task
    BY <1>2, <1>5
  <2>8. Cardinality(Reach[C]) <= C /\ Cardinality(Reach[C]) \in Nat
    BY <1>2, <2>7, FS_Subset, FS_CardinalityType DEF C
  <2> QED BY <1>2, <2>6, <2>8
<1> QED BY <1>1, <1>2, <1>5, <1>6, <1>7

\* What a task needs follows from the document, which does not change.
LEMMA NeedsStay ==
    ASSUME Doc, doc' = doc
    PROVE  \A t \in Task : Needs(t)' = Needs(t)
<1>1. \A u : Direct(u)' = Direct(u)
  BY DEF Direct, Requires
<1>2. \A S : Closed(S)' <=> Closed(S)
  BY <1>1 DEF Closed
<1> SUFFICES ASSUME NEW t \in Task PROVE Needs(t)' = Needs(t)
  OBVIOUS
<1>3. /\ t \in Needs(t) /\ Closed(Needs(t))
      /\ \A S : t \in S /\ Closed(S) => Needs(t) \subseteq S
  BY NeedsFacts
<1>4. /\ t \in Needs(t)' /\ Closed(Needs(t))'
      /\ \A S : t \in S /\ Closed(S)' => Needs(t)' \subseteq S
  <2>1. Doc'
    BY DEF Doc
  <2>2. ASSUME Doc' PROVE (/\ t \in Needs(t) /\ Closed(Needs(t))
           /\ \A S : t \in S /\ Closed(S) => Needs(t) \subseteq S)'
    BY <2>2, NeedsFacts, PTL
  <2> QED BY <2>1, <2>2
<1> QED BY <1>2, <1>3, <1>4

\* Where each of some tasks needs another one of them, two need each other.
LEMMA CycleExists ==
    ASSUME Doc, NEW M \in SUBSET Task, M # {},
           \A m \in M : \E n \in M : n \in Direct(m)
    PROVE  \E u, v \in M : Before(u, v) /\ Before(v, u)
<1> DEFINE Sizes == {Cardinality(Needs(m)) : m \in M}
<1>1. \A m \in M : IsFiniteSet(Needs(m)) /\ Cardinality(Needs(m)) \in Nat
  BY ReverseAssumption, NeedsFacts, FS_Subset, FS_CardinalityType
<1>2. PICK c \in Sizes : \A d \in Sizes : c <= d
  <2>1. Sizes \in SUBSET Nat /\ Sizes # {}
    BY <1>1
  <2> HIDE DEF Sizes
  <2> QED BY <2>1, LeastExists
<1>3. PICK m \in M : c = Cardinality(Needs(m))
  BY <1>2
<1>4. PICK n \in M : n \in Direct(m)
  OBVIOUS
<1>5. m # n
  BY <1>4 DEF Direct, Requires
<1>6. m \in Needs(m) /\ n \in Needs(m) /\ n \in Needs(n) /\ Needs(n) \subseteq Needs(m)
  BY <1>4, NeedsFacts DEF Closed
<1>7. Cardinality(Needs(m)) <= Cardinality(Needs(n))
  BY <1>2, <1>3
<1>8. Needs(n) = Needs(m)
  BY <1>1, <1>6, <1>7, FS_Subset
<1> QED BY <1>5, <1>6, <1>8 DEF Before

-----------------------------------------------------------------------------
(* Contexts.                                                                *)

\* A context whose variable, if it is there, is of kind K: a variable that is not
\* there has no version.
Fine(c, K) ==
    /\ c \in Context /\ c.kind \in {"absent", K}
    /\ c.kind = "absent" => c.by = Nobody /\ c.versions[K] = 0

\* Both carry the same value.
SameValue(c, d, K) == c.kind = d.kind /\ c.by = d.by /\ c.versions[K] = d.versions[K]

\* The context without variables.
LEMMA EmptyTyped == EmptyContext \in Context /\ \A K \in Kind : Fine(EmptyContext, K)
BY DEF EmptyContext, Context, Fine, Kind

\* A task hands on a context.
LEMMA OutboundTyped ==
    ASSUME NEW c \in Context, NEW t \in Task, NEW kind \in Kind
    PROVE  Outbound(c, t, kind) \in Context
BY ReverseAssumption DEF Outbound, Context, NextVersion

\* Merging two contexts makes a context.
LEMMA MergedTyped ==
    ASSUME NEW l \in Context, NEW r \in Context
    PROVE  MergedContext(l, r) \in Context
<1>1. \A k \in Kind : Greater(l.versions[k], r.versions[k]) \in Nat
  BY DEF Context, Greater
<1> QED BY <1>1 DEF MergedContext, TakesRight, Context

\* Of two values of the same kind the newer one is taken.
LEMMA MergedNewest ==
    ASSUME NEW K \in Kind, NEW l, NEW r, Fine(l, K), Fine(r, K)
    PROVE  LET m == MergedContext(l, r) IN
           /\ Fine(m, K)
           /\ SameValue(m, l, K) \/ SameValue(m, r, K)
           /\ m.versions[K] >= l.versions[K] /\ m.versions[K] >= r.versions[K]
<1> DEFINE m == MergedContext(l, r)
<1>1. m \in Context /\ l \in Context /\ r \in Context
  BY MergedTyped DEF Fine
<1>2. l.versions[K] \in Nat /\ r.versions[K] \in Nat
  BY <1>1 DEF Context
<1>3. m.versions[K] = Greater(l.versions[K], r.versions[K])
  BY DEF MergedContext
<1>4. m.versions[K] >= l.versions[K] /\ m.versions[K] >= r.versions[K]
  BY <1>2, <1>3 DEF Greater
<1>5. SameValue(m, l, K) \/ SameValue(m, r, K)
  <2>1. CASE TakesRight(l, r)
    <3>1. m.kind = r.kind /\ m.by = r.by
      BY <2>1 DEF MergedContext
    <3>2. r.kind = K /\ (l.kind = "absent" \/ (l.kind = K /\ Newer(l, r)))
      BY <2>1 DEF TakesRight, Fine
    <3>3. l.kind = "absent" => l.versions[K] = 0
      BY DEF Fine
    <3>4. l.kind = K => r.versions[K] > l.versions[K]
      BY <2>1, <3>2, <3>3 DEF TakesRight, Newer, Compared, Kind
    <3>5. m.versions[K] = r.versions[K]
      BY <1>2, <1>3, <3>2, <3>3, <3>4 DEF Greater
    <3> QED BY <3>1, <3>5 DEF SameValue
  <2>2. CASE ~TakesRight(l, r)
    <3>1. m.kind = l.kind /\ m.by = l.by
      BY <2>2 DEF MergedContext
    <3>2. r.kind = "absent" \/ (l.kind # "absent" /\ ~Newer(l, r))
      BY <2>2 DEF TakesRight
    <3>3. r.kind = "absent" => r.versions[K] = 0
      BY DEF Fine
    <3>4. CASE r.kind = "absent"
      <4>1. m.versions[K] = l.versions[K]
        BY <1>2, <1>3, <3>3, <3>4 DEF Greater
      <4> QED BY <3>1, <4>1 DEF SameValue
    <3>5. CASE r.kind # "absent"
      <4>1. l.kind = K /\ r.kind = K /\ ~(r.versions[K] > l.versions[K])
        BY <3>2, <3>5 DEF Fine, Newer, Compared, Kind
      <4>2. m.versions[K] = l.versions[K]
        BY <1>2, <1>3, <4>1 DEF Greater
      <4> QED BY <3>1, <4>2 DEF SameValue
    <3> QED BY <3>4, <3>5
  <2> QED BY <2>1, <2>2
<1>6. Fine(m, K)
  BY <1>1, <1>5 DEF Fine, SameValue
<1> QED BY <1>4, <1>5, <1>6

\* What reaches a task is one of the contexts before it, and none of them is newer.
LEMMA UpstreamNewest ==
    ASSUME NEW s \in Seq(Context), s # <<>>
    PROVE  /\ UpstreamContext(s) \in Context
           /\ \A K \in Kind : (\A i \in DOMAIN s : Fine(s[i], K)) =>
                LET c == UpstreamContext(s) IN
                /\ Fine(c, K)
                /\ \E i \in DOMAIN s : SameValue(c, s[i], K)
                /\ \A i \in DOMAIN s : c.versions[K] >= s[i].versions[K]
<1> DEFINE n == Len(s)
           f == Front(s)
           b == Last(s)
<1>1. n \in Nat \ {0} /\ DOMAIN s = 1..n /\ \A i \in 1..n : s[i] \in Context
  OBVIOUS
<1>2. b \in Context /\ b = s[n]
  BY <1>1 DEF Last
<1>3. f \in Seq(Context) /\ Len(f) = n - 1 /\ \A i \in 1..(n - 1) : f[i] = s[i]
  <2>1. 1 \in Int /\ n - 1 \in Int /\ \A i \in 1..(n - 1) : s[i] \in Context
    BY <1>1
  <2>2. /\ f \in Seq(Context)
        /\ Len(f) = IF 1 <= n - 1 THEN (n - 1) - 1 + 1 ELSE 0
        /\ \A i \in 1..((n - 1) - 1 + 1) : f[i] = s[1 + i - 1]
    <3> HIDE DEF n
    <3> QED BY <2>1, SubSeqProperties DEF Front, n
  <2> HIDE DEF f, n
  <2> QED BY <1>1, <2>2
<1>4. UpstreamContext(s) = FoldLeft(MergedContext, b, f)
  BY DEF UpstreamContext
<1> HIDE DEF n, f, b
<1>5. PICK acc : /\ acc[0] = b
                 /\ \A k \in 1..Len(f) : acc[k] = MergedContext(acc[k - 1], f[k])
                 /\ FoldLeft(MergedContext, b, f) = acc[Len(f)]
  BY <1>2, <1>3, FoldSteps
<1>6. \A k \in Nat : k + 1 <= n - 1 => acc[k + 1] = MergedContext(acc[k], s[k + 1])
                                      /\ k + 1 \in 1..n
  <2> TAKE k \in Nat
  <2> HAVE k + 1 <= n - 1
  <2>1. k + 1 \in 1..(n - 1) /\ (k + 1) - 1 = k /\ k + 1 \in 1..n
    BY <1>1
  <2> QED BY <1>3, <1>5, <2>1
<1>7. UpstreamContext(s) = acc[n - 1] /\ n - 1 \in Nat
  BY <1>1, <1>3, <1>4, <1>5
<1>8. UpstreamContext(s) \in Context
  <2> DEFINE P == {k \in Nat : k <= n - 1 => acc[k] \in Context}
  <2>1. 0 \in P
    BY <1>2, <1>5
  <2>2. ASSUME NEW k \in Nat, k \in P PROVE k + 1 \in P
    <3> SUFFICES ASSUME k + 1 <= n - 1 PROVE acc[k + 1] \in Context
      OBVIOUS
    <3>1. acc[k] \in Context /\ s[k + 1] \in Context
      BY <1>1, <1>6, <2>2
    <3> QED BY <1>6, <3>1, MergedTyped
  <2>3. Nat \subseteq P
    <3> HIDE DEF P
    <3> QED BY <2>1, <2>2, AllNaturals
  <2> QED BY <1>7, <2>3
<1>9. ASSUME NEW K \in Kind, \A i \in DOMAIN s : Fine(s[i], K)
      PROVE  LET c == UpstreamContext(s) IN
             /\ Fine(c, K)
             /\ \E i \in DOMAIN s : SameValue(c, s[i], K)
             /\ \A i \in DOMAIN s : c.versions[K] >= s[i].versions[K]
  <2> DEFINE Good(k) ==
        /\ Fine(acc[k], K)
        /\ \E i \in DOMAIN s : SameValue(acc[k], s[i], K)
        /\ acc[k].versions[K] >= b.versions[K]
        /\ \A i \in 1..k : acc[k].versions[K] >= s[i].versions[K]
             P == {k \in Nat : k <= n - 1 => Good(k)}
  <2>0. \A i \in 1..n : Fine(s[i], K) /\ s[i].versions[K] \in Nat
    BY <1>1, <1>9 DEF Fine, Context
  <2>1. 0 \in P
    <3>1. n \in 1..n /\ b.versions[K] \in Nat /\ Fine(b, K)
      BY <1>1, <1>2, <2>0
    <3>2. Good(0)
      BY <1>1, <1>2, <1>5, <3>1 DEF SameValue
    <3> QED BY <3>2
  <2>2. ASSUME NEW k \in Nat, k \in P PROVE k + 1 \in P
    <3> SUFFICES ASSUME k + 1 <= n - 1 PROVE Good(k + 1)
      OBVIOUS
    <3>1. Good(k) /\ k + 1 \in 1..n /\ k + 1 \in DOMAIN s
      BY <1>1, <1>6, <2>2
    <3>2. acc[k + 1] = MergedContext(acc[k], s[k + 1])
      BY <1>6
    <3>3. Fine(acc[k], K) /\ Fine(s[k + 1], K)
      BY <2>0, <3>1
    <3>4. /\ Fine(acc[k + 1], K)
          /\ SameValue(acc[k + 1], acc[k], K) \/ SameValue(acc[k + 1], s[k + 1], K)
          /\ acc[k + 1].versions[K] >= acc[k].versions[K]
          /\ acc[k + 1].versions[K] >= s[k + 1].versions[K]
      BY <3>2, <3>3, MergedNewest
    <3>5. \E i \in DOMAIN s : SameValue(acc[k + 1], s[i], K)
      BY <3>1, <3>4 DEF SameValue
    <3>6. /\ acc[k].versions[K] \in Nat /\ acc[k + 1].versions[K] \in Nat
          /\ b.versions[K] \in Nat
      BY <1>2, <3>3, <3>4 DEF Fine, Context
    <3>7. acc[k + 1].versions[K] >= b.versions[K]
      BY <3>1, <3>4, <3>6
    <3>8. ASSUME NEW i \in 1..(k + 1) PROVE acc[k + 1].versions[K] >= s[i].versions[K]
      <4>1. i \in 1..n /\ (i = k + 1 \/ i \in 1..k)
        BY <1>1, <3>1
      <4>2. s[i].versions[K] \in Nat
        BY <2>0, <4>1
      <4> QED BY <3>1, <3>4, <3>6, <4>1, <4>2
    <3> QED BY <3>4, <3>5, <3>7, <3>8
  <2>3. Nat \subseteq P
    <3> HIDE DEF P
    <3> QED BY <2>1, <2>2, AllNaturals
  <2>4. Good(n - 1)
    <3> HIDE DEF Good
    <3> QED BY <1>7, <2>3
  <2>5. \A i \in 1..n : i = n \/ i \in 1..(n - 1)
    BY <1>1
  <2> QED BY <1>1, <1>2, <1>7, <2>4, <2>5
<1> QED BY <1>8, <1>9

-----------------------------------------------------------------------------
(* The executions of tasks.                                                 *)

Row  == [state : RowState, ctx : Context, runs : Nat]
Rows == [Task -> Seq(Row)]

\* The executions of a task are a sequence.
LEMMA RowTyped ==
    ASSUME NEW rs \in Rows, NEW t \in Task
    PROVE  /\ Len(rs[t]) \in Nat /\ DOMAIN rs[t] = 1..Len(rs[t])
           /\ \A i \in DOMAIN rs[t] : rs[t][i] \in Row
<1>1. rs[t] \in Seq(Row)
  BY DEF Rows
<1> QED BY <1>1

\* There are finitely many executions.
LEMMA RowsFinite ==
    ASSUME NEW rs \in Rows, NEW S \in SUBSET Task
    PROVE  IsFiniteSet(RowsOf(rs, S))
<1> DEFINE of == [t \in S |-> {t} \X DOMAIN rs[t]]
           T  == {{t} \X DOMAIN rs[t] : t \in S}
<1>1. IsFiniteSet(S)
  BY ReverseAssumption, FS_Subset
<1>2. of \in Surjection(S, T)
  BY DEF Surjection
<1>3. IsFiniteSet(T)
  <2> HIDE DEF of, T
  <2> QED BY <1>1, <1>2, FS_Surjection
<1>4. ASSUME NEW t \in S PROVE IsFiniteSet({t} \X DOMAIN rs[t])
  <2>1. rs[t] \in Seq(Row) /\ DOMAIN rs[t] = 1..Len(rs[t]) /\ Len(rs[t]) \in Int /\ 1 \in Int
    BY DEF Rows
  <2>2. IsFiniteSet(1..Len(rs[t]))
    BY <2>1, FS_Interval
  <2>3. IsFiniteSet({t})
    BY FS_Singleton
  <2> QED BY <2>1, <2>2, <2>3, FS_Product
<1>5. \A s \in T : IsFiniteSet(s)
  BY <1>4
<1>6. IsFiniteSet(UNION T)
  <2> HIDE DEF T
  <2> QED BY <1>3, <1>5, FS_UNION
<1> QED BY <1>6 DEF RowsOf

\* The requirements of a task that are known are tasks.
LEMMA RequiresTyped ==
    ASSUME Doc, NEW t \in Task
    PROVE  Requires(t) \in SUBSET Task /\ t \notin Requires(t) /\ doc.publish[t] \in Kind
BY DEF Doc, DocumentType, Requires

\* What the requirements of t hand on.
Handed(rs, u, i) == Outbound(rs[u][i].ctx, u, doc.publish[u])
Succeeded(rs, u, i) == i \in DOMAIN rs[u] /\ rs[u][i].state = "SUCCESS"

\* The context of a task is one of those that the executions before it hand on, and
\* the newest of them.
LEMMA InboundNewest ==
    ASSUME Doc, NEW rs \in Rows, NEW t \in Task, NEW c \in Inbound(rs, t)
    PROVE  /\ c \in Context
           /\ \A K \in Kind :
                (\A u \in Requires(t) : \A i : Succeeded(rs, u, i) => Fine(Handed(rs, u, i), K)) =>
                  /\ Fine(c, K)
                  /\ \/ c = EmptyContext
                     \/ \E u \in Requires(t) : \E i : /\ Succeeded(rs, u, i)
                                                      /\ SameValue(c, Handed(rs, u, i), K)
                  /\ \A u \in Requires(t) : \A i :
                        Succeeded(rs, u, i) => c.versions[K] >= Handed(rs, u, i).versions[K]
<1> DEFINE up == {ui \in RowsOf(rs, Requires(t)) : rs[ui[1]][ui[2]].state = "SUCCESS"}
           out(ui) == Outbound(rs[ui[1]][ui[2]].ctx, ui[1], doc.publish[ui[1]])
<1>1. PICK s \in SetToSeqs(up) : c = UpstreamContext([k \in DOMAIN s |-> out(s[k])])
  BY DEF Inbound
<1>2. Requires(t) \in SUBSET Task
  BY RequiresTyped
<1>3. IsFiniteSet(up)
  <2>1. IsFiniteSet(RowsOf(rs, Requires(t)))
    BY <1>2, RowsFinite
  <2> QED BY <2>1, FS_Subset
<1>4. \A ui : ui \in up <=> \E u \in Requires(t) : \E i : ui = <<u, i>> /\ Succeeded(rs, u, i)
  BY DEF RowsOf, Succeeded
<1>5. \A ui \in up : out(ui) \in Context
  <2> SUFFICES ASSUME NEW ui \in up PROVE out(ui) \in Context
    OBVIOUS
  <2>0. PICK u \in Requires(t) : \E i : ui = <<u, i>> /\ Succeeded(rs, u, i)
    BY <1>4
  <2>1. PICK i : ui = <<u, i>> /\ Succeeded(rs, u, i)
    BY <2>0
  <2>2. u \in Task /\ doc.publish[u] \in Kind
    BY <1>2, RequiresTyped
  <2>3. rs[u][i].ctx \in Context
    BY <2>1, <2>2, RowTyped DEF Row, Succeeded
  <2> QED BY <2>1, <2>2, <2>3, OutboundTyped
<1> DEFINE N == Cardinality(up)
           outs == [k \in DOMAIN s |-> out(s[k])]
<1>6. N \in Nat /\ s \in [1..N -> up] /\ \A i, j \in 1..N : i # j => s[i] # s[j]
  BY <1>1, <1>3, FS_CardinalityType DEF SetToSeqs
<1>7. \A ui \in up : \E k \in 1..N : s[k] = ui
  <2>1. s \in Injection(1..N, up)
    BY <1>6 DEF Injection, IsInjective
  <2>2. IsFiniteSet(1..N) /\ Cardinality(1..N) = N
    <3> HIDE DEF N
    <3>1. N \in Nat
      BY <1>6
    <3>2. IsFiniteSet(1..N) /\ Cardinality(1..N) = IF 1 > N THEN 0 ELSE N - 1 + 1
      <4>1. 1 \in Int /\ N \in Int
        BY <3>1
      <4> QED BY <4>1, FS_Interval
    <3> QED BY <3>1, <3>2
  <2>3. s \in Surjection(1..N, up)
    BY <1>3, <2>1, <2>2, FS_Injection
  <2> QED BY <2>3 DEF Surjection
<1> HIDE DEF up, N, out
<1>8. outs \in Seq(Context) /\ DOMAIN outs = 1..N /\ \A k \in 1..N : outs[k] = out(s[k])
  BY <1>5, <1>6
<1> HIDE DEF outs
<1>9. CASE outs = <<>>
  <2>1. c = EmptyContext
    BY <1>1, <1>9 DEF UpstreamContext, outs
  <2>2. up = {}
    BY <1>7, <1>8, <1>9
  <2>3. \A u \in Requires(t) : \A i : ~Succeeded(rs, u, i)
    BY <1>4, <2>2
  <2> QED BY <2>1, <2>3, EmptyTyped
<1>10. CASE outs # <<>>
  <2>1. c = UpstreamContext(outs)
    BY <1>1 DEF outs
  <2>2. c \in Context
    BY <1>8, <1>10, <2>1, UpstreamNewest
  <2>3. ASSUME NEW K \in Kind,
               \A u \in Requires(t) : \A i : Succeeded(rs, u, i) => Fine(Handed(rs, u, i), K)
        PROVE  /\ Fine(c, K)
               /\ \E u \in Requires(t) : \E i : /\ Succeeded(rs, u, i)
                                                /\ SameValue(c, Handed(rs, u, i), K)
               /\ \A u \in Requires(t) : \A i :
                     Succeeded(rs, u, i) => c.versions[K] >= Handed(rs, u, i).versions[K]
    <3>1. \A k \in 1..N : \E u \in Requires(t) : \E i :
             /\ Succeeded(rs, u, i) /\ outs[k] = Handed(rs, u, i)
      BY <1>4, <1>6, <1>8 DEF out, Handed
    <3>2. \A k \in DOMAIN outs : Fine(outs[k], K)
      BY <1>8, <2>3, <3>1
    <3>3. /\ Fine(c, K)
          /\ \E k \in DOMAIN outs : SameValue(c, outs[k], K)
          /\ \A k \in DOMAIN outs : c.versions[K] >= outs[k].versions[K]
      BY <1>8, <1>10, <2>1, <3>2, UpstreamNewest
    <3>4. ASSUME NEW u \in Requires(t), NEW i, Succeeded(rs, u, i)
          PROVE  c.versions[K] >= Handed(rs, u, i).versions[K]
      <4>1. PICK k \in 1..N : s[k] = <<u, i>>
        BY <1>4, <1>7, <3>4
      <4>2. outs[k] = Handed(rs, u, i)
        BY <1>8, <4>1 DEF out, Handed
      <4> QED BY <1>8, <3>3, <4>2
    <3> QED BY <1>8, <3>1, <3>3, <3>4
  <2> QED BY <2>2, <2>3
<1> QED BY <1>9, <1>10

\* One execution is in the state s, the others are as they were.
Changes(rs, new, t, i, s) ==
    /\ new \in Rows
    /\ \A u \in Task : /\ DOMAIN new[u] = DOMAIN rs[u]
                       /\ \A j \in DOMAIN rs[u] :
                            /\ new[u][j].ctx = rs[u][j].ctx
                            /\ new[u][j].state = IF u = t /\ j = i THEN s ELSE rs[u][j].state

\* With() changes the state of one execution and nothing else.
LEMMA WithChanges ==
    ASSUME NEW rs \in Rows, NEW t \in Task, NEW i \in DOMAIN rs[t], NEW s \in RowState
    PROVE  Changes(rs, With(rs, t, i, s), t, i, s)
<1> DEFINE new == With(rs, t, i, s)
           row == [rs[t][i] EXCEPT !.state = s]
<1>1. rs[t][i] \in Row
  BY RowTyped
<1>2. row \in Row /\ row.state = s /\ row.ctx = rs[t][i].ctx
  BY <1>1 DEF Row
<1>3. /\ \A u \in Task \ {t} : new[u] = rs[u]
      /\ new[t] = [rs[t] EXCEPT ![i] = row]
  BY DEF With, Rows
<1> HIDE DEF new, row
<1>4. rs[t] \in Seq(Row)
  BY DEF Rows
<1>5. /\ new[t] \in Seq(Row) /\ DOMAIN new[t] = DOMAIN rs[t]
      /\ \A j \in DOMAIN rs[t] : new[t][j] = IF j = i THEN row ELSE rs[t][j]
  BY <1>2, <1>3, <1>4
<1>6. new \in Rows
  <2>1. DOMAIN new = Task /\ new = [u \in Task |-> new[u]]
    BY DEF new, With, Rows
  <2>2. \A u \in Task : new[u] \in Seq(Row)
    BY <1>3, <1>5 DEF Rows
  <2> QED BY <2>1, <2>2 DEF Rows
<1> QED BY <1>2, <1>3, <1>5, <1>6 DEF Changes, new

\* So does RunAction(), apart from the number of runs.
LEMMA RunActionChanges ==
    ASSUME rows \in Rows, NEW t \in Task, NEW i \in DOMAIN rows[t], RunAction(t, i)
    PROVE  Changes(rows, rows', t, i, "RUNNING")
<1> DEFINE row == [[rows[t][i] EXCEPT !.state = "RUNNING"] EXCEPT !.runs = @ + 1]
<1>1. rows[t][i] \in Row
  BY RowTyped
<1>2. row \in Row /\ row.state = "RUNNING" /\ row.ctx = rows[t][i].ctx
  <2>1. PICK r : r = rows[t][i]
    OBVIOUS
  <2>2. r \in Row /\ r.runs + 1 \in Nat /\ "RUNNING" \in RowState
    BY <1>1, <2>1 DEF Row, RowState
  <2>3. row = [[r EXCEPT !.state = "RUNNING"] EXCEPT !.runs = r.runs + 1]
    BY <2>1, <2>2 DEF Row
  <2> HIDE DEF row
  <2> QED BY <2>1, <2>2, <2>3 DEF Row
<1>3. /\ \A u \in Task \ {t} : rows'[u] = rows[u]
      /\ rows'[t] = [rows[t] EXCEPT ![i] = row]
  BY DEF RunAction, Rows
<1> HIDE DEF row
<1>4. rows[t] \in Seq(Row)
  BY DEF Rows
<1>5. /\ rows'[t] \in Seq(Row) /\ DOMAIN rows'[t] = DOMAIN rows[t]
      /\ \A j \in DOMAIN rows[t] : rows'[t][j] = IF j = i THEN row ELSE rows[t][j]
  BY <1>2, <1>3, <1>4
<1>6. rows' \in Rows
  <2>1. DOMAIN rows' = Task /\ rows' = [u \in Task |-> rows'[u]]
    BY DEF RunAction, Rows
  <2>2. \A u \in Task : rows'[u] \in Seq(Row)
    BY <1>3, <1>5 DEF Rows
  <2> QED BY <2>1, <2>2 DEF Rows
<1> QED BY <1>2, <1>3, <1>5, <1>6 DEF Changes

\* The tasks that were found have another execution each.
Found(found) == DOMAIN found \subseteq Task /\ \A t \in DOMAIN found : found[t] \in Context

Adds(rs, new, found) ==
    /\ new \in Rows
    /\ \A u \in Task :
         /\ \A j \in DOMAIN rs[u] : j \in DOMAIN new[u] /\ new[u][j] = rs[u][j]
         /\ u \notin DOMAIN found => new[u] = rs[u]
         /\ u \in DOMAIN found =>
              /\ Len(new[u]) = Len(rs[u]) + 1 /\ Len(new[u]) \in DOMAIN new[u]
              /\ new[u][Len(new[u])].state = "IDLE" /\ new[u][Len(new[u])].ctx = found[u]
              /\ \A j \in DOMAIN new[u] : j \in DOMAIN rs[u] \/ j = Len(new[u])

\* Created() adds one idle execution for each task that was found.
LEMMA CreatedAdds ==
    ASSUME NEW rs \in Rows, NEW found, Found(found)
    PROVE  Adds(rs, Created(rs, found), found)
<1> DEFINE new == Created(rs, found)
<1>1. ASSUME NEW u \in Task, u \notin DOMAIN found PROVE new[u] = rs[u]
  BY <1>1 DEF Created
<1>2. ASSUME NEW u \in Task, u \in DOMAIN found
      PROVE  /\ new[u] \in Seq(Row)
             /\ Len(new[u]) = Len(rs[u]) + 1 /\ Len(new[u]) \in DOMAIN new[u]
             /\ new[u][Len(new[u])].state = "IDLE" /\ new[u][Len(new[u])].ctx = found[u]
             /\ \A j \in DOMAIN new[u] : j \in DOMAIN rs[u] \/ j = Len(new[u])
             /\ \A j \in DOMAIN rs[u] : j \in DOMAIN new[u] /\ new[u][j] = rs[u][j]
  <2> DEFINE row == [state |-> "IDLE", ctx |-> found[u], runs |-> 0]
  <2>1. row \in Row /\ row.state = "IDLE" /\ row.ctx = found[u]
    BY <1>2 DEF Found, Row, RowState
  <2>2. new[u] = Append(rs[u], row) /\ rs[u] \in Seq(Row)
    BY <1>2 DEF Created, Rows
  <2> HIDE DEF row, new
  <2>3. new[u] \in Seq(Row)
    BY <2>1, <2>2, AppendProperties
  <2>4. Len(new[u]) = Len(rs[u]) + 1
    BY <2>1, <2>2, AppendProperties
  <2>5. new[u][Len(rs[u]) + 1] = row
    BY <2>1, <2>2, AppendProperties
  <2>6. \A j \in 1..Len(rs[u]) : new[u][j] = rs[u][j]
    BY <2>1, <2>2, AppendProperties
  <2>7. Len(rs[u]) \in Nat /\ DOMAIN rs[u] = 1..Len(rs[u]) /\ DOMAIN new[u] = 1..Len(new[u])
    BY <2>2, <2>3
  <2> QED BY <2>1, <2>3, <2>4, <2>5, <2>6, <2>7
<1>3. new \in Rows
  <2>1. new = [u \in Task |-> new[u]]
    BY DEF Created
  <2>2. \A u \in Task : new[u] \in Seq(Row)
    BY <1>1, <1>2 DEF Rows
  <2> HIDE DEF new
  <2> QED BY <2>1, <2>2 DEF Rows
<1> HIDE DEF new
<1>4. Adds(rs, new, found)
  BY <1>1, <1>2, <1>3 DEF Adds
<1> QED BY <1>4 DEF new

\* What is found is satisfied.
LEMMA FindingsFacts ==
    ASSUME Doc, NEW rs \in Rows, NEW found \in Findings(rs)
    PROVE  /\ Found(found) /\ DOMAIN found = Satisfied(rs)
           /\ DOMAIN found \subseteq Needs(doc.target)
           /\ \A t \in DOMAIN found :
                /\ rs[t] = <<>> /\ found[t] \in Inbound(rs, t)
                /\ \A u \in Requires(t) : HasState(rs, u, {"SUCCESS"})
<1>1. doc.target \in Task /\ Needs(doc.target) \subseteq Task
  <2>1. doc.target \in Task
    BY DEF Doc, DocumentType
  <2> QED BY <2>1, NeedsFacts
<1>2. DOMAIN found = Satisfied(rs) /\ \A t \in DOMAIN found : found[t] \in Inbound(rs, t)
  BY DEF Findings, Finds
<1>3. \A t \in DOMAIN found : /\ t \in Needs(doc.target) /\ rs[t] = <<>>
                              /\ \A u \in Requires(t) : HasState(rs, u, {"SUCCESS"})
  BY <1>2 DEF Satisfied, NotStarted
<1>4. \A t \in DOMAIN found : found[t] \in Context
  BY <1>1, <1>2, <1>3, InboundNewest
<1> QED BY <1>1, <1>2, <1>3, <1>4 DEF Found

\* A controller that is not asked finds nothing.
LEMMA NothingFound == Found(<<>>) /\ DOMAIN <<>> = {}
BY DEF Found


-----------------------------------------------------------------------------
(* Types, and what is never the case before the workflow has started.       *)

CallForm == [op : {"start", "again", "run", "done", "check", "resume", "rerun", "skip"},
             task : Task \cup {Nobody}, row : Nat, arg : ActionEnd \cup {"NONE"} \cup Nat]

Refers(c) == c.task \in Task /\ c.row \in DOMAIN rows[c.task]

CallOK(c) ==
    /\ c \in CallForm
    /\ \/ c.op = "check"
       \/ /\ c.op \in {"start", "again", "run", "done", "rerun", "skip"} /\ Refers(c)
          /\ c.op = "done" => c.arg \in ActionEnd

\* A transaction has found tasks that the target needs.
TxOK(x) ==
    /\ x.wf \in {"RUNNING", "PAUSED"} \cup ActionEnd
    /\ Found(x.found) /\ DOMAIN x.found \subseteq Needs(doc.target)
    /\ \/ /\ x.call.op = "done" /\ Refers(x.call) /\ x.call.arg \in ActionEnd
          /\ x.seen \in {"IDLE", "RUNNING"}
       \/ x.call.op = "resume" /\ x.wf = "PAUSED"

ReverseTyped ==
    /\ doc \in Documents /\ rows \in Rows
    /\ wf \in {"NONE", "RUNNING", "PAUSED"} \cup ActionEnd
    /\ \A c \in calls : CallOK(c)
    /\ \A x \in txs : TxOK(x)
    /\ overlapped \in BOOLEAN /\ skipped \subseteq Task /\ late \in BOOLEAN
    /\ pauses \in Nat /\ reruns \in Nat /\ paused \in BOOLEAN
    /\ \A t \in Task : rows[t] # <<>> => t \in Needs(doc.target)
    /\ wf = "NONE" => calls = {} /\ txs = {} /\ \A t \in Task : rows[t] = <<>>
    /\ wf # "NONE" => Valid /\ doc.target \in doc.tasks

\* The document and its target are as they should be.
LEMMA DocTyped == ASSUME ReverseTyped PROVE Doc /\ doc.target \in Task
BY ReverseAssumption DEF ReverseTyped, Doc, DocumentType

\* What a step of a workflow that has started must see to, apart from the history.
LEMMA TypedRule ==
    ASSUME ReverseTyped, doc' = doc, wf' \in {"RUNNING", "PAUSED"} \cup ActionEnd,
           Valid, doc.target \in doc.tasks, rows' \in Rows,
           \A t \in Task : DOMAIN rows[t] \subseteq DOMAIN rows'[t],
           \A t \in Task : rows'[t] # <<>> => t \in Needs(doc.target),
           \A c \in calls' : c \in calls \/ CallOK(c)',
           \A x \in txs' : x \in txs \/ TxOK(x)',
           overlapped' \in BOOLEAN, skipped' \subseteq Task /\ late' \in BOOLEAN,
           pauses' \in Nat, reruns' \in Nat, paused' \in BOOLEAN
    PROVE  ReverseTyped'
<1>1. Doc /\ doc.target \in Task /\ doc'.target = doc.target
  BY DocTyped
<1>2. Needs(doc.target)' = Needs(doc.target)
  BY <1>1, NeedsStay
<1>3. \A c : Refers(c) => Refers(c)'
  BY DEF Refers
<1>4. \A c \in calls : CallOK(c)'
  BY <1>3 DEF ReverseTyped, CallOK
<1>5. \A x \in txs : TxOK(x)'
  BY <1>2, <1>3 DEF ReverseTyped, TxOK
<1>6. Valid'
  BY DEF Valid, Requires
<1>7. wf' # "NONE" /\ wf' \in {"NONE", "RUNNING", "PAUSED"} \cup ActionEnd
  BY DEF ActionEnd
<1>8. doc' \in Documents /\ \A c \in calls' : CallOK(c)'
  BY <1>4 DEF ReverseTyped
<1>9. \A x \in txs' : TxOK(x)'
  BY <1>5
<1> HIDE DEF ReverseTyped
<1> QED BY <1>1, <1>2, <1>6, <1>7, <1>8, <1>9 DEF ReverseTyped

\* Before the workflow starts.
LEMMA TypedInit == Init => ReverseTyped
<1> SUFFICES ASSUME Init PROVE ReverseTyped
  OBVIOUS
<1>1. rows \in Rows /\ \A t \in Task : rows[t] = <<>>
  BY DEF Init, Rows
<1>2. pauses \in Nat /\ reruns \in Nat
  BY ReverseAssumption DEF Init
<1> QED BY <1>1, <1>2 DEF Init, ReverseTyped

\* The calls that start the executions which are created.
LEMMA StartedCalls ==
    ASSUME NEW rs \in Rows, NEW new \in Rows, NEW found, Found(found), Adds(rs, new, found),
           NEW c \in Started(rs, found)
    PROVE  c \in CallForm /\ c.op = "start" /\ c.task \in Task /\ c.row \in DOMAIN new[c.task]
<1>1. PICK t \in DOMAIN found : c = Call("start", t, Len(rs[t]) + 1, "NONE")
  BY DEF Started
<1>2. t \in Task /\ Len(rs[t]) \in Nat
  BY <1>1, RowTyped DEF Found
<1>3. Len(rs[t]) + 1 \in DOMAIN new[t]
  BY <1>1, <1>2 DEF Adds
<1> QED BY <1>1, <1>2, <1>3 DEF Call, CallForm

\* An execution changes its state: none is lost, and none is added.
LEMMA ChangeKept ==
    ASSUME ReverseTyped, NEW new, NEW t, NEW i, NEW s, Changes(rows, new, t, i, s)
    PROVE  /\ \A u \in Task : DOMAIN rows[u] \subseteq DOMAIN new[u]
           /\ \A u \in Task : new[u] # <<>> => u \in Needs(doc.target)
<1>1. rows \in Rows /\ new \in Rows /\ \A u \in Task : DOMAIN new[u] = DOMAIN rows[u]
  BY DEF ReverseTyped, Changes
<1>2. ASSUME NEW u \in Task, new[u] # <<>> PROVE rows[u] # <<>>
  <2>1. new[u] \in Seq(Row) /\ rows[u] \in Seq(Row)
    BY <1>1 DEF Rows
  <2> QED BY <1>1, <1>2, <2>1
<1> QED BY <1>1, <1>2 DEF ReverseTyped

\* Executions are added to those that there were, whatever their states.
LEMMA AddKept ==
    ASSUME ReverseTyped, NEW rs \in Rows, NEW new, NEW found, Adds(rs, new, found),
           DOMAIN found \subseteq Needs(doc.target),
           \A u \in Task : DOMAIN rs[u] = DOMAIN rows[u]
    PROVE  /\ \A u \in Task : DOMAIN rows[u] \subseteq DOMAIN new[u]
           /\ \A u \in Task : new[u] # <<>> => u \in Needs(doc.target)
<1>1. ASSUME NEW u \in Task, rs[u] # <<>> PROVE rows[u] # <<>>
  <2>1. rs[u] \in Seq(Row) /\ rows[u] \in Seq(Row)
    BY DEF Rows, ReverseTyped
  <2> QED BY <1>1, <2>1
<1> QED BY <1>1 DEF ReverseTyped, Adds

-----------------------------------------------------------------------------
(* The steps, as far as executions and the transactions that look for tasks *)
(* are concerned.  Every step is one of these and keeps the types.          *)

NothingNew == UNCHANGED <<wf, rows, txs, skipped, late>> /\ (overlapped => overlapped')

Starts ==
    /\ wf = "NONE" /\ wf' = "RUNNING"
    /\ \E found \in Findings(rows) : Adds(rows, rows', found)
    /\ UNCHANGED <<txs, overlapped, skipped, late>>

Runs ==
    /\ \E t \in Task : \E i \in DOMAIN rows[t] :
         rows[t][i].state # "SUCCESS" /\ Changes(rows, rows', t, i, "RUNNING")
    /\ UNCHANGED <<wf, txs, overlapped, skipped, late>>

\* What a transaction would see when it commits.
RowsAfter(rs, x) ==
    IF x.call.op = "done" THEN With(rs, x.call.task, x.call.row, x.call.arg) ELSE rs

Looks(x) ==
    /\ wf # "NONE" /\ x.wf = wf /\ txs' = txs \cup {x}
    /\ overlapped' = (overlapped \/ txs # {})
    /\ IF wf \in ActionEnd THEN DOMAIN x.found = {} ELSE x.found \in Findings(RowsAfter(rows, x))
    /\ UNCHANGED <<wf, rows, skipped, late>>

Loses(x) == x \in txs /\ txs' = txs \ {x} /\ UNCHANGED <<wf, rows, overlapped, skipped, late>>

CompletesTask(x) ==
    /\ x \in txs /\ txs' = txs \ {x} /\ x.call.op = "done"
    /\ rows[x.call.task][x.call.row].state \in {"IDLE", "RUNNING"}
    /\ \E found : /\ x.wf = "RUNNING" => found = x.found
                  /\ x.wf # "RUNNING" => DOMAIN found = {}
                  /\ Found(found) /\ Adds(RowsAfter(rows, x), rows', found)
    /\ UNCHANGED <<wf, overlapped, skipped, late>>

Resumes(x) ==
    /\ x \in txs /\ txs' = txs \ {x} /\ x.call.op = "resume" /\ wf = "PAUSED"
    /\ Adds(rows, rows', x.found)
    /\ wf' = IF DOMAIN x.found = {} /\ Idle = {} THEN Verdict(rows) ELSE "RUNNING"
    /\ UNCHANGED <<overlapped, skipped, late>>

Checks == wf = "RUNNING" /\ wf' = Verdict(rows) /\ UNCHANGED <<rows, txs, overlapped, skipped, late>>

Pauses == wf = "RUNNING" /\ wf' = "PAUSED" /\ UNCHANGED <<rows, txs, overlapped, skipped, late>>

\* A rerun and a skip.
Again ==
    /\ wf \notin {"NONE", "PAUSED", "SUCCESS"} /\ wf' = "RUNNING"
    /\ overlapped' = (overlapped \/ txs # {})
    /\ \E t \in Task : \E i \in DOMAIN rows[t] :
         \/ /\ rows' = rows /\ skipped' = skipped
            /\ late' = (late \/ rows[t][i].state # "ERROR")
         \/ /\ skipped' = skipped \cup {t} /\ late' = late
            /\ \E found \in Findings(rows) : Adds(With(rows, t, i, "SKIPPED"), rows', found)
    /\ UNCHANGED txs

Form ==
    \/ NothingNew \/ Starts \/ Runs \/ Checks \/ Pauses \/ Again
    \/ \E x : TxOK(x) /\ (Looks(x) \/ Loses(x) \/ CompletesTask(x) \/ Resumes(x))

\* A check leaves the workflow running or ends it.
LEMMA VerdictTyped == Verdict(rows) \in {"RUNNING"} \cup ActionEnd
BY DEF Verdict, ActionEnd

\* Once there are calls or transactions the workflow has started.
LEMMA HasStarted ==
    ASSUME ReverseTyped, calls # {} \/ txs # {} \/ wf # "NONE" \/ \E t \in Task : rows[t] # <<>>
    PROVE  wf \in {"RUNNING", "PAUSED"} \cup ActionEnd /\ Valid /\ doc.target \in doc.tasks
BY DEF ReverseTyped

\* What a call refers to exists.
LEMMA CallFacts ==
    ASSUME ReverseTyped, NEW c \in calls
    PROVE  /\ c \in CallForm
           /\ c.op \in {"start", "again", "run", "done", "rerun", "skip"} =>
                /\ c.task \in Task /\ c.row \in DOMAIN rows[c.task]
                /\ c.row \in Nat /\ c.task # Nobody
                /\ rows[c.task][c.row].state \in RowState
                /\ rows[c.task][c.row].runs \in Nat
           /\ c.op = "done" => c.arg \in ActionEnd
<1>1. CallOK(c)
  BY DEF ReverseTyped
<1>2. ASSUME Refers(c) PROVE rows[c.task][c.row] \in Row /\ c.row \in Nat
  BY <1>1, <1>2, RowTyped DEF Refers, ReverseTyped, CallOK, CallForm
<1> QED BY <1>1, <1>2, ReverseAssumption DEF CallOK, Refers, Row

\* start_workflow(): the tasks without requirements are created.
LEMMA StartWorkflowKept ==
    ASSUME ReverseTyped, StartWorkflow
    PROVE  ReverseTyped' /\ Starts
<1>1. Doc /\ rows \in Rows
  BY DocTyped DEF ReverseTyped
<1>2. PICK found \in Findings(rows) : rows' = Created(rows, found) /\ calls' = Started(rows, found)
  BY DEF StartWorkflow
<1>3. /\ Found(found) /\ DOMAIN found \subseteq Needs(doc.target)
      /\ Adds(rows, rows', found)
  BY <1>1, <1>2, FindingsFacts, CreatedAdds
<1>4. rows' \in Rows
  BY <1>3 DEF Adds
<1>5. \A c \in calls' : CallOK(c)'
  BY <1>1, <1>2, <1>3, <1>4, StartedCalls DEF CallOK, Refers
<1>6. /\ \A u \in Task : DOMAIN rows[u] \subseteq DOMAIN rows'[u]
      /\ \A u \in Task : rows'[u] # <<>> => u \in Needs(doc.target)
  BY <1>1, <1>3, AddKept
<1>7. /\ Valid /\ doc.target \in doc.tasks /\ wf = "NONE" /\ wf' = "RUNNING"
      /\ UNCHANGED <<doc, txs, overlapped, skipped, late, paused, pauses, reruns>>
  BY DEF StartWorkflow
<1>8. /\ overlapped' \in BOOLEAN /\ skipped' \subseteq Task /\ late' \in BOOLEAN
      /\ pauses' \in Nat /\ reruns' \in Nat /\ paused' \in BOOLEAN
  BY <1>7 DEF ReverseTyped
<1>9. ReverseTyped'
  BY <1>4, <1>5, <1>6, <1>7, <1>8, TypedRule
<1> QED BY <1>2, <1>3, <1>7, <1>9 DEF Starts

\* A step that only changes the state of an execution, and calls.
LEMMA ChangeTyped ==
    ASSUME ReverseTyped, NEW t \in Task, NEW i \in DOMAIN rows[t], NEW s,
           Changes(rows, rows', t, i, s),
           NEW c \in calls,
           \A d \in calls' : \/ d \in calls
                             \/ /\ d \in CallForm /\ d.op \in {"run", "again"}
                                /\ d.task = t /\ d.row = i,
           wf' \in {"RUNNING", "PAUSED"} \cup ActionEnd, skipped' \subseteq Task /\ late' \in BOOLEAN,
           UNCHANGED <<doc, txs, overlapped, paused, pauses, reruns>>
    PROVE  ReverseTyped'
<1>1. rows' \in Rows /\ \A u \in Task : DOMAIN rows'[u] = DOMAIN rows[u]
  BY DEF Changes
<1>2. \A d \in calls' : d \in calls \/ CallOK(d)'
  BY <1>1 DEF CallOK, Refers
<1>3. /\ \A u \in Task : DOMAIN rows[u] \subseteq DOMAIN rows'[u]
      /\ \A u \in Task : rows'[u] # <<>> => u \in Needs(doc.target)
  BY ChangeKept
<1>4. Valid /\ doc.target \in doc.tasks
  BY HasStarted
<1>5. /\ overlapped' \in BOOLEAN
      /\ pauses' \in Nat /\ reruns' \in Nat /\ paused' \in BOOLEAN
  BY DEF ReverseTyped
<1>6. \A x \in txs' : x \in txs
  OBVIOUS
<1> QED BY <1>1, <1>2, <1>3, <1>4, <1>5, <1>6, TypedRule

\* A step that leaves the executions alone.
LEMMA RestTyped ==
    ASSUME ReverseTyped, wf # "NONE", rows' = rows, doc' = doc,
           wf' \in {"RUNNING", "PAUSED"} \cup ActionEnd,
           \A c \in calls' : c \in calls \/ CallOK(c),
           \A x \in txs' : x \in txs \/ TxOK(x),
           overlapped' \in BOOLEAN, skipped' \subseteq Task /\ late' \in BOOLEAN,
           pauses' \in Nat, reruns' \in Nat, paused' \in BOOLEAN
    PROVE  ReverseTyped'
<1>1. Doc /\ doc.target \in Task /\ Valid /\ doc.target \in doc.tasks /\ rows \in Rows
  BY DocTyped, HasStarted DEF ReverseTyped
<1>2. Needs(doc.target)' = Needs(doc.target)
  BY <1>1, NeedsStay
<1>3. \A c \in calls' : c \in calls \/ CallOK(c)'
  BY DEF CallOK, Refers
<1>4. \A x \in txs' : x \in txs \/ TxOK(x)'
  BY <1>2 DEF TxOK, Refers
<1>5. /\ \A u \in Task : DOMAIN rows[u] \subseteq DOMAIN rows'[u]
      /\ \A u \in Task : rows'[u] # <<>> => u \in Needs(doc.target)
  BY DEF ReverseTyped
<1> QED BY <1>1, <1>3, <1>4, <1>5, TypedRule

\* RegularTask._run_new(): an idle task runs, or a late message is dropped.
LEMMA RunNewKept ==
    ASSUME ReverseTyped, NEW c \in calls, RunNew(c)
    PROVE  ReverseTyped' /\ (NothingNew \/ Runs)
<1>1. /\ c.op = "start"
      /\ UNCHANGED <<doc, wf, txs, overlapped, skipped, late, paused, pauses, reruns>>
  BY DEF RunNew
<1>2. c.task \in Task /\ c.row \in DOMAIN rows[c.task] /\ c.row \in Nat
  BY <1>1, CallFacts
<1>3. wf # "NONE" /\ wf' \in {"RUNNING", "PAUSED"} \cup ActionEnd /\ skipped' \subseteq Task /\ late' \in BOOLEAN
  BY <1>1, HasStarted DEF ReverseTyped, ActionEnd
<1>4. CASE rows[c.task][c.row].state = "IDLE"
  <2>1. /\ RunAction(c.task, c.row)
        /\ calls' = (calls \ {c})
             \cup {Call("run", c.task, c.row, rows[c.task][c.row].runs + 1)}
    BY <1>4 DEF RunNew
  <2>2. Changes(rows, rows', c.task, c.row, "RUNNING")
    BY <1>2, <2>1, RunActionChanges DEF ReverseTyped
  <2>3. Call("run", c.task, c.row, rows[c.task][c.row].runs + 1) \in CallForm
    <3>1. rows[c.task][c.row].runs + 1 \in Nat
      BY <1>1, CallFacts
    <3> QED BY <1>2, <3>1 DEF Call, CallForm
  <2>4. \A d \in calls' : \/ d \in calls
                          \/ /\ d \in CallForm /\ d.op \in {"run", "again"}
                             /\ d.task = c.task /\ d.row = c.row
    BY <2>1, <2>3 DEF Call
  <2>5. ReverseTyped'
    BY <1>1, <1>2, <1>3, <2>2, <2>4, ChangeTyped
  <2> QED BY <1>1, <1>2, <1>4, <2>2, <2>5 DEF Runs
<1>5. CASE rows[c.task][c.row].state # "IDLE"
  <2>1. calls' \subseteq calls /\ rows' = rows
    BY <1>5 DEF RunNew
  <2>2. ReverseTyped'
    BY <1>1, <1>3, <2>1, RestTyped DEF ReverseTyped
  <2> QED BY <1>1, <2>1, <2>2 DEF NothingNew
<1> QED BY <1>4, <1>5


\* RegularTask._run_existing(): a task runs again, or it has succeeded and stays so.
LEMMA RunExistingKept ==
    ASSUME ReverseTyped, NEW c \in calls, RunExisting(c)
    PROVE  ReverseTyped' /\ (NothingNew \/ Runs)
<1>1. /\ c.op = "again"
      /\ UNCHANGED <<doc, wf, txs, overlapped, skipped, late, paused, pauses, reruns>>
  BY DEF RunExisting
<1>2. c.task \in Task /\ c.row \in DOMAIN rows[c.task] /\ c.row \in Nat
  BY <1>1, CallFacts
<1>3. /\ wf # "NONE" /\ wf' \in {"RUNNING", "PAUSED"} \cup ActionEnd
      /\ skipped' \subseteq Task /\ late' \in BOOLEAN
  BY <1>1, HasStarted DEF ReverseTyped, ActionEnd
<1>4. CASE rows[c.task][c.row].state # "SUCCESS"
  <2>1. /\ RunAction(c.task, c.row)
        /\ calls' = (calls \ {c})
             \cup {Call("run", c.task, c.row, rows[c.task][c.row].runs + 1)}
    BY <1>4 DEF RunExisting, MayRunAgain
  <2>2. Changes(rows, rows', c.task, c.row, "RUNNING")
    BY <1>2, <2>1, RunActionChanges DEF ReverseTyped
  <2>3. Call("run", c.task, c.row, rows[c.task][c.row].runs + 1) \in CallForm
    <3>1. rows[c.task][c.row].runs + 1 \in Nat
      BY <1>1, CallFacts
    <3> QED BY <1>2, <3>1 DEF Call, CallForm
  <2>4. \A d \in calls' : \/ d \in calls
                          \/ /\ d \in CallForm /\ d.op \in {"run", "again"}
                             /\ d.task = c.task /\ d.row = c.row
    BY <2>1, <2>3 DEF Call
  <2>5. ReverseTyped'
    BY <1>1, <1>2, <1>3, <2>2, <2>4, ChangeTyped
  <2> QED BY <1>1, <1>2, <1>4, <2>2, <2>5 DEF Runs
<1>5. CASE rows[c.task][c.row].state = "SUCCESS"
  <2>1. calls' \subseteq calls /\ rows' = rows
    BY <1>5 DEF RunExisting, MayRunAgain
  <2>2. ReverseTyped'
    BY <1>1, <1>3, <2>1, RestTyped DEF ReverseTyped
  <2> QED BY <1>1, <2>1, <2>2 DEF NothingNew
<1> QED BY <1>4, <1>5

\* The executor returns a result.
LEMMA ExecuteKept ==
    ASSUME ReverseTyped, NEW c \in calls, Execute(c)
    PROVE  ReverseTyped' /\ NothingNew
<1>1. /\ c.op = "run"
      /\ UNCHANGED <<doc, wf, rows, txs, overlapped, skipped, late, paused, pauses, reruns>>
  BY DEF Execute
<1>2. c.task \in Task /\ c.row \in DOMAIN rows[c.task] /\ c.row \in Nat
  BY <1>1, CallFacts
<1>3. PICK res \in doc.outcome[c.task] :
         calls' = (calls \ {c}) \cup {Call("done", c.task, c.row, res)}
  BY DEF Execute
<1>4. res \in ActionEnd
  BY <1>2, DocTyped DEF Doc, DocumentType
<1>5. CallOK(Call("done", c.task, c.row, res))
  BY <1>2, <1>4 DEF Call, CallOK, CallForm, Refers
<1>6. wf # "NONE" /\ wf' \in {"RUNNING", "PAUSED"} \cup ActionEnd
  BY <1>1, HasStarted DEF ActionEnd
<1>7. ReverseTyped'
  <2>1. /\ overlapped' \in BOOLEAN /\ skipped' \subseteq Task /\ late' \in BOOLEAN
        /\ pauses' \in Nat /\ reruns' \in Nat /\ paused' \in BOOLEAN
    BY <1>1 DEF ReverseTyped
  <2> QED BY <1>1, <1>3, <1>5, <1>6, <2>1, RestTyped
<1> QED BY <1>1, <1>7 DEF NothingNew

\* A transaction that begins.
LEMMA BeginTyped ==
    ASSUME ReverseTyped, wf # "NONE", NEW x, TxOK(x), txs' = txs \cup {x},
           overlapped' = (overlapped \/ txs # {}), calls' \subseteq calls,
           UNCHANGED <<doc, wf, rows, skipped, late, paused, pauses, reruns>>
    PROVE  ReverseTyped'
<1>1. wf' \in {"RUNNING", "PAUSED"} \cup ActionEnd
  BY HasStarted
<1>2. /\ overlapped' \in BOOLEAN /\ skipped' \subseteq Task /\ late' \in BOOLEAN
      /\ pauses' \in Nat /\ reruns' \in Nat /\ paused' \in BOOLEAN
  BY DEF ReverseTyped
<1> QED BY <1>1, <1>2, RestTyped

\* Task.complete() looks for tasks, or drops a result that comes twice.
LEMMA BeginDoneKept ==
    ASSUME ReverseTyped, NEW c \in calls, BeginDone(c)
    PROVE  ReverseTyped' /\ (NothingNew \/ \E x : TxOK(x) /\ Looks(x))
<1> DEFINE t == c.task
           i == c.row
           after == With(rows, t, i, c.arg)
<1>1. /\ c.op = "done" /\ calls' \subseteq calls
      /\ UNCHANGED <<doc, wf, rows, skipped, late, paused, pauses, reruns>>
  BY DEF BeginDone
<1>2. /\ t \in Task /\ i \in DOMAIN rows[t] /\ i \in Nat /\ t # Nobody
      /\ c.arg \in ActionEnd /\ c \in CallForm /\ rows[t][i].state \in RowState
  BY <1>1, CallFacts
<1>3. wf # "NONE" /\ wf \in {"RUNNING", "PAUSED"} \cup ActionEnd /\ Doc /\ rows \in Rows
  BY HasStarted, DocTyped DEF ActionEnd, ReverseTyped
<1>4. CASE rows[t][i].state \in Completed
  <2>1. UNCHANGED <<txs, overlapped>>
    BY <1>4 DEF BeginDone
  <2>2. ReverseTyped'
    BY <1>1, <1>3, <2>1, RestTyped DEF ReverseTyped
  <2> QED BY <1>1, <2>1, <2>2 DEF NothingNew
<1>5. CASE rows[t][i].state \notin Completed
  <2>1. PICK found \in IF wf \in ActionEnd THEN {<<>>} ELSE Findings(after) : Begins(c, found)
    BY <1>5 DEF BeginDone
  <2> DEFINE x == [call |-> c, wf |-> wf, found |-> found,
                   seen |-> IF c.task = Nobody THEN "NONE" ELSE rows[c.task][c.row].state]
  <2>2. txs' = txs \cup {x} /\ overlapped' = (overlapped \/ txs # {})
    BY <2>1 DEF Begins
  <2>3. x.call = c /\ x.wf = wf /\ x.found = found /\ x.seen \in {"IDLE", "RUNNING"}
    BY <1>2, <1>5 DEF RowState
  <2> HIDE DEF x
  <2>4. after \in Rows
    BY <1>2, <1>3, WithChanges DEF Changes, RowState, Completed
  <2>5. Found(found) /\ DOMAIN found \subseteq Needs(doc.target)
    <3>1. CASE wf \in ActionEnd
      BY <2>1, <3>1, NothingFound
    <3>2. CASE wf \notin ActionEnd
      BY <1>3, <2>1, <2>4, <3>2, FindingsFacts
    <3> QED BY <3>1, <3>2
  <2>6. TxOK(x)
    BY <1>1, <1>2, <1>3, <2>3, <2>5 DEF TxOK, Refers
  <2>7. ReverseTyped'
    BY <1>1, <1>3, <2>2, <2>6, BeginTyped
  <2>8. RowsAfter(rows, x) = after
    BY <1>1, <2>3 DEF RowsAfter
  <2>9. IF wf \in ActionEnd THEN DOMAIN found = {} ELSE found \in Findings(after)
    <3>1. wf \in ActionEnd => found = <<>>
      BY <2>1
    <3>2. wf \notin ActionEnd => found \in Findings(after)
      BY <2>1
    <3> HIDE DEF after
    <3> QED BY <3>1, <3>2, NothingFound
  <2>10. Looks(x)
    BY <1>1, <1>3, <2>2, <2>3, <2>8, <2>9 DEF Looks
  <2> QED BY <2>6, <2>7, <2>10
<1> QED BY <1>4, <1>5

\* resume_workflow() looks for tasks.
LEMMA BeginResumeKept ==
    ASSUME ReverseTyped, BeginResume
    PROVE  ReverseTyped' /\ \E x : TxOK(x) /\ Looks(x)
<1>1. wf = "PAUSED" /\ UNCHANGED <<doc, wf, rows, calls, skipped, late, paused, pauses, reruns>>
  BY DEF BeginResume
<1>2. PICK found \in Findings(rows) : Begins(Resuming(pauses), found)
  BY DEF BeginResume
<1> DEFINE x == [call |-> Resuming(pauses), wf |-> wf, found |-> found,
                 seen |-> IF Resuming(pauses).task = Nobody THEN "NONE"
                          ELSE rows[Resuming(pauses).task][Resuming(pauses).row].state]
<1>3. txs' = txs \cup {x} /\ overlapped' = (overlapped \/ txs # {})
  BY <1>2 DEF Begins
<1>4. x.call.op = "resume" /\ x.wf = wf /\ x.found = found
  BY DEF Resuming, Call
<1> HIDE DEF x
<1>5. Found(found) /\ DOMAIN found \subseteq Needs(doc.target)
  BY DocTyped, FindingsFacts DEF ReverseTyped
<1>6. TxOK(x)
  BY <1>1, <1>4, <1>5 DEF TxOK
<1>7. ReverseTyped'
  BY <1>1, <1>3, <1>6, BeginTyped
<1>8. RowsAfter(rows, x) = rows /\ "PAUSED" \notin ActionEnd
  BY <1>4 DEF RowsAfter, ActionEnd
<1>9. Looks(x)
  BY <1>1, <1>3, <1>4, <1>8 DEF Looks
<1> QED BY <1>6, <1>7, <1>9


\* The completion is committed, unless the row has changed meanwhile.
LEMMA CompleteKept ==
    ASSUME ReverseTyped, NEW x \in txs, Complete(x)
    PROVE  ReverseTyped' /\ (Loses(x) \/ CompletesTask(x))
<1> DEFINE t == x.call.task
           i == x.call.row
           after == With(rows, t, i, x.call.arg)
           start == IF Dispatches(x) THEN x.found ELSE <<>>
<1>1. /\ x.call.op = "done" /\ txs' = txs \ {x}
      /\ UNCHANGED <<doc, wf, overlapped, skipped, late, paused, pauses, reruns>>
  BY DEF Complete, Commits
<1>2. TxOK(x) /\ wf # "NONE" /\ wf' \in {"RUNNING", "PAUSED"} \cup ActionEnd /\ rows \in Rows
      /\ Valid /\ doc.target \in doc.tasks
  BY <1>1, HasStarted DEF ReverseTyped, ActionEnd
<1>3. /\ t \in Task /\ i \in DOMAIN rows[t] /\ x.call.arg \in ActionEnd
      /\ x.seen \in {"IDLE", "RUNNING"}
      /\ Found(x.found) /\ DOMAIN x.found \subseteq Needs(doc.target)
  BY <1>1, <1>2 DEF TxOK, Refers
<1>4. /\ overlapped' \in BOOLEAN /\ skipped' \subseteq Task /\ late' \in BOOLEAN
      /\ pauses' \in Nat /\ reruns' \in Nat /\ paused' \in BOOLEAN
  BY <1>1 DEF ReverseTyped
<1>5. CASE rows[t][i].state # x.seen
  <2>1. UNCHANGED <<rows, calls>>
    BY <1>5 DEF Complete
  <2>2. ReverseTyped'
    BY <1>1, <1>2, <1>4, <2>1, RestTyped
  <2> QED BY <1>1, <2>1, <2>2 DEF Loses
<1>6. CASE rows[t][i].state = x.seen
  <2>1. /\ rows' = Created(after, start)
        /\ calls' = calls \cup Started(after, start)
                      \cup (IF x.wf = "PAUSED" THEN {} ELSE {Check})
    BY <1>6 DEF Complete
  <2>2. Changes(rows, after, t, i, x.call.arg)
    BY <1>2, <1>3, WithChanges DEF RowState, Completed
  <2>3. after \in Rows /\ \A u \in Task : DOMAIN after[u] = DOMAIN rows[u]
    BY <2>2 DEF Changes
  <2>4. Found(start) /\ DOMAIN start \subseteq Needs(doc.target)
    BY <1>3, NothingFound
  <2>5. /\ x.wf = "RUNNING" => start = x.found
        /\ x.wf # "RUNNING" => DOMAIN start = {}
    BY NothingFound DEF Dispatches
  <2> HIDE DEF after, start
  <2>6. Adds(after, rows', start)
    BY <2>1, <2>3, <2>4, CreatedAdds
  <2>7. /\ rows' \in Rows
        /\ \A u \in Task : DOMAIN rows[u] \subseteq DOMAIN rows'[u]
        /\ \A u \in Task : rows'[u] # <<>> => u \in Needs(doc.target)
    BY <2>3, <2>4, <2>6, AddKept DEF Adds
  <2>8. \A c \in calls' : c \in calls \/ CallOK(c)'
    <3>1. CallOK(Check)'
      BY DEF Check, Call, CallOK, CallForm
    <3>2. ASSUME NEW c \in Started(after, start) PROVE CallOK(c)'
      BY <2>3, <2>4, <2>6, <2>7, <3>2, StartedCalls DEF CallOK, Refers
    <3> QED BY <2>1, <3>1, <3>2
  <2>9. \A y \in txs' : y \in txs
    BY <1>1
  <2>10. ReverseTyped'
    BY <1>1, <1>2, <1>4, <2>7, <2>8, <2>9, TypedRule
  <2>11. RowsAfter(rows, x) = after
    BY <1>1 DEF RowsAfter, after
  <2>12. CompletesTask(x)
    BY <1>1, <1>3, <1>6, <2>4, <2>5, <2>6, <2>11 DEF CompletesTask
  <2> QED BY <2>10, <2>12
<1> QED BY <1>5, <1>6

\* check_and_complete() may end the workflow.
LEMMA CheckKept ==
    ASSUME ReverseTyped, NEW c \in calls, CheckAndComplete(c)
    PROVE  ReverseTyped' /\ (NothingNew \/ Checks)
<1>1. /\ calls' \subseteq calls /\ wf' = IF wf = "RUNNING" THEN Verdict(rows) ELSE wf
      /\ UNCHANGED <<doc, rows, txs, overlapped, skipped, late, paused, pauses, reruns>>
  BY DEF CheckAndComplete
<1>2. wf # "NONE" /\ wf' \in {"RUNNING", "PAUSED"} \cup ActionEnd
  BY <1>1, HasStarted, VerdictTyped DEF ActionEnd
<1>3. ReverseTyped'
  BY <1>1, <1>2, RestTyped DEF ReverseTyped
<1> QED BY <1>1, <1>3 DEF NothingNew, Checks

\* The operator pauses the workflow.
LEMMA PauseKept ==
    ASSUME ReverseTyped, Pause
    PROVE  ReverseTyped' /\ Pauses
<1>1. /\ wf = "RUNNING" /\ wf' = "PAUSED" /\ pauses > 0 /\ pauses' = pauses - 1 /\ paused' = TRUE
      /\ UNCHANGED <<doc, rows, calls, txs, overlapped, skipped, late, reruns>>
  BY DEF Pause
<1>2. pauses' \in Nat
  BY <1>1 DEF ReverseTyped
<1>3. ReverseTyped'
  BY <1>1, <1>2, RestTyped DEF ReverseTyped
<1> QED BY <1>1, <1>3 DEF Pauses

\* The operator asks for a rerun or a skip.
LEMMA PutKept ==
    ASSUME ReverseTyped, NEW t \in Task, NEW i \in DOMAIN rows[t],
           NEW op \in {"rerun", "skip"}, Put(t, i, op)
    PROVE  ReverseTyped' /\ NothingNew
<1>1. /\ reruns > 0 /\ reruns' = reruns - 1 /\ calls' = calls \cup {Call(op, t, i, "NONE")}
      /\ UNCHANGED <<doc, wf, rows, txs, overlapped, skipped, late, paused, pauses>>
  BY DEF Put
<1>2. reruns' \in Nat
  BY <1>1 DEF ReverseTyped
<1>3. CallOK(Call(op, t, i, "NONE"))
  <2>1. i \in Nat
    BY RowTyped DEF ReverseTyped
  <2> QED BY <2>1 DEF Call, CallOK, CallForm, Refers
<1>4. rows[t] # <<>>
  OBVIOUS
<1>5. wf # "NONE" /\ wf' \in {"RUNNING", "PAUSED"} \cup ActionEnd
  BY <1>1, <1>4, HasStarted DEF ActionEnd
<1>6. /\ overlapped' \in BOOLEAN /\ skipped' \subseteq Task /\ late' \in BOOLEAN
      /\ pauses' \in Nat /\ paused' \in BOOLEAN
  BY <1>1 DEF ReverseTyped
<1>7. ReverseTyped'
  BY <1>1, <1>2, <1>3, <1>5, <1>6, RestTyped
<1> QED BY <1>1, <1>7 DEF NothingNew

\* The resume is committed, unless the workflow is not paused any more.
LEMMA ResumeKept ==
    ASSUME ReverseTyped, NEW x \in txs, Resume(x)
    PROVE  ReverseTyped' /\ (Loses(x) \/ Resumes(x))
<1>1. /\ x.call.op = "resume" /\ txs' = txs \ {x}
      /\ UNCHANGED <<doc, overlapped, skipped, late, paused, pauses, reruns>>
  BY DEF Resume, Commits
<1>2. TxOK(x) /\ wf # "NONE" /\ wf \in {"RUNNING", "PAUSED"} \cup ActionEnd /\ rows \in Rows
      /\ Valid /\ doc.target \in doc.tasks
  BY <1>1, HasStarted DEF ReverseTyped, ActionEnd
<1>3. Found(x.found) /\ DOMAIN x.found \subseteq Needs(doc.target)
  BY <1>2 DEF TxOK
<1>4. /\ overlapped' \in BOOLEAN /\ skipped' \subseteq Task /\ late' \in BOOLEAN
      /\ pauses' \in Nat /\ reruns' \in Nat /\ paused' \in BOOLEAN
  BY <1>1 DEF ReverseTyped
<1>5. CASE wf # "PAUSED"
  <2>1. UNCHANGED <<wf, rows, calls>>
    BY <1>5 DEF Resume
  <2>2. ReverseTyped'
    BY <1>1, <1>2, <1>4, <2>1, RestTyped
  <2> QED BY <1>1, <2>1, <2>2 DEF Loses
<1>6. CASE wf = "PAUSED"
  <2>1. /\ wf' = IF DOMAIN x.found = {} /\ Idle = {} THEN Verdict(rows) ELSE "RUNNING"
        /\ rows' = Created(rows, x.found)
        /\ calls' = calls \cup Started(rows, x.found)
                      \cup {Call("again", ti[1], ti[2], "NONE") : ti \in Idle}
    BY <1>6 DEF Resume
  <2>2. Adds(rows, rows', x.found)
    BY <1>2, <1>3, <2>1, CreatedAdds
  <2>3. /\ rows' \in Rows
        /\ \A u \in Task : DOMAIN rows[u] \subseteq DOMAIN rows'[u]
        /\ \A u \in Task : rows'[u] # <<>> => u \in Needs(doc.target)
    BY <1>2, <1>3, <2>2, AddKept DEF Adds
  <2>4. wf' \in {"RUNNING", "PAUSED"} \cup ActionEnd
    BY <2>1, VerdictTyped
  <2>5. ASSUME NEW ti \in Idle PROVE CallOK(Call("again", ti[1], ti[2], "NONE"))'
    <3>1. ti[1] \in Task /\ ti[2] \in DOMAIN rows[ti[1]]
      BY DEF Idle, RowsOf
    <3>2. ti[2] \in Nat
      BY <1>2, <3>1, RowTyped
    <3>3. ti[2] \in DOMAIN rows'[ti[1]]
      BY <2>3, <3>1
    <3> QED BY <3>1, <3>2, <3>3 DEF Call, CallOK, CallForm, Refers
  <2>6. ASSUME NEW c \in Started(rows, x.found) PROVE CallOK(c)'
    BY <1>2, <1>3, <2>2, <2>3, <2>6, StartedCalls DEF CallOK, Refers
  <2>7. \A c \in calls' : c \in calls \/ CallOK(c)'
    BY <2>1, <2>5, <2>6
  <2>8. \A y \in txs' : y \in txs
    BY <1>1
  <2>9. ReverseTyped'
    BY <1>1, <1>2, <1>4, <2>3, <2>4, <2>7, <2>8, TypedRule
  <2> QED BY <1>1, <1>6, <2>1, <2>2, <2>9 DEF Resumes
<1> QED BY <1>5, <1>6

\* Workflow.rerun() is refused, or runs or skips a failed task.
LEMMA RerunKept ==
    ASSUME ReverseTyped, NEW c \in calls, Rerun(c)
    PROVE  ReverseTyped' /\ (NothingNew \/ Again)
<1> DEFINE t == c.task
           i == c.row
           marked == With(rows, t, i, "SKIPPED")
<1>1. /\ c.op \in {"rerun", "skip"} /\ overlapped' = (overlapped \/ txs # {})
      /\ UNCHANGED <<doc, txs, paused, pauses, reruns>>
  BY DEF Rerun
<1>2. t \in Task /\ i \in DOMAIN rows[t] /\ i \in Nat /\ c \in CallForm
  BY <1>1, CallFacts
<1>3. /\ wf # "NONE" /\ wf \in {"RUNNING", "PAUSED"} \cup ActionEnd /\ rows \in Rows
      /\ Valid /\ doc.target \in doc.tasks /\ Doc /\ skipped \subseteq Task /\ late \in BOOLEAN
  BY HasStarted, DocTyped DEF ReverseTyped, ActionEnd
<1>4. /\ overlapped' \in BOOLEAN
      /\ pauses' \in Nat /\ reruns' \in Nat /\ paused' \in BOOLEAN
  BY <1>1 DEF ReverseTyped
<1>5. CASE wf \in {"PAUSED", "SUCCESS"}
  <2>1. calls' = calls \ {c} /\ UNCHANGED <<wf, rows, skipped, late>>
    BY <1>5 DEF Rerun
  <2>2. ReverseTyped'
    BY <1>1, <1>3, <1>4, <2>1, RestTyped DEF ReverseTyped
  <2> QED BY <1>1, <2>1, <2>2 DEF NothingNew
<1>6. CASE wf \notin {"PAUSED", "SUCCESS"} /\ c.op = "rerun"
  <2>1. /\ wf' = "RUNNING" /\ rows' = rows
        /\ calls' = (calls \ {c}) \cup {[c EXCEPT !.op = "again"]}
        /\ skipped' = skipped /\ late' = (late \/ rows[t][i].state # "ERROR")
    BY <1>6 DEF Rerun
  <2>2. CallOK([c EXCEPT !.op = "again"])
    BY <1>2 DEF CallOK, CallForm, Refers
  <2>3. skipped' \subseteq Task /\ late' \in BOOLEAN
    BY <1>2, <1>3, <2>1
  <2>4. ReverseTyped'
    BY <1>1, <1>3, <1>4, <2>1, <2>2, <2>3, RestTyped
  <2> QED BY <1>1, <1>2, <1>3, <1>6, <2>1, <2>4 DEF Again
<1>7. CASE wf \notin {"PAUSED", "SUCCESS"} /\ c.op = "skip"
  <2>1. /\ wf' = "RUNNING" /\ skipped' = skipped \cup {t} /\ late' = late
        /\ \E found \in Findings(rows) :
             /\ rows' = Created(marked, found)
             /\ calls' = (calls \ {c}) \cup Started(rows, found) \cup {Check}
    BY <1>7 DEF Rerun
  <2>2. PICK found \in Findings(rows) :
             /\ rows' = Created(marked, found)
             /\ calls' = (calls \ {c}) \cup Started(rows, found) \cup {Check}
    BY <2>1
  <2>3. Found(found) /\ DOMAIN found \subseteq Needs(doc.target)
    BY <1>3, FindingsFacts
  <2>4. Changes(rows, marked, t, i, "SKIPPED")
    BY <1>2, <1>3, WithChanges DEF RowState, Completed
  <2>5. marked \in Rows /\ \A u \in Task : DOMAIN marked[u] = DOMAIN rows[u]
    BY <2>4 DEF Changes
  <2> HIDE DEF marked
  <2>6. Adds(marked, rows', found)
    BY <2>2, <2>3, <2>5, CreatedAdds
  <2>7. /\ rows' \in Rows
        /\ \A u \in Task : DOMAIN rows[u] \subseteq DOMAIN rows'[u]
        /\ \A u \in Task : rows'[u] # <<>> => u \in Needs(doc.target)
    BY <2>3, <2>5, <2>6, AddKept DEF Adds
  <2>8. \A d \in calls' : d \in calls \/ CallOK(d)'
    <3>1. CallOK(Check)'
      BY DEF Check, Call, CallOK, CallForm
    <3>2. Started(rows, found) = Started(marked, found)
      <4>1. \A u \in Task : Len(marked[u]) = Len(rows[u])
        BY <1>3, <2>5, RowTyped
      <4> QED BY <2>3, <4>1 DEF Started, Found
    <3>3. ASSUME NEW d \in Started(marked, found) PROVE CallOK(d)'
      BY <2>3, <2>5, <2>6, <2>7, <3>3, StartedCalls DEF CallOK, Refers
    <3> QED BY <2>2, <3>1, <3>2, <3>3
  <2>9. skipped' \subseteq Task /\ late' \in BOOLEAN /\ wf' \in {"RUNNING", "PAUSED"} \cup ActionEnd
    BY <1>2, <1>3, <2>1
  <2>10. ReverseTyped'
    BY <1>1, <1>3, <1>4, <2>7, <2>8, <2>9, TypedRule
  <2> QED BY <1>1, <1>2, <1>3, <1>7, <2>1, <2>6, <2>10 DEF Again, marked
<1> QED BY <1>1, <1>5, <1>6, <1>7

\* Every step keeps the types and has one of the forms.
LEMMA TypedNext ==
    ASSUME ReverseTyped, Next
    PROVE  ReverseTyped' /\ Form /\ doc' = doc
<1>0. doc' = doc
  BY DEF Next, EngineStep, OperatorStep, StartWorkflow, RunNew, RunExisting, Execute, BeginDone,
     CheckAndComplete, Rerun, Complete, Resume, Pause, BeginResume, Put
<1>1. CASE EngineStep
  <2>1. CASE \E c \in calls : \/ RunNew(c) \/ RunExisting(c) \/ Execute(c) \/ BeginDone(c)
                              \/ CheckAndComplete(c) \/ Rerun(c)
    BY <1>0, <2>1, RunNewKept, RunExistingKept, ExecuteKept, BeginDoneKept, CheckKept, RerunKept
       DEF Form
  <2>2. CASE \E x \in txs : Complete(x) \/ Resume(x)
    <3>1. PICK x \in txs : Complete(x) \/ Resume(x)
      BY <2>2
    <3>2. TxOK(x)
      BY DEF ReverseTyped
    <3> QED BY <1>0, <3>1, <3>2, CompleteKept, ResumeKept DEF Form
  <2> QED BY <1>1, <2>1, <2>2 DEF EngineStep
<1>2. CASE OperatorStep
  BY <1>0, <1>2, StartWorkflowKept, PauseKept, BeginResumeKept, PutKept DEF OperatorStep, Form
<1> QED BY <1>0, <1>1, <1>2 DEF Next


-----------------------------------------------------------------------------
(* What becomes of the executions that succeeded.                           *)

Won(rs, u) == HasState(rs, u, {"SUCCESS"})

\* Some execution has yet to succeed.
Unsettled(rs) == \E t \in Task : HasState(rs, t, RowState \ {"SUCCESS", "SKIPPED"})

\* As far as the states of executions go, what one execution's change does.
LEMMA ChangeStates ==
    ASSUME NEW rs \in Rows, NEW new, NEW t \in Task, NEW i \in DOMAIN rs[t], NEW s \in RowState,
           Changes(rs, new, t, i, s)
    PROVE  /\ \A u \in Task : Len(new[u]) = Len(rs[u]) /\ (new[u] = <<>> <=> rs[u] = <<>>)
           /\ \A u \in Task \ {t} : Won(rs, u) <=> Won(new, u)
           /\ rs[t][i].state # "SUCCESS" => \A u \in Task : Won(rs, u) => Won(new, u)
           /\ s # "SUCCESS" => \A u \in Task : Won(new, u) => Won(rs, u)
           /\ s # "SKIPPED" => \A u \in Task :
                                 HasState(new, u, {"SKIPPED"}) => HasState(rs, u, {"SKIPPED"})
           /\ s \notin {"SUCCESS", "SKIPPED"} => Unsettled(new)
<1>1. new \in Rows
  BY DEF Changes
<1>2. ASSUME NEW u \in Task
      PROVE  Len(new[u]) = Len(rs[u]) /\ (new[u] = <<>> <=> rs[u] = <<>>)
  <2>1. Len(rs[u]) \in Nat /\ DOMAIN rs[u] = 1..Len(rs[u])
    BY RowTyped
  <2>2. Len(new[u]) \in Nat /\ DOMAIN new[u] = 1..Len(new[u])
    BY <1>1, RowTyped
  <2>3. 1..Len(rs[u]) = 1..Len(new[u])
    BY <2>1, <2>2 DEF Changes
  <2>4. Len(rs[u]) = Len(new[u])
    BY <2>1, <2>2, <2>3, SMT
  <2>5. rs[u] \in Seq(Row) /\ new[u] \in Seq(Row)
    BY <1>1 DEF Rows
  <2>6. (new[u] = <<>> <=> Len(new[u]) = 0) /\ (rs[u] = <<>> <=> Len(rs[u]) = 0)
    BY <2>5, EmptySeq
  <2> QED
    BY <2>4, <2>6
<1>3. ASSUME NEW u \in Task
      PROVE  /\ DOMAIN new[u] = DOMAIN rs[u]
             /\ \A j \in DOMAIN rs[u] :
                  new[u][j].state = IF u = t /\ j = i THEN s ELSE rs[u][j].state
  BY DEF Changes
<1>4. \A u \in Task \ {t} : Won(rs, u) <=> Won(new, u)
  BY <1>3 DEF Won, HasState
<1>5. rs[t][i].state # "SUCCESS" => \A u \in Task : Won(rs, u) => Won(new, u)
  BY <1>3 DEF Won, HasState
<1>6. s # "SUCCESS" => \A u \in Task : Won(new, u) => Won(rs, u)
  BY <1>3 DEF Won, HasState
<1>7. s # "SKIPPED" => \A u \in Task :
                         HasState(new, u, {"SKIPPED"}) => HasState(rs, u, {"SKIPPED"})
  BY <1>3 DEF HasState
<1>8. s \notin {"SUCCESS", "SKIPPED"} => Unsettled(new)
  BY <1>3 DEF HasState, Unsettled
<1> QED
  BY <1>2, <1>4, <1>5, <1>6, <1>7, <1>8

\* No success is lost with an execution that has not succeeded.
LEMMA ChangeWins ==
    ASSUME NEW rs, NEW new, NEW t \in Task, NEW i \in DOMAIN rs[t], NEW s,
           Changes(rs, new, t, i, s), rs[t][i].state # "SUCCESS"
    PROVE  \A u \in Task : Won(rs, u) => Won(new, u)
<1>1. ASSUME NEW u \in Task, NEW j \in DOMAIN rs[u], rs[u][j].state = "SUCCESS"
      PROVE  j \in DOMAIN new[u] /\ new[u][j].state = "SUCCESS"
  BY <1>1 DEF Changes
<1> QED
  BY <1>1 DEF Won, HasState

\* And what it does that executions are added, none of which has run.
LEMMA AddStates ==
    ASSUME NEW rs \in Rows, NEW new, NEW found, Found(found), Adds(rs, new, found)
    PROVE  /\ \A u \in Task : Won(rs, u) <=> Won(new, u)
           /\ \A u \in Task : HasState(new, u, {"SKIPPED"}) => HasState(rs, u, {"SKIPPED"})
           /\ \A u \in Task : new[u] # <<>> => rs[u] # <<>> \/ u \in DOMAIN found
           /\ \A u \in DOMAIN found : rs[u] = <<>> => Len(new[u]) = 1
           /\ DOMAIN found # {} => Unsettled(new)
           /\ DOMAIN found = {} => new = rs
<1>1. new \in Rows
  BY DEF Adds
<1>2. ASSUME NEW u \in Task, NEW j \in DOMAIN rs[u]
      PROVE  j \in DOMAIN new[u] /\ new[u][j].state = rs[u][j].state
  BY DEF Adds
<1>3. ASSUME NEW u \in Task, NEW j \in DOMAIN new[u]
      PROVE  \/ j \in DOMAIN rs[u] /\ new[u][j].state = rs[u][j].state
             \/ new[u][j].state = "IDLE"
  <2>1. CASE u \in DOMAIN found
    BY <2>1 DEF Adds
  <2>2. CASE u \notin DOMAIN found
    BY <2>2 DEF Adds
  <2> QED
    BY <2>1, <2>2
<1>4. \A u \in Task : Won(rs, u) <=> Won(new, u)
  BY <1>2, <1>3 DEF Won, HasState
<1>5. \A u \in Task : HasState(new, u, {"SKIPPED"}) => HasState(rs, u, {"SKIPPED"})
  BY <1>3 DEF HasState
<1>6. \A u \in Task : new[u] # <<>> => rs[u] # <<>> \/ u \in DOMAIN found
  BY DEF Adds
<1>7. ASSUME NEW u \in DOMAIN found, rs[u] = <<>>
      PROVE  Len(new[u]) = 1
  <2>1. u \in Task
    BY DEF Found
  <2>2. Len(new[u]) = Len(rs[u]) + 1
    BY <2>1 DEF Adds
  <2>3. Len(rs[u]) = 0
    BY <1>7
  <2> QED
    BY <2>2, <2>3
<1>8. ASSUME NEW u \in DOMAIN found
      PROVE  Unsettled(new)
  <2>1. u \in Task
    BY DEF Found
  <2>2. Len(new[u]) \in DOMAIN new[u] /\ new[u][Len(new[u])].state = "IDLE"
    BY <2>1 DEF Adds
  <2>3. HasState(new, u, RowState \ {"SUCCESS", "SKIPPED"})
    BY <2>2 DEF HasState, RowState
  <2> QED
    BY <2>1, <2>3 DEF Unsettled
<1>9. ASSUME DOMAIN found = {}
      PROVE  new = rs
  <2>1. \A u \in Task : new[u] = rs[u]
    BY <1>9 DEF Adds
  <2> QED
    BY <1>1, <2>1 DEF Rows
<1> QED
  BY <1>4, <1>5, <1>6, <1>7, <1>8, <1>9

\* What a transaction sees, its own completion included.
LEMMA AfterStates ==
    ASSUME NEW rs \in Rows, NEW x,
           x.call.op = "done" => /\ x.call.task \in Task /\ x.call.arg \in ActionEnd
                                 /\ x.call.row \in DOMAIN rs[x.call.task]
    PROVE  /\ RowsAfter(rs, x) \in Rows
           /\ \A u \in Task :
                /\ DOMAIN RowsAfter(rs, x)[u] = DOMAIN rs[u]
                /\ RowsAfter(rs, x)[u] = <<>> <=> rs[u] = <<>>
                /\ \A j \in DOMAIN rs[u] :
                     /\ RowsAfter(rs, x)[u][j].ctx = rs[u][j].ctx
                     /\ RowsAfter(rs, x)[u][j].state =
                          IF x.call.op = "done" /\ u = x.call.task /\ j = x.call.row
                          THEN x.call.arg ELSE rs[u][j].state
<1>1. CASE x.call.op # "done"
  BY <1>1 DEF RowsAfter
<1>2. CASE x.call.op = "done"
  <2> DEFINE new == With(rs, x.call.task, x.call.row, x.call.arg)
  <2>1. RowsAfter(rs, x) = new
    BY <1>2 DEF RowsAfter
  <2>2. x.call.arg \in RowState
    BY <1>2 DEF RowState, Completed
  <2>3. Changes(rs, new, x.call.task, x.call.row, x.call.arg)
    BY <1>2, <2>2, WithChanges
  <2>4. \A u \in Task : new[u] = <<>> <=> rs[u] = <<>>
    BY <1>2, <2>2, <2>3, ChangeStates
  <2> HIDE DEF new
  <2> QED
    BY <1>2, <2>1, <2>3, <2>4 DEF Changes
<1> QED
  BY <1>1, <1>2

-----------------------------------------------------------------------------
(* As long as no two transactions look for tasks at the same time.          *)

\* Whatever t requires has succeeded.
Ready(rs, t) == \A u \in Requires(t) \ skipped : Won(rs, u)

\* What a transaction has found is what it would find now, and it knows the state of
\* the workflow, except that it may have left RUNNING meanwhile.
Current(x) ==
    /\ \A t \in DOMAIN x.found : rows[t] = <<>> /\ Ready(RowsAfter(rows, x), t)
    /\ x.wf \in {"RUNNING", "PAUSED"} => Satisfied(RowsAfter(rows, x)) \subseteq DOMAIN x.found
    /\ x.wf # "RUNNING" => wf = x.wf

OneEach == \A t \in Task : Len(rows[t]) <= 1 /\ (rows[t] # <<>> => Ready(rows, t))

\* While the workflow runs, something has yet to succeed or there is nothing to start.
Goes == skipped = {} /\ ~late /\ wf = "RUNNING" => Unsettled(rows) \/ Satisfied(rows) = {}

Serial ==
    ~overlapped => /\ \A x, y \in txs : x = y
                   /\ OneEach
                   /\ \A x \in txs : Current(x)
                   /\ Goes

Unskipped == skipped = {} => \A t \in Task : ~HasState(rows, t, {"SKIPPED"})

\* The document does not change, nor does what follows from it.
LEMMA Primed ==
    ASSUME Doc, doc.target \in Task, doc' = doc
    PROVE  /\ Satisfied(rows)' = Satisfied(rows')
           /\ \A t \in Task : Requires(t)' = Requires(t)
           /\ \A x : RowsAfter(rows, x)' = RowsAfter(rows', x)
           /\ \A x : Satisfied(RowsAfter(rows, x))' = Satisfied(RowsAfter(rows', x))
<1>1. Needs(doc.target)' = Needs(doc.target)
  BY NeedsStay
<1>2. \A t : Requires(t)' = Requires(t)
  BY DEF Requires
<1>3. \A x : RowsAfter(rows, x)' = RowsAfter(rows', x)
  BY DEF RowsAfter, With
<1>4. Satisfied(rows)' = Satisfied(rows')
  BY <1>1, <1>2 DEF Satisfied, NotStarted, HasState
<1>5. \A x : Satisfied(RowsAfter(rows, x))' = Satisfied(RowsAfter(rows', x))
  BY <1>1, <1>2, <1>3 DEF Satisfied, NotStarted, HasState
<1> QED
  BY <1>2, <1>3, <1>4, <1>5


\* What a transaction has found stays what it would find, whatever becomes of the
\* executions that have not succeeded.
LEMMA CurrentStays ==
    ASSUME ReverseTyped, doc' = doc, NEW x \in txs, Current(x),
           \A u \in Task : rows'[u] = <<>> <=> rows[u] = <<>>,
           \A u \in Task \ skipped' : Won(RowsAfter(rows, x), u) => Won(RowsAfter(rows', x), u),
           \A u \in Task : Won(RowsAfter(rows', x), u) => Won(RowsAfter(rows, x), u),
           \A u \in Task : RowsAfter(rows', x)[u] = <<>> => RowsAfter(rows, x)[u] = <<>>,
           skipped \subseteq skipped', x.wf # "RUNNING" => wf' = wf
    PROVE  Current(x)'
<1>1. Doc /\ doc.target \in Task /\ Needs(doc.target) \subseteq Task
  BY DocTyped, NeedsFacts
<1>2. /\ \A t \in Task : Requires(t)' = Requires(t)
      /\ RowsAfter(rows, x)' = RowsAfter(rows', x)
      /\ Satisfied(RowsAfter(rows, x))' = Satisfied(RowsAfter(rows', x))
  BY <1>1, Primed
<1>3. \A t \in Task : Requires(t) \in SUBSET Task
  BY <1>1, RequiresTyped
<1>4. DOMAIN x.found \subseteq Task
  BY DEF ReverseTyped, TxOK, Found
<1>5. ASSUME NEW t \in DOMAIN x.found
      PROVE  rows'[t] = <<>> /\ Ready(RowsAfter(rows, x), t)'
  <2>1. rows[t] = <<>> /\ Ready(RowsAfter(rows, x), t)
    BY DEF Current
  <2>2. rows'[t] = <<>>
    BY <2>1, <1>4
  <2>3. Ready(RowsAfter(rows, x), t)' <=> \A u \in Requires(t) \ skipped' : Won(RowsAfter(rows', x), u)
    BY <1>2, <1>4 DEF Ready, Won, HasState
  <2>4. \A u \in Requires(t) \ skipped' : Won(RowsAfter(rows, x), u)
    BY <2>1 DEF Ready
  <2>5. Requires(t) \in SUBSET Task
    BY <1>3, <1>4
  <2> QED
    BY <2>2, <2>3, <2>4, <2>5
<1>6. Satisfied(RowsAfter(rows', x)) \subseteq Satisfied(RowsAfter(rows, x))
  <2> SUFFICES ASSUME NEW t \in Satisfied(RowsAfter(rows', x))
               PROVE  t \in Satisfied(RowsAfter(rows, x))
    OBVIOUS
  <2>1. /\ t \in Needs(doc.target) /\ RowsAfter(rows', x)[t] = <<>>
        /\ \A u \in Requires(t) : Won(RowsAfter(rows', x), u)
    BY DEF Satisfied, NotStarted, Won
  <2>2. t \in Task /\ Requires(t) \in SUBSET Task
    BY <2>1, <1>1, <1>3
  <2>3. RowsAfter(rows, x)[t] = <<>> /\ \A u \in Requires(t) : Won(RowsAfter(rows, x), u)
    BY <2>1, <2>2
  <2> QED
    BY <2>1, <2>3 DEF Satisfied, NotStarted, Won
<1>7. x.wf \in {"RUNNING", "PAUSED"} => Satisfied(RowsAfter(rows, x)) \subseteq DOMAIN x.found
  BY DEF Current
<1>8. x.wf # "RUNNING" => wf' = x.wf
  BY DEF Current
<1> QED
  BY <1>2, <1>5, <1>6, <1>7, <1>8 DEF Current

\* So it is with a step that changes one execution.
LEMMA CurrentAfterChange ==
    ASSUME ReverseTyped, ReverseTyped', doc' = doc, NEW x \in txs, x \in txs', Current(x),
           NEW t \in Task, NEW i \in DOMAIN rows[t], NEW s \in RowState \ {"SUCCESS"},
           Changes(rows, rows', t, i, s),
           rows[t][i].state # "SUCCESS" \/ t \in skipped',
           skipped \subseteq skipped', x.wf # "RUNNING" => wf' = wf
    PROVE  Current(x)'
<1>1. rows \in Rows /\ rows' \in Rows
  BY DEF ReverseTyped
<1>2. x.call.op = "done" => /\ x.call.task \in Task /\ x.call.arg \in ActionEnd
                            /\ x.call.row \in DOMAIN rows[x.call.task]
  BY DEF ReverseTyped, TxOK, Refers
<1>3. x.call.op = "done" => x.call.row \in DOMAIN rows'[x.call.task]
  BY <1>2 DEF Changes
<1> DEFINE own(u, j) == x.call.op = "done" /\ u = x.call.task /\ j = x.call.row
<1>4. \A u \in Task : /\ DOMAIN RowsAfter(rows, x)[u] = DOMAIN rows[u]
                      /\ RowsAfter(rows, x)[u] = <<>> <=> rows[u] = <<>>
                      /\ \A j \in DOMAIN rows[u] :
                           RowsAfter(rows, x)[u][j].state =
                             IF own(u, j) THEN x.call.arg ELSE rows[u][j].state
  BY <1>1, <1>2, AfterStates
<1>5. \A u \in Task : /\ DOMAIN RowsAfter(rows', x)[u] = DOMAIN rows'[u]
                      /\ RowsAfter(rows', x)[u] = <<>> <=> rows'[u] = <<>>
                      /\ \A j \in DOMAIN rows'[u] :
                           RowsAfter(rows', x)[u][j].state =
                             IF own(u, j) THEN x.call.arg ELSE rows'[u][j].state
  BY <1>1, <1>2, <1>3, AfterStates
<1>6. \A u \in Task : /\ DOMAIN rows'[u] = DOMAIN rows[u]
                      /\ \A j \in DOMAIN rows[u] :
                           rows'[u][j].state = IF u = t /\ j = i THEN s ELSE rows[u][j].state
  BY DEF Changes
<1>7. \A u \in Task : rows'[u] = <<>> <=> rows[u] = <<>>
  BY <1>1, ChangeStates
<1> HIDE DEF own
<1>8. ASSUME NEW u \in Task, Won(RowsAfter(rows', x), u)
      PROVE  Won(RowsAfter(rows, x), u)
  <2>1. PICK j \in DOMAIN RowsAfter(rows', x)[u] : RowsAfter(rows', x)[u][j].state = "SUCCESS"
    BY <1>8 DEF Won, HasState
  <2>2. j \in DOMAIN rows[u] /\ j \in DOMAIN rows'[u] /\ j \in DOMAIN RowsAfter(rows, x)[u]
    BY <2>1, <1>4, <1>5, <1>6
  <2>3. RowsAfter(rows, x)[u][j].state = "SUCCESS"
    BY <2>1, <2>2, <1>4, <1>5, <1>6
  <2> QED
    BY <2>2, <2>3 DEF Won, HasState
<1>9. ASSUME NEW u \in Task \ skipped', Won(RowsAfter(rows, x), u)
      PROVE  Won(RowsAfter(rows', x), u)
  <2>1. PICK j \in DOMAIN RowsAfter(rows, x)[u] : RowsAfter(rows, x)[u][j].state = "SUCCESS"
    BY <1>9 DEF Won, HasState
  <2>2. j \in DOMAIN rows[u] /\ j \in DOMAIN rows'[u] /\ j \in DOMAIN RowsAfter(rows', x)[u]
    BY <2>1, <1>4, <1>5, <1>6
  <2>3. own(u, j) \/ rows'[u][j].state = rows[u][j].state
    BY <2>1, <2>2, <1>4, <1>6
  <2>4. RowsAfter(rows', x)[u][j].state = "SUCCESS"
    BY <2>1, <2>2, <2>3, <1>4, <1>5
  <2> QED
    BY <2>2, <2>4 DEF Won, HasState
<1>10. \A u \in Task : RowsAfter(rows', x)[u] = <<>> => RowsAfter(rows, x)[u] = <<>>
  BY <1>4, <1>5, <1>7
<1> QED
  BY <1>7, <1>8, <1>9, <1>10, CurrentStays

\* Nothing changes for an execution that is there, except the states.
LEMMA EachStays ==
    ASSUME ReverseTyped, doc' = doc, OneEach, NEW t \in Task,
           rows[t] # <<>>, Len(rows'[t]) = Len(rows[t]), skipped \subseteq skipped',
           \A u \in Task \ skipped' : Won(rows, u) => Won(rows', u)
    PROVE  Len(rows'[t]) <= 1 /\ Ready(rows, t)'
<1>1. Doc /\ doc.target \in Task /\ Requires(t)' = Requires(t) /\ Requires(t) \in SUBSET Task
  BY DocTyped, Primed, RequiresTyped
<1>2. Len(rows[t]) <= 1 /\ \A u \in Requires(t) \ skipped : Won(rows, u)
  BY DEF OneEach, Ready
<1>3. Ready(rows, t)' <=> \A u \in Requires(t) \ skipped' : Won(rows', u)
  BY <1>1 DEF Ready, Won, HasState
<1> QED
  BY <1>1, <1>2, <1>3


\* A step that changes one execution, and not to the better.
LEMMA SerialChange ==
    ASSUME ReverseTyped, ReverseTyped', doc' = doc, Serial, Unskipped,
           NEW t \in Task, NEW i \in DOMAIN rows[t],
           NEW s \in RowState \ {"SUCCESS", "SKIPPED"}, Changes(rows, rows', t, i, s),
           rows[t][i].state # "SUCCESS" \/ t \in skipped',
           skipped \subseteq skipped', wf' = wf \/ wf = "RUNNING",
           UNCHANGED <<txs, overlapped>>
    PROVE  Serial' /\ Unskipped'
<1>1. rows \in Rows /\ s \in RowState
  BY DEF ReverseTyped
<1>2. /\ \A u \in Task : Len(rows'[u]) = Len(rows[u]) /\ (rows'[u] = <<>> <=> rows[u] = <<>>)
      /\ \A u \in Task \ {t} : Won(rows, u) <=> Won(rows', u)
      /\ rows[t][i].state # "SUCCESS" => \A u \in Task : Won(rows, u) => Won(rows', u)
      /\ \A u \in Task : HasState(rows', u, {"SKIPPED"}) => HasState(rows, u, {"SKIPPED"})
      /\ Unsettled(rows')
  BY <1>1, ChangeStates
<1>3. \A u \in Task \ skipped' : Won(rows, u) => Won(rows', u)
  BY <1>2
<1>4. Unskipped'
  BY <1>2 DEF Unskipped, HasState
<1>5. ASSUME ~overlapped
      PROVE  OneEach' /\ \A x \in txs : Current(x)'
  <2>1. OneEach /\ \A x \in txs : Current(x)
    BY <1>5 DEF Serial
  <2>2. ASSUME NEW u \in Task
        PROVE  Len(rows'[u]) <= 1 /\ (rows'[u] # <<>> => Ready(rows, u)')
    <3>1. CASE rows[u] # <<>>
      BY <2>1, <1>2, <1>3, <3>1, EachStays
    <3>2. CASE rows[u] = <<>>
      BY <2>1, <1>2, <3>2 DEF OneEach
    <3> QED
      BY <3>1, <3>2
  <2>3. ASSUME NEW x \in txs
        PROVE  Current(x)'
    <3>1. Current(x) /\ (x.wf # "RUNNING" => wf' = wf)
      BY <2>1 DEF Current
    <3> QED
      BY <3>1, CurrentAfterChange
  <2> QED
    BY <2>2, <2>3 DEF OneEach
<1>6. Unsettled(rows)'
  BY <1>2 DEF Unsettled, HasState, RowState
<1> QED
  BY <1>4, <1>5, <1>6 DEF Serial, Goes

\* A step after which the executions and what was skipped are as before.
LEMMA SerialSame ==
    ASSUME ReverseTyped, ReverseTyped', doc' = doc, Serial, Unskipped,
           UNCHANGED <<rows, skipped, late>>, txs' \subseteq txs, overlapped => overlapped',
           wf' = wf \/ wf = "RUNNING"
    PROVE  Serial' /\ Unskipped'
<1>1. Doc /\ doc.target \in Task
  BY DocTyped
<1>2. /\ Satisfied(rows)' = Satisfied(rows)
      /\ \A t \in Task : Requires(t)' = Requires(t)
      /\ \A x : RowsAfter(rows, x)' = RowsAfter(rows, x)
      /\ \A x : Satisfied(RowsAfter(rows, x))' = Satisfied(RowsAfter(rows, x))
  BY <1>1, Primed
<1>3. Unskipped'
  BY DEF Unskipped, HasState
<1>4. ASSUME ~overlapped
      PROVE  OneEach' /\ (\A x \in txs' : Current(x)') /\ Goes'
  <2>1. OneEach /\ (\A x \in txs : Current(x)) /\ Goes
    BY <1>4 DEF Serial
  <2>2. \A u \in Task : Won(rows, u) => Won(rows', u)
    OBVIOUS
  <2>3. ASSUME NEW u \in Task
        PROVE  Len(rows'[u]) <= 1 /\ (rows'[u] # <<>> => Ready(rows, u)')
    <3>1. CASE rows[u] # <<>>
      BY <2>1, <2>2, <3>1, EachStays
    <3>2. CASE rows[u] = <<>>
      BY <2>1, <3>2 DEF OneEach
    <3> QED
      BY <3>1, <3>2
  <2>4. ASSUME NEW x \in txs'
        PROVE  Current(x)'
    <3>1. x \in txs /\ Current(x) /\ (x.wf # "RUNNING" => wf' = wf)
      BY <2>1 DEF Current
    <3>2. RowsAfter(rows', x) = RowsAfter(rows, x)
      OBVIOUS
    <3> QED
      BY <3>1, <3>2, CurrentStays
  <2>5. Goes'
    BY <2>1, <1>2 DEF Goes, Unsettled, HasState, RowState
  <2> QED
    BY <2>3, <2>4, <2>5 DEF OneEach
<1> QED
  BY <1>3, <1>4 DEF Serial


\* A transaction that looks, while no other one does.
LEMMA SerialLooks ==
    ASSUME ReverseTyped, ReverseTyped', doc' = doc, Serial, Unskipped, NEW x, TxOK(x), Looks(x)
    PROVE  Serial' /\ Unskipped'
<1>1. Doc /\ doc.target \in Task /\ rows \in Rows
  BY DocTyped DEF ReverseTyped
<1>2. rows' = rows /\ skipped' = skipped /\ late' = late /\ wf' = wf /\ x.wf = wf
  BY DEF Looks
<1>3. /\ Satisfied(rows)' = Satisfied(rows)
      /\ \A t \in Task : Requires(t)' = Requires(t)
      /\ RowsAfter(rows, x)' = RowsAfter(rows, x)
      /\ Satisfied(RowsAfter(rows, x))' = Satisfied(RowsAfter(rows, x))
  BY <1>1, <1>2, Primed
<1>4. Unskipped'
  BY <1>2 DEF Unskipped, HasState
<1>5. ASSUME ~overlapped'
      PROVE  ~overlapped /\ txs' = {x}
  BY <1>5 DEF Looks
<1>6. x.call.op = "done" => /\ x.call.task \in Task /\ x.call.arg \in ActionEnd
                            /\ x.call.row \in DOMAIN rows[x.call.task]
  BY DEF TxOK, Refers
<1>7. /\ RowsAfter(rows, x) \in Rows
      /\ \A u \in Task : RowsAfter(rows, x)[u] = <<>> <=> rows[u] = <<>>
  BY <1>1, <1>6, AfterStates
<1>8. Current(x)'
  <2>1. CASE wf \in ActionEnd
    BY <2>1, <1>2 DEF Current, Looks, ActionEnd
  <2>2. CASE wf \notin ActionEnd
    <3>1. x.found \in Findings(RowsAfter(rows, x))
      BY <2>2 DEF Looks
    <3>2. /\ Found(x.found) /\ DOMAIN x.found = Satisfied(RowsAfter(rows, x))
          /\ \A t \in DOMAIN x.found :
               /\ RowsAfter(rows, x)[t] = <<>>
               /\ \A u \in Requires(t) : HasState(RowsAfter(rows, x), u, {"SUCCESS"})
      BY <3>1, <1>1, <1>7, FindingsFacts
    <3>3. ASSUME NEW t \in DOMAIN x.found
          PROVE  rows'[t] = <<>> /\ Ready(RowsAfter(rows, x), t)'
      <4>1. t \in Task
        BY <3>2 DEF Found
      <4>2. Ready(RowsAfter(rows, x), t)' <=>
              \A u \in Requires(t) \ skipped : Won(RowsAfter(rows, x), u)
        BY <4>1, <1>2, <1>3 DEF Ready, Won, HasState
      <4> QED
        BY <4>1, <4>2, <3>2, <1>2, <1>7 DEF Won
    <3> QED
      BY <3>2, <3>3, <1>2, <1>3 DEF Current
  <2> QED
    BY <2>1, <2>2
<1>9. ASSUME ~overlapped'
      PROVE  OneEach' /\ Goes'
  <2>1. OneEach /\ Goes
    BY <1>5, <1>9 DEF Serial
  <2>2. \A u \in Task : Won(rows, u) => Won(rows', u)
    BY <1>2
  <2>3. ASSUME NEW u \in Task
        PROVE  Len(rows'[u]) <= 1 /\ (rows'[u] # <<>> => Ready(rows, u)')
    <3>1. CASE rows[u] # <<>>
      BY <2>1, <2>2, <3>1, <1>2, EachStays
    <3>2. CASE rows[u] = <<>>
      BY <2>1, <3>2, <1>2 DEF OneEach
    <3> QED
      BY <3>1, <3>2
  <2>4. Goes'
    BY <2>1, <1>2, <1>3 DEF Goes, Unsettled, HasState, RowState
  <2> QED
    BY <2>3, <2>4 DEF OneEach
<1> QED
  BY <1>4, <1>5, <1>8, <1>9 DEF Serial

\* Executions are added, for tasks whose requirements have succeeded.
LEMMA EachAdded ==
    ASSUME ReverseTyped, doc' = doc, OneEach, skipped \subseteq skipped',
           NEW rs \in Rows, NEW found, Found(found), Adds(rs, rows', found),
           \A u \in Task : Len(rs[u]) = Len(rows[u]) /\ (rs[u] = <<>> <=> rows[u] = <<>>),
           \A u \in Task \ skipped' : Won(rows, u) => Won(rs, u),
           \A t \in DOMAIN found :
             rows[t] = <<>> /\ \A u \in Requires(t) \ skipped' : Won(rs, u)
    PROVE  OneEach'
<1>1. /\ \A u \in Task : Won(rs, u) <=> Won(rows', u)
      /\ \A u \in Task : rows'[u] # <<>> => rs[u] # <<>> \/ u \in DOMAIN found
      /\ \A u \in DOMAIN found : rs[u] = <<>> => Len(rows'[u]) = 1
  BY AddStates
<1>2. Doc /\ doc.target \in Task
  BY DocTyped
<1>3. \A t \in Task : Requires(t) \in SUBSET Task /\ Requires(t)' = Requires(t)
  BY <1>2, RequiresTyped, Primed
<1>4. \A u \in Task \ skipped' : Won(rows, u) => Won(rows', u)
  BY <1>1
<1>5. ASSUME NEW u \in Task
      PROVE  Len(rows'[u]) <= 1 /\ (rows'[u] # <<>> => Ready(rows, u)')
  <2>1. CASE u \in DOMAIN found
    <3>1. Len(rows'[u]) = 1
      BY <2>1, <1>1
    <3>2. Ready(rows, u)' <=> \A v \in Requires(u) \ skipped' : Won(rows', v)
      BY <1>3 DEF Ready, Won, HasState
    <3>3. \A v \in Requires(u) \ skipped' : Won(rows', v)
      BY <2>1, <1>1, <1>3
    <3> QED
      BY <3>1, <3>2, <3>3
  <2>2. CASE u \notin DOMAIN found
    <3>1. rows'[u] = rs[u]
      BY <2>2 DEF Adds
    <3>2. CASE rows[u] # <<>>
      BY <3>1, <3>2, <1>4, EachStays
    <3>3. CASE rows[u] = <<>>
      BY <3>1, <3>3 DEF OneEach
    <3> QED
      BY <3>2, <3>3
  <2> QED
    BY <2>1, <2>2
<1> QED
  BY <1>5 DEF OneEach

\* The workflow starts with the tasks that require nothing.
LEMMA SerialStarts ==
    ASSUME ReverseTyped, ReverseTyped', doc' = doc, Serial, Unskipped, Starts
    PROVE  Serial' /\ Unskipped'
<1>1. Doc /\ doc.target \in Task /\ rows \in Rows
  BY DocTyped DEF ReverseTyped
<1>2. PICK found \in Findings(rows) : Adds(rows, rows', found)
  BY DEF Starts
<1>3. /\ Found(found) /\ DOMAIN found = Satisfied(rows)
      /\ \A t \in DOMAIN found :
           rows[t] = <<>> /\ \A u \in Requires(t) : HasState(rows, u, {"SUCCESS"})
  BY <1>1, FindingsFacts
<1>4. /\ \A u \in Task : HasState(rows', u, {"SKIPPED"}) => HasState(rows, u, {"SKIPPED"})
      /\ DOMAIN found # {} => Unsettled(rows')
      /\ DOMAIN found = {} => rows' = rows
  BY <1>1, <1>2, <1>3, AddStates
<1>5. skipped' = skipped /\ late' = late /\ overlapped' = overlapped /\ txs' = {} /\ txs = {}
  BY DEF Starts, ReverseTyped
<1>6. Unskipped'
  BY <1>4, <1>5 DEF Unskipped, HasState
<1>7. ASSUME ~overlapped
      PROVE  OneEach'
  <2>1. OneEach
    BY <1>7 DEF Serial
  <2>2. \A t \in DOMAIN found :
          rows[t] = <<>> /\ \A u \in Requires(t) \ skipped' : Won(rows, u)
    BY <1>3 DEF Won
  <2> QED
    BY <2>1, <2>2, <1>1, <1>2, <1>3, <1>5, EachAdded
<1>8. Goes'
  <2>1. Satisfied(rows)' = Satisfied(rows')
    BY <1>1, Primed
  <2>2. Unsettled(rows)' <=> Unsettled(rows')
    BY DEF Unsettled, HasState, RowState
  <2>3. CASE DOMAIN found = {}
    BY <2>1, <2>3, <1>3, <1>4 DEF Goes
  <2>4. CASE DOMAIN found # {}
    BY <2>2, <2>4, <1>4 DEF Goes
  <2> QED
    BY <2>3, <2>4
<1> QED
  BY <1>5, <1>6, <1>7, <1>8 DEF Serial


\* The completion of a task is committed.
LEMMA SerialCompletes ==
    ASSUME ReverseTyped, ReverseTyped', doc' = doc, Serial, Unskipped,
           NEW x, TxOK(x), CompletesTask(x)
    PROVE  Serial' /\ Unskipped'
<1>1. Doc /\ doc.target \in Task /\ rows \in Rows
  BY DocTyped DEF ReverseTyped
<1>2. /\ x \in txs /\ txs' = txs \ {x} /\ wf' = wf
      /\ overlapped' = overlapped /\ skipped' = skipped /\ late' = late
      /\ rows[x.call.task][x.call.row].state \in {"IDLE", "RUNNING"}
  BY DEF CompletesTask
<1>3. /\ x.call.op = "done" /\ x.call.task \in Task /\ x.call.arg \in ActionEnd
      /\ x.call.row \in DOMAIN rows[x.call.task] /\ x.call.arg \in RowState
  BY DEF TxOK, Refers, CompletesTask, RowState, Completed
<1> DEFINE rs == RowsAfter(rows, x)
<1>4. rs = With(rows, x.call.task, x.call.row, x.call.arg)
  BY <1>3 DEF RowsAfter
<1>5. Changes(rows, rs, x.call.task, x.call.row, x.call.arg) /\ rs \in Rows
  BY <1>1, <1>3, <1>4, WithChanges DEF Changes
<1>6. PICK found : /\ x.wf = "RUNNING" => found = x.found
                   /\ x.wf # "RUNNING" => DOMAIN found = {}
                   /\ Found(found) /\ Adds(rs, rows', found)
  BY DEF CompletesTask
<1> HIDE DEF rs
<1>7. x.call.arg # "SKIPPED" /\ rows[x.call.task][x.call.row].state # "SUCCESS"
  BY <1>2, <1>3 DEF ActionEnd
<1>8. /\ \A u \in Task : Len(rs[u]) = Len(rows[u]) /\ (rs[u] = <<>> <=> rows[u] = <<>>)
      /\ \A u \in Task : Won(rows, u) => Won(rs, u)
      /\ \A u \in Task : HasState(rs, u, {"SKIPPED"}) => HasState(rows, u, {"SKIPPED"})
  <2> DEFINE t == x.call.task
             i == x.call.row
             s == x.call.arg
  <2>1. /\ t \in Task /\ i \in DOMAIN rows[t] /\ s \in RowState /\ Changes(rows, rs, t, i, s)
        /\ s # "SKIPPED" /\ rows[t][i].state # "SUCCESS"
    BY <1>3, <1>5, <1>7
  <2> HIDE DEF t, i, s
  <2> QED
    BY <2>1, <1>1, ChangeStates
<1>9. /\ \A u \in Task : HasState(rows', u, {"SKIPPED"}) => HasState(rs, u, {"SKIPPED"})
      /\ DOMAIN found # {} => Unsettled(rows')
      /\ DOMAIN found = {} => rows' = rs
  BY <1>5, <1>6, AddStates
<1>10. Unskipped'
  BY <1>2, <1>8, <1>9 DEF Unskipped, HasState
<1>11. ASSUME ~overlapped
       PROVE  txs' = {} /\ OneEach' /\ Goes'
  <2>1. txs' = {} /\ OneEach /\ Current(x)
    BY <1>2, <1>11 DEF Serial
  <2>2. ASSUME NEW t \in DOMAIN found
        PROVE  rows[t] = <<>> /\ \A u \in Requires(t) \ skipped' : Won(rs, u)
    BY <1>2, <1>6, <2>1 DEF Current, Ready, rs
  <2>3. OneEach'
    BY <2>1, <2>2, <1>2, <1>5, <1>6, <1>8, EachAdded
  <2>4. Unsettled(rows)' <=> Unsettled(rows')
    BY DEF Unsettled, HasState, RowState
  <2>5. ASSUME wf = "RUNNING", DOMAIN found = {}
        PROVE  Satisfied(rows)' = {}
    <3>1. found = x.found /\ Satisfied(rs) \subseteq DOMAIN x.found
      BY <2>1, <2>5, <1>6 DEF Current, rs
    <3>2. Satisfied(rows)' = Satisfied(rows')
      BY <1>1, Primed
    <3> QED
      BY <3>1, <3>2, <2>5, <1>9
  <2>6. Goes'
    BY <2>4, <2>5, <1>2, <1>9 DEF Goes
  <2> QED
    BY <2>1, <2>3, <2>6
<1> QED
  BY <1>2, <1>10, <1>11 DEF Serial

\* The workflow is resumed.
LEMMA SerialResumes ==
    ASSUME ReverseTyped, ReverseTyped', doc' = doc, Serial, Unskipped,
           NEW x, TxOK(x), Resumes(x)
    PROVE  Serial' /\ Unskipped'
<1>1. Doc /\ doc.target \in Task /\ rows \in Rows
  BY DocTyped DEF ReverseTyped
<1>2. /\ x \in txs /\ txs' = txs \ {x} /\ x.call.op = "resume" /\ x.wf = "PAUSED"
      /\ overlapped' = overlapped /\ skipped' = skipped /\ late' = late
      /\ Adds(rows, rows', x.found) /\ Found(x.found)
  BY DEF Resumes, TxOK
<1>3. RowsAfter(rows, x) = rows
  BY <1>2 DEF RowsAfter
<1>4. /\ \A u \in Task : HasState(rows', u, {"SKIPPED"}) => HasState(rows, u, {"SKIPPED"})
      /\ DOMAIN x.found # {} => Unsettled(rows')
      /\ DOMAIN x.found = {} => rows' = rows
  BY <1>1, <1>2, AddStates
<1>5. Unskipped'
  BY <1>2, <1>4 DEF Unskipped, HasState
<1>6. ASSUME ~overlapped
      PROVE  txs' = {} /\ OneEach' /\ Goes'
  <2>1. txs' = {} /\ OneEach /\ Current(x)
    BY <1>2, <1>6 DEF Serial
  <2>2. ASSUME NEW t \in DOMAIN x.found
        PROVE  rows[t] = <<>> /\ \A u \in Requires(t) \ skipped' : Won(rows, u)
    BY <1>2, <1>3, <2>1 DEF Current, Ready
  <2>3. OneEach'
    BY <2>1, <2>2, <1>1, <1>2, EachAdded
  <2>4. Unsettled(rows)' <=> Unsettled(rows')
    BY DEF Unsettled, HasState, RowState
  <2>5. ASSUME DOMAIN x.found = {}
        PROVE  Satisfied(rows)' = {}
    <3>1. Satisfied(rows) \subseteq DOMAIN x.found
      BY <2>1, <1>2, <1>3 DEF Current
    <3>2. Satisfied(rows)' = Satisfied(rows')
      BY <1>1, Primed
    <3> QED
      BY <3>1, <3>2, <2>5, <1>4
  <2>6. Goes'
    BY <2>4, <2>5, <1>4 DEF Goes
  <2> QED
    BY <2>1, <2>3, <2>6
<1> QED
  BY <1>2, <1>5, <1>6 DEF Serial

\* A failed task is run again, or skipped.
LEMMA SerialAgain ==
    ASSUME ReverseTyped, ReverseTyped', doc' = doc, Serial, Unskipped, Again
    PROVE  Serial' /\ Unskipped'
<1>1. Doc /\ doc.target \in Task /\ rows \in Rows
  BY DocTyped DEF ReverseTyped
<1>2. /\ txs' = txs /\ (~overlapped' => ~overlapped /\ txs = {})
      /\ skipped \subseteq skipped'
  BY DEF Again
<1> DEFINE Of(t, i) ==
      \/ /\ rows' = rows /\ skipped' = skipped
         /\ late' = (late \/ rows[t][i].state # "ERROR")
      \/ /\ skipped' = skipped \cup {t} /\ late' = late
         /\ \E found \in Findings(rows) : Adds(With(rows, t, i, "SKIPPED"), rows', found)
<1>20. PICK t \in Task : \E i \in DOMAIN rows[t] : Of(t, i)
  BY DEF Again
<1>3. PICK i \in DOMAIN rows[t] : Of(t, i)
  BY <1>20
<1>4. Unskipped'
  <2>1. CASE rows' = rows
    BY <2>1, <1>2 DEF Unskipped, HasState
  <2>2. CASE skipped' # {}
    BY <2>2 DEF Unskipped
  <2> QED
    BY <2>1, <2>2, <1>3
<1>5. Goes'
  <2>1. CASE skipped' # {} \/ late'
    BY <2>1 DEF Goes
  <2>2. CASE rows' = rows /\ rows[t][i].state = "ERROR"
    <3>1. Unsettled(rows)'
      BY <2>2 DEF Unsettled, HasState, RowState, Completed, ActionEnd
    <3> QED
      BY <3>1 DEF Goes
  <2> QED
    BY <2>1, <2>2, <1>3
<1>6. ASSUME OneEach
      PROVE  OneEach'
  <2>1. CASE rows' = rows
    <3>1. \A u \in Task : Won(rows, u) => Won(rows', u)
      BY <2>1
    <3>2. ASSUME NEW u \in Task
          PROVE  Len(rows'[u]) <= 1 /\ (rows'[u] # <<>> => Ready(rows, u)')
      <4>1. CASE rows[u] # <<>>
        BY <2>1, <3>1, <4>1, <1>2, <1>6, EachStays
      <4>2. CASE rows[u] = <<>>
        BY <2>1, <4>2, <1>6 DEF OneEach
      <4> QED
        BY <4>1, <4>2
    <3> QED
      BY <3>2 DEF OneEach
  <2>2. ASSUME skipped' = skipped \cup {t}, NEW found \in Findings(rows),
               Adds(With(rows, t, i, "SKIPPED"), rows', found)
        PROVE  OneEach'
    <3> DEFINE rs == With(rows, t, i, "SKIPPED")
    <3>1. "SKIPPED" \in RowState
      BY DEF RowState, Completed
    <3>2. Changes(rows, rs, t, i, "SKIPPED") /\ rs \in Rows
      BY <3>1, <1>1, <1>3, WithChanges DEF Changes
    <3>3. Adds(rs, rows', found)
      BY <2>2
    <3> HIDE DEF rs
    <3>4. /\ \A u \in Task : Len(rs[u]) = Len(rows[u]) /\ (rs[u] = <<>> <=> rows[u] = <<>>)
          /\ \A u \in Task \ {t} : Won(rows, u) <=> Won(rs, u)
      BY <3>1, <3>2, <1>1, <1>3, ChangeStates
    <3>5. /\ Found(found)
          /\ \A v \in DOMAIN found :
               rows[v] = <<>> /\ \A u \in Requires(v) : HasState(rows, u, {"SUCCESS"})
      BY <1>1, FindingsFacts
    <3>6. \A u \in Task \ skipped' : Won(rows, u) => Won(rs, u)
      BY <3>4, <2>2
    <3>7. ASSUME NEW v \in DOMAIN found
          PROVE  rows[v] = <<>> /\ \A u \in Requires(v) \ skipped' : Won(rs, u)
      <4>1. v \in Task /\ Requires(v) \in SUBSET Task
        BY <3>5, <1>1, RequiresTyped DEF Found
      <4> QED
        BY <4>1, <3>5, <3>6 DEF Won
    <3> QED
      BY <3>2, <3>3, <3>4, <3>5, <3>6, <3>7, <1>2, <1>6, EachAdded
  <2> QED
    BY <2>1, <2>2, <1>3
<1> QED
  BY <1>2, <1>4, <1>5, <1>6 DEF Serial

\* Every step.
LEMMA SerialNext ==
    ASSUME ReverseTyped, ReverseTyped', doc' = doc, Serial, Unskipped, Form
    PROVE  Serial' /\ Unskipped'
<1>1. CASE NothingNew
  BY <1>1, SerialSame DEF NothingNew
<1>2. CASE Starts
  BY <1>2, SerialStarts
<1>3. CASE Runs
  <2>1. PICK t \in Task : \E i \in DOMAIN rows[t] :
          rows[t][i].state # "SUCCESS" /\ Changes(rows, rows', t, i, "RUNNING")
    BY <1>3 DEF Runs
  <2>2. "RUNNING" \in RowState \ {"SUCCESS", "SKIPPED"}
    BY DEF RowState
  <2> QED
    BY <2>1, <2>2, <1>3, SerialChange DEF Runs
<1>4. CASE Checks
  BY <1>4, SerialSame DEF Checks
<1>5. CASE Pauses
  BY <1>5, SerialSame DEF Pauses
<1>6. CASE Again
  BY <1>6, SerialAgain
<1>7. ASSUME NEW x, TxOK(x), Looks(x) \/ Loses(x) \/ CompletesTask(x) \/ Resumes(x)
      PROVE  Serial' /\ Unskipped'
  <2>1. CASE Looks(x)
    BY <2>1, <1>7, SerialLooks
  <2>2. CASE Loses(x)
    BY <2>2, SerialSame DEF Loses
  <2>3. CASE CompletesTask(x)
    BY <2>3, <1>7, SerialCompletes
  <2>4. CASE Resumes(x)
    BY <2>4, <1>7, SerialResumes
  <2> QED
    BY <1>7, <2>1, <2>2, <2>3, <2>4
<1> QED
  BY <1>1, <1>2, <1>3, <1>4, <1>5, <1>6, <1>7 DEF Form

-----------------------------------------------------------------------------
(* The target is reached.                                                   *)

\* Whether there is a cycle follows from the document.
LEMMA CyclicStays == ASSUME Doc, doc.target \in Task, doc' = doc PROVE Cyclic' <=> Cyclic
<1>1. /\ Needs(doc.target)' = Needs(doc.target) /\ Needs(doc.target) \subseteq Task
      /\ \A t \in Task : Needs(t)' = Needs(t)
  BY NeedsStay, NeedsFacts
<1>2. \A u, v \in Task : Before(u, v)' <=> Before(u, v)
  BY <1>1 DEF Before
<1> QED
  BY <1>1, <1>2 DEF Cyclic

\* Nothing can be started although everything has succeeded: then the target has, or
\* some of the tasks that it needs wait for each other.
LEMMA NothingLeft ==
    ASSUME ReverseTyped, wf # "NONE", Unskipped, skipped = {}, ~Cyclic,
           Verdict(rows) = "SUCCESS", Satisfied(rows) = {} \/ Unsettled(rows)
    PROVE  Won(rows, doc.target)
<1>1. Doc /\ doc.target \in Task /\ rows \in Rows /\ Valid /\ doc.target \in doc.tasks
  BY DocTyped, HasStarted DEF ReverseTyped
<1>2. /\ doc.target \in Needs(doc.target) /\ Needs(doc.target) \subseteq Task
      /\ Closed(Needs(doc.target)) /\ Needs(doc.target) \subseteq doc.tasks
  BY <1>1, NeedsFacts DEF Closed, Direct
<1>3. ASSUME NEW t \in Task, NEW i \in DOMAIN rows[t]
      PROVE  rows[t][i].state = "SUCCESS"
  <2>1. rows[t][i].state \in RowState
    BY <1>1, RowTyped DEF Row
  <2>2. /\ ~HasState(rows, t, Incomplete) /\ ~HasState(rows, t, {"CANCELLED"})
        /\ ~HasState(rows, t, {"ERROR"})
    BY DEF Verdict
  <2>3. ~HasState(rows, t, {"SKIPPED"})
    BY DEF Unskipped
  <2> QED
    BY <2>1, <2>2, <2>3 DEF HasState, Incomplete, RowState, Completed, ActionEnd
<1>4. ~Unsettled(rows) /\ Satisfied(rows) = {}
  BY <1>3 DEF Unsettled, HasState
<1>5. ASSUME NEW t \in Task, ~Won(rows, t)
      PROVE  rows[t] = <<>>
  <2>1. Len(rows[t]) \in Nat /\ DOMAIN rows[t] = 1..Len(rows[t]) /\ rows[t] \in Seq(Row)
    BY <1>1, RowTyped DEF Rows
  <2>2. DOMAIN rows[t] = {}
    BY <1>3, <1>5 DEF Won, HasState
  <2>3. Len(rows[t]) = 0
    <3>1. 1 \notin 1..Len(rows[t])
      BY <2>1, <2>2
    <3> QED
      BY <2>1, <3>1
  <2> QED
    BY <2>1, <2>3, EmptySeq
<1>6. ASSUME ~Won(rows, doc.target)
      PROVE  FALSE
  <2> DEFINE M == {t \in Needs(doc.target) : rows[t] = <<>>}
  <2>1. M \subseteq Task /\ doc.target \in M
    BY <1>1, <1>2, <1>5, <1>6
  <2>2. ASSUME NEW m \in M
        PROVE  \E n \in M : n \in Direct(m)
    <3>1. m \in Needs(doc.target) /\ rows[m] = <<>> /\ m \in Task /\ m \in doc.tasks
      BY <1>2
    <3>2. PICK u \in Requires(m) : ~HasState(rows, u, {"SUCCESS"})
      BY <3>1, <1>4 DEF Satisfied, NotStarted
    <3>3. u \in Direct(m) /\ u \in Task
      BY <3>1, <3>2, <1>1, RequiresTyped DEF Valid, Direct
    <3>4. u \in Needs(doc.target) /\ rows[u] = <<>>
      BY <3>1, <3>2, <3>3, <1>2, <1>5 DEF Closed, Won
    <3> QED
      BY <3>3, <3>4
  <2> HIDE DEF M
  <2>3. PICK u, v \in M : Before(u, v) /\ Before(v, u)
    BY <2>1, <2>2, <1>1, CycleExists
  <2>4. u \in Needs(doc.target) /\ v \in Needs(doc.target)
    BY DEF M
  <2> QED
    BY <2>3, <2>4 DEF Cyclic
<1> QED
  BY <1>6

\* The target is reached whichever step ends the workflow, and no step takes it back.
LEMMA TargetNext ==
    ASSUME ReverseTyped, doc' = doc, Serial, Unskipped, TargetReached, Form
    PROVE  TargetReached'
<1>1. Doc /\ doc.target \in Task /\ rows \in Rows
  BY DocTyped DEF ReverseTyped
<1> SUFFICES ASSUME wf' = "SUCCESS", skipped' = {}, ~late', ~Cyclic, ~overlapped'
             PROVE  Won(rows', doc.target)
  BY <1>1, CyclicStays DEF TargetReached, Won, HasState
<1>2. ASSUME wf = "SUCCESS", skipped = {}, ~late, ~overlapped
      PROVE  Won(rows, doc.target)
  BY <1>2 DEF TargetReached, Won
<1>3. CASE NothingNew
  BY <1>2, <1>3 DEF NothingNew
<1>4. CASE Starts \/ Pauses \/ Again
  BY <1>4 DEF Starts, Pauses, Again
<1>5. CASE Runs
  <2>1. wf = "SUCCESS" /\ skipped = {} /\ ~late /\ ~overlapped
    BY <1>5 DEF Runs
  <2>2. PICK t \in Task : \E i \in DOMAIN rows[t] :
          rows[t][i].state # "SUCCESS" /\ Changes(rows, rows', t, i, "RUNNING")
    BY <1>5 DEF Runs
  <2>3. PICK i \in DOMAIN rows[t] :
          rows[t][i].state # "SUCCESS" /\ Changes(rows, rows', t, i, "RUNNING")
    BY <2>2
  <2> DEFINE s == "RUNNING"
  <2>4. s \in RowState /\ Changes(rows, rows', t, i, s)
    BY <2>3 DEF RowState
  <2> HIDE DEF s
  <2>5. \A u \in Task : Won(rows, u) => Won(rows', u)
    BY <2>3, <2>4, ChangeWins
  <2> QED
    BY <2>1, <2>5, <1>1, <1>2
<1>6. CASE Checks
  <2>1. /\ wf = "RUNNING" /\ Verdict(rows) = "SUCCESS" /\ rows' = rows
        /\ skipped = {} /\ ~late /\ ~overlapped
    BY <1>6 DEF Checks
  <2>2. Satisfied(rows) = {} \/ Unsettled(rows)
    BY <2>1 DEF Serial, Goes
  <2> QED
    BY <2>1, <2>2, NothingLeft
<1>7. ASSUME NEW x, TxOK(x), Looks(x) \/ Loses(x)
      PROVE  Won(rows', doc.target)
  <2>1. wf' = wf /\ rows' = rows /\ skipped' = skipped /\ late' = late
    BY <1>7 DEF Looks, Loses
  <2>2. ~overlapped
    <3>1. CASE Looks(x)
      BY <3>1 DEF Looks
    <3>2. CASE Loses(x)
      BY <3>2 DEF Loses
    <3> QED
      BY <1>7, <3>1, <3>2
  <2> QED
    BY <2>1, <2>2, <1>2
<1>8. ASSUME NEW x, TxOK(x), CompletesTask(x)
      PROVE  Won(rows', doc.target)
  <2>1. wf = "SUCCESS" /\ skipped = {} /\ ~late /\ ~overlapped
    BY <1>8 DEF CompletesTask
  <2> DEFINE t == x.call.task
             i == x.call.row
             s == x.call.arg
  <2>2. /\ t \in Task /\ i \in DOMAIN rows[t] /\ s \in RowState
        /\ rows[t][i].state # "SUCCESS" /\ RowsAfter(rows, x) = With(rows, t, i, s)
    BY <1>8 DEF CompletesTask, TxOK, Refers, RowState, Completed, RowsAfter
  <2>3. PICK found : Found(found) /\ Adds(RowsAfter(rows, x), rows', found)
    BY <1>8 DEF CompletesTask
  <2> HIDE DEF t, i, s
  <2>4. Changes(rows, RowsAfter(rows, x), t, i, s) /\ RowsAfter(rows, x) \in Rows
    BY <2>2, <1>1, WithChanges DEF Changes
  <2>5. \A u \in Task : Won(rows, u) => Won(RowsAfter(rows, x), u)
    BY <2>2, <2>4, ChangeWins
  <2>6. \A u \in Task : Won(RowsAfter(rows, x), u) => Won(rows', u)
    BY <2>3, <2>4, AddStates
  <2> QED
    BY <2>1, <2>5, <2>6, <1>1, <1>2
<1>9. ASSUME NEW x, TxOK(x), Resumes(x)
       PROVE  Won(rows', doc.target)
  <2>1. /\ x \in txs /\ x.call.op = "resume" /\ x.wf = "PAUSED" /\ wf = "PAUSED"
        /\ Adds(rows, rows', x.found) /\ Found(x.found) /\ skipped = {} /\ ~late /\ ~overlapped
    BY <1>9 DEF Resumes, TxOK
  <2>2. DOMAIN x.found = {} /\ Verdict(rows) = "SUCCESS"
    BY <1>9 DEF Resumes
  <2>3. rows' = rows
    BY <2>1, <2>2, <1>1, AddStates
  <2>4. Current(x) /\ RowsAfter(rows, x) = rows
    BY <2>1 DEF Serial, RowsAfter
  <2>5. Satisfied(rows) = {}
    BY <2>1, <2>2, <2>4 DEF Current
  <2> QED
    BY <2>1, <2>2, <2>3, <2>5, NothingLeft
<1> QED
  BY <1>3, <1>4, <1>5, <1>6, <1>7, <1>8, <1>9 DEF Form

-----------------------------------------------------------------------------
(* The values that reach a task, if the variable keeps its kind: every task *)
(* has one version of it, and that is the greatest of those which the tasks *)
(* that it requires hand on, whoever looked for it and however often.       *)

Pub(u) == IF doc.publish[u] = "absent" THEN 0 ELSE 1

\* The contexts of the executions of t, and those that were found for it.
CarriedBy(t) == {rows[t][i].ctx : i \in DOMAIN rows[t]}
                \cup {x.found[t] : x \in {y \in txs : t \in DOMAIN y.found}}

Good(val, K, t, c) ==
    /\ Fine(c, K) /\ c.versions[K] = val[t]
    /\ \A u \in Requires(t) : rows[u] # <<>> /\ val[t] >= val[u] + Pub(u)
    /\ val[t] = 0 \/ \E u \in Requires(t) : val[t] = val[u] + Pub(u)
    /\ c.by # Nobody => c.by \in Publishers /\ rows[c.by] # <<>> /\ val[t] = val[c.by] + 1

Newest(K) == \E val \in [Task -> Nat] : \A t \in Task : \A c \in CarriedBy(t) : Good(val, K, t, c)

\* The variable is of the kind K whoever publishes it.
OneKind(K) == \A u \in Publishers : doc.publish[u] = K

Versions == \A K \in Kind : OneKind(K) => Newest(K)

\* A task that has an execution is one of the document.
LEMMA RowsDefined ==
    ASSUME ReverseTyped, NEW u \in Task, rows[u] # <<>>
    PROVE  u \in doc.tasks
<1>1. Doc /\ doc.target \in Task /\ doc.target \in doc.tasks /\ u \in Needs(doc.target)
  BY DocTyped, HasStarted DEF ReverseTyped
<1>2. Needs(doc.target) \subseteq doc.tasks
  BY <1>1, NeedsFacts DEF Closed, Direct
<1> QED
  BY <1>1, <1>2

\* What is good stays so as long as no execution is lost.
LEMMA GoodStays ==
    ASSUME Doc, doc' = doc, \A u \in Task : rows[u] # <<>> => rows'[u] # <<>>,
           NEW val, NEW K, NEW t \in Task, NEW c, Good(val, K, t, c)
    PROVE  Good(val, K, t, c)'
<1>1. Requires(t)' = Requires(t) /\ Requires(t) \in SUBSET Task
  BY RequiresTyped DEF Requires
<1>2. \A u : Pub(u)' = Pub(u)
  BY DEF Pub
<1>3. Publishers' = Publishers /\ Publishers \subseteq Task
  BY DEF Publishers, Doc, DocumentType
<1>4. Fine(c, K)'
  BY DEF Good, Fine
<1> QED
  BY <1>1, <1>2, <1>3, <1>4 DEF Good

\* No context is new.
LEMMA VersionsStay ==
    ASSUME ReverseTyped, doc' = doc, Versions,
           \A t \in Task : rows[t] # <<>> => rows'[t] # <<>>,
           \A t \in Task : CarriedBy(t)' \subseteq CarriedBy(t)
    PROVE  Versions'
<1>1. Doc
  BY DocTyped
<1> SUFFICES ASSUME NEW K \in Kind, OneKind(K)'
             PROVE  Newest(K)'
  BY DEF Versions
<1>2. OneKind(K)
  BY DEF OneKind, Publishers
<1>3. PICK val \in [Task -> Nat] : \A t \in Task : \A c \in CarriedBy(t) : Good(val, K, t, c)
  BY <1>2 DEF Versions, Newest
<1>4. \A t \in Task : \A c \in CarriedBy(t)' : Good(val, K, t, c)'
  BY <1>1, <1>3, GoodStays
<1> QED
  BY <1>4 DEF Newest

\* What an execution that succeeded hands on.
LEMMA HandedGood ==
    ASSUME ReverseTyped, NEW K \in Kind, OneKind(K), NEW val \in [Task -> Nat],
           \A t \in Task : \A c \in CarriedBy(t) : Good(val, K, t, c),
           NEW u \in Task, NEW i \in DOMAIN rows[u]
    PROVE  LET h == Outbound(rows[u][i].ctx, u, doc.publish[u]) IN
           /\ Fine(h, K) /\ h.versions[K] = val[u] + Pub(u)
           /\ h.by # Nobody => /\ h.by \in Publishers /\ rows[h.by] # <<>>
                               /\ h.versions[K] = val[h.by] + 1
<1> DEFINE d == rows[u][i].ctx
           h == Outbound(d, u, doc.publish[u])
<1>1. Doc /\ doc.publish[u] \in Kind /\ rows[u] # <<>> /\ val[u] \in Nat
  BY DocTyped, RequiresTyped
<1>2. u \in doc.tasks
  BY <1>1, RowsDefined
<1>3. Good(val, K, u, d)
  BY DEF CarriedBy
<1>4. Fine(d, K) /\ d \in Context /\ d.versions[K] = val[u]
  BY <1>3 DEF Good, Fine
<1>5. CASE doc.publish[u] = "absent"
  <2>1. h = d /\ Pub(u) = 0
    BY <1>5 DEF Outbound, Pub
  <2> QED
    BY <2>1, <1>1, <1>3, <1>4 DEF Good
<1>6. CASE doc.publish[u] # "absent"
  <2>1. u \in Publishers /\ doc.publish[u] = K /\ Pub(u) = 1
    BY <1>2, <1>6 DEF Publishers, OneKind, Pub
  <2>2. h \in Context
    BY <1>1, <1>4, OutboundTyped
  <2>3. d.versions \in [Kind -> Nat]
    BY <1>4 DEF Context
  <2>4. h.kind = K /\ h.by = u /\ h.versions = [d.versions EXCEPT ![K] = NextVersion(@)]
    BY <2>1, <1>6 DEF Outbound
  <2>5. h.versions[K] = val[u] + 1
    BY <2>3, <2>4, <1>4 DEF NextVersion
  <2>6. Fine(h, K)
    BY <2>1, <2>2, <2>4, <1>6 DEF Fine
  <2> QED
    BY <2>1, <2>4, <2>5, <2>6, <1>1
<1> QED
  BY <1>5, <1>6

\* What is found for a task, seen from the versions that there are.
LEMMA FoundGood ==
    ASSUME ReverseTyped, NEW K \in Kind, OneKind(K), NEW val \in [Task -> Nat],
           \A t \in Task : \A c \in CarriedBy(t) : Good(val, K, t, c),
           NEW rs \in Rows, NEW found \in Findings(rs),
           \A u \in Task : /\ DOMAIN rs[u] = DOMAIN rows[u]
                           /\ \A j \in DOMAIN rows[u] : rs[u][j].ctx = rows[u][j].ctx,
           NEW t \in DOMAIN found
    PROVE  LET c == found[t] IN
           /\ t \in Task /\ Fine(c, K) /\ c.versions[K] \in Nat
           /\ \A u \in Requires(t) : rows[u] # <<>> /\ c.versions[K] >= val[u] + Pub(u)
           /\ c.versions[K] = 0 \/ \E u \in Requires(t) : c.versions[K] = val[u] + Pub(u)
           /\ c.by # Nobody => /\ c.by \in Publishers /\ rows[c.by] # <<>>
                               /\ c.versions[K] = val[c.by] + 1
<1> DEFINE c == found[t]
<1>1. Doc
  BY DocTyped
<1>2. /\ Found(found) /\ t \in Task
      /\ c \in Inbound(rs, t) /\ \A u \in Requires(t) : HasState(rs, u, {"SUCCESS"})
  BY <1>1, FindingsFacts DEF Found
<1>3. Requires(t) \in SUBSET Task
  BY <1>1, <1>2, RequiresTyped
<1>4. ASSUME NEW u \in Requires(t), NEW i, Succeeded(rs, u, i)
      PROVE  LET h == Handed(rs, u, i) IN
             /\ Fine(h, K) /\ h.versions[K] = val[u] + Pub(u)
             /\ h.by # Nobody => /\ h.by \in Publishers /\ rows[h.by] # <<>>
                                 /\ h.versions[K] = val[h.by] + 1
  <2>1. u \in Task /\ i \in DOMAIN rows[u] /\ rs[u][i].ctx = rows[u][i].ctx
    BY <1>3, <1>4 DEF Succeeded
  <2>2. Handed(rs, u, i) = Outbound(rows[u][i].ctx, u, doc.publish[u])
    BY <2>1 DEF Handed
  <2> QED
    BY <2>1, <2>2, HandedGood
<1>5. ASSUME NEW u \in Requires(t)
      PROVE  rows[u] # <<>> /\ \E i : Succeeded(rs, u, i)
  <2>1. PICK i \in DOMAIN rs[u] : rs[u][i].state = "SUCCESS"
    BY <1>2 DEF HasState
  <2>2. rows[u] # <<>>
    BY <2>1, <1>3
  <2> QED
    BY <2>1, <2>2 DEF Succeeded
<1> HIDE DEF c
<1>6. /\ c \in Context /\ Fine(c, K)
      /\ \/ c = EmptyContext
         \/ \E u \in Requires(t) : \E i : Succeeded(rs, u, i) /\ SameValue(c, Handed(rs, u, i), K)
      /\ \A u \in Requires(t) : \A i :
           Succeeded(rs, u, i) => c.versions[K] >= Handed(rs, u, i).versions[K]
  BY <1>1, <1>2, <1>4, InboundNewest
<1>7. c.versions[K] \in Nat
  BY <1>6 DEF Context
<1>8. \A u \in Requires(t) : rows[u] # <<>> /\ c.versions[K] >= val[u] + Pub(u)
  BY <1>4, <1>5, <1>6
<1>9. /\ c.versions[K] = 0 \/ \E u \in Requires(t) : c.versions[K] = val[u] + Pub(u)
      /\ c.by # Nobody => /\ c.by \in Publishers /\ rows[c.by] # <<>>
                          /\ c.versions[K] = val[c.by] + 1
  <2>1. CASE c = EmptyContext
    <3>1. c.by = Nobody /\ c.versions[K] = 0
      BY <2>1 DEF EmptyContext
    <3> QED
      BY <3>1
  <2>2. ASSUME NEW u \in Requires(t), NEW i, Succeeded(rs, u, i),
               SameValue(c, Handed(rs, u, i), K)
        PROVE  /\ \E v \in Requires(t) : c.versions[K] = val[v] + Pub(v)
               /\ c.by # Nobody => /\ c.by \in Publishers /\ rows[c.by] # <<>>
                                   /\ c.versions[K] = val[c.by] + 1
    BY <2>2, <1>4 DEF SameValue
  <2> QED
    BY <1>6, <2>1, <2>2
<1> QED
  BY <1>2, <1>6, <1>7, <1>8, <1>9 DEF c


\* Two versions that are the least ones after the same tasks are the same.
LEMMA SameVersion ==
    ASSUME NEW R, NEW f, \A u \in R : f[u] \in Nat, NEW a \in Nat, NEW b \in Nat,
           \A u \in R : a >= f[u] /\ b >= f[u],
           a = 0 \/ \E u \in R : a = f[u],
           b = 0 \/ \E u \in R : b = f[u]
    PROVE  a = b
<1>1. a <= b
  <2>1. CASE a = 0
    BY <2>1
  <2>2. ASSUME NEW u \in R, a = f[u]
        PROVE  a <= b
    BY <2>2
  <2> QED
    BY <2>1, <2>2
<1>2. b <= a
  <2>1. CASE b = 0
    BY <2>1
  <2>2. ASSUME NEW u \in R, b = f[u]
        PROVE  b <= a
    BY <2>2
  <2> QED
    BY <2>1, <2>2
<1> QED
  BY <1>1, <1>2

\* The only new contexts are those that are found now.
LEMMA VersionsFound ==
    ASSUME ReverseTyped, doc' = doc, Versions,
           NEW rs \in Rows, NEW found \in Findings(rs),
           \A u \in Task : /\ DOMAIN rs[u] = DOMAIN rows[u]
                           /\ \A j \in DOMAIN rows[u] : rs[u][j].ctx = rows[u][j].ctx,
           \A t \in Task : rows[t] # <<>> => rows'[t] # <<>>,
           \A t \in Task : \A c \in CarriedBy(t)' :
             c \in CarriedBy(t) \/ (t \in DOMAIN found /\ c = found[t])
    PROVE  Versions'
<1>1. Doc
  BY DocTyped
<1> SUFFICES ASSUME NEW K \in Kind, OneKind(K)'
             PROVE  Newest(K)'
  BY DEF Versions
<1>2. OneKind(K)
  BY DEF OneKind, Publishers
<1>3. PICK val \in [Task -> Nat] : \A t \in Task : \A c \in CarriedBy(t) : Good(val, K, t, c)
  BY <1>2 DEF Versions, Newest
<1> DEFINE given == [t \in Task |-> IF t \in DOMAIN found /\ CarriedBy(t) = {}
                                    THEN found[t].versions[K] ELSE val[t]]
<1>4. ASSUME NEW t \in DOMAIN found
      PROVE  LET c == found[t] IN
             /\ t \in Task /\ Fine(c, K) /\ c.versions[K] \in Nat
             /\ \A u \in Requires(t) : rows[u] # <<>> /\ c.versions[K] >= val[u] + Pub(u)
             /\ c.versions[K] = 0 \/ \E u \in Requires(t) : c.versions[K] = val[u] + Pub(u)
             /\ c.by # Nobody => /\ c.by \in Publishers /\ rows[c.by] # <<>>
                                 /\ c.versions[K] = val[c.by] + 1
  BY <1>2, <1>3, FoundGood
<1>15. given \in [Task -> Nat]
  BY <1>4
<1>5. PICK new \in [Task -> Nat] : new = given
  BY <1>15
<1>6. /\ \A t \in Task : CarriedBy(t) # {} => new[t] = val[t]
      /\ \A t \in DOMAIN found : CarriedBy(t) = {} => new[t] = found[t].versions[K]
  BY <1>4, <1>5
<1>7. \A u \in Task : rows[u] # <<>> => CarriedBy(u) # {}
  <2> SUFFICES ASSUME NEW u \in Task, rows[u] # <<>>
               PROVE  CarriedBy(u) # {}
    OBVIOUS
  <2>1. rows \in Rows /\ rows[u] \in Seq(Row)
    BY DEF ReverseTyped, Rows
  <2>2. Len(rows[u]) \in Nat /\ DOMAIN rows[u] = 1..Len(rows[u]) /\ Len(rows[u]) # 0
    BY <2>1, RowTyped, EmptySeq
  <2>3. 1 \in DOMAIN rows[u]
    BY <2>2
  <2>4. rows[u][1].ctx \in CarriedBy(u)
    BY <2>3 DEF CarriedBy
  <2> QED
    BY <2>4
<1>8. \A t \in Task : Requires(t) \in SUBSET Task
  BY <1>1, RequiresTyped
<1>9. Publishers \subseteq Task
  BY <1>1 DEF Publishers, Doc, DocumentType
<1>10. \A u \in Task : Pub(u) \in Nat
  BY DEF Pub
<1> HIDE DEF given
<1>11. ASSUME NEW t \in Task, NEW c \in CarriedBy(t)
       PROVE  Good(new, K, t, c)
  <2>1. Good(val, K, t, c)
    BY <1>3
  <2>2. new[t] = val[t]
    BY <1>6
  <2>3. /\ \A u \in Requires(t) : rows[u] # <<>> /\ new[u] = val[u]
        /\ c.by # Nobody => c.by \in Publishers /\ rows[c.by] # <<>> /\ new[c.by] = val[c.by]
    BY <2>1, <1>6, <1>7, <1>8, <1>9 DEF Good
  <2> QED
    BY <2>1, <2>2, <2>3 DEF Good
<1>12. ASSUME NEW t \in DOMAIN found
       PROVE  Good(new, K, t, found[t])
  <2> DEFINE c == found[t]
             f == [u \in Task |-> val[u] + Pub(u)]
  <2>1. /\ t \in Task /\ Fine(c, K) /\ c.versions[K] \in Nat
        /\ \A u \in Requires(t) : rows[u] # <<>> /\ c.versions[K] >= val[u] + Pub(u)
        /\ c.versions[K] = 0 \/ \E u \in Requires(t) : c.versions[K] = val[u] + Pub(u)
        /\ c.by # Nobody => /\ c.by \in Publishers /\ rows[c.by] # <<>>
                            /\ c.versions[K] = val[c.by] + 1
    BY <1>4
  <2>2. /\ \A u \in Requires(t) : new[u] = val[u]
        /\ c.by # Nobody => new[c.by] = val[c.by]
    BY <2>1, <1>6, <1>7, <1>8, <1>9
  <2>3. CASE CarriedBy(t) = {}
    <3>1. new[t] = c.versions[K]
      BY <2>1, <2>3, <1>6
    <3> QED
      BY <2>1, <2>2, <3>1 DEF Good
  <2>4. CASE CarriedBy(t) # {}
    <3>1. PICK d \in CarriedBy(t) : TRUE
      BY <2>4
    <3>2. Good(val, K, t, d)
      BY <2>1, <3>1, <1>3
    <3> HIDE DEF c
    <3>3. \A u \in Requires(t) : f[u] = val[u] + Pub(u) /\ f[u] \in Nat
      BY <2>1, <1>8, <1>10
    <3> HIDE DEF f
    <3>4. /\ \A u \in Requires(t) : val[t] >= f[u] /\ c.versions[K] >= f[u]
          /\ val[t] = 0 \/ \E u \in Requires(t) : val[t] = f[u]
          /\ c.versions[K] = 0 \/ \E u \in Requires(t) : c.versions[K] = f[u]
      BY <2>1, <3>2, <3>3 DEF Good
    <3>5. val[t] = c.versions[K]
      BY <2>1, <3>3, <3>4, SameVersion
    <3>6. new[t] = c.versions[K]
      BY <2>1, <2>4, <3>5, <1>6
    <3>7. Good(new, K, t, c)
      BY <2>1, <2>2, <3>6 DEF Good
    <3> QED
      BY <3>7 DEF c
  <2> QED
    BY <2>3, <2>4
<1>13. \A t \in Task : \A c \in CarriedBy(t)' : Good(new, K, t, c)
  BY <1>11, <1>12
<1>14. \A t \in Task : \A c \in CarriedBy(t)' : Good(new, K, t, c)'
  BY <1>1, <1>13, GoodStays
<1> QED
  BY <1>5, <1>14 DEF Newest


\* The executions are as they were, apart from their states.
LEMMA CarriedChange ==
    ASSUME ReverseTyped, ReverseTyped', NEW t \in Task, NEW i \in DOMAIN rows[t],
           NEW s \in RowState, Changes(rows, rows', t, i, s), txs' = txs
    PROVE  /\ \A u \in Task : rows[u] # <<>> => rows'[u] # <<>>
           /\ \A u \in Task : CarriedBy(u)' \subseteq CarriedBy(u)
<1>1. rows \in Rows
  BY DEF ReverseTyped
<1>2. \A u \in Task : rows[u] # <<>> => rows'[u] # <<>>
  BY <1>1, ChangeStates
<1>3. ASSUME NEW u \in Task, NEW c \in CarriedBy(u)'
      PROVE  c \in CarriedBy(u)
  <2>1. DOMAIN rows'[u] = DOMAIN rows[u]
        /\ \A j \in DOMAIN rows[u] : rows'[u][j].ctx = rows[u][j].ctx
    BY DEF Changes
  <2> QED
    BY <2>1 DEF CarriedBy
<1> QED
  BY <1>2, <1>3

\* Executions are added with the contexts that were found.
LEMMA CarriedAdd ==
    ASSUME NEW rs \in Rows, NEW found, Found(found), Adds(rs, rows', found), txs' \subseteq txs,
           \A u \in Task : /\ DOMAIN rs[u] = DOMAIN rows[u]
                           /\ rs[u] = <<>> <=> rows[u] = <<>>
                           /\ \A j \in DOMAIN rows[u] : rs[u][j].ctx = rows[u][j].ctx
    PROVE  /\ \A u \in Task : rows[u] # <<>> => rows'[u] # <<>>
           /\ \A u \in Task : \A c \in CarriedBy(u)' :
                c \in CarriedBy(u) \/ (u \in DOMAIN found /\ c = found[u])
<1>1. ASSUME NEW u \in Task, rows[u] # <<>>
      PROVE  rows'[u] # <<>>
  <2>1. CASE u \notin DOMAIN found
    BY <2>1, <1>1 DEF Adds
  <2>2. CASE u \in DOMAIN found
    <3>1. Len(rows'[u]) \in DOMAIN rows'[u]
      BY <2>2 DEF Adds
    <3> QED
      BY <3>1
  <2> QED
    BY <2>1, <2>2
<1>2. ASSUME NEW u \in Task, NEW j \in DOMAIN rows'[u]
      PROVE  \/ j \in DOMAIN rows[u] /\ rows'[u][j].ctx = rows[u][j].ctx
             \/ u \in DOMAIN found /\ rows'[u][j].ctx = found[u]
  <2>1. CASE u \notin DOMAIN found
    BY <2>1 DEF Adds
  <2>2. CASE u \in DOMAIN found
    BY <2>2 DEF Adds
  <2> QED
    BY <2>1, <2>2
<1>3. ASSUME NEW u \in Task, NEW c \in CarriedBy(u)'
      PROVE  c \in CarriedBy(u) \/ (u \in DOMAIN found /\ c = found[u])
  <2>1. CASE \E j \in DOMAIN rows'[u] : c = rows'[u][j].ctx
    BY <2>1, <1>2 DEF CarriedBy
  <2>2. CASE \E x \in txs' : u \in DOMAIN x.found /\ c = x.found[u]
    BY <2>2 DEF CarriedBy
  <2> QED
    BY <1>3, <2>1, <2>2 DEF CarriedBy
<1> QED
  BY <1>1, <1>3

\* Every step keeps the versions apart.
LEMMA VersionsNext ==
    ASSUME ReverseTyped, ReverseTyped', doc' = doc, Versions, Form
    PROVE  Versions'
<1>1. Doc /\ doc.target \in Task /\ rows \in Rows
  BY DocTyped DEF ReverseTyped
<1>2. ASSUME rows' = rows, txs' \subseteq txs
      PROVE  Versions'
  <2>1. \A u \in Task : CarriedBy(u)' \subseteq CarriedBy(u)
    BY <1>2 DEF CarriedBy
  <2> QED
    BY <1>2, <2>1, VersionsStay
<1>3. CASE NothingNew \/ Checks \/ Pauses
  BY <1>2, <1>3 DEF NothingNew, Checks, Pauses
<1>4. CASE Starts
  <2>1. PICK found \in Findings(rows) : Adds(rows, rows', found)
    BY <1>4 DEF Starts
  <2>2. Found(found) /\ txs' \subseteq txs
    BY <2>1, <1>1, <1>4, FindingsFacts DEF Starts
  <2> QED
    BY <2>1, <2>2, <1>1, CarriedAdd, VersionsFound
<1>5. ASSUME NEW t \in Task, NEW i \in DOMAIN rows[t], NEW s \in RowState,
             Changes(rows, rows', t, i, s), txs' = txs
      PROVE  Versions'
  BY <1>5, CarriedChange, VersionsStay
<1>6. CASE Runs
  <2>1. PICK t \in Task : \E i \in DOMAIN rows[t] : Changes(rows, rows', t, i, "RUNNING")
    BY <1>6 DEF Runs
  <2>2. "RUNNING" \in RowState /\ txs' = txs
    BY <1>6 DEF RowState, Runs
  <2> QED
    BY <2>1, <2>2, <1>5
<1>7. CASE Again
  <2>1. CASE rows' = rows
    BY <2>1, <1>2, <1>7 DEF Again
  <2>2. CASE rows' # rows
    <3>1. PICK t \in Task : \E i \in DOMAIN rows[t] :
            \E found \in Findings(rows) : Adds(With(rows, t, i, "SKIPPED"), rows', found)
      BY <2>2, <1>7 DEF Again
    <3>2. PICK i \in DOMAIN rows[t] :
            \E found \in Findings(rows) : Adds(With(rows, t, i, "SKIPPED"), rows', found)
      BY <3>1
    <3> DEFINE rs == With(rows, t, i, "SKIPPED")
    <3>3. PICK found \in Findings(rows) : Adds(rs, rows', found)
      BY <3>2
    <3>4. "SKIPPED" \in RowState
      BY DEF RowState, Completed
    <3>5. Changes(rows, rs, t, i, "SKIPPED")
      BY <3>4, <1>1, WithChanges
    <3> HIDE DEF rs
    <3>6. rs \in Rows /\ \A u \in Task : rs[u] = <<>> <=> rows[u] = <<>>
      BY <3>4, <3>5, <1>1, ChangeStates DEF Changes
    <3>7. \A u \in Task : /\ DOMAIN rs[u] = DOMAIN rows[u]
                          /\ \A j \in DOMAIN rows[u] : rs[u][j].ctx = rows[u][j].ctx
      BY <3>5 DEF Changes
    <3>8. Found(found) /\ txs' \subseteq txs
      BY <1>1, <1>7, FindingsFacts DEF Again
    <3>9. /\ \A u \in Task : rows[u] # <<>> => rows'[u] # <<>>
          /\ \A u \in Task : \A c \in CarriedBy(u)' :
               c \in CarriedBy(u) \/ (u \in DOMAIN found /\ c = found[u])
      BY <3>3, <3>6, <3>7, <3>8, CarriedAdd
    <3>10. \A u \in Task : /\ DOMAIN rows[u] = DOMAIN rows[u]
                           /\ \A j \in DOMAIN rows[u] : rows[u][j].ctx = rows[u][j].ctx
      OBVIOUS
    <3> QED
      BY <3>9, <3>10, <1>1, VersionsFound
  <2> QED
    BY <2>1, <2>2
<1>8. ASSUME NEW x, TxOK(x), Looks(x)
      PROVE  Versions'
  <2>1. rows' = rows /\ txs' = txs \cup {x}
    BY <1>8 DEF Looks
  <2>2. ASSUME NEW u \in Task, NEW c \in CarriedBy(u)'
        PROVE  c \in CarriedBy(u) \/ (u \in DOMAIN x.found /\ c = x.found[u])
    BY <2>1, <2>2 DEF CarriedBy
  <2>3. CASE wf \in ActionEnd
    <3>1. DOMAIN x.found = {}
      BY <2>3, <1>8 DEF Looks
    <3> QED
      BY <2>1, <2>2, <3>1, VersionsStay
  <2>4. CASE wf \notin ActionEnd
    <3>1. x.found \in Findings(RowsAfter(rows, x))
      BY <2>4, <1>8 DEF Looks
    <3>2. x.call.op = "done" => /\ x.call.task \in Task /\ x.call.arg \in ActionEnd
                                /\ x.call.row \in DOMAIN rows[x.call.task]
      BY <1>8 DEF TxOK, Refers
    <3>3. /\ RowsAfter(rows, x) \in Rows
          /\ \A u \in Task :
               /\ DOMAIN RowsAfter(rows, x)[u] = DOMAIN rows[u]
               /\ \A j \in DOMAIN rows[u] : RowsAfter(rows, x)[u][j].ctx = rows[u][j].ctx
      BY <3>2, <1>1, AfterStates
    <3> QED
      BY <2>1, <2>2, <3>1, <3>3, VersionsFound
  <2> QED
    BY <2>3, <2>4
<1>9. ASSUME NEW x, TxOK(x), Loses(x)
       PROVE  Versions'
  BY <1>2, <1>9 DEF Loses
<1>10. ASSUME NEW x, x \in txs, txs' \subseteq txs, NEW rs \in Rows, NEW found, Found(found),
              Adds(rs, rows', found), DOMAIN found = {} \/ found = x.found,
              \A u \in Task : /\ DOMAIN rs[u] = DOMAIN rows[u]
                              /\ rs[u] = <<>> <=> rows[u] = <<>>
                              /\ \A j \in DOMAIN rows[u] : rs[u][j].ctx = rows[u][j].ctx
       PROVE  Versions'
  <2>1. /\ \A u \in Task : rows[u] # <<>> => rows'[u] # <<>>
        /\ \A u \in Task : \A c \in CarriedBy(u)' :
             c \in CarriedBy(u) \/ (u \in DOMAIN found /\ c = found[u])
    BY <1>10, CarriedAdd
  <2>2. \A u \in DOMAIN found : found[u] \in CarriedBy(u)
    BY <1>10 DEF CarriedBy
  <2> QED
    BY <2>1, <2>2, VersionsStay
<1>11. ASSUME NEW x, TxOK(x), CompletesTask(x)
       PROVE  Versions'
  <2>1. x.call.op = "done" => /\ x.call.task \in Task /\ x.call.arg \in ActionEnd
                              /\ x.call.row \in DOMAIN rows[x.call.task]
    BY <1>11 DEF TxOK, Refers
  <2>2. x \in txs /\ txs' \subseteq txs
    BY <1>11 DEF CompletesTask
  <2>3. PICK found : /\ x.wf = "RUNNING" => found = x.found
                     /\ x.wf # "RUNNING" => DOMAIN found = {}
                     /\ Found(found) /\ Adds(RowsAfter(rows, x), rows', found)
    BY <1>11 DEF CompletesTask
  <2>4. /\ RowsAfter(rows, x) \in Rows
        /\ \A u \in Task :
             /\ DOMAIN RowsAfter(rows, x)[u] = DOMAIN rows[u]
             /\ RowsAfter(rows, x)[u] = <<>> <=> rows[u] = <<>>
             /\ \A j \in DOMAIN rows[u] : RowsAfter(rows, x)[u][j].ctx = rows[u][j].ctx
    BY <2>1, <1>1, AfterStates
  <2> QED
    BY <2>2, <2>3, <2>4, <1>10
<1>12. ASSUME NEW x, TxOK(x), Resumes(x)
       PROVE  Versions'
  <2>1. x \in txs /\ txs' \subseteq txs /\ Found(x.found) /\ Adds(rows, rows', x.found)
    BY <1>12 DEF Resumes, TxOK
  <2> QED
    BY <2>1, <1>1, <1>10
<1> QED
  BY <1>3, <1>4, <1>6, <1>7, <1>8, <1>9, <1>11, <1>12 DEF Form


\* What t needs has a lower version, unless it is t.
LEMMA NeededIsOlder ==
    ASSUME ReverseTyped, NEW K, NEW val \in [Task -> Nat],
           \A t \in Task : \A c \in CarriedBy(t) : Good(val, K, t, c),
           NEW t \in Task, rows[t] # <<>>, NEW u \in Needs(t), u # t
    PROVE  u \in Task /\ rows[u] # <<>> /\ val[t] >= val[u] + Pub(u)
<1>1. Doc /\ rows \in Rows
  BY DocTyped DEF ReverseTyped
<1>2. \A v \in Task : Pub(v) \in Nat
  BY DEF Pub
<1> DEFINE S == {v \in Task : rows[v] # <<>> /\ (v # t => val[t] >= val[v] + Pub(v))}
<1>3. ASSUME NEW v \in S, NEW w \in Direct(v)
      PROVE  w \in S
  <2>1. v \in Task /\ rows[v] # <<>> /\ (v # t => val[t] >= val[v] + Pub(v))
    OBVIOUS
  <2>2. w \in Requires(v) /\ w \in Task
    BY <2>1, <1>1, RequiresTyped DEF Direct
  <2>3. PICK c \in CarriedBy(v) : TRUE
    <3>1. rows[v] \in Seq(Row)
      BY <2>1, <1>1 DEF Rows
    <3>2. Len(rows[v]) \in Nat /\ DOMAIN rows[v] = 1..Len(rows[v]) /\ Len(rows[v]) # 0
      BY <2>1, <3>1, <1>1, RowTyped, EmptySeq
    <3>3. 1 \in DOMAIN rows[v]
      BY <3>2
    <3>4. rows[v][1].ctx \in CarriedBy(v)
      BY <3>3 DEF CarriedBy
    <3> QED
      BY <3>4
  <2>4. Good(val, K, v, c)
    BY <2>1, <2>3
  <2>5. rows[w] # <<>> /\ val[v] >= val[w] + Pub(w)
    BY <2>2, <2>4 DEF Good
  <2>6. /\ val[v] \in Nat /\ val[w] \in Nat /\ val[t] \in Nat
        /\ Pub(v) \in Nat /\ Pub(w) \in Nat
    BY <2>1, <2>2, <1>2
  <2>7. val[t] >= val[w] + Pub(w)
    <3>1. CASE v = t
      BY <3>1, <2>5
    <3>2. CASE v # t
      <4>1. val[t] >= val[v] + Pub(v)
        BY <2>1, <3>2
      <4> QED
        BY <4>1, <2>5, <2>6
    <3> QED
      BY <3>1, <3>2
  <2> QED
    BY <2>2, <2>5, <2>7
<1>4. t \in S
  OBVIOUS
<1> HIDE DEF S
<1>5. Closed(S)
  BY <1>3 DEF Closed
<1>6. u \in S
  BY <1>1, <1>4, <1>5, NeedsFacts
<1> QED
  BY <1>6 DEF S

\* A value that has been replaced before t does not reach t.
LEMMA VersionsSay == ReverseTyped /\ Versions => NewestArrives
<1> SUFFICES ASSUME ReverseTyped, Versions,
                    \A u, v \in Publishers : doc.publish[u] = doc.publish[v],
                    NEW t \in Task, NEW i \in DOMAIN rows[t], NEW u \in Publishers,
                    Before(u, t), rows[t][i].ctx.by # Nobody, Before(rows[t][i].ctx.by, u)
             PROVE  FALSE
  BY DEF NewestArrives
<1> DEFINE by == rows[t][i].ctx.by
<1>1. Doc /\ u \in Task /\ u \in doc.tasks /\ doc.publish[u] \in Kind /\ Pub(u) = 1
  BY DocTyped, RequiresTyped DEF Publishers, Doc, DocumentType, Pub
<1>2. OneKind(doc.publish[u])
  BY DEF OneKind
<1>3. PICK val \in [Task -> Nat] :
        \A v \in Task : \A c \in CarriedBy(v) : Good(val, doc.publish[u], v, c)
  BY <1>1, <1>2 DEF Versions, Newest
<1>4. rows[t] # <<>> /\ rows[t][i].ctx \in CarriedBy(t)
  BY DEF CarriedBy
<1>5. by \in Publishers /\ by \in Task /\ Pub(by) = 1 /\ val[t] = val[by] + 1
  BY <1>3, <1>4, <1>1 DEF Good, Publishers, Pub, Doc, DocumentType
<1> HIDE DEF by
<1>6. u # t /\ u \in Needs(t) /\ by # u /\ by \in Needs(u)
  BY DEF Before, by
<1>7. rows[u] # <<>> /\ val[t] >= val[u] + Pub(u)
  BY <1>3, <1>4, <1>6, NeededIsOlder
<1>8. val[u] >= val[by] + Pub(by)
  BY <1>1, <1>3, <1>6, <1>7, NeededIsOlder
<1>9. val[t] \in Nat /\ val[u] \in Nat /\ val[by] \in Nat
  BY <1>1, <1>5
<1> QED
  BY <1>1, <1>5, <1>7, <1>8, <1>9

-----------------------------------------------------------------------------
(* The theorems.                                                            *)

\* The inductive invariant.
Inductive ==
    ReverseTyped /\ Serial /\ Unskipped /\ TargetReached /\ Versions

\* It holds before the workflow starts,
LEMMA InductiveInit == Init => Inductive
<1> SUFFICES ASSUME Init
             PROVE  Inductive
  OBVIOUS
<1>1. ReverseTyped
  BY TypedInit
<1>2. /\ wf = "NONE" /\ rows = [t \in Task |-> <<>>] /\ txs = {}
      /\ \A t \in Task : rows[t] = <<>> /\ DOMAIN rows[t] = {} /\ Len(rows[t]) = 0
  BY DEF Init
<1>3. Serial
  BY <1>2 DEF Serial, OneEach, Goes
<1>4. Unskipped
  BY <1>2 DEF Unskipped, HasState
<1>5. TargetReached
  BY <1>2 DEF TargetReached
<1>6. Versions
  <2>1. \A t \in Task : CarriedBy(t) = {}
    BY <1>2 DEF CarriedBy
  <2>2. [t \in Task |-> 0] \in [Task -> Nat]
    OBVIOUS
  <2>3. \A K : Newest(K)
    BY <2>1, <2>2 DEF Newest
  <2> QED
    BY <2>3 DEF Versions
<1> QED
  BY <1>1, <1>3, <1>4, <1>5, <1>6 DEF Inductive

\* A step that changes nothing.
LEMMA InductiveStutter ==
    ASSUME Inductive, UNCHANGED vars
    PROVE  Inductive'
<1>1. doc' = doc /\ Doc /\ doc.target \in Task
  BY DocTyped DEF vars, Inductive
<1>2. NothingNew
  BY DEF vars, NothingNew
<1>3. Form
  BY <1>2 DEF Form
<1>4. ReverseTyped'
  BY <1>1, NeedsStay DEF vars, Inductive, ReverseTyped, CallOK, TxOK, Refers, Valid, Requires
<1> QED
  BY <1>1, <1>3, <1>4, SerialNext, TargetNext, VersionsNext DEF Inductive

\* every step keeps it,
LEMMA InductiveNext ==
    ASSUME Inductive, [Next]_vars
    PROVE  Inductive'
<1>1. CASE Next
  BY <1>1, TypedNext, SerialNext, TargetNext, VersionsNext DEF Inductive
<1>2. CASE UNCHANGED vars
  BY <1>2, InductiveStutter
<1> QED
  BY <1>1, <1>2

\* and it implies what is to be shown.
LEMMA InductiveImplies == Inductive => ReverseInv
<1> SUFFICES ASSUME Inductive
             PROVE  ReverseInv
  OBVIOUS
<1>1. ReverseTypeOK
  <2>1. ReverseTyped /\ Doc
    BY DocTyped DEF Inductive
  <2>2. \A t \in Task : \A i \in DOMAIN rows[t] : rows[t][i] \in Row
    BY <2>1, RowTyped DEF ReverseTyped
  <2>3. \A c \in calls : c.op \in {"start", "again", "run", "done", "check", "rerun", "skip"}
    BY <2>1 DEF ReverseTyped, CallOK
  <2>4. \A x \in txs : x.call.op \in {"done", "resume"} /\ DOMAIN x.found \subseteq Task
    BY <2>1 DEF ReverseTyped, TxOK, Found
  <2> QED
    BY <2>1, <2>2, <2>3, <2>4 DEF ReverseTypeOK, ReverseTyped, Row
<1>2. OneAfterItsRequirements
  BY DEF Inductive, Serial, OneEach, Ready, Won, OneAfterItsRequirements
<1>3. NewestArrives
  BY VersionsSay DEF Inductive
<1> QED
  BY <1>1, <1>2, <1>3 DEF Inductive, ReverseInv

\* For every document and number of tasks: without overlapping transactions a task
\* has one execution, which begins after its requirements succeeded and whose success no
\* rerun undoes, and a workflow that succeeds has reached its target unless there is a
\* cycle, a skip or a rerun that came too late (_is_satisfied_task, _run_existing,
\* check_and_complete); and whatever overlaps, a value that was replaced before a task
\* does not reach it (merge_context_by_version).
THEOREM ReverseInvariant == ReverseSpec => []ReverseInv
<1>1. Init => Inductive
  BY InductiveInit
<1>2. Inductive /\ [Next]_vars => Inductive'
  BY InductiveNext
<1>3. Inductive => ReverseInv
  BY InductiveImplies
<1> QED
  BY <1>1, <1>2, <1>3, PTL DEF ReverseSpec

-----------------------------------------------------------------------------
(* Sequences of commands.                                                   *)

\* f has n steps, from b.
Steps(f, n, V, b, step) ==
    f \in [0..n -> V] /\ f[0] = b /\ \A k \in 1..n : f[k] = step[<<k, f[k - 1]>>]

\* What is computed step by step exists.
LEMMA StepByStep ==
    ASSUME NEW V, NEW n \in Nat, NEW b \in V, NEW step \in [(1..n) \X V -> V]
    PROVE  \E f : Steps(f, n, V, b, step)
<1> DEFINE Fits(m) == \E f \in [0..m -> V] : f[0] = b /\ \A k \in 1..m : f[k] = step[<<k, f[k - 1]>>]
           S == {m \in Nat : m <= n => Fits(m)}
<1>1. 0 \in S
  <2> DEFINE f == [k \in 0..0 |-> b]
  <2>1. f \in [0..0 -> V] /\ f[0] = b /\ 1..0 = {}
    OBVIOUS
  <2> HIDE DEF f
  <2>2. Fits(0)
    BY <2>1
  <2> QED
    BY <2>2
<1>2. ASSUME NEW m \in Nat, m \in S PROVE m + 1 \in S
  <2> SUFFICES ASSUME m + 1 <= n PROVE Fits(m + 1)
    OBVIOUS
  <2>1. PICK f \in [0..m -> V] : f[0] = b /\ \A k \in 1..m : f[k] = step[<<k, f[k - 1]>>]
    BY <1>2
  <2> DEFINE g == [k \in 0..(m + 1) |-> IF k = m + 1 THEN step[<<m + 1, f[m]>>] ELSE f[k]]
  <2>2. step[<<m + 1, f[m]>>] \in V
    OBVIOUS
  <2>3. g \in [0..(m + 1) -> V]
    BY <2>2
  <2>4. g[0] = b
    BY <2>1
  <2>5. ASSUME NEW k \in 1..(m + 1) PROVE g[k] = step[<<k, g[k - 1]>>]
    <3>1. k - 1 \in 0..m /\ g[k - 1] = f[k - 1]
      OBVIOUS
    <3>2. CASE k = m + 1
      <4>1. k - 1 = m /\ k \in 0..(m + 1) /\ g[k] = step[<<m + 1, f[m]>>]
        BY <3>2
      <4> QED
        BY <3>1, <3>2, <4>1
    <3>3. CASE k \in 1..m
      BY <3>1, <3>3, <2>1
    <3> QED
      BY <3>2, <3>3
  <2> HIDE DEF g
  <2> QED
    BY <2>3, <2>4, <2>5
<1>3. Nat \subseteq S
  <2> HIDE DEF S
  <2> QED
    BY <1>1, <1>2, AllNaturals
<1> QED
  BY <1>3 DEF Steps

\* q is s at the places T, each of them once.
Along(q, s, T) ==
    \E g \in [DOMAIN q -> T] :
        /\ \A k \in DOMAIN q : q[k] = s[g[k]]
        /\ \A k, l \in DOMAIN q : g[k] = g[l] => k = l
        /\ \A p \in T : \E k \in DOMAIN q : g[k] = p

LEMMA AlongMore ==
    ASSUME NEW V, NEW s \in Seq(V), NEW q \in Seq(V), NEW T, Along(q, s, T),
           NEW p \in DOMAIN s, p \notin T
    PROVE  Along(Append(q, s[p]), s, T \cup {p})
<1>1. PICK g \in [DOMAIN q -> T] : /\ \A k \in DOMAIN q : q[k] = s[g[k]]
                                   /\ \A k, l \in DOMAIN q : g[k] = g[l] => k = l
                                   /\ \A t \in T : \E k \in DOMAIN q : g[k] = t
  BY DEF Along
<1> DEFINE r == Append(q, s[p])
           h == [k \in DOMAIN r |-> IF k = Len(q) + 1 THEN p ELSE g[k]]
<1>2. /\ DOMAIN q = 1..Len(q) /\ Len(q) \in Nat /\ DOMAIN r = 1..(Len(q) + 1)
      /\ r[Len(q) + 1] = s[p] /\ \A k \in 1..Len(q) : r[k] = q[k]
  BY SMTT(10)
<1> HIDE DEF r
<1>3. \A k \in DOMAIN r : k \in DOMAIN q \/ k = Len(q) + 1
  BY <1>2
<1>4. h \in [DOMAIN r -> T \cup {p}]
  BY <1>3
<1>5. \A k \in DOMAIN r : r[k] = s[h[k]]
  BY <1>1, <1>2, <1>3
<1>6. \A k, l \in DOMAIN r : h[k] = h[l] => k = l
  BY <1>1, <1>2, <1>3
<1>7. \A t \in T \cup {p} : \E k \in DOMAIN r : h[k] = t
  <2>1. Len(q) + 1 \in DOMAIN r /\ h[Len(q) + 1] = p
    BY <1>2
  <2>2. \A k \in DOMAIN q : k \in DOMAIN r /\ h[k] = g[k]
    BY <1>2
  <2> HIDE DEF h
  <2> QED
    BY <2>1, <2>2, <1>1
<1> HIDE DEF h
<1>8. Along(r, s, T \cup {p})
  BY <1>4, <1>5, <1>6, <1>7 DEF Along
<1> QED
  BY <1>8 DEF r

\* Chosen(s, P) is s at the places of P.
LEMMA ChosenIs ==
    ASSUME NEW V, NEW s \in Seq(V), NEW P
    PROVE  Chosen(s, P) \in Seq(V) /\ Along(Chosen(s, P), s, P \cap DOMAIN s)
<1> DEFINE n == Len(s)
           step == [x \in (1..n) \X Seq(V) |-> IF x[1] \in P THEN Append(x[2], s[x[1]]) ELSE x[2]]
           U == CHOOSE u : u = [k \in 0..n |-> IF k = 0 THEN <<>> ELSE
                                  IF k \in P THEN Append(u[k - 1], s[k]) ELSE u[k - 1]]
<1>1. n \in Nat /\ \A k \in 1..n : s[k] \in V
  OBVIOUS
<1>2. Chosen(s, P) = U[n]
  BY DEF Chosen
<1>3. PICK f : Steps(f, n, Seq(V), <<>>, step)
  <2>1. step \in [(1..n) \X Seq(V) -> Seq(V)]
    BY <1>1
  <2>2. <<>> \in Seq(V)
    OBVIOUS
  <2> HIDE DEF step, n, U
  <2> QED
    BY <1>1, <2>1, <2>2, StepByStep
<1>4. \A k \in 1..n : f[k - 1] \in Seq(V) /\ f[k] = IF k \in P THEN Append(f[k - 1], s[k]) ELSE f[k - 1]
  <2> TAKE k \in 1..n
  <2>1. k - 1 \in 0..n /\ f[k - 1] \in Seq(V)
    BY <1>1, <1>3 DEF Steps
  <2>2. <<k, f[k - 1]>> \in (1..n) \X Seq(V)
    BY <2>1
  <2> QED
    BY <2>1, <2>2, <1>3 DEF Steps
<1>5. f = [k \in 0..n |-> IF k = 0 THEN <<>> ELSE IF k \in P THEN Append(f[k - 1], s[k]) ELSE f[k - 1]]
  <2>1. \A k \in 0..n : k = 0 \/ k \in 1..n
    BY <1>1
  <2> HIDE DEF n, step
  <2> QED
    BY <1>3, <1>4, <2>1 DEF Steps
<1>6. U = [k \in 0..n |-> IF k = 0 THEN <<>> ELSE IF k \in P THEN Append(U[k - 1], s[k]) ELSE U[k - 1]]
  BY <1>5
<1> HIDE DEF U, step
<1> DEFINE Fits(k) == U[k] \in Seq(V) /\ Along(U[k], s, P \cap (1..k))
           S == {k \in Nat : k <= n => Fits(k)}
<1>7. 0 \in S
  <2>1. U[0] = <<>>
    BY <1>1, <1>6
  <2>2. DOMAIN <<>> = {} /\ P \cap (1..0) = {} /\ <<>> \in Seq(V)
    OBVIOUS
  <2>3. Along(<<>>, s, {})
    <3>1. [k \in {} |-> 0] \in [{} -> {}]
      OBVIOUS
    <3> QED
      BY <2>2, <3>1 DEF Along
  <2> QED
    BY <2>1, <2>2, <2>3
<1>8. ASSUME NEW k \in Nat, k \in S PROVE k + 1 \in S
  <2> SUFFICES ASSUME k + 1 <= n PROVE Fits(k + 1)
    OBVIOUS
  <2>1. Fits(k)
    BY <1>8, <1>1
  <2>2. k + 1 \in 0..n /\ k + 1 # 0 /\ (k + 1) - 1 = k /\ k + 1 \in DOMAIN s
    BY <1>1
  <2>3. U[k + 1] = IF k + 1 \in P THEN Append(U[k], s[k + 1]) ELSE U[k]
    BY <1>6, <2>2
  <2>4. CASE k + 1 \in P
    <3>1. P \cap (1..(k + 1)) = (P \cap (1..k)) \cup {k + 1} /\ k + 1 \notin P \cap (1..k)
      BY <2>4
    <3>2. Append(U[k], s[k + 1]) \in Seq(V)
      BY <2>1, <2>2
    <3>3. Along(Append(U[k], s[k + 1]), s, (P \cap (1..k)) \cup {k + 1})
      BY <2>1, <2>2, <3>1, AlongMore
    <3> QED
      BY <2>3, <2>4, <3>1, <3>2, <3>3
  <2>5. CASE k + 1 \notin P
    <3>1. P \cap (1..(k + 1)) = P \cap (1..k)
      BY <2>5
    <3> QED
      BY <2>1, <2>3, <2>5, <3>1
  <2> QED
    BY <2>4, <2>5
<1>9. Fits(n)
  <2>1. Nat \subseteq S
    <3> HIDE DEF S
    <3> QED
      BY <1>7, <1>8, AllNaturals
  <2>2. n \in S /\ n <= n
    <3> HIDE DEF n, S
    <3> QED
      BY <1>1, <2>1
  <2> HIDE DEF Fits, n
  <2> QED
    BY <2>2
<1>10. 1..n = DOMAIN s
  OBVIOUS
<1> QED
  BY <1>2, <1>9, <1>10

\* The commands and executions of q have different origins, if they are of a clause.
Apart(q) == \A k, l \in DOMAIN q : k # l /\ q[k].from = q[l].from => q[k].from[2] = 0

\* What b has that is not of a has another origin.
Foreign(a, b) ==
    \A k \in DOMAIN a, l \in DOMAIN b : a[k].from = b[l].from => a[k].from[2] = 0

LEMMA AlongSays ==
    ASSUME NEW q, NEW s, NEW T \in SUBSET DOMAIN s, Along(q, s, T)
    PROVE  /\ \A k \in DOMAIN q : \E p \in T : q[k] = s[p]
           /\ \A p \in T : \E k \in DOMAIN q : q[k] = s[p]
           /\ Apart(s) => Apart(q)
<1>1. PICK g \in [DOMAIN q -> T] : /\ \A k \in DOMAIN q : q[k] = s[g[k]]
                                   /\ \A k, l \in DOMAIN q : g[k] = g[l] => k = l
                                   /\ \A t \in T : \E k \in DOMAIN q : g[k] = t
  BY DEF Along
<1>2. ASSUME Apart(s), NEW k \in DOMAIN q, NEW l \in DOMAIN q, k # l, q[k].from = q[l].from
      PROVE  q[k].from[2] = 0
  <2>1. g[k] \in DOMAIN s /\ g[l] \in DOMAIN s /\ g[k] # g[l]
    BY <1>1, <1>2
  <2> QED
    BY <1>1, <1>2, <2>1 DEF Apart
<1> QED
  BY <1>1, <1>2 DEF Apart

\* The same of Chosen(s, P).
LEMMA ChosenSays ==
    ASSUME NEW V, NEW s \in Seq(V), NEW P \in SUBSET DOMAIN s
    PROVE  /\ Chosen(s, P) \in Seq(V)
           /\ \A k \in DOMAIN Chosen(s, P) : \E p \in P : Chosen(s, P)[k] = s[p]
           /\ \A p \in P : \E k \in DOMAIN Chosen(s, P) : Chosen(s, P)[k] = s[p]
           /\ Apart(s) => Apart(Chosen(s, P))
<1>1. P \cap DOMAIN s = P
  OBVIOUS
<1>2. Chosen(s, P) \in Seq(V) /\ Along(Chosen(s, P), s, P)
  BY <1>1, ChosenIs
<1> QED
  BY <1>2, AlongSays

\* c has what a and b have.
Joined(V, c, a, b) ==
    /\ c \in Seq(V)
    /\ \A k \in DOMAIN c : (\E l \in DOMAIN a : c[k] = a[l]) \/ (\E l \in DOMAIN b : c[k] = b[l])
    /\ \A l \in DOMAIN a : \E k \in DOMAIN c : c[k] = a[l]
    /\ \A l \in DOMAIN b : \E k \in DOMAIN c : c[k] = b[l]
    /\ Apart(a) /\ Apart(b) /\ Foreign(a, b) => Apart(c)

LEMMA ConcatSays ==
    ASSUME NEW V, NEW a \in Seq(V), NEW b \in Seq(V)
    PROVE  Joined(V, a \o b, a, b)
<1> DEFINE c == a \o b
<1>1. /\ c \in Seq(V) /\ DOMAIN c = 1..(Len(a) + Len(b)) /\ Len(a) \in Nat /\ Len(b) \in Nat
      /\ DOMAIN a = 1..Len(a) /\ DOMAIN b = 1..Len(b)
  OBVIOUS
<1>2. \A l \in DOMAIN a : l \in DOMAIN c /\ c[l] = a[l]
  OBVIOUS
<1>3. \A l \in DOMAIN b : Len(a) + l \in DOMAIN c /\ c[Len(a) + l] = b[l]
  OBVIOUS
<1> HIDE DEF c
<1>4. \A k \in DOMAIN c : \/ k \in DOMAIN a
                          \/ k - Len(a) \in DOMAIN b /\ k = Len(a) + (k - Len(a))
  BY <1>1
<1>5. ASSUME Apart(a), Apart(b), Foreign(a, b) PROVE Apart(c)
  <2> SUFFICES ASSUME NEW k \in DOMAIN c, NEW l \in DOMAIN c, k # l, c[k].from = c[l].from
               PROVE  c[k].from[2] = 0
    BY DEF Apart
  <2>1. CASE k \in DOMAIN a /\ l \in DOMAIN a
    BY <2>1, <1>2, <1>5 DEF Apart
  <2>2. CASE k \in DOMAIN a /\ l - Len(a) \in DOMAIN b /\ l = Len(a) + (l - Len(a))
    <3> DEFINE m == l - Len(a)
    <3>1. m \in DOMAIN b /\ c[l] = b[m] /\ c[k] = a[k]
      BY <2>2, <1>2, <1>3
    <3> QED
      BY <2>2, <3>1, <1>5 DEF Foreign
  <2>3. CASE l \in DOMAIN a /\ k - Len(a) \in DOMAIN b /\ k = Len(a) + (k - Len(a))
    <3> DEFINE m == k - Len(a)
    <3>1. m \in DOMAIN b /\ c[k] = b[m] /\ c[l] = a[l]
      BY <2>3, <1>2, <1>3
    <3>2. a[l].from[2] = 0
      BY <2>3, <3>1, <1>5 DEF Foreign
    <3> QED
      BY <3>1, <3>2
  <2>4. CASE /\ k - Len(a) \in DOMAIN b /\ k = Len(a) + (k - Len(a))
             /\ l - Len(a) \in DOMAIN b /\ l = Len(a) + (l - Len(a))
    <3> DEFINE m == k - Len(a)
               n == l - Len(a)
    <3>1. m \in DOMAIN b /\ c[k] = b[m] /\ n \in DOMAIN b /\ c[l] = b[n]
      BY <2>4, <1>3
    <3>2. m # n
      BY <2>4
    <3> QED
      BY <3>1, <3>2, <1>5 DEF Apart
  <2> QED
    BY <1>4, <2>1, <2>2, <2>3, <2>4
<1>6. \A k \in DOMAIN c : \/ \E l \in DOMAIN a : c[k] = a[l]
                          \/ \E l \in DOMAIN b : c[k] = b[l]
  BY <1>2, <1>3, <1>4
<1>7. Joined(V, c, a, b)
  BY <1>1, <1>2, <1>3, <1>5, <1>6 DEF Joined
<1> QED
  BY <1>7 DEF c
Commands == [name : Name \cup Engine, wait : BOOLEAN, exec : Nat, from : (Nat \X Nat) \X Nat]

Has(q, c) == \E k \in DOMAIN q : q[k] = c
Enders == {"fail", "succeed"}

\* _rearrange_commands() drops noops, and what is behind "fail" or "succeed".
RearrangedOf(R, cmds) ==
    /\ R \in Seq(Commands)
    /\ \A k \in DOMAIN R : Has(cmds, R[k]) /\ R[k].name # "noop"
    /\ Apart(cmds) => Apart(R)
    /\ \A b \in DOMAIN cmds : cmds[b].name # "noop" =>
          \/ Has(R, cmds[b])
          \/ \E p \in DOMAIN cmds : p < b /\ cmds[p].name \in Enders /\ Has(R, cmds[p])

LEMMA RearrangedSays ==
    ASSUME NEW cmds \in Seq(Commands)
    PROVE  RearrangedOf(Rearranged(cmds), cmds)
<1> DEFINE real    == Others(cmds, {"noop"})
           waiting == {k \in real : cmds[k].wait}
           stops   == Places(cmds, DOMAIN SetState)
           stop    == {k \in stops : \A l \in stops : k <= l}
           before  == {k \in real : \A l \in stops : k < l}
           behind  == {k \in real : \E l \in stop : l < k /\ cmds[l].name \in {"pause"}}
           A == Chosen(cmds, before \ waiting)
           B == Chosen(cmds, before \cap waiting)
           C == Chosen(cmds, stop \cup behind)
<1>1. Rearranged(cmds) = A \o B \o C
  BY DEF Rearranged, Arranged
<1>2. /\ before \in SUBSET DOMAIN cmds /\ stop \in SUBSET DOMAIN cmds /\ behind \in SUBSET DOMAIN cmds
      /\ stops \in SUBSET Nat /\ DOMAIN cmds \subseteq Nat
      /\ before \cap stop = {} /\ before \cap behind = {}
      /\ \A k \in before \cup stop \cup behind : cmds[k].name # "noop"
  <2>1. DOMAIN cmds \subseteq Nat
    OBVIOUS
  <2>2. real \subseteq DOMAIN cmds /\ stops \subseteq DOMAIN cmds
    BY DEF Others, Places
  <2>3. \A k \in before : k \notin stop /\ k \notin behind
    <3> SUFFICES ASSUME NEW k \in before PROVE k \notin stop /\ k \notin behind
      OBVIOUS
    <3>1. k \in Nat /\ \A l \in stops : k < l /\ l \in Nat
      BY <2>1, <2>2
    <3> HIDE DEF stops, real
    <3> QED
      BY <3>1
  <2>4. \A k \in real \cup stops : cmds[k].name # "noop"
    BY DEF Others, Places, SetState
  <2> HIDE DEF stops, real
  <2> QED
    BY <2>1, <2>2, <2>3, <2>4
<1>3. DOMAIN SetState = {"pause"} \cup Enders
  BY DEF SetState, Enders
<1>4. ASSUME NEW b \in DOMAIN cmds, cmds[b].name # "noop",
             b \notin before, b \notin stop, b \notin behind
      PROVE  \E p \in stop : p < b /\ cmds[p].name \in Enders
  <2>1. b \in real /\ b \in Nat
    BY <1>2, <1>4 DEF Others, Places
  <2>2. PICK l \in stops : ~(b < l)
    BY <2>1, <1>4
  <2>3. PICK p \in stops : \A m \in stops : p <= m
    <3> HIDE DEF stops
    <3> QED
      BY <1>2, <2>2, LeastExists
  <2>4. p \in stop /\ p \in Nat /\ p <= l /\ l \in Nat
    BY <1>2, <2>2, <2>3
  <2>5. p < b
    <3>1. p # b
      BY <2>4, <1>4
    <3> QED
      BY <2>1, <2>2, <2>4, <3>1
  <2>6. cmds[p].name \in DOMAIN SetState
    BY DEF Places
  <2>7. cmds[p].name # "pause"
    BY <1>4, <2>1, <2>4, <2>5
  <2> QED
    BY <1>3, <2>4, <2>5, <2>6, <2>7
<1> HIDE DEF real, stops, stop, before, behind, waiting
<1>5. /\ A \in Seq(Commands)
      /\ Apart(cmds) => Apart(A)
      /\ \A k \in DOMAIN A : \E p \in before \ waiting : A[k] = cmds[p]
      /\ \A p \in before \ waiting : Has(A, cmds[p])
  <2>1. before \ waiting \in SUBSET DOMAIN cmds
    BY <1>2
  <2> QED
    BY <2>1, ChosenSays DEF Has
<1>6. /\ B \in Seq(Commands)
      /\ Apart(cmds) => Apart(B)
      /\ \A k \in DOMAIN B : \E p \in before \cap waiting : B[k] = cmds[p]
      /\ \A p \in before \cap waiting : Has(B, cmds[p])
  <2>1. before \cap waiting \in SUBSET DOMAIN cmds
    BY <1>2
  <2> QED
    BY <2>1, ChosenSays DEF Has
<1>7. /\ C \in Seq(Commands)
      /\ Apart(cmds) => Apart(C)
      /\ \A k \in DOMAIN C : \E p \in stop \cup behind : C[k] = cmds[p]
      /\ \A p \in stop \cup behind : Has(C, cmds[p])
  <2>1. stop \cup behind \in SUBSET DOMAIN cmds
    BY <1>2
  <2> QED
    BY <2>1, ChosenSays DEF Has
<1> HIDE DEF A, B, C
<1> DEFINE D == A \o B
<1>8. /\ D \in Seq(Commands)
      /\ \A k \in DOMAIN D : \E p \in before : D[k] = cmds[p]
      /\ \A p \in before : Has(D, cmds[p])
      /\ Apart(cmds) => Apart(D)
  <2>1. /\ D \in Seq(Commands)
        /\ \A k \in DOMAIN D : \/ \E l \in DOMAIN A : D[k] = A[l]
                               \/ \E l \in DOMAIN B : D[k] = B[l]
        /\ \A l \in DOMAIN A : \E k \in DOMAIN D : D[k] = A[l]
        /\ \A l \in DOMAIN B : \E k \in DOMAIN D : D[k] = B[l]
        /\ Apart(A) /\ Apart(B) /\ Foreign(A, B) => Apart(D)
    <3>1. A \in Seq(Commands) /\ B \in Seq(Commands)
      BY <1>5, <1>6
    <3>2. Joined(Commands, D, A, B)
      BY ONLY <3>1, ConcatSays
    <3> QED
      BY <3>2 DEF Joined
  <2>2. Apart(cmds) => Foreign(A, B)
    <3> SUFFICES ASSUME Apart(cmds), NEW k \in DOMAIN A, NEW l \in DOMAIN B, A[k].from = B[l].from
                 PROVE  A[k].from[2] = 0
      BY DEF Foreign
    <3>1. PICK p \in before \ waiting : A[k] = cmds[p]
      BY <1>5
    <3>2. PICK m \in before \cap waiting : B[l] = cmds[m]
      BY <1>6
    <3>3. p \in DOMAIN cmds /\ m \in DOMAIN cmds /\ p # m
      BY <1>2, <3>1, <3>2
    <3> QED
      BY <3>1, <3>2, <3>3 DEF Apart
  <2> HIDE DEF D
  <2>3. ASSUME NEW k \in DOMAIN D PROVE \E p \in before : D[k] = cmds[p]
    <3>1. CASE \E l \in DOMAIN A : D[k] = A[l]
      BY <3>1, <1>5
    <3>2. CASE \E l \in DOMAIN B : D[k] = B[l]
      BY <3>2, <1>6
    <3> QED
      BY <3>1, <3>2, <2>1
  <2>4. \A p \in before : Has(D, cmds[p])
    <3> SUFFICES ASSUME NEW p \in before PROVE Has(D, cmds[p])
      OBVIOUS
    <3>1. Has(A, cmds[p]) \/ Has(B, cmds[p])
      BY <1>5, <1>6
    <3> QED
      BY <3>1, <2>1 DEF Has
  <2>5. Apart(cmds) => Apart(A) /\ Apart(B)
    BY <1>5, <1>6
  <2>6. Apart(cmds) => Apart(D)
    BY <2>1, <2>2, <2>5
  <2> QED
    BY <2>1, <2>3, <2>4, <2>6
<1> HIDE DEF D
<1> DEFINE R == D \o C
<1>9. /\ R \in Seq(Commands)
      /\ \A k \in DOMAIN R : \/ \E l \in DOMAIN D : R[k] = D[l]
                             \/ \E l \in DOMAIN C : R[k] = C[l]
      /\ \A l \in DOMAIN D : \E k \in DOMAIN R : R[k] = D[l]
      /\ \A l \in DOMAIN C : \E k \in DOMAIN R : R[k] = C[l]
      /\ Apart(D) /\ Apart(C) /\ Foreign(D, C) => Apart(R)
  <2>1. D \in Seq(Commands) /\ C \in Seq(Commands)
    BY <1>7, <1>8
  <2>2. Joined(Commands, R, D, C)
    BY ONLY <2>1, ConcatSays
  <2> QED
    BY <2>2 DEF Joined
<1>10. Apart(cmds) => Foreign(D, C)
  <2> SUFFICES ASSUME Apart(cmds), NEW k \in DOMAIN D, NEW l \in DOMAIN C, D[k].from = C[l].from
               PROVE  D[k].from[2] = 0
    BY DEF Foreign
  <2>1. PICK p \in before : D[k] = cmds[p]
    BY <1>8
  <2>2. PICK m \in stop \cup behind : C[l] = cmds[m]
    BY <1>7
  <2>3. p \in DOMAIN cmds /\ m \in DOMAIN cmds /\ p # m
    BY <1>2, <2>1, <2>2
  <2> QED
    BY <2>1, <2>2, <2>3 DEF Apart
<1>11. Rearranged(cmds) = R
  BY <1>1 DEF R, D
<1> HIDE DEF R
<1>12. \A k \in DOMAIN R : Has(cmds, R[k]) /\ R[k].name # "noop"
  <2> SUFFICES ASSUME NEW k \in DOMAIN R
               PROVE  \E p \in DOMAIN cmds : cmds[p] = R[k] /\ cmds[p].name # "noop"
    BY DEF Has
  <2>1. CASE \E l \in DOMAIN D : R[k] = D[l]
    BY <2>1, <1>2, <1>8
  <2>2. CASE \E l \in DOMAIN C : R[k] = C[l]
    BY <2>2, <1>2, <1>7
  <2> QED
    BY <2>1, <2>2, <1>9
<1>13. \A p \in before \cup stop \cup behind : Has(R, cmds[p])
  <2> SUFFICES ASSUME NEW p \in before \cup stop \cup behind PROVE Has(R, cmds[p])
    OBVIOUS
  <2>1. Has(D, cmds[p]) \/ Has(C, cmds[p])
    BY <1>7, <1>8
  <2> QED
    BY <2>1, <1>9 DEF Has
<1>14. ASSUME NEW b \in DOMAIN cmds, cmds[b].name # "noop", ~Has(R, cmds[b])
       PROVE  \E p \in DOMAIN cmds : p < b /\ cmds[p].name \in Enders /\ Has(R, cmds[p])
  <2>1. b \notin before /\ b \notin stop /\ b \notin behind
    BY <1>13, <1>14
  <2>2. PICK p \in stop : p < b /\ cmds[p].name \in Enders
    BY <1>4, <1>14, <2>1
  <2> QED
    BY <1>2, <1>13, <2>2
<1>15. Apart(cmds) => Apart(R)
  <2>1. Apart(cmds) => Apart(C)
    BY <1>7
  <2>2. Apart(cmds) => Apart(D)
    BY <1>8
  <2> QED
    BY <2>1, <2>2, <1>9, <1>10
<1>16. R \in Seq(Commands)
  BY <1>9
<1> QED
  BY <1>11, <1>12, <1>14, <1>15, <1>16 DEF RearrangedOf

\* What is to be dispatched of the backlog and of new commands.
ToDoOf(todo, loaded, cmds) ==
    /\ todo \in Seq(Commands)
    /\ \A l \in DOMAIN todo : todo[l].name # "noop"
    /\ \A l \in DOMAIN todo :
          \/ \E k \in DOMAIN loaded : /\ todo[l].name = loaded[k].name /\ todo[l].from = loaded[k].from
                                      /\ todo[l].exec = 0 /\ ~todo[l].wait
          \/ Has(cmds, todo[l])
    /\ Apart(loaded) /\ Apart(cmds) /\ Foreign(loaded, cmds) => Apart(todo)
    /\ \A b \in DOMAIN loaded : loaded[b].name # "noop" =>
          \E l \in DOMAIN todo :
             \/ /\ todo[l].name = loaded[b].name /\ todo[l].from = loaded[b].from
                /\ todo[l].exec = 0 /\ ~todo[l].wait
             \/ todo[l].name \in Enders
    /\ \A b \in DOMAIN cmds : cmds[b].name # "noop" =>
          \/ Has(todo, cmds[b])
          \/ \E p \in DOMAIN cmds : p < b /\ cmds[p].name \in Enders /\ Has(todo, cmds[p])

LEMMA ToDoSays ==
    ASSUME NEW loaded \in Seq(Commands), NEW cmds \in Seq(Commands)
    PROVE  ToDoOf(ToDo(loaded, cmds), loaded, cmds)
<1> DEFINE back == Restored(loaded)
           A == Rearranged(back)
           B == Rearranged(cmds)
           T == A \o B
<1>1. /\ back \in Seq(Commands) /\ DOMAIN back = DOMAIN loaded
      /\ \A k \in DOMAIN loaded : /\ back[k].name = loaded[k].name /\ back[k].from = loaded[k].from
                                  /\ back[k].exec = 0 /\ ~back[k].wait
  <2>1. DOMAIN back = DOMAIN loaded /\ DOMAIN loaded = 1..Len(loaded) /\ Len(loaded) \in Nat
    BY DEF Restored
  <2>2. ASSUME NEW k \in DOMAIN loaded
        PROVE  /\ back[k].name = loaded[k].name /\ back[k].from = loaded[k].from
               /\ back[k].exec = 0 /\ ~back[k].wait /\ back[k] \in Commands
    <3>1. loaded[k] \in Commands
      BY <2>1
    <3>2. back[k] = [loaded[k] EXCEPT !.wait = FALSE, !.exec = 0]
      BY DEF Restored
    <3>3. back[k] = [name |-> loaded[k].name, wait |-> FALSE, exec |-> 0, from |-> loaded[k].from]
      BY <3>1, <3>2 DEF Commands
    <3>4. loaded[k].name \in Name \cup Engine /\ loaded[k].from \in (Nat \X Nat) \X Nat
      BY <3>1 DEF Commands
    <3> HIDE DEF back
    <3> QED
      BY <3>3, <3>4 DEF Commands
  <2>3. back = [k \in 1..Len(loaded) |-> back[k]]
    BY <2>1 DEF Restored
  <2>4. \A k \in 1..Len(loaded) : back[k] \in Commands
    BY <2>1, <2>2
  <2> HIDE DEF back
  <2>5. back \in Seq(Commands)
    BY <2>1, <2>3, <2>4
  <2> QED
    BY <2>1, <2>2, <2>5
<1>2. Apart(loaded) => Apart(back)
  BY <1>1 DEF Apart
<1> HIDE DEF back
<1>3. /\ A \in Seq(Commands)
      /\ \A k \in DOMAIN A : Has(back, A[k]) /\ A[k].name # "noop"
      /\ Apart(back) => Apart(A)
      /\ \A b \in DOMAIN back : back[b].name # "noop" =>
                \/ Has(A, back[b])
                \/ \E p \in DOMAIN back : p < b /\ back[p].name \in Enders /\ Has(A, back[p])
  <2>1. RearrangedOf(A, back)
    BY <1>1, RearrangedSays
  <2> QED
    BY <2>1 DEF RearrangedOf
<1>4. /\ B \in Seq(Commands)
      /\ \A k \in DOMAIN B : Has(cmds, B[k]) /\ B[k].name # "noop"
      /\ Apart(cmds) => Apart(B)
      /\ \A b \in DOMAIN cmds : cmds[b].name # "noop" =>
                \/ Has(B, cmds[b])
                \/ \E p \in DOMAIN cmds : p < b /\ cmds[p].name \in Enders /\ Has(B, cmds[p])
  <2>1. RearrangedOf(B, cmds)
    BY RearrangedSays
  <2> QED
    BY <2>1 DEF RearrangedOf
<1>5. ToDo(loaded, cmds) = T
  BY DEF ToDo, back
<1> HIDE DEF A, B
<1>6. /\ T \in Seq(Commands)
      /\ \A k \in DOMAIN T : \/ \E l \in DOMAIN A : T[k] = A[l]
                             \/ \E l \in DOMAIN B : T[k] = B[l]
      /\ \A l \in DOMAIN A : \E k \in DOMAIN T : T[k] = A[l]
      /\ \A l \in DOMAIN B : \E k \in DOMAIN T : T[k] = B[l]
      /\ Apart(A) /\ Apart(B) /\ Foreign(A, B) => Apart(T)
  <2>1. Joined(Commands, T, A, B)
    BY <1>3, <1>4, ConcatSays
  <2> QED
    BY <2>1 DEF Joined
<1> HIDE DEF T
<1>7. Foreign(loaded, cmds) => Foreign(A, B)
  <2> SUFFICES ASSUME Foreign(loaded, cmds), NEW k \in DOMAIN A, NEW l \in DOMAIN B,
                      A[k].from = B[l].from
               PROVE  A[k].from[2] = 0
    BY DEF Foreign
  <2>1. PICK p \in DOMAIN loaded : A[k].from = loaded[p].from
    BY <1>1, <1>3 DEF Has
  <2>2. PICK m \in DOMAIN cmds : B[l] = cmds[m]
    BY <1>4 DEF Has
  <2> QED
    BY <2>1, <2>2 DEF Foreign
<1>8. \A c : Has(A, c) \/ Has(B, c) => Has(T, c)
  BY <1>6 DEF Has
<1>9. ASSUME NEW l \in DOMAIN T
      PROVE  \/ \E k \in DOMAIN loaded : /\ T[l].name = loaded[k].name /\ T[l].from = loaded[k].from
                                         /\ T[l].exec = 0 /\ ~T[l].wait
             \/ Has(cmds, T[l])
  <2>1. CASE \E k \in DOMAIN A : T[l] = A[k]
    <3>1. PICK m \in DOMAIN back : back[m] = T[l]
      BY <2>1, <1>3 DEF Has
    <3> QED
      BY <3>1, <1>1
  <2>2. CASE \E k \in DOMAIN B : T[l] = B[k]
    BY <2>2, <1>4
  <2> QED
    BY <2>1, <2>2, <1>6
<1>10. ASSUME NEW b \in DOMAIN loaded, loaded[b].name # "noop"
       PROVE  \E l \in DOMAIN T :
                \/ /\ T[l].name = loaded[b].name /\ T[l].from = loaded[b].from
                   /\ T[l].exec = 0 /\ ~T[l].wait
                \/ T[l].name \in Enders
  <2>1. CASE Has(A, back[b])
    <3>1. PICK l \in DOMAIN T : T[l] = back[b]
      BY <2>1, <1>8 DEF Has
    <3> QED
      BY <3>1, <1>1
  <2>2. CASE \E p \in DOMAIN back : back[p].name \in Enders /\ Has(A, back[p])
    BY <2>2, <1>8 DEF Has
  <2> QED
    BY <2>1, <2>2, <1>1, <1>3, <1>10
<1>11. ASSUME NEW b \in DOMAIN cmds, cmds[b].name # "noop"
       PROVE  \/ Has(T, cmds[b])
              \/ \E p \in DOMAIN cmds : p < b /\ cmds[p].name \in Enders /\ Has(T, cmds[p])
  BY <1>4, <1>8, <1>11
<1>12. \A l \in DOMAIN T : T[l].name # "noop"
  BY <1>3, <1>4, <1>6
<1>13. Apart(loaded) /\ Apart(cmds) /\ Foreign(loaded, cmds) => Apart(T)
  BY <1>2, <1>3, <1>4, <1>6, <1>7
<1> QED
  BY <1>5, <1>6, <1>9, <1>10, <1>11, <1>12, <1>13 DEF ToDoOf
-----------------------------------------------------------------------------
(* What the dispatcher makes of a session.                                  *)

WfStates   == {"NONE", "RUNNING", "PAUSED"} \cup Final
Kinds      == {"start", "again", "check", "refresh"}
Origins    == (Nat \X Nat) \X Nat
Executions == [name : Name, state : {"IDLE", "WAITING", "RUNNING"} \cup Result, run : Nat,
               processed : BOOLEAN, handled : BOOLEAN, result : Result \cup {"NONE"},
               keyed : BOOLEAN, from : Origins]
Sessions   == [seen : WfStates \ {"NONE"}, state : WfStates, execs : Seq(Executions),
               msgs : SUBSET (Kinds \X Nat), saved : Seq(Commands)]

\* One round of _process_commands() makes p of q, which is in one of these ways.
Ignores(q, p, c) ==
    /\ p = q
    /\ q.seen \notin Final =>
          q.seen = "RUNNING" /\ c.name \in Name /\ c.wait /\ \E i \in DOMAIN q.execs : q.execs[i].name = c.name

Saves(q, p, c) ==
    /\ q.seen = "PAUSED"
    /\ p.seen = q.seen /\ p.state = q.state /\ p.execs = q.execs /\ p.msgs = q.msgs
    /\ p.saved = Append(q.saved, c)

Sets(q, p, c) ==
    /\ q.seen = "RUNNING" /\ c.name \in DOMAIN SetState
    /\ p.execs = q.execs /\ p.msgs = q.msgs /\ p.saved = q.saved
    /\ q.state = "RUNNING" => p.seen = SetState[c.name] /\ p.state = SetState[c.name]
    /\ q.state # "RUNNING" => p.seen = q.seen /\ p.state = q.state

Repeats(q, p, c) ==
    /\ q.seen = "RUNNING" /\ c.name \in Name /\ c.exec # 0
    /\ p.seen = q.seen /\ p.state = q.state /\ p.execs = q.execs /\ p.saved = q.saved
    /\ p.msgs = q.msgs \cup {<<"again", c.exec>>}

Creates(q, p, c) ==
    /\ q.seen = "RUNNING" /\ c.name \in Name /\ c.exec = 0
    /\ p.seen = q.seen /\ p.state = q.state /\ p.saved = q.saved
    /\ p.execs = Append(q.execs, Execution(c, IF c.wait THEN "WAITING" ELSE "IDLE"))
    /\ p.msgs = q.msgs \cup (IF c.wait THEN {} ELSE {<<"start", Len(q.execs) + 1>>})

Defers(q, p, c) ==
    /\ q.seen = "RUNNING" /\ c.name \in Name /\ c.exec = 0 /\ c.wait
    /\ p.seen = q.seen /\ p.state = q.state /\ p.saved = q.saved /\ p.msgs = q.msgs
    /\ \E j \in DOMAIN q.execs :
          /\ q.execs[j].name = c.name /\ q.execs[j].keyed
          /\ p.execs = [q.execs EXCEPT ![j] = [q.execs[j] EXCEPT !.state = "WAITING"]]

Round(q, p, c) == \/ Ignores(q, p, c) \/ Saves(q, p, c)   \/ Sets(q, p, c)
                  \/ Repeats(q, p, c) \/ Creates(q, p, c) \/ Defers(q, p, c)

Whole(r) == r = [seen |-> r.seen, state |-> r.state, execs |-> r.execs, msgs |-> r.msgs, saved |-> r.saved]

LEMMA ProcessedRound ==
    ASSUME NEW q \in Sessions, NEW c \in Commands, c.name # "noop"
    PROVE  Round(q, Processed(q, c), c) /\ Whole(Processed(q, c))
<1> DEFINE p == Processed(q, c)
<1>1. /\ Whole(q)
      /\ q.seen \in {"RUNNING", "PAUSED"} \cup Final /\ q.execs \in Seq(Executions)
      /\ q.saved \in Seq(Commands) /\ q.msgs \in SUBSET (Kinds \X Nat)
  BY DEF Sessions, WfStates, Final, Whole
<1>2. Name \cap Engine = {}
  BY DispatcherAssumption
<1>3. CASE q.seen \in Final
  <2>1. p = q
    BY <1>3 DEF Processed, Final
  <2> QED
    BY <1>1, <1>3, <2>1 DEF Round, Ignores, Whole
<1>4. CASE q.seen = "PAUSED"
  <2>1. p = [q EXCEPT !.saved = Append(@, c)]
    BY <1>4 DEF Processed, Final
  <2>2. Saves(q, p, c) /\ Whole(p)
    <3> HIDE DEF p
    <3> QED
      BY <1>1, <1>4, <2>1 DEF Saves, Whole
  <2> QED
    BY <2>2 DEF Round
<1>5. CASE q.seen = "RUNNING" /\ c.name \in DOMAIN SetState
  <2>1. p = StateSet(q, SetState[c.name])
    BY <1>2, <1>5 DEF Processed, Final, Engine
  <2>2. CASE q.state = "RUNNING"
    <3>1. p = [q EXCEPT !.state = SetState[c.name], !.seen = SetState[c.name]]
      BY <1>5, <2>1, <2>2 DEF StateSet
    <3>2. Sets(q, p, c) /\ Whole(p)
      <4> HIDE DEF p
      <4> QED
        BY <1>1, <1>5, <2>2, <3>1 DEF Sets, Whole
    <3> QED
      BY <3>2 DEF Round
  <2>3. CASE q.state # "RUNNING"
    <3>1. p = q
      BY <1>5, <2>1, <2>3 DEF StateSet
    <3>2. Sets(q, p, c) /\ Whole(p)
      BY <1>1, <1>5, <2>3, <3>1 DEF Sets
    <3> QED
      BY <3>2 DEF Round
  <2> QED
    BY <2>2, <2>3
<1>6. CASE q.seen = "RUNNING" /\ c.name \in Name
  <2>1. c.name \notin DOMAIN SetState
    BY <1>2, <1>6 DEF Engine
  <2>2. CASE c.exec # 0
    <3>1. p = [q EXCEPT !.msgs = @ \cup {<<"again", c.exec>>}]
      BY <1>6, <2>1, <2>2 DEF Processed, Final
    <3>2. Repeats(q, p, c) /\ Whole(p)
      <4> HIDE DEF p
      <4> QED
        BY <1>1, <1>6, <2>2, <3>1 DEF Repeats, Whole
    <3> QED
      BY <3>2 DEF Round
  <2>3. CASE c.exec = 0 /\ ~c.wait
    <3>1. p = [WithNew(q, c, "IDLE") EXCEPT !.msgs = @ \cup {<<"start", Len(q.execs) + 1>>}]
      BY <1>6, <2>1, <2>3 DEF Processed, Final
    <3>2. p = [[q EXCEPT !.execs = Append(q.execs, Execution(c, "IDLE"))]
                   EXCEPT !.msgs = q.msgs \cup {<<"start", Len(q.execs) + 1>>}]
      <4>1. WithNew(q, c, "IDLE") = [q EXCEPT !.execs = Append(q.execs, Execution(c, "IDLE"))]
        BY DEF WithNew
      <4>2. [q EXCEPT !.execs = Append(q.execs, Execution(c, "IDLE"))].msgs = q.msgs
        BY <1>1 DEF Whole
      <4> QED
        BY <3>1, <4>1, <4>2
    <3>3. Creates(q, p, c) /\ Whole(p)
      <4> HIDE DEF p
      <4> QED
        BY <1>1, <1>6, <2>3, <3>2 DEF Creates, Whole
    <3> QED
      BY <3>3 DEF Round
  <2>4. CASE c.exec = 0 /\ c.wait
    <3>1. p = Deferred(q, c)
      BY <1>6, <2>1, <2>4 DEF Processed, Final
    <3> DEFINE same == {i \in DOMAIN q.execs : q.execs[i].name = c.name /\ q.execs[i].keyed}
    <3>2. CASE same = {}
      <4>1. p = WithNew(q, c, "WAITING")
        BY <3>1, <3>2 DEF Deferred
      <4>2. Creates(q, p, c) /\ Whole(p)
        <5>1. p = [q EXCEPT !.execs = Append(q.execs, Execution(c, "WAITING"))]
          BY <4>1 DEF WithNew
        <5> HIDE DEF p
        <5> QED
          BY <1>1, <1>6, <2>4, <5>1 DEF Creates, Whole
      <4> QED
        BY <4>2 DEF Round
    <3>3. CASE same # {} /\ \E i \in same : q.execs[i].state = "WAITING"
      <4>1. p = q
        BY <3>1, <3>3 DEF Deferred
      <4>2. Ignores(q, p, c) /\ Whole(p)
        BY <1>1, <1>6, <2>4, <3>3, <4>1 DEF Ignores
      <4> QED
        BY <4>2 DEF Round
    <3>4. CASE same # {} /\ ~\E i \in same : q.execs[i].state = "WAITING"
      <4> DEFINE j == First(same)
      <4>1. p = [q EXCEPT !.execs[j].state = "WAITING"]
        BY <3>1, <3>4 DEF Deferred
      <4>2. j \in same
        <5>1. same \in SUBSET Nat
          BY <1>1
        <5>2. \E k \in same : \A l \in same : k <= l
          <6> HIDE DEF same
          <6> QED
            BY <3>4, <5>1, LeastExists
        <5> HIDE DEF same
        <5> QED
          BY <5>2 DEF First
      <4>3. q.execs[j].name = c.name /\ q.execs[j].keyed /\ j \in DOMAIN q.execs
        BY <4>2
      <4> HIDE DEF j, same, p
      <4>4. /\ p.seen = q.seen /\ p.state = q.state /\ p.saved = q.saved /\ p.msgs = q.msgs
            /\ p.execs = [q.execs EXCEPT ![j] = [q.execs[j] EXCEPT !.state = "WAITING"]]
            /\ Whole(p)
        BY <1>1, <4>1 DEF Whole
      <4>5. Defers(q, p, c)
        BY <1>6, <2>4, <4>3, <4>4 DEF Defers
      <4> QED
        BY <4>4, <4>5 DEF Round, p
    <3> QED
      BY <3>2, <3>3, <3>4
  <2> QED
    BY <2>2, <2>3, <2>4
<1>7. c.name \in DOMAIN SetState \/ c.name \in Name
  BY DEF Commands, Engine
<1> QED
  BY <1>1, <1>3, <1>4, <1>5, <1>6, <1>7

LEMMA RoundTyped ==
    ASSUME NEW q \in Sessions, NEW c \in Commands, c.name # "noop"
    PROVE  Processed(q, c) \in Sessions
<1> DEFINE p == Processed(q, c)
<1>1. /\ q.seen \in WfStates \ {"NONE"} /\ q.state \in WfStates /\ q.execs \in Seq(Executions)
      /\ q.saved \in Seq(Commands) /\ q.msgs \in SUBSET (Kinds \X Nat)
  BY DEF Sessions
<1>3. Round(q, p, c) /\ Whole(p)
  BY ProcessedRound
<1>4. /\ c \in [name : Name \cup Engine, wait : BOOLEAN, exec : Nat, from : Origins]
      /\ Len(q.execs) \in Nat
  BY <1>1 DEF Commands, Origins
<1> HIDE DEF p
<1>5. p.seen \in WfStates \ {"NONE"} /\ p.state \in WfStates
  <2>1. CASE Sets(q, p, c)
    <3>1. SetState[c.name] \in WfStates \ {"NONE"}
      BY <2>1 DEF Sets, SetState, WfStates, Final
    <3> QED
      BY <1>1, <2>1, <3>1 DEF Sets
  <2>2. CASE p.seen = q.seen /\ p.state = q.state
    BY <1>1, <2>2
  <2> QED
    BY <1>3, <2>1, <2>2 DEF Round, Ignores, Saves, Repeats, Creates, Defers
<1>6. p.saved \in Seq(Commands)
  <2>1. p.saved = q.saved \/ p.saved = Append(q.saved, c)
    BY <1>3 DEF Round, Ignores, Saves, Sets, Repeats, Creates, Defers
  <2>2. Append(q.saved, c) \in Seq(Commands)
    <3>1. q.saved \in Seq(Commands) /\ c \in Commands
      BY <1>1
    <3> QED
      BY <3>1
  <2> QED
    BY <1>1, <2>1, <2>2, Zenon
<1>7. p.msgs \in SUBSET (Kinds \X Nat)
  <2>1. <<"again", c.exec>> \in Kinds \X Nat /\ <<"start", Len(q.execs) + 1>> \in Kinds \X Nat
    BY <1>4 DEF Kinds
  <2> QED
    BY <1>1, <1>3, <2>1 DEF Round, Ignores, Saves, Sets, Repeats, Creates, Defers
<1>8. p.execs \in Seq(Executions)
  <2>1. CASE Creates(q, p, c)
    <3> DEFINE e == Execution(c, IF c.wait THEN "WAITING" ELSE "IDLE")
    <3>1. e \in Executions
      BY <1>4, <2>1 DEF Creates, Execution, Executions, Origins
    <3> HIDE DEF e
    <3>2. p.execs = Append(q.execs, e)
      BY <2>1 DEF Creates, e
    <3> QED
      BY <1>1, <3>1, <3>2
  <2>2. CASE Defers(q, p, c)
    <3>1. PICK j \in DOMAIN q.execs : p.execs = [q.execs EXCEPT ![j] = [q.execs[j] EXCEPT !.state = "WAITING"]]
      BY <2>2 DEF Defers
    <3>2. q.execs[j] \in Executions
      BY <1>1
    <3>3. [q.execs[j] EXCEPT !.state = "WAITING"] \in Executions
      BY <3>2 DEF Executions
    <3> QED
      BY <1>1, <3>1, <3>3
  <2>3. CASE p.execs = q.execs
    BY <1>1, <2>3
  <2> QED
    BY <1>3, <2>1, <2>2, <2>3 DEF Round, Ignores, Saves, Sets, Repeats
<1>9. p \in Sessions
  BY <1>3, <1>5, <1>6, <1>7, <1>8 DEF Sessions, Whole
<1> QED
  BY <1>9 DEF p
\* What holds before and after every command holds of what was dispatched.
LEMMA DispatchedIn ==
    ASSUME NEW r \in Sessions, NEW todo \in Seq(Commands),
           \A l \in DOMAIN todo : todo[l].name # "noop",
           NEW G, <<0, r>> \in G,
           \A k \in DOMAIN todo, q \in Sessions :
              <<k - 1, q>> \in G => <<k, Processed(q, todo[k])>> \in G
    PROVE  Dispatched(r, todo) \in Sessions /\ <<Len(todo), Dispatched(r, todo)>> \in G
<1> DEFINE n == Len(todo)
           step == [x \in (1..n) \X Sessions |-> Processed(x[2], todo[x[1]])]
           U == CHOOSE u : u = [k \in 0..n |-> IF k = 0 THEN {r} ELSE
                                  {Processed(q, todo[k]) : q \in u[k - 1]}]
<1>1. n \in Nat /\ DOMAIN todo = 1..n /\ \A k \in 1..n : todo[k] \in Commands
  OBVIOUS
<1>2. Dispatched(r, todo) = CHOOSE q \in U[n] : TRUE
  BY DEF Dispatched
<1>3. PICK f : Steps(f, n, Sessions, r, step)
  <2>1. step \in [(1..n) \X Sessions -> Sessions]
    <3>1. \A k \in 1..n, q \in Sessions : Processed(q, todo[k]) \in Sessions
      BY <1>1, RoundTyped
    <3> QED
      BY <3>1
  <2> HIDE DEF step, n, U
  <2> QED
    BY <1>1, <2>1, StepByStep
<1>4. \A k \in 1..n : f[k - 1] \in Sessions /\ f[k] = Processed(f[k - 1], todo[k])
  <2> TAKE k \in 1..n
  <2>1. k - 1 \in 0..n /\ f[k - 1] \in Sessions
    BY <1>1, <1>3 DEF Steps
  <2>2. <<k, f[k - 1]>> \in (1..n) \X Sessions
    BY <2>1
  <2>3. f[k] = step[<<k, f[k - 1]>>]
    BY <1>3 DEF Steps
  <2> QED
    BY <2>1, <2>2, <2>3
<1> DEFINE F == [k \in 0..n |-> {f[k]}]
<1>5. F = [k \in 0..n |-> IF k = 0 THEN {r} ELSE {Processed(q, todo[k]) : q \in F[k - 1]}]
  <2>1. \A k \in 0..n : k = 0 \/ k \in 1..n
    BY <1>1
  <2>2. f[0] = r
    BY <1>3 DEF Steps
  <2>3. ASSUME NEW k \in 1..n PROVE {f[k]} = {Processed(q, todo[k]) : q \in F[k - 1]}
    <3>1. k - 1 \in 0..n
      BY <1>1
    <3>2. F[k - 1] = {f[k - 1]}
      BY <3>1
    <3> HIDE DEF F
    <3> QED
      BY <3>2, <1>4
  <2> HIDE DEF n, step, U
  <2>4. \A k \in 0..n : F[k] = IF k = 0 THEN {r} ELSE {Processed(q, todo[k]) : q \in F[k - 1]}
    <3> SUFFICES ASSUME NEW k \in 0..n
                 PROVE  F[k] = IF k = 0 THEN {r} ELSE {Processed(q, todo[k]) : q \in F[k - 1]}
      OBVIOUS
    <3>1. F[k] = {f[k]}
      OBVIOUS
    <3>2. CASE k = 0
      BY <3>1, <3>2, <2>2
    <3>3. CASE k \in 1..n
      <4>1. k # 0
        BY <3>3
      <4> HIDE DEF F
      <4> QED
        BY <3>1, <3>3, <4>1, <2>3
    <3> QED
      BY <2>1, <3>2, <3>3
  <2>5. F = [k \in 0..n |-> F[k]]
    OBVIOUS
  <2> HIDE DEF F
  <2> QED
    BY <2>4, <2>5
<1>6. U = [k \in 0..n |-> IF k = 0 THEN {r} ELSE {Processed(q, todo[k]) : q \in U[k - 1]}]
  <2> HIDE DEF F, step, n
  <2> QED
    BY <1>5
<1> HIDE DEF U, step, F
<1> DEFINE S == {k \in Nat : k <= n => U[k] = {f[k]} /\ <<k, f[k]>> \in G}
<1>7. 0 \in S
  <2>1. f[0] = r /\ U[0] = {r}
    BY <1>1, <1>3, <1>6 DEF Steps
  <2> QED
    BY <2>1
<1>8. ASSUME NEW k \in Nat, k \in S PROVE k + 1 \in S
  <2> SUFFICES ASSUME k + 1 <= n PROVE U[k + 1] = {f[k + 1]} /\ <<k + 1, f[k + 1]>> \in G
    OBVIOUS
  <2>1. U[k] = {f[k]} /\ <<k, f[k]>> \in G
    BY <1>1, <1>8
  <2>2. k + 1 \in 1..n /\ k + 1 \in 0..n /\ k + 1 # 0 /\ (k + 1) - 1 = k
    BY <1>1
  <2>3. U[k + 1] = {Processed(q, todo[k + 1]) : q \in U[k]}
    BY <1>6, <2>2
  <2>4. f[k] \in Sessions /\ f[k + 1] = Processed(f[k], todo[k + 1])
    BY <1>4, <2>2
  <2>5. U[k + 1] = {f[k + 1]}
    BY <2>1, <2>3, <2>4
  <2> HIDE DEF n
  <2>6. <<k + 1, f[k + 1]>> \in G
    BY <1>1, <2>1, <2>2, <2>4
  <2> QED
    BY <2>5, <2>6
<1>9. U[n] = {f[n]} /\ <<n, f[n]>> \in G
  <2>1. Nat \subseteq S
    <3> HIDE DEF S
    <3> QED
      BY <1>7, <1>8, AllNaturals
  <2>2. n \in S /\ n <= n
    <3> HIDE DEF n, S
    <3> QED
      BY <1>1, <2>1
  <2> HIDE DEF n
  <2> QED
    BY <2>2
<1>10. f[n] \in Sessions
  <2>1. n \in 0..n
    <3> HIDE DEF n
    <3> QED
      BY <1>1
  <2> HIDE DEF n
  <2> QED
    BY <2>1, <1>3 DEF Steps
<1>11. Dispatched(r, todo) = f[n]
  BY <1>2, <1>9
<1> QED
  BY <1>9, <1>10, <1>11

\* Execution f is e, or e is a join that waits once more.
Redone(e, f) == e.keyed /\ f = [e EXCEPT !.state = "WAITING"]

LEMMA RedoneSays ==
    ASSUME NEW e \in Executions, NEW f, Redone(e, f)
    PROVE  /\ f \in Executions /\ f.state = "WAITING" /\ f.name = e.name /\ f.from = e.from
           /\ f.keyed = e.keyed /\ f.keyed /\ f.processed = e.processed /\ f.result = e.result /\ f.run = e.run
           /\ e.state = "WAITING" => f = e
<1>1. e = [name |-> e.name, state |-> e.state, run |-> e.run, processed |-> e.processed, handled |-> e.handled,
           result |-> e.result, keyed |-> e.keyed, from |-> e.from]
  BY DEF Executions
<1>2. f \in Executions
  BY DEF Redone, Executions
<1>3. f.state = "WAITING" /\ f.name = e.name /\ f.from = e.from /\ f.keyed = e.keyed
      /\ f.processed = e.processed /\ f.result = e.result /\ f.run = e.run
  BY <1>1 DEF Redone
<1>4. e.state = "WAITING" => f = e
  BY <1>1 DEF Redone
<1> QED
  BY <1>2, <1>3, <1>4 DEF Redone

\* An execution that the dispatcher created.
Fresh(e) == /\ e.state \in {"IDLE", "WAITING"} /\ e.processed = FALSE /\ e.result = "NONE"
            /\ e.keyed => e.state = "WAITING"

\* es and at most one more, for command c.
Extended(es, fs, c) ==
    /\ Len(fs) = Len(es) \/ Len(fs) = Len(es) + 1
    /\ \A i \in DOMAIN es : fs[i] = es[i] \/ Redone(es[i], fs[i])
    /\ Len(fs) # Len(es) => /\ Fresh(fs[Len(fs)]) /\ fs[Len(fs)].from = c.from
                            /\ fs[Len(fs)].keyed = c.wait

LEMMA RoundExtends ==
    ASSUME NEW q \in Sessions, NEW c \in Commands, NEW p, Round(q, p, c)
    PROVE  Extended(q.execs, p.execs, c)
<1> DEFINE es == q.execs
<1>1. es \in Seq(Executions) /\ Len(es) \in Nat /\ DOMAIN es = 1..Len(es)
  BY DEF Sessions
<1>2. CASE Creates(q, p, c)
  <2> DEFINE e == Execution(c, IF c.wait THEN "WAITING" ELSE "IDLE")
  <2>1. Fresh(e) /\ e.from = c.from /\ e.keyed = c.wait
    BY DEF Fresh, Execution
  <2>2. p.execs = Append(es, e)
    BY <1>2 DEF Creates
  <2> HIDE DEF e, es
  <2>3. /\ Len(p.execs) = Len(es) + 1 /\ p.execs[Len(es) + 1] = e
        /\ \A i \in 1..Len(es) : p.execs[i] = es[i]
    BY <1>1, <2>2
  <2>4. Extended(es, p.execs, c)
    BY <1>1, <2>1, <2>3 DEF Extended
  <2> QED
    BY <2>4 DEF es
<1>3. CASE Defers(q, p, c)
  <2>1. PICK j \in DOMAIN es : es[j].keyed /\ p.execs = [es EXCEPT ![j] = [es[j] EXCEPT !.state = "WAITING"]]
    BY <1>3 DEF Defers
  <2>2. Len(p.execs) = Len(es)
    BY <1>1, <2>1
  <2>3. \A i \in DOMAIN es : p.execs[i] = es[i] \/ Redone(es[i], p.execs[i])
    BY <2>1 DEF Redone
  <2> HIDE DEF es
  <2>4. Extended(es, p.execs, c)
    BY <2>2, <2>3 DEF Extended
  <2> QED
    BY <2>4 DEF es
<1>4. CASE p.execs = q.execs
  BY <1>4 DEF Extended
<1> QED
  BY <1>2, <1>3, <1>4 DEF Round, Ignores, Saves, Sets, Repeats
-----------------------------------------------------------------------------
(* What k commands of todo made of the session r is q.                      *)

\* The states; only a session that was the last to set PAUSED saves commands.
PhaseOf(r, q) ==
    /\ r.seen \in Final => q = r
    /\ r.seen = "PAUSED" => /\ q.seen = "PAUSED" /\ q.state = r.state
                            /\ q.execs = r.execs /\ q.msgs = r.msgs
    /\ r.seen = "RUNNING" /\ r.state = "RUNNING" => /\ q.seen = q.state
                                                    /\ q.saved # <<>> => q.seen = "PAUSED"
    /\ r.seen = "RUNNING" /\ r.state # "RUNNING" => /\ q.seen = "RUNNING" /\ q.state = r.state
                                                    /\ q.saved = <<>>

\* The executions.
GrownOf(r, todo, k, q) ==
    /\ Len(r.execs) <= Len(q.execs)
    /\ \A i \in DOMAIN r.execs : q.execs[i] = r.execs[i] \/ Redone(r.execs[i], q.execs[i])
    /\ \A i \in DOMAIN q.execs \ DOMAIN r.execs :
          /\ Fresh(q.execs[i])
          /\ \E l \in 1..k : q.execs[i].from = todo[l].from

\* The messages.
MsgsOf(r, todo, k, q) ==
    \A m \in q.msgs :
        \/ m \in r.msgs
        \/ \E l \in 1..k : todo[l].exec # 0 /\ m = <<"again", todo[l].exec>>
        \/ \E i \in DOMAIN q.execs \ DOMAIN r.execs : ~q.execs[i].keyed /\ m = <<"start", i>>

\* What is saved.
SavedOf(todo, k, q) == \A b \in DOMAIN q.saved : \E l \in 1..k : q.saved[b] = todo[l]

\* No command is carried out and saved, or one of the two twice.
Clear(c, s) == \A i \in DOMAIN s : s[i].from = c.from => c.from[2] = 0
OnceOf(r, todo, k, q) ==
    Apart(r.execs) /\ Apart(todo) /\ Foreign(todo, r.execs) =>
      /\ Apart(q.execs) /\ Apart(q.saved) /\ Foreign(q.saved, q.execs)
      /\ \A l \in DOMAIN todo : k < l => Clear(todo[l], q.execs) /\ Clear(todo[l], q.saved)

\* Every command is carried out or saved, unless the workflow has ended.
Carried(q, c) ==
    \/ q.seen \in Final \/ Has(q.saved, c)
    \/ \E i \in DOMAIN q.execs : q.execs[i].from = c.from \/ (c.wait /\ q.execs[i].name = c.name)
CarriedOf(r, todo, k, q) ==
    r.seen = "RUNNING" =>
      \A l \in 1..k :
        /\ todo[l].name \in Name /\ todo[l].exec = 0 => Carried(q, todo[l])
        /\ r.state = "RUNNING" /\ todo[l].name \in Enders => q.seen \in Final \/ Has(q.saved, todo[l])

SessionOf(r, todo, k, q) ==
    /\ PhaseOf(r, q) /\ GrownOf(r, todo, k, q) /\ MsgsOf(r, todo, k, q)
    /\ SavedOf(todo, k, q) /\ OnceOf(r, todo, k, q) /\ CarriedOf(r, todo, k, q)

LEMMA PhaseStep ==
    ASSUME NEW r \in Sessions, NEW q \in Sessions, NEW p, NEW c, PhaseOf(r, q), Round(q, p, c)
    PROVE  PhaseOf(r, p)
<1>1. CASE r.seen \in Final
  <2>1. q = r
    BY <1>1 DEF PhaseOf
  <2>2. p = q
    BY <1>1, <2>1 DEF Round, Ignores, Saves, Sets, Repeats, Creates, Defers, Final
  <2> QED
    BY <2>2
<1>2. CASE r.seen = "PAUSED"
  <2>1. q.seen = "PAUSED"
    BY <1>2 DEF PhaseOf
  <2>2. Saves(q, p, c)
    BY <2>1 DEF Round, Ignores, Sets, Repeats, Creates, Defers, Final
  <2> QED
    BY <1>2, <2>2 DEF PhaseOf, Saves, Final
<1>3. CASE r.seen = "RUNNING" /\ r.state = "RUNNING"
  <2>1. q.seen = q.state /\ (q.saved # <<>> => q.seen = "PAUSED")
    BY <1>3 DEF PhaseOf
  <2>2. p.seen = p.state /\ (p.saved # <<>> => p.seen = "PAUSED")
    BY <2>1 DEF Round, Ignores, Saves, Sets, Repeats, Creates, Defers, Final
  <2> QED
    BY <1>3, <2>2 DEF PhaseOf, Final
<1>4. CASE r.seen = "RUNNING" /\ r.state # "RUNNING"
  <2>1. q.seen = "RUNNING" /\ q.state = r.state /\ q.saved = <<>>
    BY <1>4 DEF PhaseOf
  <2>2. p.seen = "RUNNING" /\ p.state = r.state /\ p.saved = <<>>
    BY <1>4, <2>1 DEF Round, Ignores, Saves, Sets, Repeats, Creates, Defers, Final
  <2> QED
    BY <1>4, <2>2 DEF PhaseOf, Final
<1>5. r.seen \in {"RUNNING", "PAUSED"} \cup Final
  BY DEF Sessions, WfStates
<1> QED
  BY <1>1, <1>2, <1>3, <1>4, <1>5

\* Names, origins and keys of executions stay, one at most is new.
LEMMA ExtendedSays ==
    ASSUME NEW es \in Seq(Executions), NEW fs \in Seq(Executions), NEW c, Extended(es, fs, c)
    PROVE  /\ DOMAIN es \subseteq DOMAIN fs
           /\ \A i \in DOMAIN es : /\ fs[i].name = es[i].name /\ fs[i].from = es[i].from /\ fs[i].keyed = es[i].keyed
                                   /\ Fresh(es[i]) => Fresh(fs[i])
           /\ \A i \in DOMAIN fs \ DOMAIN es : i = Len(fs) /\ Fresh(fs[i]) /\ fs[i].from = c.from /\ fs[i].keyed = c.wait
<1>1. /\ Len(es) \in Nat /\ Len(fs) \in Nat /\ DOMAIN es = 1..Len(es) /\ DOMAIN fs = 1..Len(fs)
      /\ Len(fs) = Len(es) \/ Len(fs) = Len(es) + 1
  BY DEF Extended
<1> DEFINE n == Len(es)
           m == Len(fs)
<1>2. /\ \A i : i \in 1..n => i \in 1..m
      /\ \A i : i \in 1..m /\ i \notin 1..n => i = m /\ m # n
  <2>1. n \in Nat /\ m \in Nat /\ (m = n \/ m = n + 1)
    BY <1>1
  <2> HIDE DEF n, m
  <2> QED
    BY ONLY <2>1
<1>3. ASSUME NEW i \in DOMAIN es
      PROVE  /\ fs[i].name = es[i].name /\ fs[i].from = es[i].from /\ fs[i].keyed = es[i].keyed
             /\ Fresh(es[i]) => Fresh(fs[i])
  <2>1. CASE fs[i] = es[i]
    BY <2>1
  <2>2. CASE Redone(es[i], fs[i])
    <3>1. es[i] \in Executions
      BY ElementOfSeq, <1>1
    <3> QED
      BY <2>2, <3>1, RedoneSays DEF Fresh
  <2> QED
    BY <2>1, <2>2 DEF Extended
<1>4. ASSUME NEW i \in DOMAIN fs \ DOMAIN es
      PROVE  i = Len(fs) /\ Fresh(fs[i]) /\ fs[i].from = c.from /\ fs[i].keyed = c.wait
  <2>1. i = Len(fs) /\ Len(fs) # Len(es)
    BY <1>1, <1>2, Zenon
  <2> QED
    BY <2>1 DEF Extended
<1>5. DOMAIN es \subseteq DOMAIN fs
  BY <1>1, <1>2, Zenon
<1> QED
  BY <1>3, <1>4, <1>5

LEMMA GrownStep ==
    ASSUME NEW r \in Sessions, NEW q \in Sessions, NEW p \in Sessions, NEW todo, NEW k \in Nat \ {0},
           GrownOf(r, todo, k - 1, q), Extended(q.execs, p.execs, todo[k])
    PROVE  GrownOf(r, todo, k, p)
<1> DEFINE es == q.execs
           fs == p.execs
<1>1. /\ es \in Seq(Executions) /\ fs \in Seq(Executions) /\ r.execs \in Seq(Executions)
      /\ Len(es) \in Nat /\ Len(fs) \in Nat /\ Len(r.execs) \in Nat
      /\ DOMAIN es = 1..Len(es) /\ DOMAIN fs = 1..Len(fs) /\ DOMAIN r.execs = 1..Len(r.execs)
  BY DEF Sessions
<1>2. /\ DOMAIN es \subseteq DOMAIN fs
      /\ \A i \in DOMAIN es : Fresh(es[i]) => Fresh(fs[i])
      /\ \A i \in DOMAIN es : fs[i].from = es[i].from
      /\ \A i \in DOMAIN fs \ DOMAIN es : Fresh(fs[i]) /\ fs[i].from = todo[k].from
  <2>1. es \in Seq(Executions) /\ fs \in Seq(Executions) /\ Extended(es, fs, todo[k])
    BY <1>1
  <2> HIDE DEF es, fs
  <2> QED
    BY <2>1, ExtendedSays
<1>3. Len(r.execs) <= Len(fs) /\ DOMAIN r.execs \subseteq DOMAIN es
  BY <1>1 DEF GrownOf, Extended
<1>4. ASSUME NEW i \in DOMAIN r.execs PROVE fs[i] = r.execs[i] \/ Redone(r.execs[i], fs[i])
  <2>1. /\ es[i] = r.execs[i] \/ Redone(r.execs[i], es[i])
        /\ fs[i] = es[i] \/ Redone(es[i], fs[i])
    BY <1>3 DEF GrownOf, Extended
  <2>2. CASE Redone(r.execs[i], es[i]) /\ Redone(es[i], fs[i])
    <3>1. r.execs[i] \in Executions /\ es[i] \in Executions
      BY <1>1, <1>3
    <3>2. es[i].state = "WAITING"
      BY <2>2, <3>1, RedoneSays
    <3>3. fs[i] = es[i]
      BY <2>2, <3>1, <3>2, RedoneSays
    <3> QED
      BY <2>2, <3>3
  <2> QED
    BY <2>1, <2>2
<1>5. \A l \in 1..(k - 1) : l \in 1..k
  OBVIOUS
<1>6. ASSUME NEW i \in DOMAIN fs \ DOMAIN r.execs
      PROVE  Fresh(fs[i]) /\ \E l \in 1..k : fs[i].from = todo[l].from
  <2>1. CASE i \in DOMAIN es
    <3>1. Fresh(es[i]) /\ \E l \in 1..(k - 1) : es[i].from = todo[l].from
      BY <2>1, <1>6 DEF GrownOf
    <3> HIDE DEF es, fs
    <3> QED
      BY <3>1, <2>1, <1>2, <1>5
  <2>2. CASE i \notin DOMAIN es
    <3>1. k \in 1..k
      OBVIOUS
    <3> HIDE DEF es, fs
    <3> QED
      BY <2>2, <3>1, <1>2, <1>6
  <2> QED
    BY <2>1, <2>2
<1> HIDE DEF es
<1> QED
  BY <1>3, <1>4, <1>6 DEF GrownOf
LEMMA MsgsStep ==
    ASSUME NEW r \in Sessions, NEW q \in Sessions, NEW p \in Sessions, NEW todo, NEW k \in Nat \ {0},
           GrownOf(r, todo, k - 1, q), MsgsOf(r, todo, k - 1, q), Round(q, p, todo[k]),
           Extended(q.execs, p.execs, todo[k])
    PROVE  MsgsOf(r, todo, k, p)
<1> DEFINE es == q.execs
           fs == p.execs
           c == todo[k]
<1>1. /\ es \in Seq(Executions) /\ fs \in Seq(Executions) /\ Len(es) \in Nat /\ Len(r.execs) \in Nat
      /\ DOMAIN es = 1..Len(es) /\ DOMAIN r.execs = 1..Len(r.execs) /\ Len(r.execs) <= Len(es)
      /\ DOMAIN fs = 1..Len(fs)
  BY DEF Sessions, GrownOf
<1>2. DOMAIN es \subseteq DOMAIN fs /\ \A i \in DOMAIN es : fs[i].keyed = es[i].keyed
  BY <1>1, ExtendedSays
<1>3. \A l \in 1..(k - 1) : l \in 1..k
  OBVIOUS
<1>4. k \in 1..k
  OBVIOUS
<1>5. ASSUME NEW m \in q.msgs
      PROVE  \/ m \in r.msgs
             \/ \E l \in 1..k : todo[l].exec # 0 /\ m = <<"again", todo[l].exec>>
             \/ \E i \in DOMAIN fs \ DOMAIN r.execs : ~fs[i].keyed /\ m = <<"start", i>>
  <2>1. \/ m \in r.msgs
        \/ \E l \in 1..(k - 1) : todo[l].exec # 0 /\ m = <<"again", todo[l].exec>>
        \/ \E i \in DOMAIN es \ DOMAIN r.execs : ~es[i].keyed /\ m = <<"start", i>>
    BY DEF MsgsOf
  <2> HIDE DEF es, fs
  <2>2. CASE \E i \in DOMAIN es \ DOMAIN r.execs : ~es[i].keyed /\ m = <<"start", i>>
    BY <2>2, <1>2
  <2> QED
    BY <2>1, <2>2, <1>3
<1>6. ASSUME NEW m \in p.msgs, m \notin q.msgs
      PROVE  \/ \E l \in 1..k : todo[l].exec # 0 /\ m = <<"again", todo[l].exec>>
             \/ \E i \in DOMAIN fs \ DOMAIN r.execs : ~fs[i].keyed /\ m = <<"start", i>>
  <2>1. CASE Repeats(q, p, c)
    BY <2>1, <1>4, <1>6 DEF Repeats
  <2>2. CASE Creates(q, p, c)
    <3>1. ~c.wait /\ m = <<"start", Len(es) + 1>>
      BY <2>2, <1>6 DEF Creates
    <3> DEFINE i == Len(es) + 1
    <3>2. Len(fs) = i
      <4>1. fs = Append(es, Execution(c, IF c.wait THEN "WAITING" ELSE "IDLE"))
        BY <2>2 DEF Creates
      <4> HIDE DEF es, fs
      <4> QED
        BY <1>1, <4>1
    <3>3. i \in DOMAIN fs \ DOMAIN r.execs
      BY <1>1, <3>2
    <3>4. fs[i].keyed = c.wait
      <4>1. fs[i] = Execution(c, IF c.wait THEN "WAITING" ELSE "IDLE")
        BY <1>1, <2>2 DEF Creates
      <4> QED
        BY <4>1 DEF Execution
    <3> HIDE DEF fs
    <3> QED
      BY <3>1, <3>3, <3>4
  <2>3. CASE p.msgs = q.msgs
    BY <2>3, <1>6
  <2> QED
    BY <2>1, <2>2, <2>3 DEF Round, Ignores, Saves, Sets, Defers
<1> QED
  BY <1>5, <1>6 DEF MsgsOf

LEMMA SavedStep ==
    ASSUME NEW q \in Sessions, NEW p, NEW todo, NEW k \in Nat \ {0},
           SavedOf(todo, k - 1, q), Round(q, p, todo[k])
    PROVE  SavedOf(todo, k, p)
<1>1. q.saved \in Seq(Commands) /\ Len(q.saved) \in Nat /\ DOMAIN q.saved = 1..Len(q.saved)
  BY DEF Sessions
<1>2. (\A l \in 1..(k - 1) : l \in 1..k) /\ k \in 1..k
  OBVIOUS
<1>3. p.saved = q.saved \/ p.saved = Append(q.saved, todo[k])
  BY DEF Round, Ignores, Saves, Sets, Repeats, Creates, Defers
<1>4. CASE p.saved = q.saved
  BY <1>2, <1>4 DEF SavedOf
<1>5. CASE p.saved = Append(q.saved, todo[k])
  <2> SUFFICES ASSUME NEW b \in DOMAIN p.saved PROVE \E l \in 1..k : p.saved[b] = todo[l]
    BY DEF SavedOf
  <2>1. \/ b \in DOMAIN q.saved /\ p.saved[b] = q.saved[b]
        \/ p.saved[b] = todo[k]
    BY <1>1, <1>5
  <2> QED
    BY <2>1, <1>2 DEF SavedOf
<1> QED
  BY <1>3, <1>4, <1>5

\* t has the origins of s, and one more at most: that of c.
More(s, t, c) ==
    /\ DOMAIN s \subseteq DOMAIN t
    /\ \A i \in DOMAIN s : t[i].from = s[i].from
    /\ \E n : \A i \in DOMAIN t \ DOMAIN s : i = n /\ t[i].from = c.from

LEMMA MoreSays ==
    ASSUME NEW s, NEW t, NEW c, More(s, t, c)
    PROVE  /\ Apart(s) /\ Clear(c, s) => Apart(t)
           /\ \A d : Clear(d, s) /\ (d.from = c.from => d.from[2] = 0) => Clear(d, t)
           /\ \A u : Foreign(u, s) /\ Clear(c, u) => Foreign(u, t)
           /\ \A u : Foreign(s, u) /\ Clear(c, u) => Foreign(t, u)
<1>1. PICK n : \A i \in DOMAIN t \ DOMAIN s : i = n /\ t[i].from = c.from
  BY DEF More
<1>2. DOMAIN s \subseteq DOMAIN t /\ \A i \in DOMAIN s : t[i].from = s[i].from
  BY DEF More
<1>3. ASSUME Apart(s), Clear(c, s) PROVE Apart(t)
  <2> SUFFICES ASSUME NEW k \in DOMAIN t, NEW l \in DOMAIN t, k # l, t[k].from = t[l].from
               PROVE  t[k].from[2] = 0
    BY DEF Apart
  <2>1. CASE k \in DOMAIN s /\ l \in DOMAIN s
    BY <2>1, <1>2, <1>3 DEF Apart
  <2>2. CASE k \in DOMAIN s /\ l \notin DOMAIN s
    BY <2>2, <1>1, <1>2, <1>3 DEF Clear
  <2>3. CASE k \notin DOMAIN s /\ l \in DOMAIN s
    BY <2>3, <1>1, <1>2, <1>3 DEF Clear
  <2>4. CASE k \notin DOMAIN s /\ l \notin DOMAIN s
    BY <2>4, <1>1
  <2> QED
    BY <2>1, <2>2, <2>3, <2>4
<1>4. ASSUME NEW d, Clear(d, s), d.from = c.from => d.from[2] = 0 PROVE Clear(d, t)
  BY <1>1, <1>2, <1>4 DEF Clear
<1>5. ASSUME NEW u, Foreign(u, s), Clear(c, u) PROVE Foreign(u, t)
  BY <1>1, <1>2, <1>5 DEF Foreign, Clear
<1>6. ASSUME NEW u, Foreign(s, u), Clear(c, u) PROVE Foreign(t, u)
  <2> SUFFICES ASSUME NEW k \in DOMAIN t, NEW l \in DOMAIN u, t[k].from = u[l].from
               PROVE  t[k].from[2] = 0
    BY DEF Foreign
  <2>1. CASE k \in DOMAIN s
    BY <2>1, <1>2, <1>6 DEF Foreign
  <2>2. CASE k \notin DOMAIN s
    BY <2>2, <1>1, <1>6 DEF Clear
  <2> QED
    BY <2>1, <2>2
<1> QED
  BY <1>3, <1>4, <1>5, <1>6

\* A round adds to the executions or to what is saved.
LEMMA RoundMore ==
    ASSUME NEW q \in Sessions, NEW p \in Sessions, NEW c, Round(q, p, c), Extended(q.execs, p.execs, c)
    PROVE  \/ p.saved = q.saved /\ More(q.execs, p.execs, c)
           \/ p.execs = q.execs /\ More(q.saved, p.saved, c)
<1>1. CASE Saves(q, p, c)
  <2>1. q.saved \in Seq(Commands) /\ p.saved = Append(q.saved, c) /\ p.execs = q.execs
    BY <1>1 DEF Sessions, Saves
  <2>2. \A i \in DOMAIN q.saved : i \in DOMAIN p.saved /\ p.saved[i] = q.saved[i]
    BY <2>1
  <2>3. \A i \in DOMAIN p.saved \ DOMAIN q.saved : i = Len(q.saved) + 1 /\ p.saved[i] = c
    BY <2>1
  <2>4. More(q.saved, p.saved, c)
    <3> DEFINE n == Len(q.saved) + 1
    <3>1. \A i \in DOMAIN p.saved \ DOMAIN q.saved : i = n /\ p.saved[i].from = c.from
      BY <2>3
    <3>2. DOMAIN q.saved \subseteq DOMAIN p.saved /\ \A i \in DOMAIN q.saved : p.saved[i].from = q.saved[i].from
      BY <2>2
    <3> HIDE DEF n
    <3> QED
      BY <3>1, <3>2 DEF More
  <2> QED
    BY <2>1, <2>4
<1>2. CASE p.saved = q.saved
  <2>1. q.execs \in Seq(Executions) /\ p.execs \in Seq(Executions)
    BY DEF Sessions
  <2>2. More(q.execs, p.execs, c)
    <3> DEFINE n == Len(p.execs)
    <3>1. \A i \in DOMAIN p.execs \ DOMAIN q.execs : i = n /\ p.execs[i].from = c.from
      BY <2>1, ExtendedSays
    <3>2. DOMAIN q.execs \subseteq DOMAIN p.execs /\ \A i \in DOMAIN q.execs : p.execs[i].from = q.execs[i].from
      BY <2>1, ExtendedSays
    <3> HIDE DEF n
    <3> QED
      BY <3>1, <3>2 DEF More
  <2> QED
    BY <1>2, <2>2
<1> QED
  BY <1>1, <1>2 DEF Round, Ignores, Sets, Repeats, Creates, Defers

LEMMA OnceStep ==
    ASSUME NEW r, NEW q \in Sessions, NEW p \in Sessions, NEW todo, NEW k \in DOMAIN todo, DOMAIN todo \subseteq Nat,
           OnceOf(r, todo, k - 1, q), Round(q, p, todo[k]), Extended(q.execs, p.execs, todo[k])
    PROVE  OnceOf(r, todo, k, p)
<1> DEFINE c == todo[k]
<1> SUFFICES ASSUME Apart(r.execs), Apart(todo), Foreign(todo, r.execs)
             PROVE  /\ Apart(p.execs) /\ Apart(p.saved) /\ Foreign(p.saved, p.execs)
                    /\ \A l \in DOMAIN todo : k < l => Clear(todo[l], p.execs) /\ Clear(todo[l], p.saved)
  BY DEF OnceOf
<1>1. /\ Apart(q.execs) /\ Apart(q.saved) /\ Foreign(q.saved, q.execs)
      /\ \A l \in DOMAIN todo : k - 1 < l => Clear(todo[l], q.execs) /\ Clear(todo[l], q.saved)
  BY DEF OnceOf
<1>2. Clear(c, q.execs) /\ Clear(c, q.saved)
  <2>1. k - 1 < k
    OBVIOUS
  <2> QED
    BY <1>1, <2>1
<1>3. ASSUME NEW l \in DOMAIN todo, k < l
      PROVE  /\ Clear(todo[l], q.execs) /\ Clear(todo[l], q.saved)
             /\ todo[l].from = c.from => todo[l].from[2] = 0
  <2>1. k - 1 < l /\ k # l
    BY <1>3
  <2> QED
    BY <1>1, <2>1 DEF Apart
<1> HIDE DEF c
<1>4. CASE p.saved = q.saved /\ More(q.execs, p.execs, c)
  <2>1. Apart(p.execs) /\ Foreign(p.saved, p.execs)
    BY <1>1, <1>2, <1>4, MoreSays
  <2>2. \A l \in DOMAIN todo : k < l => Clear(todo[l], p.execs)
    BY <1>3, <1>4, MoreSays
  <2> QED
    BY <1>1, <1>3, <1>4, <2>1, <2>2
<1>5. CASE p.execs = q.execs /\ More(q.saved, p.saved, c)
  <2>1. Apart(p.saved) /\ Foreign(p.saved, p.execs)
    BY <1>1, <1>2, <1>5, MoreSays
  <2>2. \A l \in DOMAIN todo : k < l => Clear(todo[l], p.saved)
    BY <1>3, <1>5, MoreSays
  <2> QED
    BY <1>1, <1>3, <1>5, <2>1, <2>2
<1> QED
  BY <1>4, <1>5, RoundMore DEF c
LEMMA CarriedStep ==
    ASSUME NEW r \in Sessions, NEW q \in Sessions, NEW p \in Sessions, NEW todo, NEW k \in Nat \ {0},
           PhaseOf(r, q), CarriedOf(r, todo, k - 1, q), Round(q, p, todo[k]),
           Extended(q.execs, p.execs, todo[k])
    PROVE  CarriedOf(r, todo, k, p)
<1> DEFINE c == todo[k]
<1> SUFFICES ASSUME r.seen = "RUNNING", NEW l \in 1..k
             PROVE  /\ todo[l].name \in Name /\ todo[l].exec = 0 => Carried(p, todo[l])
                    /\ r.state = "RUNNING" /\ todo[l].name \in Enders => p.seen \in Final \/ Has(p.saved, todo[l])
  BY DEF CarriedOf
<1>1. q.execs \in Seq(Executions) /\ p.execs \in Seq(Executions) /\ q.saved \in Seq(Commands)
  BY DEF Sessions
<1>2. /\ DOMAIN q.execs \subseteq DOMAIN p.execs
      /\ \A i \in DOMAIN q.execs : p.execs[i].name = q.execs[i].name /\ p.execs[i].from = q.execs[i].from
      /\ \A i \in DOMAIN p.execs \ DOMAIN q.execs : p.execs[i].from = c.from
  BY <1>1, ExtendedSays
<1>3. q.seen \in Final => p.seen \in Final
  BY DEF Round, Ignores, Saves, Sets, Repeats, Creates, Defers, Final
<1>4. \A d : Has(q.saved, d) => Has(p.saved, d)
  <2>1. p.saved = q.saved \/ p.saved = Append(q.saved, c)
    BY DEF Round, Ignores, Saves, Sets, Repeats, Creates, Defers
  <2>2. CASE p.saved = Append(q.saved, c)
    <3>1. \A i \in DOMAIN q.saved : i \in DOMAIN p.saved /\ p.saved[i] = q.saved[i]
      BY <1>1, <2>2
    <3> QED
      BY <3>1 DEF Has
  <2> QED
    BY <2>1, <2>2
<1>5. \A d : Carried(q, d) => Carried(p, d)
  BY <1>2, <1>3, <1>4 DEF Carried
<1>6. CASE l \in 1..(k - 1)
  <2>1. /\ todo[l].name \in Name /\ todo[l].exec = 0 => Carried(q, todo[l])
        /\ r.state = "RUNNING" /\ todo[l].name \in Enders => q.seen \in Final \/ Has(q.saved, todo[l])
    BY <1>6 DEF CarriedOf
  <2> QED
    BY <2>1, <1>3, <1>4, <1>5
<1>7. CASE l = k
  <2>1. Name \cap Engine = {} /\ DOMAIN SetState \subseteq Engine /\ Enders \subseteq DOMAIN SetState
        /\ \A n \in Enders : SetState[n] \in Final
    BY DispatcherAssumption DEF Engine, SetState, Enders, Final
  <2>2. Saves(q, p, c) => Has(p.saved, c)
    <3> SUFFICES ASSUME Saves(q, p, c) PROVE Has(p.saved, c)
      OBVIOUS
    <3>1. p.saved = Append(q.saved, c)
      BY DEF Saves
    <3>2. Len(q.saved) + 1 \in DOMAIN p.saved /\ p.saved[Len(q.saved) + 1] = c
      BY <1>1, <3>1
    <3> QED
      BY <3>2 DEF Has
  <2>3. ASSUME c.name \in Name, c.exec = 0 PROVE Carried(p, c)
    <3>1. CASE Creates(q, p, c)
      <4> DEFINE e == Execution(c, IF c.wait THEN "WAITING" ELSE "IDLE")
      <4>1. p.execs = Append(q.execs, e) /\ e.from = c.from
        BY <3>1 DEF Creates, Execution
      <4> HIDE DEF e
      <4>2. Len(q.execs) + 1 \in DOMAIN p.execs /\ p.execs[Len(q.execs) + 1] = e
        BY <1>1, <4>1
      <4> QED
        BY <4>1, <4>2 DEF Carried
    <3>2. CASE Defers(q, p, c)
      <4>1. PICK j \in DOMAIN q.execs : q.execs[j].name = c.name
        BY <3>2 DEF Defers
      <4> QED
        BY <4>1, <1>2, <3>2 DEF Carried, Defers
    <3>3. CASE Ignores(q, p, c)
      BY <3>3, <1>3 DEF Carried, Ignores
    <3>4. CASE Saves(q, p, c)
      BY <3>4, <2>2 DEF Carried
    <3>5. ~Sets(q, p, c) /\ ~Repeats(q, p, c)
      BY <2>1, <2>3 DEF Sets, Repeats
    <3> QED
      BY <3>1, <3>2, <3>3, <3>4, <3>5 DEF Round
  <2>4. ASSUME r.state = "RUNNING", c.name \in Enders PROVE p.seen \in Final \/ Has(p.saved, c)
    <3>1. c.name \notin Name /\ q.seen = q.state
      BY <2>1, <2>4 DEF PhaseOf
    <3>2. CASE Sets(q, p, c)
      BY <3>1, <3>2, <2>1, <2>4 DEF Sets
    <3>3. CASE Ignores(q, p, c)
      BY <3>1, <3>3 DEF Ignores
    <3> QED
      BY <3>1, <3>2, <3>3, <2>2 DEF Round, Repeats, Creates, Defers
  <2> QED
    BY <1>7, <2>3, <2>4
<1>8. l \in 1..(k - 1) \/ l = k
  OBVIOUS
<1> QED
  BY <1>6, <1>7, <1>8

\* What the dispatcher made of a session, in all.
LEMMA DispatchedFacts ==
    ASSUME NEW r \in Sessions, r.saved = <<>>, NEW todo \in Seq(Commands),
           \A l \in DOMAIN todo : todo[l].name # "noop"
    PROVE  Dispatched(r, todo) \in Sessions /\ SessionOf(r, todo, Len(todo), Dispatched(r, todo))
<1> DEFINE G == {x \in Nat \X Sessions : SessionOf(r, todo, x[1], x[2])}
<1>1. DOMAIN todo = 1..Len(todo) /\ Len(todo) \in Nat /\ DOMAIN todo \subseteq Nat
  OBVIOUS
<1>2. <<0, r>> \in G
  <2>1. r.execs \in Seq(Executions) /\ Len(r.execs) \in Nat
    BY DEF Sessions
  <2>2. PhaseOf(r, r)
    BY DEF PhaseOf, Final
  <2>3. GrownOf(r, todo, 0, r)
    BY <2>1 DEF GrownOf
  <2>4. MsgsOf(r, todo, 0, r)
    BY DEF MsgsOf
  <2>5. DOMAIN r.saved = {}
    OBVIOUS
  <2>6. SavedOf(todo, 0, r) /\ CarriedOf(r, todo, 0, r)
    BY <2>5 DEF SavedOf, CarriedOf
  <2>7. OnceOf(r, todo, 0, r)
    <3> SUFFICES ASSUME Apart(r.execs), Apart(todo), Foreign(todo, r.execs)
                 PROVE  /\ Apart(r.execs) /\ Apart(r.saved) /\ Foreign(r.saved, r.execs)
                        /\ \A l \in DOMAIN todo : Clear(todo[l], r.execs) /\ Clear(todo[l], r.saved)
      BY DEF OnceOf
    <3>1. Apart(r.saved) /\ Foreign(r.saved, r.execs) /\ \A l \in DOMAIN todo : Clear(todo[l], r.saved)
      BY <2>5 DEF Apart, Foreign, Clear
    <3>2. \A l \in DOMAIN todo : Clear(todo[l], r.execs)
      BY DEF Foreign, Clear
    <3> QED
      BY <3>1, <3>2
  <2>8. SessionOf(r, todo, 0, r)
    BY <2>2, <2>3, <2>4, <2>6, <2>7 DEF SessionOf
  <2> QED
    BY <2>8
<1>3. ASSUME NEW k \in DOMAIN todo, NEW q \in Sessions, <<k - 1, q>> \in G
      PROVE  <<k, Processed(q, todo[k])>> \in G
  <2> DEFINE p == Processed(q, todo[k])
  <2>1. k \in Nat \ {0} /\ todo[k] \in Commands
    BY <1>1
  <2>2. p \in Sessions /\ Round(q, p, todo[k])
    BY <2>1, RoundTyped, ProcessedRound
  <2>3. SessionOf(r, todo, k - 1, q)
    BY <1>3
  <2> HIDE DEF p
  <2>4. Extended(q.execs, p.execs, todo[k])
    BY <2>1, <2>2, RoundExtends
  <2>5. PhaseOf(r, p)
    BY <2>2, <2>3, PhaseStep DEF SessionOf
  <2>6. GrownOf(r, todo, k, p)
    BY <2>1, <2>2, <2>3, <2>4, GrownStep DEF SessionOf
  <2>7. MsgsOf(r, todo, k, p)
    BY <2>1, <2>2, <2>3, <2>4, MsgsStep DEF SessionOf
  <2>8. SavedOf(todo, k, p)
    BY <2>1, <2>2, <2>3, SavedStep DEF SessionOf
  <2>9. OnceOf(r, todo, k, p)
    BY <1>1, <2>2, <2>3, <2>4, OnceStep DEF SessionOf
  <2>10. CarriedOf(r, todo, k, p)
    BY <2>1, <2>2, <2>3, <2>4, CarriedStep DEF SessionOf
  <2>11. SessionOf(r, todo, k, p)
    BY <2>5, <2>6, <2>7, <2>8, <2>9, <2>10 DEF SessionOf
  <2> QED
    BY <2>1, <2>2, <2>11 DEF p
<1>4. Dispatched(r, todo) \in Sessions /\ <<Len(todo), Dispatched(r, todo)>> \in G
  <2> HIDE DEF G
  <2> QED
    BY <1>2, <1>3, DispatchedIn
<1> QED
  BY <1>4
-----------------------------------------------------------------------------
(* What is to hold of task executions es and of a backlog b.                *)

\* What has ended has a result, and only that is processed.
EndedOf(es) ==
    \A i \in DOMAIN es :
        /\ es[i].processed => es[i].state \in Result
        /\ es[i].result = IF es[i].state \in Result THEN es[i].state ELSE "NONE"

\* What is in s is from the clause of a processed execution, or of no clause.
Source(f, es) ==
    \/ f[2] = 0 \/ f[1] = <<0, 0>>
    \/ f[1][1] \in DOMAIN es /\ es[f[1][1]].processed /\ es[f[1][1]].run = f[1][2]
SourcesOf(s, es) == \A i \in DOMAIN s : Source(s[i].from, es)

\* All that lead to execution j have ended and triggered it.
LeadsOf(es, i, j) == \E k \in DOMAIN spec.clause[es[i].name][es[i].result] :
                        spec.clause[es[i].name][es[i].result][k] = es[j].name
ReadyOf(es, j) ==
    \A n \in Name : es[j].name \in Follow(n) =>
        \E i \in DOMAIN es : es[i].name = n /\ es[i].result # "NONE" /\ LeadsOf(es, i, j)
JoinsWaitOf(es) ==
    \A j \in DOMAIN es : es[j].keyed /\ es[j].state \in {"RUNNING", "SUCCESS"} => ReadyOf(es, j)

\* What execution i asks for is there.
AskedOf(es, i) ==
    {k \in DOMAIN spec.clause[es[i].name][es[i].result] :
        /\ spec.clause[es[i].name][es[i].result][k] \in Name
        /\ \A l \in 1..k : spec.clause[es[i].name][es[i].result][l] \notin Enders}
FromOf(es, i, k) == <<<<i, es[i].run>>, k>>
NameOf(es, i, k) == spec.clause[es[i].name][es[i].result][k]
KeptOf(es, b, i, k) ==
    \/ \E j \in DOMAIN es : \/ es[j].from = FromOf(es, i, k)
                            \/ es[j].name = NameOf(es, i, k) /\ NameOf(es, i, k) \in spec.joins
    \/ \E d \in DOMAIN b : \/ b[d].from = FromOf(es, i, k) /\ b[d].name \in Name
                           \/ b[d].name \in Enders
NoneLost(es, b) ==
    \A i \in DOMAIN es : es[i].processed => \A k \in AskedOf(es, i) : KeptOf(es, b, i, k)

Fit(es) == EndedOf(es) /\ JoinsWaitOf(es) /\ SourcesOf(es, es) /\ Apart(es)
Stored(b, es) == SourcesOf(b, es) /\ Apart(b) /\ Foreign(b, es) /\ NoneLost(es, b)

\* fs comes after es: what has ended and what is processed stay.
Forward(es, fs) ==
    /\ DOMAIN es \subseteq DOMAIN fs
    /\ \A i \in DOMAIN es :
          /\ fs[i].name = es[i].name /\ fs[i].from = es[i].from /\ fs[i].keyed = es[i].keyed
          /\ es[i].processed => fs[i].processed /\ fs[i].run = es[i].run
          /\ es[i].result # "NONE" => fs[i].result = es[i].result

LEMMA ForwardKeeps ==
    ASSUME NEW es, NEW fs, Forward(es, fs)
    PROVE  /\ \A s : SourcesOf(s, es) => SourcesOf(s, fs)
           /\ \A j \in DOMAIN es : ReadyOf(es, j) => ReadyOf(fs, j)
           /\ EndedOf(es) =>
                \A i \in DOMAIN es : es[i].processed =>
                   /\ AskedOf(fs, i) = AskedOf(es, i)
                   /\ \A k : FromOf(fs, i, k) = FromOf(es, i, k) /\ NameOf(fs, i, k) = NameOf(es, i, k)
                   /\ \A k, b : KeptOf(es, b, i, k) => KeptOf(fs, b, i, k)
<1>1. /\ DOMAIN es \subseteq DOMAIN fs
      /\ \A i \in DOMAIN es :
            /\ fs[i].name = es[i].name /\ fs[i].from = es[i].from /\ fs[i].keyed = es[i].keyed
            /\ es[i].processed => fs[i].processed /\ fs[i].run = es[i].run
            /\ es[i].result # "NONE" => fs[i].result = es[i].result
  BY DEF Forward
<1>2. ASSUME NEW s, SourcesOf(s, es) PROVE SourcesOf(s, fs)
  <2>1. \A f : Source(f, es) => Source(f, fs)
    BY <1>1 DEF Source
  <2> QED
    BY <1>2, <2>1 DEF SourcesOf
<1>3. ASSUME NEW j \in DOMAIN es, ReadyOf(es, j) PROVE ReadyOf(fs, j)
  <2> SUFFICES ASSUME NEW n \in Name, fs[j].name \in Follow(n)
               PROVE  \E i \in DOMAIN fs : fs[i].name = n /\ fs[i].result # "NONE" /\ LeadsOf(fs, i, j)
    BY DEF ReadyOf
  <2>1. PICK i \in DOMAIN es : es[i].name = n /\ es[i].result # "NONE" /\ LeadsOf(es, i, j)
    BY <1>1, <1>3 DEF ReadyOf
  <2>2. fs[i].name = es[i].name /\ fs[i].result = es[i].result /\ fs[j].name = es[j].name /\ i \in DOMAIN fs
    BY <1>1, <2>1
  <2>3. LeadsOf(fs, i, j)
    BY <2>1, <2>2 DEF LeadsOf
  <2> QED
    BY <2>1, <2>2, <2>3
<1>4. ASSUME EndedOf(es), NEW i \in DOMAIN es, es[i].processed
      PROVE  /\ AskedOf(fs, i) = AskedOf(es, i)
             /\ \A k : FromOf(fs, i, k) = FromOf(es, i, k) /\ NameOf(fs, i, k) = NameOf(es, i, k)
             /\ \A k, b : KeptOf(es, b, i, k) => KeptOf(fs, b, i, k)
  <2>1. es[i].result # "NONE"
    BY <1>4 DEF EndedOf, Result
  <2>2. fs[i].name = es[i].name /\ fs[i].run = es[i].run /\ fs[i].result = es[i].result
    BY <1>1, <1>4, <2>1
  <2>3. AskedOf(fs, i) = AskedOf(es, i)
    BY <2>2 DEF AskedOf
  <2>4. \A k : FromOf(fs, i, k) = FromOf(es, i, k) /\ NameOf(fs, i, k) = NameOf(es, i, k)
    BY <2>2 DEF FromOf, NameOf
  <2>5. ASSUME NEW k, NEW b, KeptOf(es, b, i, k) PROVE KeptOf(fs, b, i, k)
    <3>1. \A j \in DOMAIN es : j \in DOMAIN fs /\ fs[j].from = es[j].from /\ fs[j].name = es[j].name
      BY <1>1
    <3> QED
      BY <2>4, <2>5, <3>1 DEF KeptOf
  <2> QED
    BY <2>3, <2>4, <2>5
<1> QED
  BY <1>2, <1>3, <1>4

\* fs is es and what the dispatcher created.
LEMMA FreshKeeps ==
    ASSUME NEW es, NEW fs, DOMAIN es \subseteq DOMAIN fs, \A i \in DOMAIN es : fs[i] = es[i],
           \A i \in DOMAIN fs \ DOMAIN es : Fresh(fs[i])
    PROVE  /\ Forward(es, fs)
           /\ EndedOf(es) => EndedOf(fs)
           /\ JoinsWaitOf(es) => JoinsWaitOf(fs)
<1>1. Forward(es, fs)
  BY DEF Forward
<1>2. ASSUME EndedOf(es) PROVE EndedOf(fs)
  <2> SUFFICES ASSUME NEW i \in DOMAIN fs
               PROVE  /\ fs[i].processed => fs[i].state \in Result
                      /\ fs[i].result = IF fs[i].state \in Result THEN fs[i].state ELSE "NONE"
    BY DEF EndedOf
  <2>1. CASE i \in DOMAIN es
    <3>1. fs[i] = es[i]
      BY <2>1
    <3> QED
      BY <2>1, <3>1, <1>2 DEF EndedOf
  <2>2. CASE i \notin DOMAIN es
    BY <2>2 DEF Fresh, Result
  <2> QED
    BY <2>1, <2>2
<1>3. ASSUME JoinsWaitOf(es) PROVE JoinsWaitOf(fs)
  <2> SUFFICES ASSUME NEW j \in DOMAIN fs, fs[j].keyed, fs[j].state \in {"RUNNING", "SUCCESS"}
               PROVE  ReadyOf(fs, j)
    BY DEF JoinsWaitOf
  <2>1. j \in DOMAIN es
    BY DEF Fresh
  <2>2. ReadyOf(es, j)
    BY <2>1, <1>3 DEF JoinsWaitOf
  <2> QED
    BY <1>1, <2>1, <2>2, ForwardKeeps
<1> QED
  BY <1>1, <1>2, <1>3
-----------------------------------------------------------------------------
(* A session that is dispatched and stored.                                 *)

BacklogAfter(q, loaded, b) == IF loaded # <<>> \/ q.saved # <<>> THEN q.saved ELSE b

\* A command for what execution i asks for at place k.
AnswersOf(es, cmds, i, k, now) ==
    \E l \in DOMAIN cmds :
        /\ cmds[l].from = FromOf(es, i, k) /\ cmds[l].name = NameOf(es, i, k) /\ cmds[l].exec = 0
        /\ cmds[l].wait => NameOf(es, i, k) \in spec.joins
        /\ now = "RUNNING" \/ \A p \in DOMAIN cmds : p < l => cmds[p].name \notin Enders

\* What a session needs to be dispatched: b is the backlog, "now" the state of the
\* execution, cmds are the new commands.
Dispatchable(es, b, loaded, cmds, now) ==
    /\ Fit(es) /\ SourcesOf(cmds, es) /\ Apart(cmds) /\ Foreign(cmds, es)
    /\ IF now = "RUNNING" THEN loaded = b ELSE loaded = <<>>
    /\ now \notin Final =>
          /\ SourcesOf(b, es) /\ Apart(b) /\ Foreign(b, es) /\ Foreign(b, cmds)
          /\ \A i \in DOMAIN es : es[i].processed =>
                \A k \in AskedOf(es, i) : KeptOf(es, b, i, k) \/ AnswersOf(es, cmds, i, k, now)

LEMMA SessionTyped ==
    ASSUME NEW seen \in WfStates \ {"NONE"}, NEW now \in WfStates, NEW es \in Seq(Executions),
           NEW ms \in SUBSET (Kinds \X Nat)
    PROVE  /\ Session(seen, now, es, ms) \in Sessions /\ Session(seen, now, es, ms).saved = <<>>
           /\ Session(seen, now, es, ms).seen = seen /\ Session(seen, now, es, ms).state = now
           /\ Session(seen, now, es, ms).execs = es /\ Session(seen, now, es, ms).msgs = ms
<1>1. <<>> \in Seq(Commands)
  OBVIOUS
<1> QED
  BY <1>1 DEF Session, Sessions

LEMMA Dispatching ==
    ASSUME NEW es \in Seq(Executions), NEW ms \in SUBSET (Kinds \X Nat), NEW now \in WfStates,
           NEW loaded \in Seq(Commands), NEW cmds \in Seq(Commands), NEW b,
           Dispatchable(es, b, loaded, cmds, now),
           NEW q, q = Dispatched(Session("RUNNING", now, es, ms), ToDo(loaded, cmds)),
           \A i \in DOMAIN es : q.execs[i] = es[i]
    PROVE  /\ Fit(q.execs)
           /\ q.state \notin Final => Stored(BacklogAfter(q, loaded, b), q.execs)
<1> DEFINE r == Session("RUNNING", now, es, ms)
           T == ToDo(loaded, cmds)
           n == Len(T)
           fs == q.execs
           b2 == BacklogAfter(q, loaded, b)
<1>1. /\ r \in Sessions /\ r.saved = <<>> /\ r.seen = "RUNNING" /\ r.state = now /\ r.execs = es
  BY SessionTyped DEF WfStates
<1>2. ToDoOf(T, loaded, cmds)
  BY ToDoSays
<1>3. q \in Sessions /\ SessionOf(r, T, n, q)
  <2>1. T \in Seq(Commands) /\ \A l \in DOMAIN T : T[l].name # "noop"
    BY <1>2 DEF ToDoOf
  <2> HIDE DEF r, T
  <2> QED
    BY <1>1, <2>1, DispatchedFacts DEF r, T
<1> HIDE DEF r, T
<1>4. /\ fs \in Seq(Executions) /\ T \in Seq(Commands) /\ n \in Nat /\ DOMAIN T = 1..n
      /\ DOMAIN es = 1..Len(es) /\ DOMAIN fs = 1..Len(fs) /\ Len(es) \in Nat /\ Len(fs) \in Nat
      /\ q.saved \in Seq(Commands)
  BY <1>2, <1>3 DEF Sessions, ToDoOf
<1>5. Len(es) <= Len(fs)
  BY <1>1, <1>3 DEF SessionOf, GrownOf
<1>6. DOMAIN es \subseteq DOMAIN fs
  BY <1>4, <1>5
<1> HIDE DEF n, fs
<1>7. \A i \in DOMAIN fs \ DOMAIN es : Fresh(fs[i]) /\ \E l \in DOMAIN T : fs[i].from = T[l].from
  <2>1. GrownOf(r, T, n, q) /\ r.execs = es
    BY <1>1, <1>3 DEF SessionOf
  <2>2. /\ \A i \in DOMAIN fs \ DOMAIN es : Fresh(fs[i]) /\ \E l \in 1..n : fs[i].from = T[l].from
        /\ DOMAIN T = 1..n
    BY <2>1, <1>4 DEF GrownOf, fs
  <2> QED
    BY <2>2, Zenon
<1>8. \A i \in DOMAIN es : fs[i] = es[i]
  BY DEF fs
<1>9. Forward(es, fs) /\ EndedOf(fs) /\ JoinsWaitOf(fs)
  BY <1>6, <1>7, <1>8, FreshKeeps DEF Dispatchable, Fit
<1>11. /\ SourcesOf(loaded, es) /\ Apart(loaded) /\ Foreign(loaded, es) /\ Foreign(loaded, cmds)
  <2>1. CASE now = "RUNNING"
    BY <2>1 DEF Dispatchable, Final
  <2>2. CASE now # "RUNNING"
    <3>1. DOMAIN loaded = {}
      BY <2>2 DEF Dispatchable
    <3> QED
      BY <3>1 DEF SourcesOf, Apart, Foreign
  <2> QED
    BY <2>1, <2>2
<1>12. \A l \in DOMAIN T : \/ \E k \in DOMAIN loaded : T[l].from = loaded[k].from
                           \/ \E k \in DOMAIN cmds : T[l].from = cmds[k].from
  BY <1>2 DEF ToDoOf, Has
<1>13. SourcesOf(T, es)
  <2>1. SourcesOf(cmds, es)
    BY DEF Dispatchable
  <2> QED
    BY <1>11, <1>12, <2>1 DEF SourcesOf
<1>14. Apart(T) /\ Foreign(T, es)
  <2>1. Apart(cmds) /\ Foreign(cmds, es)
    BY DEF Dispatchable
  <2>2. Apart(T)
    BY <1>2, <1>11, <2>1 DEF ToDoOf
  <2>3. Foreign(T, es)
    BY <1>11, <1>12, <2>1 DEF Foreign
  <2> QED
    BY <2>2, <2>3
<1>15. Apart(fs) /\ Apart(q.saved) /\ Foreign(q.saved, fs)
  <2>1. Apart(es)
    BY DEF Dispatchable, Fit
  <2> QED
    BY <1>1, <1>3, <1>14, <2>1 DEF SessionOf, OnceOf, fs
<1>16. SourcesOf(fs, fs) /\ SourcesOf(q.saved, fs)
  <2>1. SourcesOf(es, es)
    BY DEF Dispatchable, Fit
  <2>2. SourcesOf(fs, es)
    BY <1>7, <1>8, <1>13, <2>1 DEF SourcesOf
  <2>3. \A d \in DOMAIN q.saved : \E l \in DOMAIN T : q.saved[d] = T[l]
    BY <1>3, <1>4 DEF SessionOf, SavedOf, n
  <2>4. SourcesOf(q.saved, es)
    BY <1>13, <2>3 DEF SourcesOf
  <2> QED
    BY <1>9, <2>2, <2>4, ForwardKeeps
<1>17. Fit(fs)
  BY <1>9, <1>15, <1>16 DEF Fit
<1>18. ASSUME q.state \notin Final PROVE Stored(b2, fs)
  <2>1. PhaseOf(r, q)
    BY <1>3 DEF SessionOf
  <2>2. /\ now = "RUNNING" => q.seen = q.state
        /\ now # "RUNNING" => q.seen = "RUNNING" /\ q.saved = <<>> /\ q.state = now /\ loaded = <<>>
    BY <1>1, <2>1 DEF PhaseOf, Dispatchable
  <2>3. q.seen \notin Final
    BY <1>18, <2>2 DEF Final
  <2>4. now \notin Final
    BY <1>18, <2>2 DEF Final
  <2>5. /\ SourcesOf(b, es) /\ Apart(b) /\ Foreign(b, es) /\ Foreign(b, cmds)
        /\ \A i \in DOMAIN es : es[i].processed =>
              \A k \in AskedOf(es, i) : KeptOf(es, b, i, k) \/ AnswersOf(es, cmds, i, k, now)
    BY <2>4 DEF Dispatchable
  <2>6. CarriedOf(r, T, n, q)
    BY <1>3 DEF SessionOf
  <2>7. ASSUME NEW l \in DOMAIN T, T[l].name \in Enders, now = "RUNNING" PROVE Has(q.saved, T[l])
    BY <1>1, <1>4, <2>3, <2>6, <2>7 DEF CarriedOf
  <2>8. ASSUME NEW l \in DOMAIN T, T[l].name \in Name, T[l].exec = 0
        PROVE  \/ Has(q.saved, T[l])
               \/ \E i \in DOMAIN fs : fs[i].from = T[l].from \/ (T[l].wait /\ fs[i].name = T[l].name)
    <3>1. Carried(q, T[l])
      BY <1>1, <1>4, <2>6, <2>8 DEF CarriedOf
    <3> QED
      BY <2>3, <3>1 DEF Carried, fs
  <2>9. \A c : Has(q.saved, c) => b2 = q.saved
    <3>1. ASSUME NEW c, Has(q.saved, c) PROVE q.saved # <<>>
      <4>1. PICK d \in DOMAIN q.saved : TRUE
        BY <3>1 DEF Has
      <4>2. DOMAIN <<>> = {}
        OBVIOUS
      <4> QED
        BY <4>1, <4>2
    <3> QED
      BY <3>1 DEF BacklogAfter
  <2> HIDE DEF b2
  <2>10. ASSUME NEW i \in DOMAIN es, NEW k, NEW l \in DOMAIN T, NameOf(es, i, k) \in Name,
                T[l].from = FromOf(es, i, k), T[l].name = NameOf(es, i, k), T[l].exec = 0,
                T[l].wait => NameOf(es, i, k) \in spec.joins,
                FromOf(fs, i, k) = FromOf(es, i, k), NameOf(fs, i, k) = NameOf(es, i, k)
         PROVE  KeptOf(fs, b2, i, k)
    <3>1. CASE Has(q.saved, T[l])
      <4>1. b2 = q.saved
        BY <3>1, <2>9
      <4>2. PICK d \in DOMAIN b2 : b2[d] = T[l]
        BY <3>1, <4>1 DEF Has
      <4>3. b2[d].from = FromOf(fs, i, k) /\ b2[d].name \in Name
        BY <4>2, <2>10
      <4> QED
        BY <4>3 DEF KeptOf
    <3>2. CASE \E j \in DOMAIN fs : fs[j].from = T[l].from \/ (T[l].wait /\ fs[j].name = T[l].name)
      BY <3>2, <2>10 DEF KeptOf
    <3> QED
      BY <3>1, <3>2, <2>8, <2>10
  <2>11. ASSUME NEW i, NEW k, NEW l \in DOMAIN T, T[l].name \in Enders, now = "RUNNING"
         PROVE  KeptOf(fs, b2, i, k)
    <3>1. Has(q.saved, T[l])
      BY <2>7, <2>11
    <3> QED
      BY <3>1, <2>9, <2>11 DEF Has, KeptOf
  <2>12. ASSUME NEW i \in DOMAIN fs, fs[i].processed, NEW k \in AskedOf(fs, i) PROVE KeptOf(fs, b2, i, k)
    <3>1. i \in DOMAIN es /\ es[i].processed
      BY <1>7, <1>8, <2>12 DEF Fresh
    <3>2. /\ AskedOf(fs, i) = AskedOf(es, i)
          /\ FromOf(fs, i, k) = FromOf(es, i, k) /\ NameOf(fs, i, k) = NameOf(es, i, k)
          /\ \A d : KeptOf(es, d, i, k) => KeptOf(fs, d, i, k)
      BY <1>9, <3>1, ForwardKeeps DEF Dispatchable, Fit
    <3>3. k \in AskedOf(es, i) /\ NameOf(es, i, k) \in Name
      BY <2>12, <3>2 DEF AskedOf, NameOf
    <3>4. CASE AnswersOf(es, cmds, i, k, now)
      <4>1. PICK l \in DOMAIN cmds :
                /\ cmds[l].from = FromOf(es, i, k) /\ cmds[l].name = NameOf(es, i, k) /\ cmds[l].exec = 0
                /\ cmds[l].wait => NameOf(es, i, k) \in spec.joins
                /\ now = "RUNNING" \/ \A p \in DOMAIN cmds : p < l => cmds[p].name \notin Enders
        BY <3>4 DEF AnswersOf
      <4>2. cmds[l].name # "noop"
        BY <3>3, <4>1, DispatcherAssumption DEF Engine
      <4>3. CASE Has(T, cmds[l])
        <5>1. PICK m \in DOMAIN T : T[m] = cmds[l]
          BY <4>3 DEF Has
        <5> QED
          BY <5>1, <4>1, <3>1, <3>2, <3>3, <2>10
      <4>4. CASE \E p \in DOMAIN cmds : p < l /\ cmds[p].name \in Enders /\ Has(T, cmds[p])
        <5>1. PICK p \in DOMAIN cmds : p < l /\ cmds[p].name \in Enders /\ Has(T, cmds[p])
          BY <4>4
        <5>2. PICK m \in DOMAIN T : T[m] = cmds[p]
          BY <5>1 DEF Has
        <5>3. now = "RUNNING"
          BY <4>1, <5>1
        <5> QED
          BY <5>1, <5>2, <5>3, <2>11
      <4> QED
        BY <1>2, <4>2, <4>3, <4>4 DEF ToDoOf
    <3>5. CASE KeptOf(es, b, i, k)
      <4>1. CASE b2 = b
        BY <3>2, <3>5, <4>1
      <4>2. CASE b2 # b
        <5>1. now = "RUNNING" /\ loaded = b
          BY <2>2, <4>2 DEF b2, BacklogAfter, Dispatchable
        <5>2. CASE \E j \in DOMAIN es : \/ es[j].from = FromOf(es, i, k)
                                       \/ (es[j].name = NameOf(es, i, k) /\ NameOf(es, i, k) \in spec.joins)
          <6>1. KeptOf(es, b2, i, k)
            BY <5>2 DEF KeptOf
          <6> QED
            BY <6>1, <3>2
        <5>3. ASSUME NEW d \in DOMAIN b,
                     \/ (b[d].from = FromOf(es, i, k) /\ b[d].name \in Name)
                     \/ b[d].name \in Enders
              PROVE  KeptOf(fs, b2, i, k)
          <6>1. b[d].name # "noop"
            BY <5>3, DispatcherAssumption DEF Engine, Enders
          <6>2. PICK l \in DOMAIN T :
                   \/ /\ T[l].name = b[d].name /\ T[l].from = b[d].from
                      /\ T[l].exec = 0 /\ ~T[l].wait
                   \/ T[l].name \in Enders
            BY <1>2, <5>1, <6>1 DEF ToDoOf
          <6>3. CASE T[l].name \in Enders
            BY <6>3, <5>1, <2>11
          <6>4. CASE T[l].name \notin Enders
            <7>1. /\ T[l].name = b[d].name /\ T[l].from = FromOf(es, i, k)
                  /\ T[l].exec = 0 /\ ~T[l].wait /\ T[l].name \in Name
              BY <6>2, <6>4, <5>3
            <7>2. CASE Has(q.saved, T[l])
              <8>1. b2 = q.saved
                BY <7>2, <2>9
              <8> QED
                BY <7>1, <7>2, <8>1, <3>2 DEF Has, KeptOf
            <7>3. CASE \E j \in DOMAIN fs : fs[j].from = T[l].from
              BY <7>1, <7>3, <3>2 DEF KeptOf
            <7> QED
              BY <7>1, <7>2, <7>3, <2>8
          <6> QED
            BY <6>3, <6>4
        <5>4. CASE \E d \in DOMAIN b : \/ (b[d].from = FromOf(es, i, k) /\ b[d].name \in Name)
                                       \/ b[d].name \in Enders
          BY <5>3, <5>4
        <5>5. \/ \E j \in DOMAIN es : \/ es[j].from = FromOf(es, i, k)
                                      \/ (es[j].name = NameOf(es, i, k) /\ NameOf(es, i, k) \in spec.joins)
              \/ \E d \in DOMAIN b : \/ (b[d].from = FromOf(es, i, k) /\ b[d].name \in Name)
                                     \/ b[d].name \in Enders
          BY <3>5 DEF KeptOf
        <5> QED
          BY <5>2, <5>4, <5>5
      <4> QED
        BY <4>1, <4>2
    <3> QED
      BY <2>5, <3>1, <3>3, <3>4, <3>5
  <2>13. NoneLost(fs, b2)
    BY <2>12 DEF NoneLost
  <2>14. SourcesOf(b2, fs) /\ Apart(b2) /\ Foreign(b2, fs)
    <3>1. CASE b2 = q.saved
      BY <3>1, <1>15, <1>16
    <3>2. CASE b2 = b /\ loaded = <<>>
      <4>1. SourcesOf(b, fs)
        BY <1>9, <2>5, ForwardKeeps
      <4>2. Foreign(b, fs)
        <5> SUFFICES ASSUME NEW d \in DOMAIN b, NEW i \in DOMAIN fs, b[d].from = fs[i].from
                     PROVE  b[d].from[2] = 0
          BY DEF Foreign
        <5>1. CASE i \in DOMAIN es
          BY <5>1, <1>8, <2>5 DEF Foreign
        <5>2. CASE i \notin DOMAIN es
          <6>1. PICK l \in DOMAIN T : fs[i].from = T[l].from
            BY <5>2, <1>7
          <6>2. DOMAIN loaded = {}
            BY <3>2
          <6>3. PICK k \in DOMAIN cmds : T[l].from = cmds[k].from
            BY <1>12, <6>2
          <6> QED
            BY <6>1, <6>3, <2>5 DEF Foreign
        <5> QED
          BY <5>1, <5>2
      <4> QED
        BY <3>2, <2>5, <4>1, <4>2
    <3> QED
      BY <3>1, <3>2 DEF b2, BacklogAfter
  <2> QED
    BY <2>13, <2>14 DEF Stored
<1> QED
  BY <1>17, <1>18 DEF fs, b2
-----------------------------------------------------------------------------
(* The commands of the controller.                                          *)

LEMMA ClauseTyped ==
    ASSUME spec \in Definition, NEW n \in Name, NEW s \in Result
    PROVE  spec.clause[n][s] \in Seq(Name \cup Engine)
<1>1. spec.clause \in [Name -> [Result -> Seq(Name \cup Engine)]]
  BY DEF Definition
<1>2. spec.clause[n] \in [Result -> Seq(Name \cup Engine)]
  BY <1>1
<1> QED
  BY <1>2

\* c is the command at place k of what execution i asks for when it ends in s.
AtPlace(c, es, i, s, k) ==
    /\ c.name = spec.clause[es[i].name][s][k] /\ c.exec = 0 /\ c.from = <<<<i, es[i].run>>, k>>
    /\ c.wait => c.name \in spec.joins

LEMMA NextSays ==
    ASSUME spec \in Definition, NEW es \in Seq(Executions), NEW i \in DOMAIN es, NEW s \in Result
    PROVE  /\ NextCommands(es, i, s) \in Seq(Commands)
           /\ DOMAIN NextCommands(es, i, s) = DOMAIN spec.clause[es[i].name][s]
           /\ \A k \in DOMAIN NextCommands(es, i, s) : AtPlace(NextCommands(es, i, s)[k], es, i, s, k)
<1> DEFINE names == spec.clause[es[i].name][s]
           cmds == NextCommands(es, i, s)
<1>1. es[i] \in Executions
  BY ElementOfSeq
<1>2. es[i].name \in Name /\ es[i].run \in Nat /\ i \in Nat
  BY <1>1 DEF Executions
<1>3. names \in Seq(Name \cup Engine)
  BY <1>2, ClauseTyped
<1>4. cmds = [k \in DOMAIN names |-> Command(names[k], 0, k, <<i, es[i].run>>)]
  BY DEF NextCommands
<1> HIDE DEF names, cmds
<1>5. ASSUME NEW k \in DOMAIN names
      PROVE  Command(names[k], 0, k, <<i, es[i].run>>) \in Commands
  <2>1. names[k] \in Name \cup Engine /\ k \in Nat
    BY <1>3
  <2> QED
    BY <1>2, <2>1 DEF Command, Commands
<1>6. names \in [1..Len(names) -> Name \cup Engine] /\ Len(names) \in Nat /\ DOMAIN names = 1..Len(names)
  BY <1>3
<1>7. cmds \in [1..Len(names) -> Commands]
  BY <1>4, <1>5, <1>6
<1>8. cmds \in Seq(Commands)
  BY <1>6, <1>7
<1>9. ASSUME NEW k \in DOMAIN cmds PROVE AtPlace(cmds[k], es, i, s, k)
  BY <1>4, <1>9 DEF AtPlace, Command, names
<1> QED
  BY <1>4, <1>8, <1>9 DEF names, cmds

\* The places of the executions S, each once.
LEMMA InOrderSays ==
    ASSUME NEW es \in Seq(Executions), NEW S \in SUBSET DOMAIN es
    PROVE  /\ InOrder(es, S) \in Seq(DOMAIN es)
           /\ \A k \in DOMAIN InOrder(es, S) : InOrder(es, S)[k] \in S
           /\ \A i \in S : \E k \in DOMAIN InOrder(es, S) : InOrder(es, S)[k] = i
           /\ \A k, l \in DOMAIN InOrder(es, S) : InOrder(es, S)[k] = InOrder(es, S)[l] => k = l
<1> DEFINE s == [i \in DOMAIN es |-> i]
           is == Chosen(s, S)
<1>1. Len(es) \in Nat /\ DOMAIN es = 1..Len(es)
  OBVIOUS
<1>2. s \in Seq(DOMAIN es) /\ DOMAIN s = DOMAIN es
  BY <1>1
<1>3. \A i \in S : i \in DOMAIN s /\ s[i] = i
  BY <1>2
<1> HIDE DEF s
<1>4. is \in Seq(DOMAIN es) /\ Along(is, s, S \cap DOMAIN s)
  BY <1>2, ChosenIs
<1>5. S \cap DOMAIN s = S
  BY <1>3
<1>6. is = InOrder(es, S)
  BY DEF InOrder, s
<1> HIDE DEF is
<1>7. PICK g \in [DOMAIN is -> S] :
         /\ \A k \in DOMAIN is : is[k] = s[g[k]]
         /\ \A k, l \in DOMAIN is : g[k] = g[l] => k = l
         /\ \A p \in S : \E k \in DOMAIN is : g[k] = p
  BY <1>4, <1>5 DEF Along
<1>8. \A k \in DOMAIN is : is[k] = g[k] /\ g[k] \in S
  BY <1>3, <1>7
<1>9. \A i \in S : \E k \in DOMAIN is : is[k] = i
  BY <1>7, <1>8
<1>10. \A k, l \in DOMAIN is : is[k] = is[l] => k = l
  BY <1>7, <1>8
<1> QED
  BY <1>4, <1>6, <1>8, <1>9, <1>10

LEMMA IdleSays ==
    ASSUME NEW es \in Seq(Executions)
    PROVE  /\ IdleCommands(es) \in Seq(Commands)
           /\ \A k \in DOMAIN IdleCommands(es) :
                 LET c == IdleCommands(es)[k]
                 IN  /\ c.exec \in DOMAIN es /\ es[c.exec].state = "IDLE"
                     /\ c.from[2] = 0 /\ c.name \in Name /\ ~c.wait
<1> DEFINE S == {i \in DOMAIN es : es[i].state = "IDLE"}
           idle == InOrder(es, S)
           cmds == IdleCommands(es)
<1>1. idle \in Seq(DOMAIN es) /\ \A k \in DOMAIN idle : idle[k] \in S
  BY InOrderSays
<1>2. cmds = [k \in DOMAIN idle |-> [Command(es[idle[k]].name, idle[k], 0, <<idle[k], es[idle[k]].run>>)
                                       EXCEPT !.wait = FALSE]]
  BY DEF IdleCommands
<1> HIDE DEF idle, cmds
<1>3. ASSUME NEW k \in DOMAIN idle
      PROVE  LET c == [Command(es[idle[k]].name, idle[k], 0, <<idle[k], es[idle[k]].run>>)
                          EXCEPT !.wait = FALSE]
             IN  /\ c \in Commands
                 /\ c.exec \in DOMAIN es /\ es[c.exec].state = "IDLE"
                 /\ c.from[2] = 0 /\ c.name \in Name /\ ~c.wait
  <2> DEFINE i == idle[k]
  <2>1. i \in DOMAIN es /\ es[i].state = "IDLE" /\ i \in Nat
    BY <1>1
  <2> HIDE DEF i
  <2>2. es[i] \in Executions
    BY <2>1, ElementOfSeq
  <2>3. es[i].name \in Name /\ es[i].run \in Nat
    BY <2>2 DEF Executions
  <2>4. LET c == [Command(es[i].name, i, 0, <<i, es[i].run>>) EXCEPT !.wait = FALSE]
        IN  /\ c \in Commands
            /\ c.exec \in DOMAIN es /\ es[c.exec].state = "IDLE"
            /\ c.from[2] = 0 /\ c.name \in Name /\ ~c.wait
    BY <2>1, <2>3 DEF Command, Commands
  <2> QED
    BY <2>4 DEF i
<1>4. Len(idle) \in Nat /\ DOMAIN idle = 1..Len(idle)
  BY <1>1
<1>5. cmds \in [1..Len(idle) -> Commands]
  BY <1>2, <1>3, <1>4
<1>6. cmds \in Seq(Commands)
  BY <1>4, <1>5
<1>7. \A k \in DOMAIN cmds : LET c == cmds[k] IN
         /\ c.exec \in DOMAIN es /\ es[c.exec].state = "IDLE"
         /\ c.from[2] = 0 /\ c.name \in Name /\ ~c.wait
  BY <1>2, <1>3
<1> QED
  BY <1>6, <1>7 DEF cmds

\* cmds are what the executions D ask for, which ended in the states "done".
Follows(cmds, es, D, done) ==
    /\ cmds \in Seq(Commands) /\ Apart(cmds)
    /\ \A l \in DOMAIN cmds : \E i \in D : \E k \in DOMAIN NextCommands(es, i, done[i]) :
          cmds[l] = NextCommands(es, i, done[i])[k]
    /\ \A i \in D : \A k \in DOMAIN NextCommands(es, i, done[i]) : Has(cmds, NextCommands(es, i, done[i])[k])

\* What one execution asks for.
LEMMA FollowsOne ==
    ASSUME spec \in Definition, NEW es \in Seq(Executions), NEW done, NEW i \in DOMAIN es, done[i] \in Result
    PROVE  Follows(NextCommands(es, i, done[i]), es, {i}, done)
<1> DEFINE new == NextCommands(es, i, done[i])
<1>1. /\ new \in Seq(Commands)
      /\ \A k \in DOMAIN new : AtPlace(new[k], es, i, done[i], k)
  BY NextSays
<1> HIDE DEF new
<1>2. Apart(new)
  BY <1>1 DEF AtPlace, Apart
<1>3. \A k \in DOMAIN new : Has(new, new[k])
  BY DEF Has
<1> QED
  BY <1>1, <1>2, <1>3 DEF Follows, new

LEMMA FollowsMore ==
    ASSUME spec \in Definition, NEW es \in Seq(Executions), NEW done, NEW D \in SUBSET DOMAIN es,
           NEW i \in DOMAIN es, i \notin D, \A j \in D \cup {i} : done[j] \in Result,
           NEW cmds, Follows(cmds, es, D, done)
    PROVE  Follows(cmds \o NextCommands(es, i, done[i]), es, D \cup {i}, done)
<1> DEFINE new == NextCommands(es, i, done[i])
           all == cmds \o new
<1>1. Follows(new, es, {i}, done)
  BY FollowsOne
<1>2. Joined(Commands, all, cmds, new)
  BY <1>1, ConcatSays DEF Follows
<1>3. Foreign(cmds, new)
  <2>1. \A k \in DOMAIN new : new[k].from[1] = <<i, es[i].run>>
    BY NextSays DEF AtPlace
  <2>2. ASSUME NEW l \in DOMAIN cmds PROVE cmds[l].from[1][1] # i
    <3>1. PICK j \in D : \E k \in DOMAIN NextCommands(es, j, done[j]) : cmds[l] = NextCommands(es, j, done[j])[k]
      BY DEF Follows
    <3>2. PICK k \in DOMAIN NextCommands(es, j, done[j]) : cmds[l] = NextCommands(es, j, done[j])[k]
      BY <3>1
    <3>3. AtPlace(cmds[l], es, j, done[j], k)
      BY <3>2, NextSays
    <3> QED
      BY <3>3 DEF AtPlace
  <2> HIDE DEF new
  <2> QED
    BY <2>1, <2>2 DEF Foreign
<1> HIDE DEF new, all
<1>4. Apart(cmds) /\ Apart(new)
  BY <1>1 DEF Follows
<1>5. all \in Seq(Commands) /\ Apart(all)
  BY <1>2, <1>3, <1>4 DEF Joined
<1>6. ASSUME NEW l \in DOMAIN all
      PROVE  \E j \in D \cup {i} : \E k \in DOMAIN NextCommands(es, j, done[j]) :
                all[l] = NextCommands(es, j, done[j])[k]
  <2>1. (\E m \in DOMAIN cmds : all[l] = cmds[m]) \/ (\E m \in DOMAIN new : all[l] = new[m])
    BY <1>2 DEF Joined
  <2>2. CASE \E m \in DOMAIN cmds : all[l] = cmds[m]
    <3>1. PICK m \in DOMAIN cmds : all[l] = cmds[m]
      BY <2>2
    <3>2. PICK j \in D : \E k \in DOMAIN NextCommands(es, j, done[j]) : cmds[m] = NextCommands(es, j, done[j])[k]
      BY DEF Follows
    <3> QED
      BY <3>1, <3>2
  <2>3. CASE \E m \in DOMAIN new : all[l] = new[m]
    BY <2>3 DEF new
  <2> QED
    BY <2>1, <2>2, <2>3
<1>7. ASSUME NEW j \in D \cup {i}, NEW k \in DOMAIN NextCommands(es, j, done[j])
      PROVE  Has(all, NextCommands(es, j, done[j])[k])
  <2>1. CASE j \in D
    <3>1. Has(cmds, NextCommands(es, j, done[j])[k])
      BY <2>1 DEF Follows
    <3> QED
      BY <3>1, <1>2 DEF Has, Joined
  <2>2. CASE j = i
    BY <2>2, <1>2 DEF Has, Joined, new
  <2> QED
    BY <2>1, <2>2
<1> QED
  BY <1>5, <1>6, <1>7 DEF Follows, all, new

LEMMA UnprocessedSays ==
    ASSUME spec \in Definition, NEW es \in Seq(Executions), NEW done, DOMAIN done \subseteq DOMAIN es,
           \A i \in DOMAIN done : done[i] \in Result
    PROVE  Follows(UnprocessedCommands(es, done), es, DOMAIN done, done)
<1> DEFINE is == InOrder(es, DOMAIN done)
           n == Len(is)
           step == [x \in (1..n) \X Seq(Commands) |-> x[2] \o NextCommands(es, is[x[1]], done[is[x[1]]])]
           U == CHOOSE u : u = [k \in 0..n |-> IF k = 0 THEN <<>> ELSE
                                  u[k - 1] \o NextCommands(es, is[k], done[is[k]])]
<1>1. /\ is \in Seq(DOMAIN es)
      /\ \A k \in DOMAIN is : is[k] \in DOMAIN done
      /\ \A i \in DOMAIN done : \E k \in DOMAIN is : is[k] = i
      /\ \A k, l \in DOMAIN is : is[k] = is[l] => k = l
  BY InOrderSays
<1>2. UnprocessedCommands(es, done) = U[n]
  BY DEF UnprocessedCommands
<1> HIDE DEF is
<1>3. n \in Nat /\ DOMAIN is = 1..n
  BY <1>1
<1>4. \A k \in 1..n : NextCommands(es, is[k], done[is[k]]) \in Seq(Commands)
  BY <1>1, <1>3, NextSays
<1> HIDE DEF n
<1>5. PICK f : Steps(f, n, Seq(Commands), <<>>, step)
  <2>1. step \in [(1..n) \X Seq(Commands) -> Seq(Commands)]
    <3>1. \A k \in 1..n, q \in Seq(Commands) : q \o NextCommands(es, is[k], done[is[k]]) \in Seq(Commands)
      BY <1>4
    <3> QED
      BY <3>1
  <2>2. <<>> \in Seq(Commands)
    OBVIOUS
  <2> HIDE DEF step
  <2> QED
    BY <1>3, <2>1, <2>2, StepByStep
<1>6. \A k \in 1..n : f[k] = f[k - 1] \o NextCommands(es, is[k], done[is[k]])
  <2> TAKE k \in 1..n
  <2>1. k - 1 \in 0..n /\ f[k - 1] \in Seq(Commands)
    BY <1>3, <1>5 DEF Steps
  <2>2. <<k, f[k - 1]>> \in (1..n) \X Seq(Commands)
    BY <2>1
  <2>3. f[k] = step[<<k, f[k - 1]>>]
    BY <1>5 DEF Steps
  <2> QED
    BY <2>2, <2>3
<1>7. f = [k \in 0..n |-> IF k = 0 THEN <<>> ELSE f[k - 1] \o NextCommands(es, is[k], done[is[k]])]
  <2>1. \A k \in 0..n : k = 0 \/ k \in 1..n
    BY <1>3
  <2> HIDE DEF step
  <2> QED
    BY <1>5, <1>6, <2>1 DEF Steps
<1>8. U = [k \in 0..n |-> IF k = 0 THEN <<>> ELSE U[k - 1] \o NextCommands(es, is[k], done[is[k]])]
  BY <1>7
<1> HIDE DEF U, step
<1> DEFINE Fits(k) == Follows(U[k], es, {is[l] : l \in 1..k}, done)
           S == {k \in Nat : k <= n => Fits(k)}
<1>9. 0 \in S
  <2>1. U[0] = <<>> /\ {is[l] : l \in 1..0} = {}
    BY <1>3, <1>8
  <2>2. DOMAIN <<>> = {} /\ <<>> \in Seq(Commands)
    OBVIOUS
  <2>3. Follows(<<>>, es, {}, done)
    BY <2>2 DEF Follows, Apart
  <2> QED
    BY <2>1, <2>3
<1>10. ASSUME NEW k \in Nat, k \in S PROVE k + 1 \in S
  <2> SUFFICES ASSUME k + 1 <= n PROVE Fits(k + 1)
    OBVIOUS
  <2> DEFINE D == {is[l] : l \in 1..k}
  <2>1. Follows(U[k], es, D, done)
    BY <1>3, <1>10
  <2>2. k + 1 \in 0..n /\ k + 1 # 0 /\ (k + 1) - 1 = k /\ k + 1 \in 1..n /\ 1..k \subseteq 1..n
    BY <1>3
  <2>3. U[k + 1] = U[k] \o NextCommands(es, is[k + 1], done[is[k + 1]])
    BY <1>8, <2>2
  <2>4. {is[l] : l \in 1..(k + 1)} = D \cup {is[k + 1]}
    BY <2>2
  <2>5. is[k + 1] \notin D
    <3>1. ASSUME NEW l \in 1..k PROVE is[l] # is[k + 1]
      <4>1. l \in 1..n /\ k + 1 \in 1..n /\ l # k + 1
        BY <2>2
      <4> QED
        BY <4>1, <1>1, <1>3
    <3> QED
      BY <3>1
  <2>6. D \in SUBSET DOMAIN es /\ is[k + 1] \in DOMAIN es /\ \A j \in D \cup {is[k + 1]} : done[j] \in Result
    BY <1>1, <1>3, <2>2
  <2> DEFINE T == {is[l] : l \in 1..(k + 1)}
  <2>7. T = D \cup {is[k + 1]}
    BY <2>4
  <2> HIDE DEF D, T
  <2>8. Follows(U[k + 1], es, T, done)
    BY <2>1, <2>3, <2>5, <2>6, <2>7, FollowsMore
  <2> QED
    BY <2>8 DEF T
<1>11. Fits(n)
  <2>1. Nat \subseteq S
    <3> HIDE DEF S
    <3> QED
      BY <1>9, <1>10, AllNaturals
  <2>2. n \in S
    <3> HIDE DEF S
    <3> QED
      BY <1>3, <2>1
  <2>3. n <= n
    BY <1>3
  <2> HIDE DEF Fits
  <2> QED
    BY <2>2, <2>3
<1>12. {is[l] : l \in 1..n} = DOMAIN done
  <2>1. \A l \in 1..n : is[l] \in DOMAIN done
    BY <1>1, <1>3
  <2>2. \A i \in DOMAIN done : \E l \in 1..n : i = is[l]
    BY <1>1, <1>3
  <2> QED
    BY <2>1, <2>2
<1> QED
  BY <1>2, <1>11, <1>12

LEMMA StartSays ==
    ASSUME spec \in Definition
    PROVE  /\ StartCommands \in Seq(Commands) /\ Apart(StartCommands)
           /\ \A k \in DOMAIN StartCommands : /\ StartCommands[k].from[1] = <<0, 0>>
                                              /\ StartCommands[k].exec = 0
<1> DEFINE ns == SetToSeq(spec.start)
           m == Cardinality(spec.start)
<1>1. spec.start \in SUBSET Name /\ IsFiniteSet(spec.start)
  <2>1. spec.start \in SUBSET Name
    BY DEF Definition
  <2> QED
    BY <2>1, FS_Subset, DispatcherAssumption
<1>2. m \in Nat /\ ExistsBijection(1..m, spec.start)
  BY <1>1, FS_CardinalityType
<1>3. \E f \in [1..m -> spec.start] : IsInjective(f)
  BY <1>2 DEF ExistsBijection, Bijection, Injection, IsInjective
<1>4. ns \in [1..m -> spec.start]
  BY <1>3 DEF SetToSeq
<1> HIDE DEF ns, m
<1>5. StartCommands = [k \in 1..m |-> Command(ns[k], 0, k, <<0, 0>>)]
  BY <1>4 DEF StartCommands, ns
<1>6. \A k \in 1..m : Command(ns[k], 0, k, <<0, 0>>) \in Commands
  <2> TAKE k \in 1..m
  <2>1. ns[k] \in Name /\ k \in Nat
    BY <1>1, <1>2, <1>4
  <2> QED
    BY <2>1 DEF Command, Commands
<1>7. StartCommands \in Seq(Commands)
  BY <1>2, <1>5, <1>6
<1>8. \A k \in DOMAIN StartCommands :
         /\ StartCommands[k].from = <<<<0, 0>>, k>> /\ StartCommands[k].exec = 0
  BY <1>5 DEF Command
<1>9. Apart(StartCommands)
  BY <1>8 DEF Apart
<1> QED
  BY <1>7, <1>8, <1>9
-----------------------------------------------------------------------------
(* What changes the executions before a session is dispatched.              *)

\* fs is es when the executions D have completed, or are processed now.
Amends(es, fs, D) ==
    /\ D \subseteq DOMAIN es /\ DOMAIN fs = DOMAIN es
    /\ \A i \in DOMAIN es \ D : fs[i] = es[i]
    /\ \A i \in D :
          /\ fs[i].name = es[i].name /\ fs[i].from = es[i].from
          /\ fs[i].keyed = es[i].keyed /\ fs[i].run = es[i].run
          /\ ~es[i].processed /\ fs[i].state \in Result /\ fs[i].result = fs[i].state
          /\ es[i].state \in Result => fs[i].state = es[i].state
          /\ fs[i].keyed /\ fs[i].state = "SUCCESS" => es[i].state \in {"RUNNING", "SUCCESS"}

LEMMA AmendsSays ==
    ASSUME NEW es, NEW fs, NEW D, Amends(es, fs, D), Fit(es)
    PROVE  Forward(es, fs) /\ Fit(fs)
<1>1. EndedOf(es) /\ JoinsWaitOf(es) /\ SourcesOf(es, es) /\ Apart(es)
  BY DEF Fit
<1>2. \A i \in DOMAIN es : /\ fs[i].name = es[i].name /\ fs[i].from = es[i].from
                           /\ fs[i].keyed = es[i].keyed /\ fs[i].run = es[i].run
                           /\ es[i].processed => i \notin D
                           /\ i \notin D => fs[i] = es[i]
  BY DEF Amends
<1>3. Forward(es, fs)
  <2>1. ASSUME NEW i \in DOMAIN es, es[i].result # "NONE" PROVE fs[i].result = es[i].result
    <3>1. es[i].state \in Result /\ es[i].result = es[i].state
      BY <1>1, <2>1 DEF EndedOf
    <3> QED
      BY <3>1 DEF Amends
  <2>2. DOMAIN es \subseteq DOMAIN fs
    BY DEF Amends
  <2> QED
    BY <1>2, <2>1, <2>2 DEF Forward
<1>4. EndedOf(fs)
  <2> SUFFICES ASSUME NEW i \in DOMAIN fs
               PROVE  /\ fs[i].processed => fs[i].state \in Result
                      /\ fs[i].result = IF fs[i].state \in Result THEN fs[i].state ELSE "NONE"
    BY DEF EndedOf
  <2>1. CASE i \in D
    BY <2>1 DEF Amends
  <2>2. CASE i \notin D
    <3>1. i \in DOMAIN es /\ fs[i] = es[i]
      BY <2>2 DEF Amends
    <3> QED
      BY <1>1, <3>1 DEF EndedOf
  <2> QED
    BY <2>1, <2>2
<1>5. JoinsWaitOf(fs)
  <2> SUFFICES ASSUME NEW j \in DOMAIN fs, fs[j].keyed, fs[j].state \in {"RUNNING", "SUCCESS"}
               PROVE  ReadyOf(fs, j)
    BY DEF JoinsWaitOf
  <2>1. j \in DOMAIN es /\ es[j].keyed /\ es[j].state \in {"RUNNING", "SUCCESS"}
    BY <1>2 DEF Amends, Result
  <2>2. ReadyOf(es, j)
    BY <1>1, <2>1 DEF JoinsWaitOf
  <2> QED
    BY <1>3, <2>1, <2>2, ForwardKeeps
<1>6. SourcesOf(fs, fs)
  <2>1. SourcesOf(es, fs)
    BY <1>1, <1>3, ForwardKeeps
  <2>2. DOMAIN fs = DOMAIN es /\ \A i \in DOMAIN es : fs[i].from = es[i].from
    BY <1>2 DEF Amends
  <2> QED
    BY <2>1, <2>2 DEF SourcesOf
<1>7. Apart(fs)
  <2>1. DOMAIN fs = DOMAIN es /\ \A i \in DOMAIN es : fs[i].from = es[i].from
    BY <1>2 DEF Amends
  <2> QED
    BY <1>1, <2>1 DEF Apart
<1> QED
  BY <1>3, <1>4, <1>5, <1>6, <1>7 DEF Fit

\* fs is es when execution j runs.
Launches(es, fs, j) ==
    /\ j \in DOMAIN es /\ DOMAIN fs = DOMAIN es /\ \A i \in DOMAIN es : i # j => fs[i] = es[i]
    /\ es[j].state \in {"IDLE", "WAITING"} /\ fs[j].state = "RUNNING" /\ ~fs[j].processed
    /\ fs[j].name = es[j].name /\ fs[j].from = es[j].from
    /\ fs[j].keyed = es[j].keyed /\ fs[j].result = es[j].result
    /\ es[j].keyed => ReadyOf(es, j)

LEMMA LaunchesSays ==
    ASSUME NEW es, NEW fs, NEW j, Launches(es, fs, j), Fit(es)
    PROVE  Forward(es, fs) /\ Fit(fs)
<1>1. EndedOf(es) /\ JoinsWaitOf(es) /\ SourcesOf(es, es) /\ Apart(es)
  BY DEF Fit
<1>2. ~es[j].processed /\ es[j].result = "NONE"
  BY <1>1 DEF Launches, EndedOf, Result
<1>3. DOMAIN fs = DOMAIN es /\ \A i \in DOMAIN es : /\ fs[i].name = es[i].name /\ fs[i].from = es[i].from
                                                    /\ fs[i].keyed = es[i].keyed /\ fs[i].result = es[i].result
                                                    /\ es[i].processed => fs[i] = es[i]
  BY <1>2 DEF Launches
<1>4. Forward(es, fs)
  BY <1>3 DEF Forward
<1>5. EndedOf(fs)
  <2> SUFFICES ASSUME NEW i \in DOMAIN fs
               PROVE  /\ fs[i].processed => fs[i].state \in Result
                      /\ fs[i].result = IF fs[i].state \in Result THEN fs[i].state ELSE "NONE"
    BY DEF EndedOf
  <2>1. CASE i = j
    BY <1>2, <2>1 DEF Launches, Result
  <2>2. CASE i # j
    <3>1. i \in DOMAIN es /\ fs[i] = es[i]
      BY <2>2 DEF Launches
    <3> QED
      BY <1>1, <3>1 DEF EndedOf
  <2> QED
    BY <2>1, <2>2
<1>6. JoinsWaitOf(fs)
  <2> SUFFICES ASSUME NEW i \in DOMAIN fs, fs[i].keyed, fs[i].state \in {"RUNNING", "SUCCESS"}
               PROVE  ReadyOf(fs, i)
    BY DEF JoinsWaitOf
  <2>1. i \in DOMAIN es
    BY <1>3
  <2>2. ReadyOf(es, i)
    <3>1. CASE i = j
      BY <3>1 DEF Launches
    <3>2. CASE i # j
      <4>1. fs[i] = es[i]
        BY <2>1, <3>2 DEF Launches
      <4> QED
        BY <1>1, <2>1, <4>1 DEF JoinsWaitOf
    <3> QED
      BY <3>1, <3>2
  <2> QED
    BY <1>4, <2>1, <2>2, ForwardKeeps
<1>7. SourcesOf(fs, fs)
  <2>1. SourcesOf(es, fs)
    BY <1>1, <1>4, ForwardKeeps
  <2> QED
    BY <1>3, <2>1 DEF SourcesOf
<1>8. Apart(fs)
  BY <1>1, <1>3 DEF Apart
<1> QED
  BY <1>4, <1>5, <1>6, <1>7, <1>8 DEF Fit

\* As long as nothing more is processed, the backlog is enough.
LEMMA StoredStays ==
    ASSUME NEW es, NEW fs, NEW b, Forward(es, fs), Fit(es), Stored(b, es), DOMAIN fs = DOMAIN es,
           \A i \in DOMAIN fs : fs[i].processed => es[i].processed
    PROVE  Stored(b, fs)
<1>1. EndedOf(es)
  BY DEF Fit
<1>2. SourcesOf(b, fs) /\ Apart(b)
  BY ForwardKeeps DEF Stored
<1>3. Foreign(b, fs)
  <2>1. \A i \in DOMAIN es : fs[i].from = es[i].from
    BY DEF Forward
  <2>2. Foreign(b, es)
    BY DEF Stored
  <2> QED
    BY <2>1, <2>2 DEF Foreign
<1>4. ASSUME NEW i \in DOMAIN fs, fs[i].processed, NEW k \in AskedOf(fs, i) PROVE KeptOf(fs, b, i, k)
  <2>1. i \in DOMAIN es /\ es[i].processed
    BY <1>4
  <2>2. AskedOf(fs, i) = AskedOf(es, i) /\ (KeptOf(es, b, i, k) => KeptOf(fs, b, i, k))
    BY <1>1, <2>1, ForwardKeeps
  <2>3. KeptOf(es, b, i, k)
    BY <1>4, <2>1, <2>2 DEF Stored, NoneLost
  <2> QED
    BY <2>2, <2>3
<1>5. NoneLost(fs, b)
  BY <1>4 DEF NoneLost
<1> QED
  BY <1>2, <1>3, <1>5 DEF Stored

\* cmds are what the executions D ask for, and what has no clause.
Gathered(cmds, es, D, done, now) ==
    \E all :
        /\ Follows(all, es, D, done) /\ cmds \in Seq(Commands) /\ Apart(cmds)
        /\ \A l \in DOMAIN cmds : cmds[l].from[2] = 0 \/ Has(all, cmds[l])
        /\ \A l \in DOMAIN all : all[l].name # "pause" => Has(cmds, all[l])
        /\ now = "RUNNING" \/ \E i \in D : cmds = NextCommands(es, i, done[i]) /\ D = {i}

LEMMA Prepared ==
    ASSUME spec \in Definition, NEW es \in Seq(Executions), NEW fs \in Seq(Executions), NEW D, NEW done,
           Amends(es, fs, D), Fit(es), \A i \in D : fs[i].processed /\ done[i] = fs[i].state,
           NEW now, NEW loaded, NEW b, NEW cmds, Gathered(cmds, es, D, done, now),
           IF now = "RUNNING" THEN loaded = b ELSE loaded = <<>>,
           now \notin Final => Stored(b, es)
    PROVE  Dispatchable(fs, b, loaded, cmds, now)
<1>1. Forward(es, fs) /\ Fit(fs)
  BY AmendsSays
<1>2. EndedOf(es) /\ SourcesOf(es, es) /\ Apart(es)
  BY DEF Fit
<1>3. PICK all :
        /\ Follows(all, es, D, done) /\ cmds \in Seq(Commands) /\ Apart(cmds)
        /\ \A l \in DOMAIN cmds : cmds[l].from[2] = 0 \/ Has(all, cmds[l])
        /\ \A l \in DOMAIN all : all[l].name # "pause" => Has(cmds, all[l])
        /\ now = "RUNNING" \/ \E i \in D : cmds = NextCommands(es, i, done[i]) /\ D = {i}
  BY DEF Gathered
<1>4. D \subseteq DOMAIN es /\ DOMAIN fs = DOMAIN es /\ D \subseteq Nat \ {0}
  <2>1. DOMAIN es \subseteq Nat \ {0}
    OBVIOUS
  <2> QED
    BY <2>1 DEF Amends
<1>5. ASSUME NEW i \in D
      PROVE  /\ ~es[i].processed /\ fs[i].processed /\ fs[i].run = es[i].run /\ fs[i].name = es[i].name
             /\ fs[i].from = es[i].from /\ done[i] \in Result /\ fs[i].result = done[i]
  BY DEF Amends
<1>6. \A i \in DOMAIN es : i \notin D => fs[i] = es[i]
  BY DEF Amends
<1>7. ASSUME NEW i \in D
      PROVE  /\ DOMAIN NextCommands(es, i, done[i]) = DOMAIN spec.clause[es[i].name][done[i]]
             /\ \A k \in DOMAIN NextCommands(es, i, done[i]) :
                   AtPlace(NextCommands(es, i, done[i])[k], es, i, done[i], k)
  BY <1>4, <1>5, NextSays
<1>8. ASSUME NEW l \in DOMAIN cmds, cmds[l].from[2] # 0
      PROVE  \E i \in D : cmds[l].from[1] = <<i, es[i].run>>
  <2>1. PICK m \in DOMAIN all : all[m] = cmds[l]
    BY <1>3, <1>8 DEF Has
  <2>2. PICK i \in D : \E k \in DOMAIN NextCommands(es, i, done[i]) : all[m] = NextCommands(es, i, done[i])[k]
    BY <1>3 DEF Follows
  <2>3. PICK k \in DOMAIN NextCommands(es, i, done[i]) : all[m] = NextCommands(es, i, done[i])[k]
    BY <2>2
  <2>4. AtPlace(cmds[l], es, i, done[i], k)
    BY <1>7, <2>1, <2>3
  <2> QED
    BY <2>4 DEF AtPlace
<1>9. SourcesOf(cmds, fs)
  <2> SUFFICES ASSUME NEW l \in DOMAIN cmds PROVE Source(cmds[l].from, fs)
    BY DEF SourcesOf
  <2>1. CASE cmds[l].from[2] = 0
    BY <2>1 DEF Source
  <2>2. CASE cmds[l].from[2] # 0
    <3>1. PICK i \in D : cmds[l].from[1] = <<i, es[i].run>>
      BY <1>8, <2>2
    <3>2. cmds[l].from[1][1] = i /\ cmds[l].from[1][2] = fs[i].run
      BY <1>5, <3>1
    <3>3. i \in DOMAIN fs /\ fs[i].processed
      BY <1>4, <1>5
    <3> QED
      BY <3>2, <3>3 DEF Source
  <2> QED
    BY <2>1, <2>2
\* What has a source before is not one of the new commands.
<1>10. ASSUME NEW l \in DOMAIN cmds, NEW f, Source(f, es), f = cmds[l].from PROVE f[2] = 0
  <2> SUFFICES ASSUME f[2] # 0 PROVE FALSE
    OBVIOUS
  <2>1. PICK i \in D : cmds[l].from[1] = <<i, es[i].run>>
    BY <1>8, <1>10
  <2>2. f[1][1] = i /\ f[1] # <<0, 0>> /\ ~es[i].processed
    BY <1>4, <1>5, <1>10, <2>1
  <2> QED
    BY <1>10, <2>2 DEF Source
<1>11. Foreign(cmds, fs)
  <2> SUFFICES ASSUME NEW l \in DOMAIN cmds, NEW j \in DOMAIN fs, cmds[l].from = fs[j].from
               PROVE  cmds[l].from[2] = 0
    BY DEF Foreign
  <2>1. fs[j].from = es[j].from /\ Source(es[j].from, es)
    BY <1>1, <1>2, <1>4 DEF Forward, SourcesOf
  <2> QED
    BY <2>1, <1>10
<1>12. ASSUME now \notin Final
       PROVE  /\ SourcesOf(b, fs) /\ Apart(b) /\ Foreign(b, fs) /\ Foreign(b, cmds)
              /\ \A i \in DOMAIN fs : fs[i].processed =>
                    \A k \in AskedOf(fs, i) : KeptOf(fs, b, i, k) \/ AnswersOf(fs, cmds, i, k, now)
  <2>1. SourcesOf(b, es) /\ Apart(b) /\ Foreign(b, es) /\ NoneLost(es, b)
    BY <1>12 DEF Stored
  <2>2. SourcesOf(b, fs)
    BY <1>1, <2>1, ForwardKeeps
  <2>3. Foreign(b, fs)
    <3>1. \A i \in DOMAIN es : fs[i].from = es[i].from
      BY <1>1 DEF Forward
    <3> QED
      BY <1>4, <2>1, <3>1 DEF Foreign
  <2>4. Foreign(b, cmds)
    <3> SUFFICES ASSUME NEW d \in DOMAIN b, NEW l \in DOMAIN cmds, b[d].from = cmds[l].from
                 PROVE  b[d].from[2] = 0
      BY DEF Foreign
    <3>1. Source(b[d].from, es)
      BY <2>1 DEF SourcesOf
    <3> QED
      BY <3>1, <1>10
  <2>5. ASSUME NEW i \in DOMAIN fs, fs[i].processed, NEW k \in AskedOf(fs, i)
        PROVE  KeptOf(fs, b, i, k) \/ AnswersOf(fs, cmds, i, k, now)
    <3>1. CASE i \notin D
      <4>1. i \in DOMAIN es /\ es[i].processed
        BY <1>4, <1>6, <2>5, <3>1
      <4>2. AskedOf(fs, i) = AskedOf(es, i) /\ (KeptOf(es, b, i, k) => KeptOf(fs, b, i, k))
        BY <1>1, <1>2, <4>1, ForwardKeeps
      <4> QED
        BY <2>1, <2>5, <4>1, <4>2 DEF NoneLost
    <3>2. CASE i \in D
      <4> DEFINE new == NextCommands(es, i, done[i])
                 names == spec.clause[fs[i].name][fs[i].result]
      <4>1. /\ k \in DOMAIN names /\ names[k] \in Name
            /\ \A p \in 1..k : names[p] \notin Enders
        BY <2>5 DEF AskedOf
      <4>2. DOMAIN new = DOMAIN names /\ \A p \in DOMAIN new : /\ new[p].name = names[p] /\ new[p].exec = 0
                                                               /\ new[p].from = FromOf(fs, i, p)
                                                               /\ new[p].wait => names[p] \in spec.joins
        <5>1. /\ fs[i].name = es[i].name /\ fs[i].result = done[i] /\ fs[i].run = es[i].run
              /\ names = spec.clause[es[i].name][done[i]]
          BY <1>5, <3>2
        <5>2. DOMAIN new = DOMAIN names /\ \A p \in DOMAIN new : AtPlace(new[p], es, i, done[i], p)
          BY <1>7, <3>2, <5>1
        <5> HIDE DEF new, names
        <5> QED
          BY <5>1, <5>2 DEF AtPlace, FromOf
      <4>3. NameOf(fs, i, k) = names[k]
        BY DEF NameOf
      <4> HIDE DEF new, names
      <4>4. CASE now = "RUNNING"
        <5>1. Has(all, new[k])
          BY <1>3, <3>2, <4>1, <4>2 DEF Follows, new
        <5>2. new[k].name # "pause"
          BY <4>1, <4>2, DispatcherAssumption DEF Engine, SetState
        <5>3. Has(cmds, new[k])
          <6>1. PICK m \in DOMAIN all : all[m] = new[k]
            BY <5>1 DEF Has
          <6> QED
            BY <6>1, <5>2, <1>3
        <5>4. PICK l \in DOMAIN cmds : cmds[l] = new[k]
          BY <5>3 DEF Has
        <5>5. /\ cmds[l].from = FromOf(fs, i, k) /\ cmds[l].name = NameOf(fs, i, k) /\ cmds[l].exec = 0
              /\ cmds[l].wait => NameOf(fs, i, k) \in spec.joins
          BY <4>1, <4>2, <4>3, <5>4
        <5> QED
          BY <4>4, <5>5 DEF AnswersOf
      <4>5. CASE now # "RUNNING"
        <5>1. cmds = new
          BY <1>3, <3>2, <4>5 DEF new
        <5>2. ASSUME NEW p \in DOMAIN cmds, p < k PROVE cmds[p].name \notin Enders
          <6>1. p \in Nat \ {0}
            BY <1>3
          <6>2. k \in Nat
            BY <1>3, <4>1, <4>2, <5>1
          <6>3. p \in 1..k
            BY <5>2, <6>1, <6>2
          <6> QED
            BY <6>3, <4>1, <4>2, <5>1
        <5>3. /\ k \in DOMAIN cmds
              /\ cmds[k].from = FromOf(fs, i, k) /\ cmds[k].name = NameOf(fs, i, k) /\ cmds[k].exec = 0
              /\ cmds[k].wait => NameOf(fs, i, k) \in spec.joins
          BY <4>1, <4>2, <4>3, <5>1
        <5> QED
          BY <5>2, <5>3 DEF AnswersOf
      <4> QED
        BY <4>4, <4>5
    <3> QED
      BY <3>1, <3>2
  <2> QED
    BY <2>1, <2>2, <2>3, <2>4, <2>5
<1> QED
  BY <1>1, <1>3, <1>9, <1>11, <1>12 DEF Dispatchable
-----------------------------------------------------------------------------
(* The inductive invariant.                                                 *)

\* What a transaction has loaded; es are the executions.
OpenedTyped(x, es) ==
    /\ x.op \in {"complete", "resume"} /\ x.seen \in WfStates \ {"NONE"} /\ x.loaded \in Seq(Commands)
    /\ x.op = "complete" => x.exec \in DOMAIN es /\ DOMAIN x.done = {}
    /\ \A i \in DOMAIN x.done : i \in DOMAIN es /\ x.done[i] \in Result

Typed ==
    /\ DispatcherTypeOK /\ spec \in Definition
    /\ execs \in Seq(Executions) /\ backlog \in Seq(Commands) /\ msgs \in SUBSET (Kinds \X Nat)
    /\ \A x \in opened : OpenedTyped(x, execs)

\* A join that was deferred is not started by the dispatcher.
KeyedOf(es, ms) ==
    /\ \A i \in DOMAIN es : es[i].keyed => es[i].state # "IDLE"
    /\ \A m \in ms : m[1] \in {"start", "again"} => ~es[m[2]].keyed
Keyed == KeyedOf(execs, msgs)

\* The backlog a transaction has loaded, when the state is s and the backlog is b.
LoadedOf(x, s, b) ==
    /\ x.seen = "RUNNING" => x.loaded = <<>>
    /\ x.seen \in Final => s \in Final
    /\ x.op = "resume" => /\ x.seen = "PAUSED" /\ s \in {"PAUSED"} \cup Final
                          /\ s = "PAUSED" => x.loaded = b

Loaded ==
    /\ state = "NONE" => execs = <<>> /\ opened = {} /\ msgs = {}
    /\ state \in {"NONE", "RUNNING"} => backlog = <<>>
    /\ \A x \in opened : LoadedOf(x, state, backlog)
    /\ \A x, y \in opened : x.op = "resume" /\ y.op = "resume" => x = y

\* What a resume has read is as it was.
StillOf(x, es) == \A i \in DOMAIN x.done : es[i].state = x.done[i] /\ ~es[i].processed

Calm == history \cap Repeated = {}
Exact ==
    Calm => /\ Fit(execs)
            /\ state \notin Final => Stored(backlog, execs)
            /\ \A x \in opened : StillOf(x, execs)

DispatcherHeld == Typed /\ Keyed /\ Loaded /\ Exact

\* A step that opens no transaction.
Advance ==
    /\ spec' = spec /\ opened' \subseteq opened /\ left' \in [pause : Nat, stop : Nat]
    /\ history' \subseteq Incident
    /\ execs' \in Seq(Executions) /\ DOMAIN execs \subseteq DOMAIN execs' /\ backlog' \in Seq(Commands)
    /\ msgs' \in SUBSET (Kinds \X Nat) /\ \A m \in msgs' : m[2] \in DOMAIN execs'
    /\ KeyedOf(execs', msgs')
    /\ state' \in {"RUNNING", "PAUSED"} \cup Final
    /\ state \in Final => state' \in Final
    /\ state' = "RUNNING" => backlog' = <<>>
    /\ \A x \in opened' : x.op = "resume" =>
          state' \in {"PAUSED"} \cup Final /\ (state' = "PAUSED" => state = "PAUSED" /\ backlog' = backlog)
    /\ Calm' => /\ Fit(execs')
                /\ state' \notin Final => Stored(backlog', execs')
                /\ \A x \in opened' : x.op = "resume" => StillOf(x, execs')

\* The specification does not change.
LEMMA SpecStays ==
    ASSUME spec' = spec
    PROVE  /\ Fit(execs') => (Fit(execs))'
           /\ Stored(backlog', execs') => (Stored(backlog, execs))'
<1>1. Fit(execs') => (Fit(execs))'
  <2>1. EndedOf(execs') => (EndedOf(execs))'
    BY DEF EndedOf
  <2>2. JoinsWaitOf(execs') => (JoinsWaitOf(execs))'
    <3>1. \A n : Follow(n)' = Follow(n)
      BY DEF Follow
    <3>2. \A i, j : LeadsOf(execs', i, j) => (LeadsOf(execs, i, j))'
      BY DEF LeadsOf
    <3>3. ASSUME NEW j, ReadyOf(execs', j) PROVE (ReadyOf(execs, j))'
      BY <3>1, <3>2, <3>3 DEF ReadyOf
    <3> QED
      BY <3>3 DEF JoinsWaitOf
  <2>3. SourcesOf(execs', execs') => (SourcesOf(execs, execs))'
    BY DEF SourcesOf, Source
  <2>4. Apart(execs') => (Apart(execs))'
    BY DEF Apart
  <2> QED
    BY <2>1, <2>2, <2>3, <2>4 DEF Fit
<1>2. Stored(backlog', execs') => (Stored(backlog, execs))'
  <2>1. /\ SourcesOf(backlog', execs') => (SourcesOf(backlog, execs))'
        /\ Apart(backlog') => (Apart(backlog))'
        /\ Foreign(backlog', execs') => (Foreign(backlog, execs))'
    BY DEF SourcesOf, Source, Apart, Foreign
  <2>2. NoneLost(execs', backlog') => (NoneLost(execs, backlog))'
    <3>1. \A i : (AskedOf(execs, i))' = AskedOf(execs', i)
      BY DEF AskedOf
    <3>2. \A i, k : KeptOf(execs', backlog', i, k) => (KeptOf(execs, backlog, i, k))'
      BY DEF KeptOf, FromOf, NameOf
    <3> QED
      BY <3>1, <3>2 DEF NoneLost
  <2> QED
    BY <2>1, <2>2 DEF Stored
<1> QED
  BY <1>1, <1>2

LEMMA Advanced ==
    ASSUME DispatcherHeld, Advance
    PROVE  DispatcherHeld'
<1>1. Typed'
  <2>1. \A i \in DOMAIN execs' : execs'[i] \in Executions
    BY ElementOfSeq DEF Advance
  <2>2. \A i \in DOMAIN backlog' : backlog'[i] \in Commands
    BY ElementOfSeq DEF Advance
  <2>3. DispatcherTypeOK'
    <3>1. \E c \in Scenarios : spec' = c[1]
      BY DEF Advance, DispatcherHeld, Typed, DispatcherTypeOK
    <3>2. \A i \in DOMAIN execs' : /\ execs'[i].name \in Name
                                   /\ execs'[i].state \in {"IDLE", "WAITING", "RUNNING"} \cup Result
      BY <2>1 DEF Executions
    <3>3. \A i \in DOMAIN backlog' : backlog'[i].name \in Name \cup Engine
      BY <2>2 DEF Commands
    <3>4. \A m \in msgs' : m[1] \in {"start", "again", "check", "refresh"} /\ m[2] \in DOMAIN execs'
      BY DEF Advance, Kinds
    <3>5. state' \in {"NONE", "RUNNING", "PAUSED"} \cup Final
      BY DEF Advance
    <3>6. left' \in [pause : Nat, stop : Nat] /\ history' \subseteq Incident
      BY DEF Advance
    <3> QED
      BY <3>1, <3>2, <3>3, <3>4, <3>5, <3>6 DEF DispatcherTypeOK
  <2>4. ASSUME NEW x \in opened' PROVE OpenedTyped(x, execs')
    <3>1. OpenedTyped(x, execs)
      BY DEF Advance, DispatcherHeld, Typed
    <3> QED
      BY <3>1 DEF OpenedTyped, Advance
  <2>5. spec' \in Definition
    BY DEF Advance, DispatcherHeld, Typed
  <2> QED
    BY <2>3, <2>4, <2>5 DEF Typed, Advance
<1>2. Keyed'
  BY DEF Advance, Keyed
<1>3. Loaded'
  <2>1. state' # "NONE"
    BY DEF Advance, Final
  <2>2. ASSUME NEW x \in opened' PROVE LoadedOf(x, state', backlog')
    <3>1. LoadedOf(x, state, backlog)
      BY DEF Advance, DispatcherHeld, Loaded
    <3> QED
      BY <3>1 DEF LoadedOf, Advance
  <2>3. \A x, y \in opened' : x.op = "resume" /\ y.op = "resume" => x = y
    BY DEF Advance, DispatcherHeld, Loaded
  <2> QED
    BY <2>1, <2>2, <2>3 DEF Loaded, Advance
<1>4. Exact'
  <2> SUFFICES ASSUME Calm' PROVE \A x \in opened' : StillOf(x, execs')
    <3> SUFFICES ASSUME Calm' PROVE /\ (Fit(execs))'
                                    /\ state' \notin Final => (Stored(backlog, execs))'
                                    /\ \A x \in opened' : (StillOf(x, execs))'
      BY DEF Exact
    <3>1. \A x \in opened' : (StillOf(x, execs))'
      BY DEF StillOf
    <3> QED
      BY <3>1, SpecStays DEF Advance
  <2>1. ASSUME NEW x \in opened' PROVE StillOf(x, execs')
    <3>1. OpenedTyped(x, execs)
      BY DEF Advance, DispatcherHeld, Typed
    <3>2. CASE x.op = "resume"
      BY <3>2 DEF Advance
    <3>3. CASE x.op = "complete"
      BY <3>1, <3>3 DEF OpenedTyped, StillOf
    <3> QED
      BY <3>1, <3>2, <3>3 DEF OpenedTyped
  <2> QED
    BY <2>1
<1> QED
  BY <1>1, <1>2, <1>3, <1>4 DEF DispatcherHeld

\* What a session makes of the executions es and the messages ms.
LEMMA SessionHeld ==
    ASSUME NEW es \in Seq(Executions), NEW ms \in SUBSET (Kinds \X Nat), \A m \in ms : m[2] \in DOMAIN es,
           KeyedOf(es, ms), NEW seen \in WfStates \ {"NONE"}, NEW now \in WfStates \ {"NONE"},
           NEW loaded \in Seq(Commands), NEW cmds \in Seq(Commands),
           \A l \in DOMAIN cmds : cmds[l].exec # 0 => /\ cmds[l].exec \in DOMAIN es
                                                      /\ es[cmds[l].exec].state = "IDLE",
           NEW q, q = Dispatched(Session(seen, now, es, ms), ToDo(loaded, cmds))
    PROVE  /\ q \in Sessions /\ DOMAIN es \subseteq DOMAIN q.execs
           /\ \A m \in q.msgs : m[2] \in DOMAIN q.execs
           /\ KeyedOf(q.execs, q.msgs) /\ PhaseOf(Session(seen, now, es, ms), q)
           /\ \A i \in DOMAIN es : q.execs[i] = es[i] \/ Redone(es[i], q.execs[i])
<1> DEFINE r == Session(seen, now, es, ms)
           T == ToDo(loaded, cmds)
           n == Len(T)
           fs == q.execs
<1>1. /\ r \in Sessions /\ r.saved = <<>> /\ r.execs = es /\ r.msgs = ms
  BY SessionTyped
<1>2. ToDoOf(T, loaded, cmds)
  BY ToDoSays
<1>3. q \in Sessions /\ SessionOf(r, T, n, q)
  <2>1. T \in Seq(Commands) /\ \A l \in DOMAIN T : T[l].name # "noop"
    BY <1>2 DEF ToDoOf
  <2> HIDE DEF r, T
  <2> QED
    BY <1>1, <2>1, DispatchedFacts DEF r, T
<1> HIDE DEF r, T
<1>4. /\ fs \in Seq(Executions) /\ T \in Seq(Commands) /\ n \in Nat /\ DOMAIN T = 1..n
      /\ DOMAIN es = 1..Len(es) /\ DOMAIN fs = 1..Len(fs) /\ Len(es) \in Nat /\ Len(fs) \in Nat
  BY <1>2, <1>3 DEF Sessions, ToDoOf
<1>5. Len(es) <= Len(fs)
  BY <1>1, <1>3 DEF SessionOf, GrownOf
<1>6. DOMAIN es \subseteq DOMAIN fs
  BY <1>4, <1>5
<1> HIDE DEF n, fs
<1>7. \A i \in DOMAIN fs \ DOMAIN es : Fresh(fs[i])
  BY <1>1, <1>3 DEF SessionOf, GrownOf, fs
<1>8. \A i \in DOMAIN es : fs[i] = es[i] \/ Redone(es[i], fs[i])
  BY <1>1, <1>3 DEF SessionOf, GrownOf, fs
<1>9. \A i \in DOMAIN es : fs[i].keyed = es[i].keyed /\ (fs[i].keyed => fs[i].state # "IDLE")
  <2> TAKE i \in DOMAIN es
  <2>1. es[i] \in Executions
    BY ElementOfSeq
  <2>2. es[i].keyed => es[i].state # "IDLE"
    BY DEF KeyedOf
  <2>3. CASE Redone(es[i], fs[i])
    BY <2>1, <2>3, RedoneSays
  <2> QED
    BY <1>8, <2>2, <2>3
<1>10. ASSUME NEW m \in q.msgs
       PROVE  m[2] \in DOMAIN fs /\ (m[1] \in {"start", "again"} => ~fs[m[2]].keyed)
  <2>1. \/ m \in ms
        \/ \E l \in DOMAIN T : T[l].exec # 0 /\ m = <<"again", T[l].exec>>
        \/ \E i \in DOMAIN fs \ DOMAIN es : ~fs[i].keyed /\ m = <<"start", i>>
    <3>1. MsgsOf(r, T, n, q) /\ r.execs = es /\ r.msgs = ms /\ DOMAIN T = 1..n
      BY <1>1, <1>3, <1>4 DEF SessionOf
    <3> QED
      BY <3>1 DEF MsgsOf, fs
  <2>2. CASE m \in ms
    <3>1. m[2] \in DOMAIN es /\ (m[1] \in {"start", "again"} => ~es[m[2]].keyed)
      BY <2>2 DEF KeyedOf
    <3> QED
      BY <3>1, <1>6, <1>9
  <2>3. ASSUME NEW l \in DOMAIN T, T[l].exec # 0, m = <<"again", T[l].exec>>
        PROVE  m[2] \in DOMAIN fs /\ (m[1] \in {"start", "again"} => ~fs[m[2]].keyed)
    <3>1. Has(cmds, T[l])
      BY <1>2, <2>3 DEF ToDoOf
    <3>2. PICK p \in DOMAIN cmds : cmds[p] = T[l]
      BY <3>1 DEF Has
    <3>3. T[l].exec \in DOMAIN es /\ es[T[l].exec].state = "IDLE"
      BY <2>3, <3>2
    <3>4. ~es[T[l].exec].keyed
      BY <3>3 DEF KeyedOf
    <3> QED
      BY <2>3, <3>3, <3>4, <1>6, <1>9
  <2>4. ASSUME NEW i \in DOMAIN fs \ DOMAIN es, ~fs[i].keyed, m = <<"start", i>>
        PROVE  m[2] \in DOMAIN fs /\ (m[1] \in {"start", "again"} => ~fs[m[2]].keyed)
    BY <2>4
  <2> QED
    BY <2>1, <2>2, <2>3, <2>4
<1>11. \A i \in DOMAIN fs : fs[i].keyed => fs[i].state # "IDLE"
  BY <1>7, <1>9 DEF Fresh
<1>12. KeyedOf(fs, q.msgs)
  BY <1>10, <1>11 DEF KeyedOf
<1>13. PhaseOf(r, q)
  BY <1>3 DEF SessionOf
<1> QED
  BY <1>3, <1>6, <1>8, <1>10, <1>12, <1>13 DEF r, fs
-----------------------------------------------------------------------------
(* The handlers that dispatch nothing.                                      *)

LEMMA NotNone ==
    ASSUME DispatcherHeld, execs # <<>> \/ msgs # {} \/ opened # {}
    PROVE  state \in {"RUNNING", "PAUSED"} \cup Final
BY DEF DispatcherHeld, Typed, DispatcherTypeOK, Loaded

LEMMA CalmBefore ==
    ASSUME history \subseteq history', Calm'
    PROVE  Calm
BY DEF Calm

\* What is not about the executions, when nothing is written to the backlog.
Quiet ==
    /\ spec' = spec /\ backlog' = backlog /\ opened' \subseteq opened
    /\ left' \in [pause : Nat, stop : Nat]
    /\ history \subseteq history' /\ history' \subseteq Incident
    /\ msgs' \in SUBSET (Kinds \X Nat)
    /\ state' = state \/ (state = "RUNNING" /\ state' \in {"PAUSED"} \cup Final)
                      \/ (state = "PAUSED" /\ state' \in Final)

LEMMA QuietHeld ==
    ASSUME DispatcherHeld, Quiet, state # "NONE", execs' \in Seq(Executions), DOMAIN execs \subseteq DOMAIN execs',
           \A m \in msgs' : m[2] \in DOMAIN execs', KeyedOf(execs', msgs'),
           Calm' => /\ Fit(execs')
                    /\ state \notin Final => Stored(backlog, execs')
                    /\ \A x \in opened' : x.op = "resume" => StillOf(x, execs')
    PROVE  Advance
<1>1. /\ state \in {"RUNNING", "PAUSED"} \cup Final /\ backlog \in Seq(Commands)
      /\ state = "RUNNING" => backlog = <<>>
  BY DEF DispatcherHeld, Typed, DispatcherTypeOK, Loaded
<1>2. state' \in {"RUNNING", "PAUSED"} \cup Final
  BY <1>1 DEF Quiet
<1>3. state \in Final => state' \in Final
  BY DEF Quiet, Final
<1>4. state' = "RUNNING" => backlog' = <<>>
  BY <1>1 DEF Quiet, Final
<1>5. ASSUME NEW x \in opened', x.op = "resume"
      PROVE  state' \in {"PAUSED"} \cup Final /\ (state' = "PAUSED" => state = "PAUSED" /\ backlog' = backlog)
  <2>1. x \in opened
    BY DEF Quiet
  <2>2. state \in {"PAUSED"} \cup Final
    BY <1>5, <2>1 DEF DispatcherHeld, Loaded, LoadedOf
  <2> QED
    BY <2>2 DEF Quiet, Final
<1>6. state' \notin Final => state \notin Final
  BY <1>3
<1> QED
  BY <1>1, <1>2, <1>3, <1>4, <1>5, <1>6 DEF Advance, Quiet

\* Execution j runs, at most.
LEMMA LaunchHeld ==
    ASSUME DispatcherHeld, Quiet, state # "NONE", NEW j \in DOMAIN execs, execs' \in Seq(Executions),
           DOMAIN execs' = DOMAIN execs, \A i \in DOMAIN execs : i # j => execs'[i] = execs[i],
           execs'[j].keyed = execs[j].keyed, execs'[j] = execs[j] \/ execs'[j].state # "IDLE", msgs' \subseteq msgs,
           Calm' => execs' = execs \/ Launches(execs, execs', j)
    PROVE  Advance
<1>1. \A i \in DOMAIN execs : execs'[i].keyed = execs[i].keyed
  OBVIOUS
<1>2. \A m \in msgs : m[2] \in DOMAIN execs
  BY DEF DispatcherHeld, Typed, DispatcherTypeOK
<1>3. KeyedOf(execs', msgs')
  BY <1>1, <1>2 DEF DispatcherHeld, Keyed, KeyedOf
<1>4. ASSUME Calm'
      PROVE  /\ Fit(execs')
             /\ state \notin Final => Stored(backlog, execs')
             /\ \A x \in opened' : x.op = "resume" => StillOf(x, execs')
  <2>1. /\ Fit(execs) /\ (state \notin Final => Stored(backlog, execs))
        /\ \A x \in opened : StillOf(x, execs) /\ OpenedTyped(x, execs)
    BY <1>4, CalmBefore DEF DispatcherHeld, Exact, Typed, Quiet
  <2>2. CASE execs' = execs
    BY <2>1, <2>2 DEF Quiet
  <2>3. CASE Launches(execs, execs', j)
    <3>1. Forward(execs, execs') /\ Fit(execs')
      BY <2>1, <2>3, LaunchesSays
    <3>2. \A i \in DOMAIN execs' : execs'[i].processed => execs[i].processed
      BY <2>3 DEF Launches
    <3>3. state \notin Final => Stored(backlog, execs')
      BY <2>1, <3>1, <3>2, StoredStays
    <3>4. ASSUME NEW x \in opened' PROVE StillOf(x, execs')
      <4>1. x \in opened
        BY DEF Quiet
      <4>2. \A i \in DOMAIN x.done : i \in DOMAIN execs /\ execs[i].state \in Result
        BY <2>1, <4>1 DEF StillOf, OpenedTyped
      <4>3. execs[j].state \notin Result
        BY <2>3 DEF Launches, Result
      <4> QED
        BY <2>1, <4>1, <4>2, <4>3 DEF StillOf
    <3> QED
      BY <3>1, <3>3, <3>4
  <2> QED
    BY <1>4, <2>2, <2>3
<1> QED
  BY <1>2, <1>3, <1>4, QuietHeld

LEMMA RunTaskHeld ==
    ASSUME DispatcherHeld, NEW m \in msgs, RunTask(m)
    PROVE  Advance
<1> DEFINE j == m[2]
<1>1. j \in DOMAIN execs /\ ~execs[j].keyed /\ execs \in Seq(Executions) /\ msgs \in SUBSET (Kinds \X Nat)
  BY DEF DispatcherHeld, Typed, DispatcherTypeOK, Keyed, KeyedOf, RunTask
<1>2. state # "NONE"
  BY NotNone DEF Final
<1> HIDE DEF j
<1>3. execs[j] \in Executions
  BY <1>1, ElementOfSeq
<1>4. /\ execs' = [execs EXCEPT ![j].state = IF @ = "IDLE" THEN "RUNNING" ELSE @]
      /\ UNCHANGED <<spec, state, backlog, opened, left, history>> /\ msgs' \subseteq msgs
  BY DEF RunTask, j
<1>5. Quiet
  BY <1>1, <1>4 DEF Quiet, DispatcherHeld, Typed, DispatcherTypeOK
<1>6. CASE execs[j].state = "IDLE"
  <2>1. execs' = [execs EXCEPT ![j] = [execs[j] EXCEPT !.state = "RUNNING"]]
    BY <1>1, <1>4, <1>6
  <2>2. [execs[j] EXCEPT !.state = "RUNNING"] \in Executions
    BY <1>3 DEF Executions
  <2>3. /\ execs' \in Seq(Executions) /\ DOMAIN execs' = DOMAIN execs
        /\ \A i \in DOMAIN execs : i # j => execs'[i] = execs[i]
        /\ execs'[j] = [execs[j] EXCEPT !.state = "RUNNING"]
    BY <1>1, <2>1, <2>2
  <2>4. /\ execs'[j].keyed = execs[j].keyed /\ execs'[j].state = "RUNNING"
        /\ execs'[j].name = execs[j].name /\ execs'[j].from = execs[j].from
        /\ execs'[j].result = execs[j].result /\ execs'[j].processed = execs[j].processed
    BY <1>3, <2>3 DEF Executions
  <2>5. Calm' => Launches(execs, execs', j)
    <3> SUFFICES ASSUME Calm' PROVE Launches(execs, execs', j)
      OBVIOUS
    <3>1. EndedOf(execs)
      BY <1>5, CalmBefore DEF DispatcherHeld, Exact, Fit, Quiet
    <3>2. ~execs[j].processed
      BY <1>1, <1>6, <3>1 DEF EndedOf, Result
    <3> QED
      BY <1>1, <1>6, <2>3, <2>4, <3>2 DEF Launches
  <2> QED
    BY <1>1, <1>2, <1>4, <1>5, <2>3, <2>4, <2>5, LaunchHeld
<1>7. CASE execs[j].state # "IDLE"
  <2>1. execs' = [execs EXCEPT ![j].state = execs[j].state]
    BY <1>1, <1>4, <1>7
  <2>2. [execs[j] EXCEPT !.state = execs[j].state] = execs[j]
    BY <1>3 DEF Executions
  <2>3. execs' = execs
    BY <1>1, <2>1, <2>2
  <2> QED
    BY <1>1, <1>2, <1>4, <1>5, <2>3, LaunchHeld
<1> QED
  BY <1>6, <1>7

LEMMA SameHeld ==
    ASSUME DispatcherHeld, Quiet, state # "NONE", execs' = execs, msgs' \subseteq msgs
    PROVE  Advance
<1>1. execs \in Seq(Executions) /\ \A m \in msgs : m[2] \in DOMAIN execs
  BY DEF DispatcherHeld, Typed, DispatcherTypeOK
<1>2. KeyedOf(execs', msgs')
  BY DEF DispatcherHeld, Keyed, KeyedOf
<1>3. ASSUME Calm'
      PROVE  /\ Fit(execs')
             /\ state \notin Final => Stored(backlog, execs')
             /\ \A x \in opened' : x.op = "resume" => StillOf(x, execs')
  BY <1>3, CalmBefore DEF DispatcherHeld, Exact, Quiet
<1> QED
  BY <1>1, <1>2, <1>3, QuietHeld

LEMMA RunTaskAgainHeld ==
    ASSUME DispatcherHeld, NEW m \in msgs, RunTaskAgain(m)
    PROVE  Advance
<1> DEFINE j == m[2]
           e == execs[j]
           again == [e EXCEPT !.state = "RUNNING", !.run = @ + 1, !.processed = FALSE]
<1>1. j \in DOMAIN execs /\ ~execs[j].keyed /\ execs \in Seq(Executions) /\ msgs \in SUBSET (Kinds \X Nat)
  BY DEF DispatcherHeld, Typed, DispatcherTypeOK, Keyed, KeyedOf, RunTaskAgain
<1>2. state \in {"RUNNING", "PAUSED"} \cup Final
  BY NotNone
<1> HIDE DEF j
<1>3. e \in Executions
  BY <1>1, ElementOfSeq
<1>4. /\ UNCHANGED <<spec, state, backlog, opened, left>> /\ msgs' \subseteq msgs
      /\ IF e.state = "SUCCESS"
         THEN UNCHANGED <<execs, history>>
         ELSE /\ execs' = [execs EXCEPT ![j] = again]
              /\ history' = IF e.state = "IDLE" THEN history ELSE history \cup {"restarted"}
  BY DEF RunTaskAgain, j
<1>5. Quiet
  BY <1>1, <1>2, <1>4 DEF Quiet, DispatcherHeld, Typed, DispatcherTypeOK, Incident, Repeated, Final
<1>6. ASSUME e.state # "IDLE", e.state # "SUCCESS"
      PROVE  ~Calm'
  <2>1. history' = history \cup {"restarted"}
    BY <1>4, <1>6
  <2> QED
    BY <2>1 DEF Calm, Repeated
<1>7. CASE e.state = "SUCCESS"
  <2>1. execs' = execs /\ msgs' \subseteq msgs
    BY <1>4, <1>7
  <2>2. state # "NONE"
    BY <1>2 DEF Final
  <2> QED
    BY <1>5, <2>1, <2>2, SameHeld
<1>8. CASE e.state # "SUCCESS"
  <2>1. again \in Executions
    <3>1. e.run + 1 \in Nat
      BY <1>3 DEF Executions
    <3> HIDE DEF e
    <3> QED
      BY <1>3, <3>1 DEF Executions
  <2>2. /\ execs' \in Seq(Executions) /\ DOMAIN execs' = DOMAIN execs
        /\ \A i \in DOMAIN execs : i # j => execs'[i] = execs[i]
        /\ execs'[j] = again
    BY <1>1, <1>4, <1>8, <2>1
  <2>3. /\ execs'[j].keyed = execs[j].keyed /\ execs'[j].state = "RUNNING" /\ ~execs'[j].processed
        /\ execs'[j].name = execs[j].name /\ execs'[j].from = execs[j].from
        /\ execs'[j].result = execs[j].result
    BY <1>3, <2>2 DEF Executions
  <2>4. Calm' => Launches(execs, execs', j)
    BY <1>1, <1>6, <1>8, <2>2, <2>3 DEF Launches
  <2> QED
    BY <1>1, <1>2, <1>4, <1>5, <2>2, <2>3, <2>4, LaunchHeld DEF Final
<1> QED
  BY <1>7, <1>8

LEMMA CheckCompletionHeld ==
    ASSUME DispatcherHeld, NEW m \in msgs, CheckCompletion(m)
    PROVE  Advance
<1>1. state \in {"RUNNING", "PAUSED"} \cup Final
  BY NotNone
<1>2. Outcome(execs) \in {"RUNNING", "ERROR", "SUCCESS"}
  BY DEF Outcome
<1>3. Quiet
  BY <1>1, <1>2 DEF Quiet, CheckCompletion, DispatcherHeld, Typed, DispatcherTypeOK, Final
<1> QED
  BY <1>1, <1>3, SameHeld DEF CheckCompletion, Final

LEMMA OperatorHeld ==
    ASSUME DispatcherHeld, PauseByOperator \/ \E s \in Final : StopByOperator(s)
    PROVE  Advance
<1>1. left \in [pause : Nat, stop : Nat] /\ msgs \in SUBSET (Kinds \X Nat) /\ history \subseteq Incident
  BY DEF DispatcherHeld, Typed, DispatcherTypeOK
<1>2. CASE PauseByOperator
  <2>1. left' \in [pause : Nat, stop : Nat]
    BY <1>1, <1>2 DEF PauseByOperator
  <2>2. Quiet
    BY <1>1, <1>2, <2>1 DEF Quiet, PauseByOperator
  <2> QED
    BY <1>2, <2>2, SameHeld DEF PauseByOperator
<1>3. ASSUME NEW s \in Final, StopByOperator(s) PROVE Advance
  <2>1. left' \in [pause : Nat, stop : Nat]
    BY <1>1, <1>3 DEF StopByOperator
  <2>2. Quiet
    BY <1>1, <1>3, <2>1 DEF Quiet, StopByOperator
  <2> QED
    BY <1>3, <2>2, SameHeld DEF StopByOperator
<1> QED
  BY <1>2, <1>3

\* A transaction that is opened.
LEMMA OpensHeld ==
    ASSUME DispatcherHeld, UNCHANGED <<spec, state, execs, backlog, msgs, left, history>>,
           NEW op, NEW i, NEW S, Opens(op, i, S), state # "NONE",
           S \subseteq {j \in DOMAIN execs : execs[j].state \in Result /\ ~execs[j].processed},
           \/ op = "complete" /\ i \in DOMAIN execs /\ S = {}
           \/ op = "resume" /\ state = "PAUSED" /\ \A x \in opened : x.op # "resume"
    PROVE  DispatcherHeld'
<1> DEFINE new == [op |-> op, exec |-> i, seen |-> state, loaded |-> backlog,
                   done |-> [j \in S |-> execs[j].state]]
<1>1. opened' = opened \cup {new}
  BY DEF Opens
<1>2. /\ new.op = op /\ new.exec = i /\ new.seen = state /\ new.loaded = backlog
      /\ DOMAIN new.done = S /\ \A j \in S : new.done[j] = execs[j].state
  OBVIOUS
<1> HIDE DEF new
<1>3. /\ DispatcherTypeOK /\ spec \in Definition /\ execs \in Seq(Executions) /\ backlog \in Seq(Commands)
      /\ msgs \in SUBSET (Kinds \X Nat) /\ \A x \in opened : OpenedTyped(x, execs)
  BY DEF DispatcherHeld, Typed
<1>4. state \in WfStates \ {"NONE"}
  BY <1>3 DEF DispatcherTypeOK, WfStates
<1>5. OpenedTyped(new, execs)
  BY <1>2, <1>3, <1>4 DEF OpenedTyped
<1>6. Typed'
  <2>1. DispatcherTypeOK'
    BY <1>3 DEF DispatcherTypeOK
  <2>2. \A x \in opened' : OpenedTyped(x, execs')
    BY <1>1, <1>3, <1>5
  <2>3. \A x \in opened' : (OpenedTyped(x, execs))'
    BY <2>2 DEF OpenedTyped
  <2> QED
    BY <1>3, <2>1, <2>3 DEF Typed
<1>7. Keyed'
  BY DEF DispatcherHeld, Keyed, KeyedOf
<1>8. Loaded'
  <2>1. LoadedOf(new, state, backlog)
    BY <1>2 DEF LoadedOf, DispatcherHeld, Loaded, Final
  <2>2. \A x \in opened' : LoadedOf(x, state', backlog')
    BY <1>1, <2>1 DEF DispatcherHeld, Loaded
  <2>3. \A x, y \in opened' : x.op = "resume" /\ y.op = "resume" => x = y
    BY <1>1, <1>2 DEF DispatcherHeld, Loaded
  <2>4. state' \in {"NONE", "RUNNING"} => backlog' = <<>>
    BY DEF DispatcherHeld, Loaded
  <2> QED
    BY <2>2, <2>3, <2>4 DEF Loaded
<1>9. Exact'
  <2> SUFFICES ASSUME Calm' PROVE /\ (Fit(execs))'
                                  /\ state' \notin Final => (Stored(backlog, execs))'
                                  /\ \A x \in opened' : (StillOf(x, execs))'
    BY DEF Exact
  <2>1. Calm
    BY DEF Calm
  <2>2. Fit(execs') /\ (state' \notin Final => Stored(backlog', execs'))
    BY <2>1 DEF DispatcherHeld, Exact
  <2>3. StillOf(new, execs)
    BY <1>2 DEF StillOf
  <2>4. \A x \in opened' : StillOf(x, execs)
    BY <1>1, <2>1, <2>3 DEF DispatcherHeld, Exact
  <2>5. \A x \in opened' : (StillOf(x, execs))'
    BY <2>4 DEF StillOf
  <2> QED
    BY <2>2, <2>5, SpecStays
<1> QED
  BY <1>6, <1>7, <1>8, <1>9 DEF DispatcherHeld

LEMMA BeginCompletionHeld ==
    ASSUME DispatcherHeld, NEW i \in DOMAIN execs, BeginCompletion(i)
    PROVE  DispatcherHeld'
<1>1. execs # <<>>
  <2>1. DOMAIN <<>> = {}
    OBVIOUS
  <2> QED
    BY <2>1
<1>2. state # "NONE"
  BY <1>1, NotNone DEF Final
<1> QED
  BY <1>2, OpensHeld DEF BeginCompletion

LEMMA BeginResumptionHeld ==
    ASSUME DispatcherHeld, BeginResumption
    PROVE  DispatcherHeld'
BY OpensHeld DEF BeginResumption
-----------------------------------------------------------------------------
(* The handlers that dispatch.                                              *)

\* A session that saw the state "seen", when the state is "now", commits the
\* executions es and its commands.
SessionIn(es, ms, seen, now, loaded, cmds) ==
    /\ es \in Seq(Executions) /\ ms \in SUBSET (Kinds \X Nat) /\ \A m \in ms : m[2] \in DOMAIN es
    /\ KeyedOf(es, ms)
    /\ seen \in WfStates \ {"NONE"} /\ now \in WfStates \ {"NONE"}
    /\ loaded \in Seq(Commands) /\ cmds \in Seq(Commands)
    /\ \A l \in DOMAIN cmds : cmds[l].exec # 0 => /\ cmds[l].exec \in DOMAIN es
                                                  /\ es[cmds[l].exec].state = "IDLE"

Committed(es, seen, now, loaded, cmds, q, new) ==
    /\ spec' = spec /\ opened' \subseteq opened /\ left' \in [pause : Nat, stop : Nat]
    /\ history' \subseteq Incident /\ DOMAIN execs \subseteq DOMAIN es
    /\ seen = "RUNNING" => IF now = "RUNNING" THEN loaded = backlog ELSE loaded = <<>>
    /\ seen # "RUNNING" => now \in Final
    /\ now # "RUNNING" => now = state
    /\ now = "RUNNING" => state \notin Final /\ \A x \in opened' : x.op # "resume"
    /\ \A m \in new : m[1] = "refresh" /\ m[2] \in DOMAIN q.execs /\ m \in Kinds \X Nat
    /\ state' = q.state /\ execs' = q.execs /\ msgs' = q.msgs \cup new
    /\ backlog' = BacklogAfter(q, loaded, backlog)
    /\ Calm' => /\ Fit(es) /\ \A i \in DOMAIN es : q.execs[i] = es[i]
                /\ seen = "RUNNING" => Dispatchable(es, backlog, loaded, cmds, now)
                /\ \A x \in opened' : x.op = "resume" => StillOf(x, es)

LEMMA CommitHeld ==
    ASSUME DispatcherHeld, NEW es, NEW ms, NEW seen, NEW now, NEW loaded, NEW cmds,
           SessionIn(es, ms, seen, now, loaded, cmds),
           NEW q, q = Dispatched(Session(seen, now, es, ms), ToDo(loaded, cmds)),
           NEW new, Committed(es, seen, now, loaded, cmds, q, new)
    PROVE  Advance
<1> USE DEF SessionIn, Committed
<1> DEFINE r == Session(seen, now, es, ms)
<1>1. /\ q \in Sessions /\ DOMAIN es \subseteq DOMAIN q.execs
      /\ \A m \in q.msgs : m[2] \in DOMAIN q.execs
      /\ KeyedOf(q.execs, q.msgs) /\ PhaseOf(r, q)
  BY SessionHeld
<1>2. r.seen = seen /\ r.state = now /\ r.execs = es /\ r.saved = <<>>
  BY SessionTyped
<1>3. /\ backlog \in Seq(Commands) /\ state \in WfStates
      /\ \A x \in opened : x.op = "resume" => state \in {"PAUSED"} \cup Final
      /\ \A x \in opened : OpenedTyped(x, execs)
  BY DEF DispatcherHeld, Typed, DispatcherTypeOK, Loaded, LoadedOf, WfStates
<1>4. /\ q.seen \in WfStates \ {"NONE"} /\ q.state \in WfStates /\ q.execs \in Seq(Executions)
      /\ q.msgs \in SUBSET (Kinds \X Nat) /\ q.saved \in Seq(Commands)
  BY <1>1 DEF Sessions
<1> HIDE DEF r
<1>5. /\ state' \in {"RUNNING", "PAUSED"} \cup Final
      /\ state \in Final => state' \in Final
      /\ state' = "RUNNING" => backlog' = <<>>
      /\ \A x \in opened' : x.op = "resume" =>
            state' \in {"PAUSED"} \cup Final /\ (state' = "PAUSED" => state = "PAUSED" /\ backlog' = backlog)
      /\ seen # "RUNNING" => q.execs = es /\ state' \in Final
  <2>1. CASE seen = "RUNNING" /\ now = "RUNNING"
    <3>1. q.state = q.seen /\ (q.saved # <<>> => q.seen = "PAUSED")
      BY <1>1, <1>2, <2>1 DEF PhaseOf
    <3>2. state' = "RUNNING" => backlog' = <<>>
      BY <2>1, <3>1 DEF BacklogAfter
    <3> QED
      BY <1>4, <2>1, <3>1, <3>2 DEF WfStates
  <2>2. CASE seen = "RUNNING" /\ now # "RUNNING"
    <3>1. q.state = state /\ q.saved = <<>> /\ loaded = <<>>
      BY <1>1, <1>2, <2>2 DEF PhaseOf
    <3>2. backlog' = backlog
      BY <3>1 DEF BacklogAfter
    <3>3. state \in {"PAUSED"} \cup Final
      BY <2>2 DEF WfStates
    <3> QED
      BY <2>2, <3>1, <3>2, <3>3 DEF Final
  <2>3. CASE seen # "RUNNING"
    <3>1. now \in Final /\ now # "RUNNING" /\ now = state
      BY <2>3 DEF Final
    <3>2. seen = "PAUSED" \/ seen \in Final
      BY <2>3 DEF WfStates
    <3>3. q.state = state /\ q.execs = es
      BY <1>1, <1>2, <3>1, <3>2 DEF PhaseOf
    <3> QED
      BY <2>3, <3>1, <3>3 DEF Final
  <2> QED
    BY <2>1, <2>2, <2>3
<1>6. ASSUME Calm'
      PROVE  /\ Fit(execs')
             /\ state' \notin Final => Stored(backlog', execs')
             /\ \A x \in opened' : x.op = "resume" => StillOf(x, execs')
  <2>1. /\ Fit(es) /\ \A i \in DOMAIN es : q.execs[i] = es[i]
        /\ seen = "RUNNING" => Dispatchable(es, backlog, loaded, cmds, now)
        /\ \A x \in opened' : x.op = "resume" => StillOf(x, es)
    BY <1>6
  <2>2. ASSUME seen = "RUNNING" PROVE Fit(execs') /\ (state' \notin Final => Stored(backlog', execs'))
    <3>1. q = Dispatched(Session("RUNNING", now, es, ms), ToDo(loaded, cmds))
      BY <2>2
    <3>2. Fit(q.execs) /\ (q.state \notin Final => Stored(BacklogAfter(q, loaded, backlog), q.execs))
      BY <2>1, <2>2, <3>1, Dispatching
    <3> QED
      BY <3>2
  <2>3. ASSUME seen # "RUNNING" PROVE Fit(execs') /\ (state' \notin Final => Stored(backlog', execs'))
    BY <1>5, <2>1, <2>3
  <2>4. ASSUME NEW x \in opened', x.op = "resume" PROVE StillOf(x, execs')
    <3>1. \A i \in DOMAIN x.done : i \in DOMAIN es
      BY <1>3 DEF OpenedTyped
    <3> QED
      BY <2>1, <2>4, <3>1 DEF StillOf
  <2> QED
    BY <2>2, <2>3, <2>4
<1>7. backlog' \in Seq(Commands)
  BY <1>3, <1>4 DEF BacklogAfter
<1>8. msgs' \in SUBSET (Kinds \X Nat) /\ (\A m \in msgs' : m[2] \in DOMAIN execs') /\ KeyedOf(execs', msgs')
  <2>1. \A m \in msgs' : m \in q.msgs \/ (m[1] = "refresh" /\ m[2] \in DOMAIN q.execs /\ m \in Kinds \X Nat)
    OBVIOUS
  <2> QED
    BY <1>1, <1>4, <2>1 DEF KeyedOf
<1>9. DOMAIN execs \subseteq DOMAIN execs'
  BY <1>1
<1> QED
  BY <1>4, <1>5, <1>6, <1>7, <1>8, <1>9 DEF Advance

LEMMA RefreshesSay ==
    ASSUME NEW es \in Seq(Executions), NEW n, NEW new \in Refreshes(es, n), NEW m \in new
    PROVE  m[1] = "refresh" /\ m[2] \in DOMAIN es /\ m \in Kinds \X Nat
<1>1. PICK f \in [AffectedJoins(es, n) -> DOMAIN es] : new = {<<"refresh", f[j]>> : j \in DOMAIN f}
  BY DEF Refreshes
<1>2. PICK j \in DOMAIN f : m = <<"refresh", f[j]>>
  BY <1>1
<1>3. f[j] \in DOMAIN es /\ DOMAIN es \subseteq Nat
  BY <1>1
<1> QED
  BY <1>2, <1>3 DEF Kinds

\* What Completes() makes of execution i.
After(x, i, s, cmds) ==
    [execs EXCEPT ![i] = [@ EXCEPT
        !.state = s, !.result = s, !.processed = x.seen # "PAUSED",
        !.handled = s = "ERROR" /\ cmds # <<>>]]

AfterOf(fs, x, i, s) ==
    /\ fs \in Seq(Executions) /\ DOMAIN fs = DOMAIN execs
    /\ \A j \in DOMAIN execs : j # i => fs[j] = execs[j]
    /\ fs[i].name = execs[i].name /\ fs[i].from = execs[i].from /\ fs[i].keyed = execs[i].keyed
    /\ fs[i].run = execs[i].run /\ fs[i].state = s /\ fs[i].result = s
    /\ fs[i].processed <=> x.seen # "PAUSED"

LEMMA AfterSays ==
    ASSUME execs \in Seq(Executions), NEW x, NEW i \in DOMAIN execs, NEW s \in Result, NEW cmds
    PROVE  AfterOf(After(x, i, s, cmds), x, i, s)
<1> DEFINE fs == After(x, i, s, cmds)
           e == execs[i]
           e2 == [e EXCEPT !.state = s, !.result = s, !.processed = x.seen # "PAUSED",
                           !.handled = s = "ERROR" /\ cmds # <<>>]
<1>1. e \in Executions
  BY ElementOfSeq
<1>2. fs = [execs EXCEPT ![i] = e2]
  BY DEF After
<1> HIDE DEF e
<1>3. e2 \in Executions
  BY <1>1 DEF Executions
<1>4. /\ e2.name = e.name /\ e2.from = e.from /\ e2.keyed = e.keyed /\ e2.run = e.run
      /\ e2.state = s /\ e2.result = s /\ (e2.processed <=> x.seen # "PAUSED")
  BY <1>1 DEF Executions
<1> HIDE DEF e2
<1>5. /\ fs \in Seq(Executions) /\ DOMAIN fs = DOMAIN execs /\ fs[i] = e2
      /\ \A j \in DOMAIN execs : j # i => fs[j] = execs[j]
  BY <1>2, <1>3
<1> QED
  BY <1>4, <1>5 DEF e, AfterOf

LEMMA AfterAmends ==
    ASSUME execs \in Seq(Executions), Fit(execs), NEW x, NEW i \in DOMAIN execs, NEW s \in Result, NEW cmds,
           execs[i].state \in {"IDLE", "WAITING", "RUNNING"}, s = "SUCCESS" => execs[i].state = "RUNNING",
           NEW fs, fs = After(x, i, s, cmds)
    PROVE  Amends(execs, fs, {i})
<1>1. ~execs[i].processed
  BY DEF Fit, EndedOf, Result
<1>2. execs[i].state \notin Result
  BY DEF Result
<1> QED
  <2>1. AfterOf(fs, x, i, s)
    BY AfterSays
  <2> QED
    BY <1>1, <1>2, <2>1 DEF Amends, AfterOf

\* A completion that another transaction made of execution i, or this one.
Completing(x, i, s) ==
    /\ x.seen \in WfStates \ {"NONE"} /\ x.loaded \in Seq(Commands)
    /\ x.seen = "RUNNING" => x.loaded = <<>>
    /\ x.seen \in Final => state \in Final
    /\ i \in DOMAIN execs /\ s \in Result /\ execs[i].state \in {"IDLE", "WAITING", "RUNNING"}
    /\ s = "SUCCESS" => execs[i].state = "RUNNING"

\* What a resume has read stays as it was.
LEMMA AfterStill ==
    ASSUME DispatcherHeld, Calm, NEW x, NEW i, NEW s, Completing(x, i, s), NEW cmds,
           NEW fs, fs = After(x, i, s, cmds), NEW y \in opened
    PROVE  StillOf(y, fs)
<1>1. execs \in Seq(Executions) /\ OpenedTyped(y, execs) /\ StillOf(y, execs)
  BY DEF DispatcherHeld, Typed, Exact
<1>2. i \in DOMAIN execs /\ execs[i].state \notin Result /\ s \in Result
  BY DEF Completing, Result
<1>3. \A j \in DOMAIN execs : j # i => fs[j] = execs[j]
  <2>1. AfterOf(fs, x, i, s)
    BY <1>1, <1>2, AfterSays
  <2> QED
    BY <2>1 DEF AfterOf
<1>4. \A j \in DOMAIN y.done : j \in DOMAIN execs /\ j # i
  BY <1>1, <1>2 DEF OpenedTyped, StillOf
<1> QED
  BY <1>1, <1>3, <1>4 DEF StillOf

LEMMA CompletesPaused ==
    ASSUME DispatcherHeld, state # "NONE", NEW x, NEW i, NEW s, Completing(x, i, s), NEW ms \in SUBSET msgs,
           Completes(x, i, s, ms), x.seen = "PAUSED", UNCHANGED <<spec, left>>, opened' \subseteq opened
    PROVE  Advance
<1> DEFINE cmds == IF x.seen \in Final THEN <<>> ELSE NextCommands(execs, i, s)
           done == After(x, i, s, cmds)
<1>1. /\ execs' = done /\ UNCHANGED <<state, backlog>>
      /\ \E new \in Refreshes(done, done[i].name) : msgs' = ms \cup new
      /\ history' = IF state # "PAUSED" \/ \E y \in opened : y.op = "resume"
                    THEN history \cup {"missed"} ELSE history
  BY DEF Completes, After
<1> HIDE DEF cmds
<1>2. /\ execs \in Seq(Executions) /\ msgs \in SUBSET (Kinds \X Nat) /\ \A m \in msgs : m[2] \in DOMAIN execs
      /\ left \in [pause : Nat, stop : Nat] /\ history \subseteq Incident /\ KeyedOf(execs, msgs)
  BY DEF DispatcherHeld, Typed, DispatcherTypeOK, Keyed
<1>3. i \in DOMAIN execs /\ s \in Result
  BY DEF Completing
<1>4. /\ done \in Seq(Executions) /\ DOMAIN done = DOMAIN execs
      /\ \A j \in DOMAIN execs : j # i => done[j] = execs[j]
      /\ done[i].keyed = execs[i].keyed /\ done[i].state = s /\ ~done[i].processed
  <2>1. AfterOf(done, x, i, s)
    BY <1>2, <1>3, AfterSays
  <2> QED
    BY <2>1 DEF AfterOf
<1>5. PICK new \in Refreshes(done, done[i].name) : msgs' = ms \cup new
  BY <1>1
<1>6. \A m \in new : m[1] = "refresh" /\ m[2] \in DOMAIN done /\ m \in Kinds \X Nat
  BY <1>4, <1>5, RefreshesSay
<1> HIDE DEF done
<1>7. \A m \in msgs' : m \in msgs \/ (m[1] = "refresh" /\ m[2] \in DOMAIN done /\ m \in Kinds \X Nat)
  BY <1>5, <1>6
<1>8. msgs' \in SUBSET (Kinds \X Nat) /\ \A m \in msgs' : m[2] \in DOMAIN execs'
  BY <1>1, <1>2, <1>4, <1>7
<1>9. KeyedOf(execs', msgs')
  <2>1. \A j \in DOMAIN done : done[j].keyed = execs[j].keyed
    BY <1>4
  <2>2. \A j \in DOMAIN done : done[j].keyed => done[j].state # "IDLE"
    BY <1>2, <1>3, <1>4 DEF KeyedOf, Result
  <2>3. \A m \in msgs' : m[1] \in {"start", "again"} => ~done[m[2]].keyed
    BY <1>2, <1>4, <1>7, <2>1 DEF KeyedOf
  <2> QED
    BY <1>1, <2>2, <2>3 DEF KeyedOf
<1>10. Quiet
  BY <1>1, <1>2, <1>8 DEF Quiet, Incident, Forgotten
<1>11. ASSUME Calm'
       PROVE  /\ Fit(execs')
              /\ state \notin Final => Stored(backlog, execs')
              /\ \A y \in opened' : y.op = "resume" => StillOf(y, execs')
  <2>1. Calm
    BY <1>10, <1>11, CalmBefore DEF Quiet
  <2>2. Fit(execs) /\ (state \notin Final => Stored(backlog, execs))
    BY <2>1 DEF DispatcherHeld, Exact
  <2>3. Amends(execs, done, {i})
    BY <1>2, <1>3, <2>2, AfterAmends DEF Completing, done
  <2>4. Forward(execs, done) /\ Fit(done)
    BY <2>2, <2>3, AmendsSays
  <2>5. \A j \in DOMAIN done : done[j].processed => execs[j].processed
    BY <1>4
  <2>6. state \notin Final => Stored(backlog, done)
    BY <1>4, <2>2, <2>4, <2>5, StoredStays
  <2>7. \A y \in opened : StillOf(y, done)
    BY <2>1, AfterStill DEF done
  <2> QED
    BY <1>1, <2>4, <2>6, <2>7
<1> QED
  BY <1>1, <1>4, <1>8, <1>9, <1>10, <1>11, QuietHeld

LEMMA NotRejoined ==
    ASSUME NEW S, NEW es, NEW fs, execs' = fs, Happened(S, es), Calm',
           \A k \in DOMAIN es : es[k] \in Executions /\ (fs[k] = es[k] \/ Redone(es[k], fs[k]))
    PROVE  \A k \in DOMAIN es : fs[k] = es[k]
<1>1. history' = history \cup S \cup
         {i \in {"rejoined"} : \E k \in DOMAIN es : es[k].state # "WAITING" /\ fs[k].state = "WAITING"}
  BY DEF Happened
<1>2. "rejoined" \notin history'
  BY DEF Calm, Repeated
<1>3. ASSUME NEW k \in DOMAIN es PROVE fs[k] = es[k]
  <2>1. ~(es[k].state # "WAITING" /\ fs[k].state = "WAITING")
    BY <1>1, <1>2
  <2>2. CASE Redone(es[k], fs[k])
    BY <2>1, <2>2, RedoneSays
  <2> QED
    BY <2>2
<1> QED
  BY <1>3

LEMMA CompletesDispatched ==
    ASSUME DispatcherHeld, state # "NONE", NEW x, NEW i, NEW s, Completing(x, i, s), NEW ms \in SUBSET msgs,
           Completes(x, i, s, ms), x.seen # "PAUSED", UNCHANGED <<spec, left>>, opened' \subseteq opened
    PROVE  Advance
<1> DEFINE cmds == IF x.seen \in Final THEN <<>> ELSE NextCommands(execs, i, s)
           done == After(x, i, s, cmds)
           check == IF HasNext(cmds) THEN {} ELSE {<<"check", i>>}
           q == Dispatched(Session(x.seen, state, done, ms \cup check), ToDo(x.loaded, cmds))
           d == [j \in {i} |-> s]
<1>1. /\ \E new \in IF q.seen \in Final THEN {{}} ELSE Refreshes(q.execs, done[i].name) :
            Stores([q EXCEPT !.msgs = @ \cup new], x.loaded)
      /\ Happened({}, done)
  <2>1. ~(x.seen = "PAUSED")
    OBVIOUS
  <2> QED
    BY <2>1, ZenonT(60) DEF Completes, After
<1>2. /\ execs \in Seq(Executions) /\ msgs \in SUBSET (Kinds \X Nat) /\ \A m \in msgs : m[2] \in DOMAIN execs
      /\ left \in [pause : Nat, stop : Nat] /\ history \subseteq Incident /\ KeyedOf(execs, msgs)
      /\ spec \in Definition /\ backlog \in Seq(Commands) /\ state \in WfStates \ {"NONE"}
  BY DEF DispatcherHeld, Typed, DispatcherTypeOK, Keyed, WfStates
<1>3. /\ i \in DOMAIN execs /\ s \in Result /\ i \in Nat
      /\ x.seen \in WfStates \ {"NONE"} /\ x.loaded \in Seq(Commands)
  BY <1>2 DEF Completing
<1>4. d[i] = s /\ i \in {i}
  OBVIOUS
<1>5. x.seen \in Final \/ x.seen = "RUNNING"
  BY <1>3 DEF WfStates
<1>6. /\ cmds \in Seq(Commands) /\ \A l \in DOMAIN cmds : cmds[l].exec = 0
      /\ x.seen = "RUNNING" => cmds = NextCommands(execs, i, d[i]) /\ Follows(cmds, execs, {i}, d)
  <2>1. CASE x.seen \in Final
    <3>1. cmds = <<>> /\ x.seen # "RUNNING"
      BY <2>1 DEF Final
    <3>2. <<>> \in Seq(Commands) /\ DOMAIN <<>> = {}
      OBVIOUS
    <3> QED
      BY <3>1, <3>2
  <2>2. CASE x.seen = "RUNNING"
    <3>1. cmds = NextCommands(execs, i, s)
      BY <2>2 DEF Final
    <3>2. cmds \in Seq(Commands) /\ \A l \in DOMAIN cmds : AtPlace(cmds[l], execs, i, s, l)
      BY <1>2, <1>3, <3>1, NextSays
    <3> HIDE DEF cmds, d
    <3>3. Follows(NextCommands(execs, i, d[i]), execs, {i}, d)
      BY <1>2, <1>3, <1>4, FollowsOne
    <3> QED
      BY <1>4, <3>1, <3>2, <3>3 DEF AtPlace
  <2> QED
    BY <1>5, <2>1, <2>2
<1> HIDE DEF cmds, d
<1>7. AfterOf(done, x, i, s)
  BY <1>2, <1>3, AfterSays
<1>8. /\ done \in Seq(Executions) /\ DOMAIN done = DOMAIN execs
      /\ \A j \in DOMAIN execs : j # i => done[j] = execs[j]
      /\ done[i].keyed = execs[i].keyed /\ done[i].state = s /\ done[i].processed
  BY <1>7 DEF AfterOf
<1> HIDE DEF done
<1> DEFINE ns == ms \cup check
<1>9. \A m \in ns : m \in msgs \/ (m[1] = "check" /\ m[2] = i /\ m \in Kinds \X Nat)
  BY <1>3 DEF Kinds
<1> HIDE DEF check
<1>10. ns \in SUBSET (Kinds \X Nat) /\ \A m \in ns : m[2] \in DOMAIN done
  BY <1>2, <1>3, <1>8, <1>9
<1>11. KeyedOf(done, ns)
  <2>1. \A j \in DOMAIN done : done[j].keyed = execs[j].keyed
    BY <1>8
  <2>2. \A j \in DOMAIN done : done[j].keyed => done[j].state # "IDLE"
    BY <1>2, <1>3, <1>8 DEF KeyedOf, Result
  <2>3. \A m \in ns : m[1] \in {"start", "again"} => ~done[m[2]].keyed
    BY <1>2, <1>8, <1>9, <2>1 DEF KeyedOf
  <2> QED
    BY <2>2, <2>3 DEF KeyedOf
<1>12. PICK new \in IF q.seen \in Final THEN {{}} ELSE Refreshes(q.execs, done[i].name) :
          Stores([q EXCEPT !.msgs = @ \cup new], x.loaded)
  BY <1>1
<1>13. /\ q = Dispatched(Session(x.seen, state, done, ns), ToDo(x.loaded, cmds))
  OBVIOUS
<1> HIDE DEF q, ns
<1>14. /\ q \in Sessions /\ \A k \in DOMAIN done : q.execs[k] = done[k] \/ Redone(done[k], q.execs[k])
  BY <1>2, <1>3, <1>6, <1>8, <1>10, <1>11, <1>13, SessionHeld
<1>15. /\ state' = q.state /\ execs' = q.execs /\ msgs' = q.msgs \cup new
       /\ backlog' = BacklogAfter(q, x.loaded, backlog)
  <2> DEFINE p == [q EXCEPT !.msgs = @ \cup new]
  <2>1. p.state = q.state /\ p.execs = q.execs /\ p.msgs = q.msgs \cup new /\ p.saved = q.saved
    BY <1>14 DEF Sessions
  <2>2. Stores(p, x.loaded)
    BY <1>12
  <2> HIDE DEF p
  <2> QED
    BY <2>1, <2>2 DEF Stores, BacklogAfter
<1>16. \A m \in new : m[1] = "refresh" /\ m[2] \in DOMAIN q.execs /\ m \in Kinds \X Nat
  <2>1. q.execs \in Seq(Executions)
    BY <1>14 DEF Sessions
  <2>2. CASE q.seen \in Final
    <3>1. new = {}
      BY <1>12, <2>2
    <3> QED
      BY <3>1
  <2>3. CASE q.seen \notin Final
    <3>1. new \in Refreshes(q.execs, done[i].name)
      BY <1>12, <2>3
    <3> QED
      BY <2>1, <3>1, RefreshesSay
  <2> QED
    BY <2>2, <2>3
<1>17. /\ x.seen = "RUNNING" => IF state = "RUNNING" THEN x.loaded = backlog ELSE x.loaded = <<>>
       /\ x.seen # "RUNNING" => state \in Final
       /\ state = "RUNNING" => state \notin Final /\ \A y \in opened' : y.op # "resume"
  <2>1. state = "RUNNING" => backlog = <<>> /\ \A y \in opened : y.op # "resume"
    BY DEF DispatcherHeld, Loaded, LoadedOf, Final
  <2> QED
    BY <1>5, <2>1 DEF Completing, Final
<1>18. history' \subseteq Incident
  BY <1>1, <1>2 DEF Happened, Incident, Repeated
<1>19. ASSUME Calm'
       PROVE  /\ Fit(done) /\ \A k \in DOMAIN done : q.execs[k] = done[k]
              /\ x.seen = "RUNNING" => Dispatchable(done, backlog, x.loaded, cmds, state)
              /\ \A y \in opened' : y.op = "resume" => StillOf(y, done)
  <2>1. Calm
    BY <1>1, <1>19 DEF Calm, Happened
  <2>2. Fit(execs) /\ (state \notin Final => Stored(backlog, execs))
    BY <2>1 DEF DispatcherHeld, Exact
  <2>3. Amends(execs, done, {i})
    BY <1>2, <1>3, <2>2, AfterAmends DEF Completing, done
  <2>4. Fit(done)
    BY <2>2, <2>3, AmendsSays
  <2>5. \A y \in opened : StillOf(y, done)
    BY <2>1, AfterStill DEF done
  <2>6. \A k \in DOMAIN done : q.execs[k] = done[k]
    <3>1. \A k \in DOMAIN done : done[k] \in Executions
      BY <1>8, ElementOfSeq
    <3> QED
      BY <1>1, <1>14, <1>15, <1>19, <3>1, NotRejoined
  <2>7. ASSUME x.seen = "RUNNING" PROVE Dispatchable(done, backlog, x.loaded, cmds, state)
    <3>1. Gathered(cmds, execs, {i}, d, state)
      <4>1. Follows(cmds, execs, {i}, d) /\ cmds = NextCommands(execs, i, d[i])
        BY <1>6, <2>7
      <4>2. \A l \in DOMAIN cmds : Has(cmds, cmds[l])
        BY DEF Has
      <4>3. Apart(cmds)
        BY <4>1 DEF Follows
      <4> QED
        BY <1>4, <1>6, <4>1, <4>2, <4>3 DEF Gathered
    <3>2. \A j \in {i} : done[j].processed /\ d[j] = done[j].state
      BY <1>4, <1>8
    <3> QED
      BY <1>2, <1>8, <1>17, <2>2, <2>3, <2>7, <3>1, <3>2, Prepared
  <2> QED
    BY <2>4, <2>5, <2>6, <2>7
<1>20. DOMAIN execs \subseteq DOMAIN done /\ left' \in [pause : Nat, stop : Nat] /\ spec' = spec
  BY <1>2, <1>8
<1>21. SessionIn(done, ns, x.seen, state, x.loaded, cmds)
  BY <1>2, <1>3, <1>6, <1>8, <1>10, <1>11 DEF SessionIn
<1>22. Committed(done, x.seen, state, x.loaded, cmds, q, new)
  BY <1>15, <1>16, <1>17, <1>18, <1>19, <1>20 DEF Committed
<1> QED
  BY <1>13, <1>21, <1>22, CommitHeld

LEMMA CompletesHeld ==
    ASSUME DispatcherHeld, state # "NONE", NEW x, NEW i, NEW s, Completing(x, i, s), NEW ms \in SUBSET msgs,
           Completes(x, i, s, ms), UNCHANGED <<spec, left>>, opened' \subseteq opened
    PROVE  Advance
<1>1. CASE x.seen = "PAUSED"
  BY <1>1, CompletesPaused
<1>2. CASE x.seen # "PAUSED"
  BY <1>2, CompletesDispatched
<1> QED
  BY <1>1, <1>2

LEMMA CompletionHeld ==
    ASSUME DispatcherHeld, NEW x \in opened, Completion(x)
    PROVE  Advance
<1>1. state # "NONE"
  BY NotNone DEF Final
<1>2. /\ x.op = "complete" /\ opened' \subseteq opened /\ UNCHANGED <<spec, left>>
  BY DEF Completion
<1>3. /\ OpenedTyped(x, execs) /\ LoadedOf(x, state, backlog)
      /\ spec \in Definition /\ execs \in Seq(Executions) /\ msgs \in SUBSET (Kinds \X Nat)
      /\ left \in [pause : Nat, stop : Nat] /\ history \subseteq Incident
  BY DEF DispatcherHeld, Typed, Loaded, DispatcherTypeOK
<1>4. x.exec \in DOMAIN execs /\ execs[x.exec] \in Executions
  BY <1>2, <1>3, ElementOfSeq DEF OpenedTyped
<1>5. CASE execs[x.exec].state = "RUNNING"
  <2>1. PICK s \in spec.results[execs[x.exec].name] : Completes(x, x.exec, s, msgs)
    BY <1>5 DEF Completion
  <2>2. s \in Result
    BY <1>3, <1>4 DEF Executions, Definition
  <2>3. Completing(x, x.exec, s)
    BY <1>3, <1>4, <1>5, <2>2 DEF Completing, OpenedTyped, LoadedOf
  <2> QED
    BY <1>1, <1>2, <2>1, <2>3, CompletesHeld
<1>6. CASE execs[x.exec].state # "RUNNING"
  <2>1. UNCHANGED <<state, execs, backlog, msgs, history>>
    BY <1>6 DEF Completion
  <2>2. Quiet
    BY <1>2, <1>3, <2>1 DEF Quiet
  <2> QED
    BY <1>1, <2>1, <2>2, SameHeld
<1> QED
  BY <1>5, <1>6

LEMMA JoinReady ==
    ASSUME EndedOf(execs), NEW j \in DOMAIN execs, JoinState(j) = "RUNNING"
    PROVE  ReadyOf(execs, j)
<1>1. \A n \in LeadingTo(j) : \E i \in Ended(n) : Leads(i, j)
  <2>1. ~(\E n \in LeadingTo(j) : Ended(n) = {})
    BY DEF JoinState
  <2> QED
    BY <2>1 DEF JoinState
<1> SUFFICES ASSUME NEW n \in Name, execs[j].name \in Follow(n)
             PROVE  \E i \in DOMAIN execs : execs[i].name = n /\ execs[i].result # "NONE" /\ LeadsOf(execs, i, j)
  BY DEF ReadyOf
<1>2. n \in LeadingTo(j)
  BY DEF LeadingTo
<1>3. PICK i \in Ended(n) : Leads(i, j)
  BY <1>1, <1>2
<1>4. i \in DOMAIN execs /\ execs[i].name = n /\ execs[i].state \in Result
  BY DEF Ended
<1>5. execs[i].result # "NONE"
  BY <1>4 DEF EndedOf, Result
<1>6. LeadsOf(execs, i, j)
  BY <1>3 DEF Leads, LeadsOf
<1> QED
  BY <1>4, <1>5, <1>6

LEMMA RefreshJoinHeld ==
    ASSUME DispatcherHeld, NEW m \in msgs, RefreshJoin(m)
    PROVE  Advance
<1> DEFINE j == m[2]
           here == execs[j].state \in {"IDLE", "WAITING"} /\ state \notin Final
           x == [seen |-> state, loaded |-> backlog]
<1>1. state \in {"RUNNING", "PAUSED"} \cup Final
  BY NotNone
<1>2. /\ j \in DOMAIN execs /\ execs \in Seq(Executions) /\ msgs \in SUBSET (Kinds \X Nat)
      /\ left \in [pause : Nat, stop : Nat] /\ history \subseteq Incident /\ backlog \in Seq(Commands)
      /\ state = "RUNNING" => backlog = <<>>
  BY DEF DispatcherHeld, Typed, DispatcherTypeOK, Loaded
<1>3. /\ \/ /\ here /\ JoinState(j) = "RUNNING"
            /\ execs' = [execs EXCEPT ![j].state = "RUNNING"]
            /\ msgs' = msgs \ {m} /\ UNCHANGED <<state, backlog, history>>
         \/ /\ here /\ JoinState(j) = "ERROR"
            /\ Completes(x, j, "ERROR", msgs \ {m})
         \/ /\ ~here \/ JoinState(j) = "WAITING"
            /\ msgs' = msgs \ {m} /\ UNCHANGED <<state, execs, backlog, history>>
      /\ UNCHANGED <<spec, opened, left>>
  BY DEF RefreshJoin
<1>4. state # "NONE"
  BY <1>1 DEF Final
<1>5. x.seen = state /\ x.loaded = backlog
  OBVIOUS
<1> HIDE DEF j, x
<1>6. CASE /\ here /\ JoinState(j) = "RUNNING"
           /\ execs' = [execs EXCEPT ![j].state = "RUNNING"]
           /\ msgs' = msgs \ {m} /\ UNCHANGED <<state, backlog, history>>
  <2>1. execs[j] \in Executions
    BY <1>2, ElementOfSeq
  <2>2. [execs[j] EXCEPT !.state = "RUNNING"] \in Executions
    BY <2>1 DEF Executions
  <2>3. /\ execs' \in Seq(Executions) /\ DOMAIN execs' = DOMAIN execs
        /\ \A i \in DOMAIN execs : i # j => execs'[i] = execs[i]
        /\ execs'[j] = [execs[j] EXCEPT !.state = "RUNNING"]
    BY <1>2, <1>6, <2>2
  <2>4. /\ execs'[j].keyed = execs[j].keyed /\ execs'[j].state = "RUNNING"
        /\ execs'[j].name = execs[j].name /\ execs'[j].from = execs[j].from
        /\ execs'[j].result = execs[j].result /\ execs'[j].processed = execs[j].processed
    BY <2>1, <2>3 DEF Executions
  <2>5. Quiet
    BY <1>2, <1>3, <1>6 DEF Quiet
  <2>6. Calm' => Launches(execs, execs', j)
    <3> SUFFICES ASSUME Calm' PROVE Launches(execs, execs', j)
      OBVIOUS
    <3>1. EndedOf(execs)
      BY <2>5, CalmBefore DEF DispatcherHeld, Exact, Fit, Quiet
    <3>2. ~execs[j].processed
      BY <1>2, <1>6, <3>1 DEF EndedOf, Result
    <3>3. ReadyOf(execs, j)
      BY <1>2, <1>6, <3>1, JoinReady
    <3> QED
      BY <1>2, <1>6, <2>3, <2>4, <3>2, <3>3 DEF Launches
  <2> QED
    BY <1>2, <1>4, <1>6, <2>3, <2>4, <2>5, <2>6, LaunchHeld
<1>7. CASE here /\ JoinState(j) = "ERROR" /\ Completes(x, j, "ERROR", msgs \ {m})
  <2>1. Completing(x, j, "ERROR")
    BY <1>1, <1>2, <1>5, <1>7 DEF Completing, WfStates, Result, Final
  <2>2. msgs \ {m} \in SUBSET msgs /\ opened' \subseteq opened
    BY <1>3
  <2> QED
    BY <1>3, <1>4, <1>7, <2>1, <2>2, CompletesHeld
<1>8. CASE msgs' = msgs \ {m} /\ UNCHANGED <<state, execs, backlog, history>>
  <2>1. Quiet
    BY <1>2, <1>3, <1>8 DEF Quiet
  <2> QED
    BY <1>4, <1>8, <2>1, SameHeld
<1> QED
  BY <1>3, <1>6, <1>7, <1>8

LEMMA StartDirectHeld ==
    ASSUME DispatcherHeld, StartDirect
    PROVE  Advance
<1> DEFINE q == Dispatched(Session("RUNNING", "RUNNING", execs, msgs), ToDo(<<>>, StartCommands))
<1>1. /\ state = "NONE" /\ Stores(q, <<>>) /\ UNCHANGED <<spec, opened, left, history>>
  BY DEF StartDirect
<1>2. /\ execs = <<>> /\ msgs = {} /\ opened = {} /\ backlog = <<>>
      /\ spec \in Definition /\ left \in [pause : Nat, stop : Nat] /\ history \subseteq Incident
  BY <1>1 DEF DispatcherHeld, Typed, DispatcherTypeOK, Loaded
<1>3. /\ StartCommands \in Seq(Commands) /\ Apart(StartCommands)
      /\ \A k \in DOMAIN StartCommands : /\ StartCommands[k].from[1] = <<0, 0>>
                                         /\ StartCommands[k].exec = 0
  BY <1>2, StartSays
<1>4. DOMAIN <<>> = {} /\ <<>> \in Seq(Commands) /\ <<>> \in Seq(Executions)
  OBVIOUS
<1>5. DOMAIN execs = {} /\ DOMAIN backlog = {} /\ execs \in Seq(Executions)
  BY <1>2, <1>4
<1>6. SessionIn(execs, msgs, "RUNNING", "RUNNING", <<>>, StartCommands)
  BY <1>2, <1>3, <1>4, <1>5 DEF SessionIn, KeyedOf, WfStates
<1>7. Dispatchable(execs, backlog, <<>>, StartCommands, "RUNNING")
  <2>1. Fit(execs)
    BY <1>5 DEF Fit, EndedOf, JoinsWaitOf, SourcesOf, Apart
  <2>2. SourcesOf(StartCommands, execs)
    BY <1>3 DEF SourcesOf, Source
  <2>3. Foreign(StartCommands, execs) /\ Foreign(backlog, execs) /\ Foreign(backlog, StartCommands)
    BY <1>5 DEF Foreign
  <2>4. SourcesOf(backlog, execs) /\ Apart(backlog)
    BY <1>5 DEF SourcesOf, Apart
  <2> QED
    BY <1>2, <1>3, <1>5, <2>1, <2>2, <2>3, <2>4 DEF Dispatchable
<1> HIDE DEF q
<1>8. Committed(execs, "RUNNING", "RUNNING", <<>>, StartCommands, q, {})
  <2>1. /\ state' = q.state /\ execs' = q.execs /\ msgs' = q.msgs \cup {}
        /\ backlog' = BacklogAfter(q, <<>>, backlog)
    BY <1>1 DEF Stores, BacklogAfter
  <2>2. Fit(execs) /\ \A i \in DOMAIN execs : q.execs[i] = execs[i]
    BY <1>5, <1>7 DEF Dispatchable
  <2> QED
    BY <1>1, <1>2, <1>7, <2>1, <2>2 DEF Committed, Final
<1> QED
  BY <1>6, <1>8, CommitHeld DEF q

\* The commands of a resume.
ResumeAll(x)  == IdleCommands(execs) \o UnprocessedCommands(execs, x.done)
ResumeCmds(x) == Chosen(ResumeAll(x), Others(ResumeAll(x), {"pause"}))
ResumeTo(x)   == [i \in DOMAIN execs |-> IF i \in DOMAIN x.done THEN [execs[i] EXCEPT !.processed = TRUE]
                                         ELSE execs[i]]
IsPause(c) == c.name = "pause"

LEMMA ResumeGathers ==
    ASSUME spec \in Definition, execs \in Seq(Executions), NEW x, OpenedTyped(x, execs)
    PROVE  /\ Gathered(ResumeCmds(x), execs, DOMAIN x.done, x.done, "RUNNING")
           /\ ResumeCmds(x) \in Seq(Commands)
           /\ \A l \in DOMAIN ResumeCmds(x) : ResumeCmds(x)[l].exec # 0 =>
                 /\ ResumeCmds(x)[l].exec \in DOMAIN execs
                 /\ execs[ResumeCmds(x)[l].exec].state = "IDLE"
<1> DEFINE idle == IdleCommands(execs)
           U == UnprocessedCommands(execs, x.done)
           all == ResumeAll(x)
           P == Others(all, {"pause"})
           cmds == ResumeCmds(x)
<1>1. /\ idle \in Seq(Commands)
      /\ \A k \in DOMAIN idle : /\ idle[k].exec \in DOMAIN execs /\ execs[idle[k].exec].state = "IDLE"
                                /\ idle[k].from[2] = 0
  BY IdleSays
<1>2. DOMAIN x.done \subseteq DOMAIN execs /\ \A i \in DOMAIN x.done : x.done[i] \in Result
  BY DEF OpenedTyped
<1>3. Follows(U, execs, DOMAIN x.done, x.done)
  BY <1>2, UnprocessedSays
<1>4. U \in Seq(Commands) /\ Apart(U)
  BY <1>3 DEF Follows
<1>5. ASSUME NEW k \in DOMAIN U PROVE U[k].exec = 0
  <2>1. PICK i \in DOMAIN x.done : \E l \in DOMAIN NextCommands(execs, i, x.done[i]) :
                                      U[k] = NextCommands(execs, i, x.done[i])[l]
    BY <1>3 DEF Follows
  <2>2. PICK l \in DOMAIN NextCommands(execs, i, x.done[i]) : U[k] = NextCommands(execs, i, x.done[i])[l]
    BY <2>1
  <2>3. AtPlace(U[k], execs, i, x.done[i], l)
    BY <1>2, <2>2, NextSays
  <2> QED
    BY <2>3 DEF AtPlace
<1>6. Joined(Commands, all, idle, U)
  BY <1>1, <1>4, ConcatSays DEF ResumeAll
<1>7. cmds = Chosen(all, P)
  BY DEF ResumeCmds
<1>8. P = {k \in DOMAIN all : ~IsPause(all[k])}
  BY DEF Others, Places, IsPause
<1> HIDE DEF idle, U, all, cmds, P
<1>9. Apart(idle) /\ Foreign(idle, U)
  BY <1>1 DEF Apart, Foreign
<1>10. all \in Seq(Commands) /\ Apart(all)
  BY <1>4, <1>6, <1>9 DEF Joined
<1>11. /\ cmds \in Seq(Commands) /\ Apart(cmds)
       /\ \A k \in DOMAIN cmds : \E p \in P : cmds[k] = all[p]
       /\ \A p \in P : \E k \in DOMAIN cmds : cmds[k] = all[p]
  <2>1. P \in SUBSET DOMAIN all
    BY <1>8
  <2> QED
    BY <1>7, <1>10, <2>1, ChosenSays
<1>12. ASSUME NEW l \in DOMAIN cmds
       PROVE  (\E k \in DOMAIN idle : cmds[l] = idle[k]) \/ (\E k \in DOMAIN U : cmds[l] = U[k])
  <2>1. PICK p \in DOMAIN all : cmds[l] = all[p]
    BY <1>8, <1>11
  <2> QED
    BY <1>6, <2>1 DEF Joined
<1>13. ASSUME NEW l \in DOMAIN U, U[l].name # "pause" PROVE Has(cmds, U[l])
  <2>1. PICK p \in DOMAIN all : all[p] = U[l]
    BY <1>6 DEF Joined
  <2>2. p \in P
    BY <1>8, <1>13, <2>1 DEF IsPause
  <2> QED
    BY <1>11, <2>1, <2>2 DEF Has
<1>14. \A l \in DOMAIN cmds : cmds[l].from[2] = 0 \/ Has(U, cmds[l])
  BY <1>1, <1>12 DEF Has
<1>15. \A l \in DOMAIN cmds : cmds[l].exec # 0 =>
          cmds[l].exec \in DOMAIN execs /\ execs[cmds[l].exec].state = "IDLE"
  BY <1>1, <1>5, <1>12
<1>16. Gathered(cmds, execs, DOMAIN x.done, x.done, "RUNNING")
  BY <1>3, <1>11, <1>13, <1>14 DEF Gathered
<1> QED
  BY <1>11, <1>15, <1>16 DEF cmds

LEMMA ResumeToSays ==
    ASSUME execs \in Seq(Executions), NEW x, NEW es, es = ResumeTo(x)
    PROVE  /\ es \in Seq(Executions) /\ DOMAIN es = DOMAIN execs
           /\ \A i \in DOMAIN execs \ DOMAIN x.done : es[i] = execs[i]
           /\ \A i \in DOMAIN execs :
                 /\ es[i].name = execs[i].name /\ es[i].from = execs[i].from /\ es[i].keyed = execs[i].keyed
                 /\ es[i].run = execs[i].run /\ es[i].state = execs[i].state /\ es[i].result = execs[i].result
                 /\ i \in DOMAIN x.done => es[i].processed
<1>1. \A i \in DOMAIN execs : execs[i] \in Executions
  BY ElementOfSeq
<1>2. \A i \in DOMAIN execs : [execs[i] EXCEPT !.processed = TRUE] \in Executions
  BY <1>1 DEF Executions
<1>3. Len(execs) \in Nat /\ DOMAIN execs = 1..Len(execs)
  OBVIOUS
<1>4. es \in [1..Len(execs) -> Executions]
  BY <1>1, <1>2, <1>3 DEF ResumeTo
<1>5. es \in Seq(Executions) /\ DOMAIN es = DOMAIN execs
  BY <1>3, <1>4
<1>6. \A i \in DOMAIN execs :
         es[i] = IF i \in DOMAIN x.done THEN [execs[i] EXCEPT !.processed = TRUE] ELSE execs[i]
  BY DEF ResumeTo
<1>7. ASSUME NEW i \in DOMAIN execs
      PROVE  /\ es[i].name = execs[i].name /\ es[i].from = execs[i].from /\ es[i].keyed = execs[i].keyed
             /\ es[i].run = execs[i].run /\ es[i].state = execs[i].state /\ es[i].result = execs[i].result
             /\ i \in DOMAIN x.done => es[i].processed
  <2>1. execs[i] \in Executions
    BY <1>1
  <2>2. LET e == [execs[i] EXCEPT !.processed = TRUE]
        IN  /\ e.name = execs[i].name /\ e.from = execs[i].from /\ e.keyed = execs[i].keyed
            /\ e.run = execs[i].run /\ e.state = execs[i].state /\ e.result = execs[i].result
            /\ e.processed
    BY <2>1 DEF Executions
  <2> QED
    BY <1>6, <2>2
<1> QED
  BY <1>5, <1>6, <1>7

LEMMA ResumptionHeld ==
    ASSUME DispatcherHeld, NEW x \in opened, Resumption(x)
    PROVE  Advance
<1> DEFINE ok   == state = "PAUSED"
           cmds == ResumeCmds(x)
           es   == ResumeTo(x)
           seen == IF ok THEN "RUNNING" ELSE "PAUSED"
           now  == IF ok THEN "RUNNING" ELSE state
           q    == Dispatched(Session(seen, now, es, msgs), ToDo(x.loaded, cmds))
           S    == (IF cmds # <<>> /\ x.loaded = <<>> /\ Others(cmds, {"noop"}) = {}
                    THEN {"onlyNoops"} ELSE {})
                   \cup (IF \E k \in DOMAIN cmds : cmds[k].wait THEN {"lateJoin"} ELSE {})
                   \cup (IF Places(x.loaded, spec.joins) # {} THEN {"restoredJoin"} ELSE {})
<1>1. /\ x.op = "resume" /\ opened' = opened \ {x} /\ UNCHANGED <<spec, left>>
      /\ IF cmds # <<>> \/ x.loaded # <<>>
         THEN Stores(q, x.loaded)
         ELSE /\ execs' = es /\ state' = IF ok THEN Outcome(es) ELSE state
              /\ UNCHANGED <<backlog, msgs>>
      /\ Happened(S, es)
  BY DEF Resumption, ResumeCmds, ResumeAll, ResumeTo
<1>2. /\ OpenedTyped(x, execs) /\ LoadedOf(x, state, backlog)
      /\ spec \in Definition /\ execs \in Seq(Executions) /\ msgs \in SUBSET (Kinds \X Nat)
      /\ \A m \in msgs : m[2] \in DOMAIN execs
      /\ KeyedOf(execs, msgs) /\ backlog \in Seq(Commands)
      /\ left \in [pause : Nat, stop : Nat] /\ history \subseteq Incident
  BY DEF DispatcherHeld, Typed, Loaded, DispatcherTypeOK, Keyed
<1>3. /\ state \in {"PAUSED"} \cup Final /\ (ok => x.loaded = backlog)
      /\ x.loaded \in Seq(Commands) /\ \A i \in DOMAIN x.done : i \in DOMAIN execs /\ x.done[i] \in Result
  BY <1>1, <1>2 DEF LoadedOf, OpenedTyped
<1>4. \A y \in opened' : y \in opened /\ y.op # "resume"
  BY <1>1 DEF DispatcherHeld, Loaded
<1>5. S \subseteq Forgotten
  BY DEF Forgotten
<1> HIDE DEF S
<1>6. /\ Gathered(cmds, execs, DOMAIN x.done, x.done, "RUNNING") /\ cmds \in Seq(Commands)
      /\ \A l \in DOMAIN cmds : cmds[l].exec # 0 => /\ cmds[l].exec \in DOMAIN execs
                                                    /\ execs[cmds[l].exec].state = "IDLE"
  BY <1>2, ResumeGathers
<1>7. /\ es \in Seq(Executions) /\ DOMAIN es = DOMAIN execs
      /\ \A i \in DOMAIN execs \ DOMAIN x.done : es[i] = execs[i]
      /\ \A i \in DOMAIN execs :
            /\ es[i].name = execs[i].name /\ es[i].from = execs[i].from /\ es[i].keyed = execs[i].keyed
            /\ es[i].run = execs[i].run /\ es[i].state = execs[i].state /\ es[i].result = execs[i].result
            /\ i \in DOMAIN x.done => es[i].processed
  BY <1>2, ResumeToSays
<1> HIDE DEF cmds, es
<1>8. KeyedOf(es, msgs) /\ \A m \in msgs : m[2] \in DOMAIN es
  <2>1. ASSUME NEW i \in DOMAIN es, es[i].keyed PROVE es[i].state # "IDLE"
    <3>1. i \in DOMAIN execs /\ es[i].keyed = execs[i].keyed /\ es[i].state = execs[i].state
      BY <1>7
    <3>2. execs[i].keyed => execs[i].state # "IDLE"
      BY <1>2, <3>1 DEF KeyedOf
    <3> QED
      BY <2>1, <3>1, <3>2, Zenon
  <2>2. \A m \in msgs : m[2] \in DOMAIN es
    BY <1>2, <1>7
  <2>3. ASSUME NEW m \in msgs, m[1] \in {"start", "again"} PROVE ~es[m[2]].keyed
    <3>1. ~execs[m[2]].keyed /\ m[2] \in DOMAIN execs
      BY <1>2, <2>3 DEF KeyedOf
    <3> QED
      BY <1>7, <3>1
  <2> QED
    BY <2>1, <2>2, <2>3 DEF KeyedOf
<1>9. history' \subseteq Incident
  BY <1>1, <1>2, <1>5 DEF Happened, Incident, Repeated
<1>10. ASSUME Calm'
       PROVE  /\ Fit(es) /\ (ok => Dispatchable(es, backlog, x.loaded, cmds, "RUNNING"))
  <2>1. Calm
    BY <1>1, <1>10 DEF Calm, Happened
  <2>2. Fit(execs) /\ (state \notin Final => Stored(backlog, execs)) /\ StillOf(x, execs)
    BY <2>1 DEF DispatcherHeld, Exact
  <2>3. ASSUME NEW i \in DOMAIN x.done
        PROVE  i \in DOMAIN execs /\ ~execs[i].processed /\ execs[i].state = x.done[i]
               /\ x.done[i] \in Result /\ execs[i].result = execs[i].state
    BY <1>3, <2>2 DEF StillOf, Fit, EndedOf
  <2>4. Amends(execs, es, DOMAIN x.done)
    BY <1>7, <2>3 DEF Amends
  <2>5. Fit(es)
    BY <2>2, <2>4, AmendsSays
  <2>6. \A i \in DOMAIN x.done : es[i].processed /\ x.done[i] = es[i].state
    BY <1>7, <2>3
  <2>7. ASSUME ok PROVE Dispatchable(es, backlog, x.loaded, cmds, "RUNNING")
    BY <1>2, <1>3, <1>6, <1>7, <2>2, <2>4, <2>6, <2>7, Prepared DEF Final
  <2> QED
    BY <2>5, <2>7
<1>11. CASE cmds # <<>> \/ x.loaded # <<>>
  <2>1. SessionIn(es, msgs, seen, now, x.loaded, cmds)
    BY <1>2, <1>3, <1>6, <1>7, <1>8 DEF SessionIn, WfStates, Final
  <2>2. q = Dispatched(Session(seen, now, es, msgs), ToDo(x.loaded, cmds))
    OBVIOUS
  <2>3. Stores(q, x.loaded)
    BY <1>1, <1>11
  <2> HIDE DEF q
  <2>4. /\ state' = q.state /\ execs' = q.execs /\ msgs' = q.msgs \cup {}
        /\ backlog' = BacklogAfter(q, x.loaded, backlog)
    BY <2>3 DEF Stores, BacklogAfter
  <2>5. \A k \in DOMAIN es : q.execs[k] = es[k] \/ Redone(es[k], q.execs[k])
    BY <2>1, <2>2, SessionHeld DEF SessionIn
  <2>6. ASSUME Calm' PROVE \A k \in DOMAIN es : q.execs[k] = es[k]
    <3>1. \A k \in DOMAIN es : es[k] \in Executions
      BY <1>7, ElementOfSeq
    <3> QED
      BY <1>1, <2>4, <2>5, <2>6, <3>1, NotRejoined
  <2>7. /\ seen = "RUNNING" => now = "RUNNING" /\ ok /\ x.loaded = backlog
        /\ seen # "RUNNING" => now \in Final /\ now = state
        /\ now # "RUNNING" => now = state
        /\ now = "RUNNING" => ok /\ state \notin Final
    BY <1>3 DEF Final
  <2> HIDE DEF seen, now
  <2>8. Committed(es, seen, now, x.loaded, cmds, q, {})
    <3>1. spec' = spec /\ opened' \subseteq opened /\ left' \in [pause : Nat, stop : Nat] /\ DOMAIN execs \subseteq DOMAIN es
      BY <1>1, <1>2, <1>7
    <3>2. Calm' => /\ Fit(es) /\ \A i \in DOMAIN es : q.execs[i] = es[i]
                   /\ seen = "RUNNING" => Dispatchable(es, backlog, x.loaded, cmds, now)
                   /\ \A y \in opened' : y.op = "resume" => StillOf(y, es)
      BY <1>4, <1>10, <2>6, <2>7
    <3>3. now = "RUNNING" => state \notin Final /\ \A y \in opened' : y.op # "resume"
      BY <1>4, <2>7
    <3> QED
      BY <1>9, <2>4, <2>7, <3>1, <3>2, <3>3 DEF Committed
  <2> QED
    BY <2>1, <2>2, <2>8, CommitHeld
<1>12. CASE cmds = <<>> /\ x.loaded = <<>>
  <2>1. /\ execs' = es /\ state' = (IF ok THEN Outcome(es) ELSE state)
        /\ UNCHANGED <<backlog, msgs>>
    BY <1>1, <1>12
  <2>2. Outcome(es) \in {"RUNNING", "ERROR", "SUCCESS"}
    BY DEF Outcome
  <2>3. /\ state' \in {"RUNNING", "PAUSED"} \cup Final /\ (state \in Final => state' \in Final)
        /\ (state' = "RUNNING" => backlog' = <<>>) /\ (~ok => state' \in Final)
    BY <1>3, <1>12, <2>1, <2>2 DEF Final
  <2>4. ASSUME Calm', ok PROVE Stored(backlog, es)
    <3>1. Dispatchable(es, backlog, x.loaded, cmds, "RUNNING")
      BY <1>10, <2>4
    <3>2. DOMAIN cmds = {}
      BY <1>12
    <3>3. \A i, k : ~AnswersOf(es, cmds, i, k, "RUNNING")
      BY <3>2 DEF AnswersOf
    <3> QED
      BY <3>1, <3>3 DEF Dispatchable, Stored, NoneLost, Final
  <2>5. /\ spec' = spec /\ opened' \subseteq opened /\ left' \in [pause : Nat, stop : Nat]
        /\ DOMAIN execs \subseteq DOMAIN execs' /\ execs' \in Seq(Executions) /\ backlog' \in Seq(Commands)
        /\ msgs' \in SUBSET (Kinds \X Nat) /\ (\A m \in msgs' : m[2] \in DOMAIN execs') /\ KeyedOf(execs', msgs')
    BY <1>1, <1>2, <1>7, <1>8, <2>1
  <2>6. Calm' => /\ Fit(execs')
                 /\ state' \notin Final => Stored(backlog', execs')
                 /\ \A y \in opened' : y.op = "resume" => StillOf(y, execs')
    BY <1>4, <1>10, <2>1, <2>3, <2>4
  <2> QED
    BY <1>4, <1>9, <2>3, <2>5, <2>6 DEF Advance
<1> QED
  BY <1>11, <1>12
-----------------------------------------------------------------------------

LEMMA StepHeld ==
    ASSUME DispatcherHeld, DispatcherNext
    PROVE  DispatcherHeld'
<1>1. ASSUME NEW m \in msgs, RunTask(m) \/ RunTaskAgain(m) \/ CheckCompletion(m) \/ RefreshJoin(m)
      PROVE  DispatcherHeld'
  <2>1. Advance
    BY <1>1, RunTaskHeld, RunTaskAgainHeld, CheckCompletionHeld, RefreshJoinHeld
  <2> QED
    BY <2>1, Advanced
<1>2. ASSUME NEW i \in DOMAIN execs, BeginCompletion(i) PROVE DispatcherHeld'
  BY <1>2, BeginCompletionHeld
<1>3. ASSUME NEW x \in opened, Completion(x) \/ Resumption(x) PROVE DispatcherHeld'
  <2>1. Advance
    BY <1>3, CompletionHeld, ResumptionHeld
  <2> QED
    BY <2>1, Advanced
<1>4. CASE StartDirect
  <2>1. Advance
    BY <1>4, StartDirectHeld
  <2> QED
    BY <2>1, Advanced
<1>5. CASE PauseByOperator \/ \E s \in Final : StopByOperator(s)
  <2>1. Advance
    BY <1>5, OperatorHeld
  <2> QED
    BY <2>1, Advanced
<1>6. CASE BeginResumption
  BY <1>6, BeginResumptionHeld
<1> QED
  BY <1>1, <1>2, <1>3, <1>4, <1>5, <1>6 DEF DispatcherNext, DispatcherStep, InterventionStep

LEMMA StutterHeld ==
    ASSUME DispatcherHeld, UNCHANGED dispatcherVars
    PROVE  DispatcherHeld'
<1>1. UNCHANGED <<spec, state, execs, backlog, msgs, opened, left, history>>
  BY DEF dispatcherVars
<1>2. Typed'
  BY <1>1 DEF DispatcherHeld, Typed, DispatcherTypeOK, OpenedTyped
<1>3. Keyed'
  BY <1>1 DEF DispatcherHeld, Keyed, KeyedOf
<1>4. Loaded'
  BY <1>1 DEF DispatcherHeld, Loaded, LoadedOf
<1>5. Exact'
  <2> SUFFICES ASSUME Calm' PROVE /\ (Fit(execs))'
                                  /\ state' \notin Final => (Stored(backlog, execs))'
                                  /\ \A x \in opened' : (StillOf(x, execs))'
    BY DEF Exact
  <2>1. Calm
    BY <1>1 DEF Calm
  <2>2. Fit(execs') /\ (state' \notin Final => Stored(backlog', execs'))
    BY <1>1, <2>1 DEF DispatcherHeld, Exact
  <2>3. \A x \in opened' : (StillOf(x, execs))'
    BY <1>1, <2>1 DEF DispatcherHeld, Exact, StillOf
  <2> QED
    BY <1>1, <2>2, <2>3, SpecStays
<1> QED
  BY <1>2, <1>3, <1>4, <1>5 DEF DispatcherHeld

LEMMA InitHeld ==
    ASSUME DispatcherInit
    PROVE  DispatcherHeld
<1>1. PICK c \in Scenarios : spec = c[1] /\ left = c[2]
  BY DEF DispatcherInit
<1>2. spec \in Definition /\ left \in [pause : Nat, stop : Nat]
  BY <1>1, DispatcherAssumption
<1>3. /\ state = "NONE" /\ execs = <<>> /\ backlog = <<>> /\ msgs = {} /\ opened = {} /\ history = {}
  BY DEF DispatcherInit
<1>4. DOMAIN execs = {} /\ DOMAIN backlog = {} /\ execs \in Seq(Executions) /\ backlog \in Seq(Commands)
  BY <1>3
<1>5. Typed
  BY <1>1, <1>2, <1>3, <1>4 DEF Typed, DispatcherTypeOK
<1>6. Keyed /\ Loaded
  BY <1>3, <1>4 DEF Keyed, KeyedOf, Loaded
<1>7. Fit(execs) /\ Stored(backlog, execs)
  BY <1>4 DEF Fit, EndedOf, JoinsWaitOf, SourcesOf, Apart, Stored, Foreign, NoneLost
<1>8. Exact
  BY <1>3, <1>7 DEF Exact
<1> QED
  BY <1>5, <1>6, <1>8 DEF DispatcherHeld

LEMMA HeldSays ==
    ASSUME DispatcherHeld
    PROVE  CommandsInv
<1>1. DispatcherTypeOK /\ BacklogOnlyWhilePaused
  BY DEF DispatcherHeld, Typed, Loaded, BacklogOnlyWhilePaused
<1>2. DispatchedOnce
  BY DEF DispatcherHeld, Exact, Calm, Fit, Apart, DispatchedOnce
<1>3. NothingLost
  <2> SUFFICES ASSUME Calm, state \in {"RUNNING", "PAUSED"}, NEW i \in DOMAIN execs, execs[i].processed,
                      NEW k \in Asked(i)
               PROVE  Kept(i, k)
    BY DEF NothingLost, Calm
  <2>1. NoneLost(execs, backlog)
    BY DEF DispatcherHeld, Exact, Stored, Final
  <2>2. k \in AskedOf(execs, i)
    BY DEF Asked, AskedOf, Enders
  <2>3. KeptOf(execs, backlog, i, k)
    BY <2>1, <2>2 DEF NoneLost
  <2> QED
    BY <2>3 DEF KeptOf, Kept, FromOf, NameOf, Enders
<1>4. DeferredJoinsWait
  <2> SUFFICES ASSUME Calm, NEW j \in DOMAIN execs, execs[j].keyed, execs[j].state \in {"RUNNING", "SUCCESS"},
                      NEW n \in LeadingTo(j)
               PROVE  \E i \in DOMAIN execs :
                         execs[i].name = n /\ execs[i].result # "NONE" /\ Leads(i, j)
    BY DEF DeferredJoinsWait, Calm
  <2>1. ReadyOf(execs, j)
    BY DEF DispatcherHeld, Exact, Fit, JoinsWaitOf
  <2>2. PICK i \in DOMAIN execs : execs[i].name = n /\ execs[i].result # "NONE" /\ LeadsOf(execs, i, j)
    BY <2>1 DEF ReadyOf, LeadingTo
  <2>3. Leads(i, j)
    BY <2>2 DEF LeadsOf, Leads
  <2> QED
    BY <2>2, <2>3
<1> QED
  BY <1>1, <1>2, <1>3, <1>4 DEF CommandsInv

\* The inductive invariant of the dispatcher, for every definition of a direct
\* workflow: the backlog holds what a pause put off (_save_command_to_backlog), every
\* other command of a processed execution was carried out once (_process_commands),
\* and a transaction that loaded the workflow still knows its backlog, until one of
\* the incidents of Repeated has happened.
THEOREM DispatcherInvariant == DispatcherSpec => []DispatcherHeld
<1>1. DispatcherInit => DispatcherHeld
  BY InitHeld
<1>2. DispatcherHeld /\ [DispatcherNext]_dispatcherVars => DispatcherHeld'
  BY StepHeld, StutterHeld
<1> QED
  BY <1>1, <1>2, PTL DEF DispatcherSpec

\* No command of a clause is carried out twice (dispatch_workflow_commands), none is
\* lost to a pause (_rearrange_commands), a RUNNING workflow has no backlog, and the
\* joins that Task.defer() created run after all that lead to them.
THEOREM CommandsSafety == DispatcherSpec => []CommandsInv
<1>1. DispatcherHeld => CommandsInv
  BY HeldSays
<1> QED
  BY <1>1, DispatcherInvariant, PTL

\* What Controllers keeps, whichever controller get_controller() has chosen.
ControllersHeld == Inductive /\ DispatcherHeld

\* Both kinds of workflow, as they are checked: the requirements of a reverse
\* workflow and the commands of a direct one.
THEOREM ControllersSafety == ControllersFairSpec => [](ReverseInv /\ CommandsInv)
<1>1. ControllersInit => ControllersHeld
  BY InitHeld, InductiveInit DEF ControllersInit, ControllersHeld
<1>2. ControllersHeld /\ [ControllersNext]_controllersVars => ControllersHeld'
  <2> SUFFICES ASSUME ControllersHeld, ControllersNext \/ UNCHANGED controllersVars
               PROVE  ControllersHeld'
    OBVIOUS
  <2> USE DEF ControllersHeld
  <2>1. CASE DirectStep
    BY <2>1, StepHeld, InductiveStutter DEF DirectStep
  <2>2. CASE ReverseStep
    BY <2>2, StutterHeld, InductiveNext DEF ReverseStep
  <2>3. CASE UNCHANGED controllersVars
    <3>1. UNCHANGED dispatcherVars /\ UNCHANGED vars
      BY <2>3 DEF controllersVars
    <3> QED
      BY <3>1, StutterHeld, InductiveStutter
  <2> QED
    BY <2>1, <2>2, <2>3 DEF ControllersNext
<1>3. ControllersHeld => ReverseInv /\ CommandsInv
  BY HeldSays, InductiveImplies DEF ControllersHeld
<1> QED
  BY <1>1, <1>2, <1>3, PTL DEF ControllersFairSpec
=============================================================================
