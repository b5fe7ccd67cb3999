------------------------- MODULE DSMonitoringProofs -------------------------
(***************************************************************************)
(* What the counters of DSMonitoring promise, for every number of tasks,   *)
(* indices, elements and failures: the invariants of the module's run.     *)
(***************************************************************************)
EXTENDS DSMonitoring, FiniteSetTheorems, TLAPS

-----------------------------------------------------------------------------
(* What a step that changes one value does to the tally.                   *)

LEMMA FiniteUnits ==
  ASSUME NEW S, IsFiniteSet(S), NEW f \in [S -> Nat]
  PROVE  IsFiniteSet(Units(f, S)) /\ Tally(f, S) \in Nat
<1> DEFINE Bar == [s \in S |-> {s} \X (1 .. f[s])]
           Bars == {{s} \X (1 .. f[s]) : s \in S}
<1>1. IsFiniteSet(Bars)
  <2>1. Bar \in Surjection(S, Bars)
    BY DEF Surjection
  <2> QED
    BY <2>1, FS_Surjection
<1>2. ASSUME NEW B \in Bars PROVE IsFiniteSet(B)
  <2>1. PICK s \in S : B = {s} \X (1 .. f[s])
    BY <1>2
  <2>2. f[s] \in Int /\ 1 \in Int
    OBVIOUS
  <2>3. IsFiniteSet({s}) /\ IsFiniteSet(1 .. f[s])
    BY <2>2, FS_Singleton, FS_Interval
  <2> QED
    BY <2>1, <2>3, FS_Product
<1>3. IsFiniteSet(UNION Bars)
  BY <1>1, <1>2, FS_UNION
<1> QED
  BY <1>3, FS_CardinalityType DEF Units, Tally

LEMMA TallyZero ==
  ASSUME NEW S, NEW f \in [S -> Nat], \A s \in S : f[s] = 0
  PROVE  Tally(f, S) = 0
<1>1. Units(f, S) = {}
  BY DEF Units
<1> QED
  BY <1>1, FS_EmptySet DEF Tally

LEMMA TallyAdds ==
  ASSUME NEW S, IsFiniteSet(S), NEW f \in [S -> Nat], NEW g \in [S -> Nat],
         NEW x \in S, f[x] <= g[x], \A s \in S \ {x} : g[s] = f[s]
  PROVE  Tally(g, S) = Tally(f, S) + g[x] - f[x]
<1> DEFINE More == {x} \X ((f[x] + 1) .. g[x])
<1>1. Units(g, S) = Units(f, S) \cup More
  <2>1. \A s \in S, n \in Int :
          <<s, n>> \in Units(g, S) <=> <<s, n>> \in Units(f, S) \cup More
    BY DEF Units
  <2>2. Units(g, S) \subseteq S \X Int /\ Units(f, S) \cup More \subseteq S \X Int
    BY DEF Units
  <2> QED
    BY <2>1, <2>2
<1>2. Units(f, S) \cap More = {}
  BY DEF Units
<1>3. IsFiniteSet(More) /\ Cardinality(More) = g[x] - f[x]
  <2>1. IsFiniteSet({x}) /\ Cardinality({x}) = 1
    BY FS_Singleton
  <2>2. f[x] + 1 \in Int /\ g[x] \in Int
    OBVIOUS
  <2>3. IsFiniteSet((f[x] + 1) .. g[x]) /\ Cardinality((f[x] + 1) .. g[x]) = g[x] - f[x]
    BY <2>2, FS_Interval
  <2>4. /\ IsFiniteSet(More)
        /\ Cardinality(More) = Cardinality({x}) * Cardinality((f[x] + 1) .. g[x])
    BY <2>1, <2>3, FS_Product
  <2> QED
    BY <2>1, <2>3, <2>4
<1>4. IsFiniteSet(Units(f, S)) /\ Tally(f, S) \in Nat
  BY FiniteUnits
<1>5. Cardinality(Units(f, S) \cup More)
        = Cardinality(Units(f, S)) + Cardinality(More) - Cardinality(Units(f, S) \cap More)
  BY <1>3, <1>4, FS_Union
<1>6. Cardinality(Units(f, S) \cap More) = 0
  BY <1>2, FS_EmptySet
<1> QED
  BY <1>1, <1>3, <1>4, <1>5, <1>6 DEF Tally

LEMMA TallySame ==
  ASSUME NEW S, NEW f \in [S -> Nat], NEW g \in [S -> Nat], \A s \in S : g[s] = f[s]
  PROVE  Tally(g, S) = Tally(f, S)
<1>1. g = f
  OBVIOUS
<1> QED
  BY <1>1

(* No value exceeds the sum.                                               *)
LEMMA TallyBounds ==
  ASSUME NEW S, IsFiniteSet(S), NEW f \in [S -> Nat], NEW x \in S
  PROVE  f[x] <= Tally(f, S)
<1>1. {x} \X (1 .. f[x]) \in SUBSET Units(f, S)
  BY DEF Units
<1>2. IsFiniteSet(Units(f, S))
  BY FiniteUnits
<1>3. Cardinality({x} \X (1 .. f[x])) <= Cardinality(Units(f, S))
  BY <1>1, <1>2, FS_Subset
<1>4. Cardinality({x} \X (1 .. f[x])) = f[x]
  <2>1. IsFiniteSet({x}) /\ Cardinality({x}) = 1
    BY FS_Singleton
  <2>2. f[x] \in Int /\ 1 \in Int
    OBVIOUS
  <2>3. IsFiniteSet(1 .. f[x]) /\ Cardinality(1 .. f[x]) = f[x]
    BY <2>2, FS_Interval
  <2>4. Cardinality({x} \X (1 .. f[x])) = Cardinality({x}) * Cardinality(1 .. f[x])
    BY <2>1, <2>3, FS_Product
  <2> QED
    BY <2>1, <2>3, <2>4
<1> QED
  BY <1>3, <1>4 DEF Tally

(* A nonempty set of numbers has a least one.                              *)
LEMMA LeastNumber ==
  ASSUME NEW S \in SUBSET Nat, S # {}
  PROVE  \E m \in S : \A n \in S : m <= n
<1> DEFINE Less == OpToRel(<, Nat)
<1>1. Less = {p \in Nat \X Nat : p[1] < p[2]}
  BY DEF OpToRel
<1>2. IsWellFoundedOn(Less, Nat)
  BY NatLessThanWellFounded
<1> HIDE DEF Less
<1>3. PICK m \in S : \A n \in S : ~ (<<n, m>> \in Less)
  BY <1>2, WFMin
<1>4. ASSUME NEW n \in S PROVE m <= n
  <2>1. m \in Nat /\ n \in Nat
    OBVIOUS
  <2>2. ~ (n < m)
    BY <2>1, <1>1, <1>3
  <2> QED
    BY <2>1, <2>2
<1> QED
  BY <1>4

-----------------------------------------------------------------------------
(* The types, with what a task knows of its locals: before it has an       *)
(* element it has none, and the element it has is one of its own index.    *)
(* Elements of one index stay with it, and nobody searches a monitoring    *)
(* that was deleted.                                                       *)
Searching == {"load", "alloc", "count", "store", "total"}

Local(t) ==
  /\ task[t].pc \in Searching => task[t].index \in Index
  /\ task[t].pc \in {"load", "alloc"} => task[t].cur = NULL
  /\ task[t].pc \in {"count", "store", "total"} =>
       /\ task[t].cur # NULL
       /\ mem[task[t].cur] # NULL
       /\ mem[task[t].cur].key = task[t].index
  /\ At(t, "store") => task[t].cur \in alloc
Keyed == \A i \in Index : elements[i] # NULL => mem[elements[i]].key = i
AtRest == destroyed => Quiet

Typed == TypeOK /\ (\A t \in Task : Local(t)) /\ Keyed /\ AtRest

LEMMA FirstAhead ==
  ASSUME TypeOK, NEW t \in Task, Ahead(t) # {}
  PROVE  Min(Ahead(t)) \in Ahead(t)
<1>1. Ahead(t) \in SUBSET Nat
  BY IndexAssumption DEF Ahead
<1>2. \E m \in Ahead(t) : \A n \in Ahead(t) : m <= n
  BY <1>1, LeastNumber
<1> QED
  BY <1>2 DEF Min

LEMMA TypedInit == Init => Typed
<1> SUFFICES ASSUME Init PROVE Typed
  OBVIOUS
<1>2. \A t \in Task : task[t] = Idle
  BY DEF Init
<1>3. task \in [Task -> {Idle}]
  BY DEF Init
<1>4. task \in [Task -> Place]
  <2>1. Idle \in Place
    BY DEF Idle, Place
  <2> QED
    BY <2>1, <1>3
<1>5. /\ elements \in [Index -> alloc \cup {NULL}]
      /\ mem \in [Elem -> [key : Index, count : Nat] \cup {NULL}]
      /\ searched \in [Index -> Nat]
  BY DEF Init
<1>6. total = 0 /\ alloc = {} /\ destroyed = FALSE /\ failures = 0
  BY DEF Init
<1>7. TypeOK
  <2>1. alloc \subseteq {n \in Elem : mem[n] # NULL} /\ total \in Nat /\ destroyed \in BOOLEAN
    BY <1>6
  <2>2. failures \in 0 .. MaxFailures
    BY <1>6, BoundsAssumption
  <2> QED
    BY <1>4, <1>5, <2>1, <2>2 DEF TypeOK
<1> QED
  BY <1>2, <1>7 DEF Init, Typed, Local, Searching, Keyed, AtRest, At, Idle

LEMMA Typed_find_ds_monitoring ==
  ASSUME Typed, NEW t \in Task, find_ds_monitoring(t)
  PROVE  Typed'
<1> USE DEF At, Goto, find_ds_monitoring
<1>1. TypeOK'
  <2>1. PICK i \in Index : /\ task' = [task EXCEPT ![t] = [Idle EXCEPT !.pc = "load", !.index = i]]
                           /\ searched' = [searched EXCEPT ![i] = @ + 1]
    OBVIOUS
  <2>2. task' = [task EXCEPT ![t] = [pc |-> "load", index |-> i, cur |-> NULL, count |-> 0, of |-> 0]]
    BY <2>1 DEF Idle
  <2>3. searched' \in [Index -> Nat]
    BY <2>1 DEF Typed, TypeOK
  <2> QED
    BY <2>2, <2>3, IndexAssumption DEF Typed, TypeOK, Place
<1>2. \A u \in Task : Local(u)'
  BY <1>1, NullAssumption DEF Typed, TypeOK, Place, Local, Searching, Idle
<1>3. Keyed'
  BY <1>1 DEF Typed, TypeOK, Place, Local, Searching, Keyed, Idle
<1>4. AtRest'
  BY DEF Typed, TypeOK, AtRest, Quiet
<1> QED
  BY <1>1, <1>2, <1>3, <1>4 DEF Typed

LEMMA Typed_xa_load ==
  ASSUME Typed, NEW t \in Task, xa_load(t)
  PROVE  Typed'
<1> USE DEF At, Goto, xa_load
<1>1. TypeOK'
  BY IndexAssumption, BoundsAssumption DEF Typed, TypeOK, Place, Local, Searching, Idle
<1>2. \A u \in Task : Local(u)'
  BY <1>1, NullAssumption DEF Typed, TypeOK, Place, Local, Searching, Idle
<1>3. Keyed'
  BY <1>1 DEF Typed, TypeOK, Place, Local, Searching, Keyed, Idle
<1>4. AtRest'
  BY DEF Typed, TypeOK, AtRest, Quiet
<1> QED
  BY <1>1, <1>2, <1>3, <1>4 DEF Typed

LEMMA Typed_count_up ==
  ASSUME Typed, NEW t \in Task, count_up(t)
  PROVE  Typed'
<1> USE DEF At, Goto, count_up
<1>1. TypeOK'
  <2> DEFINE cur == task[t].cur
  <2>1. cur \in Elem /\ mem[cur] \in [key : Index, count : Nat]
    BY DEF Typed, TypeOK, Place, Local
  <2>2. /\ mem' = [mem EXCEPT ![cur] = [mem[cur] EXCEPT !.count = @ + 1]]
        /\ [mem[cur] EXCEPT !.count = @ + 1] \in [key : Index, count : Nat]
    BY <2>1
  <2>3. mem' \in [Elem -> [key : Index, count : Nat] \cup {NULL}]
    BY <2>1, <2>2 DEF Typed, TypeOK
  <2>4. alloc' \subseteq {n \in Elem : mem'[n] # NULL}
    BY <2>1, <2>2, NullAssumption DEF Typed, TypeOK
  <2> QED
    BY <2>3, <2>4 DEF Typed, TypeOK, Place
<1>2. \A u \in Task : Local(u)'
  BY <1>1, NullAssumption DEF Typed, TypeOK, Place, Local, Searching, Idle
<1>3. Keyed'
  BY <1>1 DEF Typed, TypeOK, Place, Local, Searching, Keyed, Idle
<1>4. AtRest'
  BY DEF Typed, TypeOK, AtRest, Quiet
<1> QED
  BY <1>1, <1>2, <1>3, <1>4 DEF Typed

LEMMA Typed_add_total ==
  ASSUME Typed, NEW t \in Task, add_total(t)
  PROVE  Typed'
<1> USE DEF At, Goto, add_total
<1>1. TypeOK'
  BY IndexAssumption, BoundsAssumption DEF Typed, TypeOK, Place, Local, Searching, Idle
<1>2. \A u \in Task : Local(u)'
  BY <1>1, NullAssumption DEF Typed, TypeOK, Place, Local, Searching, Idle
<1>3. Keyed'
  BY <1>1 DEF Typed, TypeOK, Place, Local, Searching, Keyed, Idle
<1>4. AtRest'
  BY DEF Typed, TypeOK, AtRest, Quiet
<1> QED
  BY <1>1, <1>2, <1>3, <1>4 DEF Typed

LEMMA Typed_kmalloc_element ==
  ASSUME Typed, NEW t \in Task, kmalloc_element(t)
  PROVE  Typed'
<1> USE DEF At, Goto, kmalloc_element
<1>1. TypeOK'
  <2>1. Fresh \in Elem /\ mem[Fresh] = NULL
    BY DEF Fresh
  <2>2. task[t].index \in Index
    BY DEF Typed, Local, Searching
  <2>3. mem' \in [Elem -> [key : Index, count : Nat] \cup {NULL}]
    BY <2>1, <2>2 DEF Typed, TypeOK
  <2>4. alloc' \subseteq {n \in Elem : mem'[n] # NULL}
    BY <2>1, <2>2, NullAssumption DEF Typed, TypeOK
  <2>5. elements' \in [Index -> alloc' \cup {NULL}]
    BY DEF Typed, TypeOK
  <2>6. task' \in [Task -> Place]
    <3>1. task \in [Task -> Place]
      BY DEF Typed, TypeOK
    <3>2. [task[t] EXCEPT !.pc = "store", !.cur = Fresh] \in Place
      BY <2>1, <3>1 DEF Place
    <3>3. task' = [task EXCEPT ![t] = [task[t] EXCEPT !.pc = "store", !.cur = Fresh]]
      BY <3>1
    <3> HIDE DEF kmalloc_element
    <3> QED
      BY <3>1, <3>2, <3>3
  <2> QED
    BY <2>3, <2>4, <2>5, <2>6 DEF Typed, TypeOK
<1>2. \A u \in Task : Local(u)'
  BY <1>1, NullAssumption DEF Typed, TypeOK, Place, Local, Searching, Idle
<1>3. Keyed'
  BY <1>1 DEF Typed, TypeOK, Place, Local, Searching, Keyed, Idle
<1>4. AtRest'
  BY DEF Typed, TypeOK, AtRest, Quiet
<1> QED
  BY <1>1, <1>2, <1>3, <1>4 DEF Typed

LEMMA Typed_insert_faults ==
  ASSUME Typed, NEW t \in Task, insert_faults(t)
  PROVE  Typed'
<1> USE DEF At, Goto, insert_faults, MayFail
<1>1. TypeOK'
  BY IndexAssumption, BoundsAssumption DEF Typed, TypeOK, Place, Local, Searching, Idle
<1>2. \A u \in Task : Local(u)'
  BY <1>1, NullAssumption DEF Typed, TypeOK, Place, Local, Searching, Idle
<1>3. Keyed'
  BY <1>1 DEF Typed, TypeOK, Place, Local, Searching, Keyed, Idle
<1>4. AtRest'
  BY DEF Typed, TypeOK, AtRest, Quiet
<1> QED
  BY <1>1, <1>2, <1>3, <1>4 DEF Typed

LEMMA Typed_xa_store ==
  ASSUME Typed, NEW t \in Task, xa_store(t)
  PROVE  Typed'
<1> USE DEF At, Goto, xa_store
<1>1. TypeOK'
  BY IndexAssumption, BoundsAssumption DEF Typed, TypeOK, Place, Local, Searching, Idle
<1>2. \A u \in Task : Local(u)'
  BY <1>1, NullAssumption DEF Typed, TypeOK, Place, Local, Searching, Idle
<1>3. Keyed'
  BY <1>1 DEF Typed, TypeOK, Place, Local, Searching, Keyed, Idle
<1>4. AtRest'
  BY DEF Typed, TypeOK, AtRest, Quiet
<1> QED
  BY <1>1, <1>2, <1>3, <1>4 DEF Typed

LEMMA Typed_xa_store_fails ==
  ASSUME Typed, NEW t \in Task, xa_store_fails(t)
  PROVE  Typed'
<1> USE DEF At, Goto, xa_store_fails, MayFail
<1>1. TypeOK'
  BY IndexAssumption, BoundsAssumption DEF Typed, TypeOK, Place, Local, Searching, Idle
<1>2. \A u \in Task : Local(u)'
  BY <1>1, NullAssumption DEF Typed, TypeOK, Place, Local, Searching, Idle
<1>3. Keyed'
  BY <1>1 DEF Typed, TypeOK, Place, Local, Searching, Keyed, Idle
<1>4. AtRest'
  BY DEF Typed, TypeOK, AtRest, Quiet
<1> QED
  BY <1>1, <1>2, <1>3, <1>4 DEF Typed

LEMMA Typed_print_ds_monitoring ==
  ASSUME Typed, NEW t \in Task, print_ds_monitoring(t)
  PROVE  Typed'
<1> USE DEF At, Goto, print_ds_monitoring
<1>1. TypeOK'
  BY IndexAssumption, BoundsAssumption DEF Typed, TypeOK, Place, Local, Searching, Idle
<1>2. \A u \in Task : Local(u)'
  BY <1>1, NullAssumption DEF Typed, TypeOK, Place, Local, Searching, Idle
<1>3. Keyed'
  BY <1>1 DEF Typed, TypeOK, Place, Local, Searching, Keyed, Idle
<1>4. AtRest'
  BY DEF Typed, TypeOK, AtRest, Quiet
<1> QED
  BY <1>1, <1>2, <1>3, <1>4 DEF Typed

LEMMA Typed_xa_for_each ==
  ASSUME Typed, NEW t \in Task, xa_for_each(t)
  PROVE  Typed'
<1> USE DEF At, Goto, xa_for_each
<1>1. TypeOK'
  <2>1. CASE Ahead(t) = {}
    BY <2>1 DEF Typed, TypeOK, Place, Idle
  <2>2. CASE Ahead(t) # {}
    <3>1. Min(Ahead(t)) \in Index /\ elements[Min(Ahead(t))] # NULL
      BY <2>2, FirstAhead DEF Typed, Ahead
    <3>2. mem[elements[Min(Ahead(t))]].count \in Nat
      BY <3>1 DEF Typed, TypeOK
    <3> QED
      BY <2>2, <3>1, <3>2, IndexAssumption DEF Typed, TypeOK, Place
  <2> QED
    BY <2>1, <2>2
<1>2. \A u \in Task : Local(u)'
  BY <1>1, NullAssumption DEF Typed, TypeOK, Place, Local, Searching, Idle
<1>3. Keyed'
  BY <1>1 DEF Typed, TypeOK, Place, Local, Searching, Keyed, Idle
<1>4. AtRest'
  BY DEF Typed, TypeOK, AtRest, Quiet
<1> QED
  BY <1>1, <1>2, <1>3, <1>4 DEF Typed

LEMMA Typed_print_elem ==
  ASSUME Typed, NEW t \in Task, print_elem(t)
  PROVE  Typed'
<1> USE DEF At, Goto, print_elem
<1>1. TypeOK'
  BY IndexAssumption, BoundsAssumption DEF Typed, TypeOK, Place, Local, Searching, Idle
<1>2. \A u \in Task : Local(u)'
  BY <1>1, NullAssumption DEF Typed, TypeOK, Place, Local, Searching, Idle
<1>3. Keyed'
  BY <1>1 DEF Typed, TypeOK, Place, Local, Searching, Keyed, Idle
<1>4. AtRest'
  BY DEF Typed, TypeOK, AtRest, Quiet
<1> QED
  BY <1>1, <1>2, <1>3, <1>4 DEF Typed

LEMMA Typed_delete_ds_monitoring ==
  ASSUME Typed, delete_ds_monitoring
  PROVE  Typed'
<1> USE DEF delete_ds_monitoring
<1>1. TypeOK'
  BY DEF Typed, TypeOK
<1>2. \A t \in Task : Local(t)'
  BY DEF Typed, Local, Searching, At, Quiet
<1>3. Keyed' /\ AtRest'
  BY DEF Typed, Keyed, AtRest, Quiet
<1> QED
  BY <1>1, <1>2, <1>3 DEF Typed

LEMMA TypedStep == Typed /\ [Next]_vars => Typed'
<1> SUFFICES ASSUME Typed, [Next]_vars PROVE Typed'
  OBVIOUS
<1>1. CASE UNCHANGED vars
  BY <1>1 DEF vars, Typed, TypeOK, Local, Keyed, AtRest, Quiet, At
<1>2. ASSUME NEW t \in Task, find_ds_monitoring(t) \/ print_ds_monitoring(t) \/ TaskStep(t)
      PROVE  Typed'
  BY <1>2, Typed_find_ds_monitoring, Typed_xa_load, Typed_count_up, Typed_add_total,
     Typed_kmalloc_element, Typed_insert_faults, Typed_xa_store, Typed_xa_store_fails,
     Typed_print_ds_monitoring, Typed_xa_for_each, Typed_print_elem
     DEF TaskStep, Find, PrintStep
<1>3. CASE delete_ds_monitoring
  BY <1>3, Typed_delete_ds_monitoring
<1> QED
  BY <1>1, <1>2, <1>3 DEF Next

(* The variables keep their types, and the XArray leads to memory that was *)
(* not freed: no search ever adds to an element that the deletion freed.   *)
THEOREM TypeCorrect == Spec => []TypeOK
<1>1. Typed => TypeOK
  BY DEF Typed
<1> QED
  BY <1>1, TypedInit, TypedStep, PTL DEF Spec

-----------------------------------------------------------------------------
(* What the elements have counted, before and after a step.                *)

LEMMA CountsAreNumbers ==
  ASSUME TypeOK
  PROVE  /\ Count \in [Elem -> Nat] /\ Tally(Count, Elem) \in Nat
         /\ \A i \in Index : CountFor(i) \in [Elem -> Nat] /\ Counted(i) \in Nat
<1>1. \A n \in Elem : mem[n] # NULL => mem[n].count \in Nat
  BY DEF TypeOK
<1>2. Count \in [Elem -> Nat] /\ \A i \in Index : CountFor(i) \in [Elem -> Nat]
  BY <1>1 DEF Count, CountFor, ElemsOf
<1> QED
  BY <1>2, FiniteUnits, TasksAssumption DEF Counted

(* One element counts one search more, or is new and counts its first.     *)
LEMMA OneMore ==
  ASSUME TypeOK, TypeOK', NEW n \in Elem, NEW k \in Index, 
         mem'[n] # NULL, mem'[n].key = k,
         mem[n] # NULL => mem[n].key = k,
         mem'[n].count = 1 + (IF mem[n] = NULL THEN 0 ELSE mem[n].count),
         \A m \in Elem \ {n} : mem'[m] = mem[m]
  PROVE  /\ Tally(Count, Elem)' = Tally(Count, Elem) + 1
         /\ \A i \in Index : Counted(i)' = Counted(i) + (IF i = k THEN 1 ELSE 0)
<1>1. /\ Count \in [Elem -> Nat] /\ Count' \in [Elem -> Nat] 
      /\ Tally(Count, Elem) \in Nat
      /\ \A i \in Index : /\ CountFor(i) \in [Elem -> Nat] /\ CountFor(i)' \in [Elem -> Nat]
                          /\ Counted(i) \in Nat
  <2>1. \A m \in Elem : mem'[m] # NULL => mem'[m].count \in Nat
    BY DEF TypeOK
  <2>2. Count' \in [Elem -> Nat] /\ \A i \in Index : CountFor(i)' \in [Elem -> Nat]
    BY <2>1 DEF Count, CountFor, ElemsOf
  <2> QED
    BY <2>2, CountsAreNumbers
<1>2. Tally(Count, Elem)' = Tally(Count, Elem) + 1
  <2>1. Count'[n] = Count[n] + 1 /\ \A m \in Elem \ {n} : Count'[m] = Count[m]
    BY <1>1 DEF Count
  <2>2. Count[n] \in Nat /\ Count[n] <= Count'[n] /\ Count'[n] - Count[n] = 1
    BY <1>1, <2>1
  <2>3. Tally(Count', Elem) = Tally(Count, Elem) + Count'[n] - Count[n]
    BY <1>1, <2>1, <2>2, TallyAdds, TasksAssumption
  <2> QED
    BY <1>1, <2>1, <2>2, <2>3
<1>3. ASSUME NEW i \in Index PROVE Counted(i)' = Counted(i) + (IF i = k THEN 1 ELSE 0)
  <2>1. \A m \in Elem \ {n} : CountFor(i)'[m] = CountFor(i)[m]
    BY DEF CountFor, ElemsOf
  <2>2. CASE i = k
    <3>1. CountFor(i)'[n] = CountFor(i)[n] + 1
      BY <1>1, <2>2 DEF CountFor, ElemsOf
    <3>2. /\ CountFor(i)[n] \in Nat /\ CountFor(i)[n] <= CountFor(i)'[n]
          /\ CountFor(i)'[n] - CountFor(i)[n] = 1
      BY <1>1, <3>1
    <3>3. Counted(i)' = Counted(i) + CountFor(i)'[n] - CountFor(i)[n]
      BY <1>1, <2>1, <3>2, TallyAdds, TasksAssumption DEF Counted
    <3> QED
      BY <1>1, <2>2, <3>1, <3>2, <3>3
  <2>3. CASE i # k
    <3>1. CountFor(i)'[n] = CountFor(i)[n]
      BY <1>1, <2>3 DEF CountFor, ElemsOf
    <3>2. \A m \in Elem : CountFor(i)'[m] = CountFor(i)[m]
      BY <2>1, <3>1
    <3>3. Counted(i)' = Counted(i)
      BY <1>1, <3>2, TallySame DEF Counted
    <3> QED
      BY <1>1, <2>3, <3>3
  <2> QED
    BY <2>2, <2>3
<1> QED
  BY <1>2, <1>3

LEMMA CountUpCounts ==
  ASSUME Typed, Typed', NEW t \in Task, count_up(t)
  PROVE  /\ Tally(Count, Elem)' = Tally(Count, Elem) + 1
         /\ \A i \in Index : /\ Counted(i)' = Counted(i) + (IF i = task[t].index THEN 1 ELSE 0)
                             /\ ElemsOf(i)' = ElemsOf(i)
<1> DEFINE n == task[t].cur
<1>1. /\ n \in Elem /\ task[t].index \in Index
      /\ mem[n] \in [key : Index, count : Nat] /\ mem[n] # NULL /\ mem[n].key = task[t].index
  BY DEF Typed, TypeOK, Place, Local, Searching, At, count_up
<1>2. mem \in [Elem -> [key : Index, count : Nat] \cup {NULL}]
  BY DEF Typed, TypeOK
<1>3. mem' = [mem EXCEPT ![n] = [mem[n] EXCEPT !.count = @ + 1]]
  BY <1>1, <1>2 DEF count_up
<1>4. /\ mem'[n].count = 1 + mem[n].count /\ mem'[n].key = mem[n].key
      /\ \A m \in Elem \ {n} : mem'[m] = mem[m]
      /\ mem'[n] \in [key : Index, count : Nat]
  BY <1>1, <1>2, <1>3
<1>5. mem'[n] # NULL
  BY <1>4, NullAssumption
<1>6. \A i \in Index : ElemsOf(i)' = ElemsOf(i)
  BY <1>1, <1>4, <1>5 DEF ElemsOf
<1> HIDE DEF n
<1>7. /\ Tally(Count, Elem)' = Tally(Count, Elem) + 1
      /\ \A i \in Index : Counted(i)' = Counted(i) + (IF i = task[t].index THEN 1 ELSE 0)
  BY <1>1, <1>4, <1>5, OneMore DEF Typed
<1> QED
  BY <1>6, <1>7

LEMMA NewElementCounts ==
  ASSUME Typed, Typed', NEW t \in Task, kmalloc_element(t)
  PROVE  /\ Tally(Count, Elem)' = Tally(Count, Elem) + 1
         /\ \A i \in Index : /\ Counted(i)' = Counted(i) + (IF i = task[t].index THEN 1 ELSE 0)
                             /\ ElemsOf(i)' = IF i = task[t].index THEN ElemsOf(i) \cup {Fresh}
                                                                   ELSE ElemsOf(i)
<1>1. Fresh \in Elem /\ mem[Fresh] = NULL
  BY DEF kmalloc_element, Fresh
<1>2. task[t].index \in Index
  BY DEF Typed, Local, Searching, At, kmalloc_element
<1>3. /\ mem'[Fresh] = [key |-> task[t].index, count |-> 1]
      /\ \A m \in Elem \ {Fresh} : mem'[m] = mem[m]
  BY <1>1 DEF Typed, TypeOK, kmalloc_element
<1>4. /\ mem'[Fresh] # NULL /\ mem'[Fresh].key = task[t].index
      /\ mem'[Fresh].count = 1 + (IF mem[Fresh] = NULL THEN 0 ELSE mem[Fresh].count)
  BY <1>1, <1>2, <1>3, NullAssumption
<1>5. \A i \in Index : ElemsOf(i)' = IF i = task[t].index THEN ElemsOf(i) \cup {Fresh}
                                                          ELSE ElemsOf(i)
  BY <1>1, <1>3, <1>4 DEF ElemsOf
<1>6. /\ Tally(Count, Elem)' = Tally(Count, Elem) + 1
      /\ \A i \in Index : Counted(i)' = Counted(i) + (IF i = task[t].index THEN 1 ELSE 0)
  BY <1>1, <1>2, <1>3, <1>4, OneMore DEF Typed
<1> QED
  BY <1>5, <1>6

LEMMA MemoryKept ==
  ASSUME UNCHANGED mem
  PROVE  /\ Tally(Count, Elem)' = Tally(Count, Elem)
         /\ \A i \in Index : Counted(i)' = Counted(i) /\ ElemsOf(i)' = ElemsOf(i)
BY DEF Count, Counted, CountFor, ElemsOf

-----------------------------------------------------------------------------
(* The two accounts of the searches.                                       *)

LEMMA TasksFinite ==
  /\ \A i \in Index : IsFiniteSet(Uncounted(i)) /\ Cardinality(Uncounted(i)) \in Nat
  /\ IsFiniteSet(Unsummed) /\ Cardinality(Unsummed) \in Nat
<1>1. Unsummed \in SUBSET Task /\ \A i \in Index : Uncounted(i) \in SUBSET Task
  BY DEF Uncounted, Unsummed
<1> QED
  BY <1>1, TasksAssumption, FS_Subset, FS_CardinalityType

(* The steps that neither begin nor count a search.                        *)
LEMMA SearchesAside ==
  ASSUME Typed, SearchesCounted, NEW t \in Task,
         \/ xa_load(t) \/ add_total(t) \/ insert_faults(t) \/ xa_store(t) \/ xa_store_fails(t)
         \/ print_ds_monitoring(t) \/ xa_for_each(t) \/ print_elem(t)
  PROVE  SearchesCounted'
<1>1. UNCHANGED <<mem, searched>>
  BY DEF xa_load, add_total, insert_faults, xa_store, xa_store_fails, print_ds_monitoring,
         xa_for_each, print_elem
<1>2. ASSUME NEW i \in Index PROVE Uncounted(i)' = Uncounted(i)
  <2>1. Local(t) /\ task \in [Task -> Place]
    BY DEF Typed, TypeOK
  <2> USE <2>1 DEF Uncounted, At, Local, Place
  <2>2. CASE xa_load(t)
    BY <2>2 DEF xa_load, Searching
  <2>3. CASE add_total(t)
    BY <2>3 DEF add_total, Idle
  <2>4. CASE insert_faults(t)
    BY <2>4 DEF insert_faults, Goto
  <2>5. CASE xa_store(t) \/ xa_store_fails(t)
    BY <2>5 DEF xa_store, xa_store_fails, Goto
  <2>6. CASE print_ds_monitoring(t)
    BY <2>6 DEF print_ds_monitoring, Idle
  <2>7. CASE xa_for_each(t)
    BY <2>7 DEF xa_for_each, Idle
  <2>8. CASE print_elem(t)
    BY <2>8 DEF print_elem
  <2> QED
    BY <2>2, <2>3, <2>4, <2>5, <2>6, <2>7, <2>8
<1> QED
  BY <1>1, <1>2, MemoryKept DEF SearchesCounted

LEMMA SearchesBegun ==
  ASSUME Typed, SearchesCounted, NEW t \in Task, find_ds_monitoring(t)
  PROVE  SearchesCounted'
<1>1. PICK k \in Index :
        /\ task' = [task EXCEPT ![t] = [Idle EXCEPT !.pc = "load", !.index = k]]
        /\ searched' = [searched EXCEPT ![k] = @ + 1]
  BY DEF find_ds_monitoring
<1>2. At(t, "idle") /\ UNCHANGED mem
  BY DEF find_ds_monitoring
<1>3. task \in [Task -> Place] /\ searched \in [Index -> Nat]
  BY DEF Typed, TypeOK
<1>4. ASSUME NEW i \in Index
      PROVE  Uncounted(i)' = (IF i = k THEN Uncounted(i) \cup {t} ELSE Uncounted(i)) /\ t \notin Uncounted(i)
  BY <1>1, <1>2, <1>3 DEF Uncounted, At, Idle
<1>5. ASSUME NEW i \in Index
      PROVE  Cardinality(Uncounted(i)') = Cardinality(Uncounted(i)) + (IF i = k THEN 1 ELSE 0)
  BY <1>4, TasksFinite, FS_AddElement
<1>6. \A i \in Index : searched'[i] = searched[i] + (IF i = k THEN 1 ELSE 0)
  BY <1>1, <1>3
<1> QED
  BY <1>2, <1>3, <1>5, <1>6, MemoryKept, TasksFinite, CountsAreNumbers DEF SearchesCounted, Typed

LEMMA SearchesCount ==
  ASSUME Typed, Typed', SearchesCounted, NEW t \in Task, count_up(t) \/ kmalloc_element(t)
  PROVE  SearchesCounted'
<1> DEFINE k == task[t].index
<1>1. \A i \in Index : Counted(i)' = Counted(i) + (IF i = k THEN 1 ELSE 0)
  BY CountUpCounts, NewElementCounts
<1>2. task \in [Task -> Place] /\ searched' = searched /\ Local(t)
  BY DEF Typed, TypeOK, count_up, kmalloc_element
<1>3. ASSUME NEW i \in Index
      PROVE  /\ Uncounted(i)' = (IF i = k THEN Uncounted(i) \ {t} ELSE Uncounted(i))
             /\ i = k => t \in Uncounted(i)
  <2>1. CASE count_up(t)
    BY <1>2, <2>1 DEF count_up, Uncounted, At, Goto, Place
  <2>2. CASE kmalloc_element(t)
    BY <1>2, <2>2 DEF kmalloc_element, Uncounted, At, Place
  <2> QED
    BY <2>1, <2>2
<1>4. ASSUME NEW i \in Index
      PROVE  Cardinality(Uncounted(i)') = Cardinality(Uncounted(i)) - (IF i = k THEN 1 ELSE 0)
  BY <1>3, TasksFinite, FS_RemoveElement
<1> HIDE DEF k
<1> QED
  BY <1>1, <1>2, <1>4, TasksFinite, CountsAreNumbers DEF SearchesCounted, Typed, TypeOK

LEMMA SearchesStep == Typed /\ Typed' /\ SearchesCounted /\ [Next]_vars => SearchesCounted'
<1> SUFFICES ASSUME Typed, Typed', SearchesCounted, [Next]_vars PROVE SearchesCounted'
  OBVIOUS
<1>1. CASE UNCHANGED vars \/ delete_ds_monitoring
  <2>1. UNCHANGED <<mem, searched, task>>
    BY <1>1 DEF vars, delete_ds_monitoring
  <2>2. \A i \in Index : Uncounted(i)' = Uncounted(i)
    BY <2>1 DEF Uncounted, At
  <2> QED
    BY <2>1, <2>2, MemoryKept DEF SearchesCounted
<1>2. ASSUME NEW t \in Task, find_ds_monitoring(t) \/ print_ds_monitoring(t) \/ TaskStep(t)
      PROVE  SearchesCounted'
  BY <1>2, SearchesAside, SearchesBegun, SearchesCount DEF TaskStep, Find, PrintStep
<1> QED
  BY <1>1, <1>2 DEF Next

(* No search is counted twice or forgotten, by any number of tasks that    *)
(* meet in find_ds_monitoring: each is in the count of one element.        *)
THEOREM EverySearchCounted == Spec => []SearchesCounted
<1>1. Init => SearchesCounted
  <2> SUFFICES ASSUME Init, NEW i \in Index PROVE Counted(i) + Cardinality(Uncounted(i)) = searched[i]
    BY DEF SearchesCounted
  <2>1. Counted(i) = 0
    <3>1. CountFor(i) \in [Elem -> Nat] /\ \A n \in Elem : CountFor(i)[n] = 0
      BY DEF Init, CountFor, ElemsOf
    <3> QED
      BY <3>1, TallyZero DEF Counted
  <2>2. Uncounted(i) = {}
    BY DEF Init, Uncounted, Idle, At
  <2> QED
    BY <2>1, <2>2, FS_EmptySet DEF Init
<1> QED
  BY <1>1, TypedInit, TypedStep, SearchesStep, PTL DEF Spec

(* The total keeps up with the counts, but for the tasks in between.       *)
LEMMA TotalStep == Typed /\ Typed' /\ TotalCounted /\ [Next]_vars => TotalCounted'
<1> SUFFICES ASSUME Typed, Typed', TotalCounted, [Next]_vars PROVE TotalCounted'
  OBVIOUS
<1>1. /\ task \in [Task -> Place] /\ total \in Nat /\ \A t \in Task : Local(t)
      /\ Tally(Count, Elem) \in Nat /\ IsFiniteSet(Unsummed) /\ Cardinality(Unsummed) \in Nat
  BY TasksFinite, CountsAreNumbers DEF Typed, TypeOK
<1>2. CASE UNCHANGED vars \/ delete_ds_monitoring
  BY <1>2, MemoryKept DEF vars, delete_ds_monitoring, TotalCounted, Unsummed
<1>3. ASSUME NEW t \in Task, 
             \/ xa_load(t) \/ insert_faults(t) \/ xa_store(t) \/ xa_store_fails(t)
             \/ find_ds_monitoring(t) \/ print_ds_monitoring(t) \/ xa_for_each(t) \/ print_elem(t)
      PROVE  TotalCounted'
  <2>1. UNCHANGED <<mem, total>>
    BY <1>3 DEF xa_load, insert_faults, xa_store, xa_store_fails, find_ds_monitoring,
                print_ds_monitoring, xa_for_each, print_elem
  <2>2. Unsummed' = Unsummed
    <3> USE <1>1 DEF Unsummed, At, Local, Place
    <3>1. CASE xa_load(t)
      BY <3>1 DEF xa_load
    <3>2. CASE insert_faults(t)
      BY <3>2 DEF insert_faults, Goto
    <3>3. CASE xa_store(t) \/ xa_store_fails(t)
      BY <3>3 DEF xa_store, xa_store_fails, Goto
    <3>4. CASE find_ds_monitoring(t)
      BY <3>4 DEF find_ds_monitoring, Idle
    <3>5. CASE print_ds_monitoring(t)
      BY <3>5 DEF print_ds_monitoring, Idle
    <3>6. CASE xa_for_each(t)
      BY <3>6 DEF xa_for_each, Idle
    <3>7. CASE print_elem(t)
      BY <3>7 DEF print_elem
    <3> QED
      BY <1>3, <3>1, <3>2, <3>3, <3>4, <3>5, <3>6, <3>7
  <2> QED
    BY <2>1, <2>2, MemoryKept DEF TotalCounted
<1>4. ASSUME NEW t \in Task, count_up(t) \/ kmalloc_element(t) PROVE TotalCounted'
  <2>1. Tally(Count, Elem)' = Tally(Count, Elem) + 1 /\ total' = total
    BY <1>4, CountUpCounts, NewElementCounts DEF count_up, kmalloc_element
  <2>2. Unsummed' = Unsummed \cup {t} /\ t \notin Unsummed
    <3>1. CASE count_up(t)
      BY <1>1, <3>1 DEF count_up, Unsummed, At, Local, Goto, Place
    <3>2. CASE kmalloc_element(t)
      <4>1. Fresh # NULL
        BY <3>2, NullAssumption DEF kmalloc_element, Fresh
      <4> QED
        BY <1>1, <3>2, <4>1 DEF kmalloc_element, Unsummed, At, Place
    <3> QED
      BY <1>4, <3>1, <3>2
  <2>3. Cardinality(Unsummed') = Cardinality(Unsummed) + 1
    BY <1>1, <2>2, FS_AddElement
  <2> QED
    BY <1>1, <2>1, <2>3 DEF TotalCounted
<1>5. ASSUME NEW t \in Task, add_total(t) PROVE TotalCounted'
  <2>1. total' = total + 1 /\ Tally(Count, Elem)' = Tally(Count, Elem)
    BY <1>5, MemoryKept DEF add_total
  <2>2. Unsummed' = Unsummed \ {t} /\ t \in Unsummed
    BY <1>1, <1>5 DEF add_total, Unsummed, At, Local, Idle, Place
  <2>3. Cardinality(Unsummed') = Cardinality(Unsummed) - 1
    BY <1>1, <2>2, FS_RemoveElement
  <2> QED
    BY <1>1, <2>1, <2>3 DEF TotalCounted
<1> QED
  BY <1>2, <1>3, <1>4, <1>5 DEF Next, TaskStep, Find, PrintStep

LEMMA TotalInit == Init => TotalCounted
<1> SUFFICES ASSUME Init PROVE TotalCounted
  OBVIOUS
<1>1. Count \in [Elem -> Nat] /\ \A n \in Elem : Count[n] = 0
  BY DEF Init, Count
<1>2. Unsummed = {}
  BY DEF Init, Unsummed, Idle
<1> QED
  BY <1>1, <1>2, TallyZero, FS_EmptySet DEF Init, TotalCounted

THEOREM TotalKeepsUp == Spec => []TotalCounted
BY TypedInit, TypedStep, TotalInit, TotalStep, PTL DEF Spec

-----------------------------------------------------------------------------
(* What is printed: a count that was read is part of the sum, and the sum  *)
(* is ahead of the total by the other tasks at most, for the task that     *)
(* prints is not itself between its two additions.                         *)

ReadCounts == \A t \in Task : At(t, "percentage") => task[t].count <= Tally(Count, Elem)

LEMMA CountsGrow ==
  ASSUME Typed, Typed', [Next]_vars
  PROVE  Tally(Count, Elem)' >= Tally(Count, Elem) /\ Tally(Count, Elem) \in Nat
<1>1. Tally(Count, Elem) \in Nat
  BY CountsAreNumbers DEF Typed
<1>2. CASE UNCHANGED mem
  BY <1>1, <1>2, MemoryKept
<1>3. ASSUME NEW t \in Task, count_up(t) \/ kmalloc_element(t)
      PROVE  Tally(Count, Elem)' = Tally(Count, Elem) + 1
  BY <1>3, CountUpCounts, NewElementCounts
<1>4. CASE UNCHANGED vars \/ delete_ds_monitoring
  BY <1>2, <1>4 DEF vars, delete_ds_monitoring
<1>5. ASSUME NEW t \in Task, find_ds_monitoring(t) \/ print_ds_monitoring(t) \/ TaskStep(t)
      PROVE  UNCHANGED mem \/ count_up(t) \/ kmalloc_element(t)
  BY <1>5 DEF TaskStep, Find, PrintStep, find_ds_monitoring, xa_load, add_total, insert_faults,
     xa_store, xa_store_fails, print_ds_monitoring, xa_for_each, print_elem
<1> QED
  BY <1>1, <1>2, <1>3, <1>4, <1>5 DEF Next

LEMMA LagStep ==
  ASSUME Typed, Typed', TotalCounted, ReadCounts, LagBounded, [Next]_vars
  PROVE  ReadCounts' /\ LagBounded'
<1>1. /\ Tally(Count, Elem)' >= Tally(Count, Elem) /\ Tally(Count, Elem) \in Nat
      /\ Tally(Count, Elem)' \in Int
  <2>1. Count' \in [Elem -> Nat]
    <3>1. \A m \in Elem : mem'[m] # NULL => mem'[m].count \in Nat
      BY DEF Typed, TypeOK
    <3> QED
      BY <3>1 DEF Count
  <2> QED
    BY <2>1, CountsGrow, FiniteUnits, TasksAssumption
<1>2. task \in [Task -> Place] /\ task' \in [Task -> Place] /\ total \in Nat
  BY DEF Typed, TypeOK
<1>3. Cardinality(Task) \in Nat
  BY TasksAssumption, FS_CardinalityType
<1>4. CASE task' = task
  BY <1>1, <1>2, <1>4 DEF ReadCounts, LagBounded, At, Place
(* It is enough to look at the task that moved.                            *)
<1>5. ASSUME NEW t \in Task, \A u \in Task \ {t} : task'[u] = task[u],
             At(t, "percentage")' => task'[t].count <= Tally(Count, Elem),
             At(t, "next")' => task'[t].count <= task'[t].of + Cardinality(Task) - 1
      PROVE  ReadCounts' /\ LagBounded'
  <2>1. \A u \in Task : /\ task[u].count \in Nat /\ task'[u].count \in Nat
                        /\ task[u].of \in Nat /\ task'[u].of \in Nat
    BY <1>2 DEF Place
  <2>2. ReadCounts'
    BY <1>1, <1>5, <2>1 DEF ReadCounts, At
  <2>3. LagBounded'
    BY <1>3, <1>5, <2>1 DEF LagBounded, At
  <2> QED
    BY <2>2, <2>3
<1>6. ASSUME NEW t \in Task, 
             \/ find_ds_monitoring(t) \/ xa_load(t) \/ count_up(t) \/ add_total(t)
             \/ kmalloc_element(t) \/ insert_faults(t) \/ xa_store(t) \/ xa_store_fails(t)
      PROVE  ReadCounts' /\ LagBounded'
  <2>1. \A u \in Task \ {t} : task'[u] = task[u]
    BY <1>2, <1>6 DEF find_ds_monitoring, xa_load, count_up, add_total, kmalloc_element,
       insert_faults, xa_store, xa_store_fails, Goto
  <2>2. task'[t].pc \notin {"next", "percentage"}
    <3> USE <1>2 DEF Place, Idle, Goto
    <3>1. CASE find_ds_monitoring(t)
      BY <3>1 DEF find_ds_monitoring
    <3>2. CASE xa_load(t)
      BY <3>2 DEF xa_load
    <3>3. CASE count_up(t) \/ insert_faults(t) \/ xa_store(t) \/ xa_store_fails(t)
      BY <3>3 DEF count_up, insert_faults, xa_store, xa_store_fails
    <3>4. CASE add_total(t) \/ kmalloc_element(t)
      BY <3>4 DEF add_total, kmalloc_element
    <3> QED
      BY <1>6, <3>1, <3>2, <3>3, <3>4
  <2> QED
    BY <1>5, <2>1, <2>2 DEF At
<1>7. ASSUME NEW t \in Task, print_ds_monitoring(t) PROVE ReadCounts' /\ LagBounded'
  <2>1. task'[t].count = 0 /\ task'[t].of = 0 /\ \A u \in Task \ {t} : task'[u] = task[u]
    BY <1>2, <1>7 DEF print_ds_monitoring, Idle
  <2>2. Cardinality(Task) >= 1
    BY <1>3, TasksAssumption, FS_EmptySet
  <2> QED
    BY <1>1, <1>3, <1>5, <2>1, <2>2
<1>8. ASSUME NEW t \in Task, xa_for_each(t) PROVE ReadCounts' /\ LagBounded'
  <2>1. \A u \in Task \ {t} : task'[u] = task[u]
    BY <1>2, <1>8 DEF xa_for_each
  <2>2. CASE Ahead(t) = {}
    <3>1. task'[t].pc = "idle"
      BY <1>2, <1>8, <2>2 DEF xa_for_each, Idle
    <3> QED
      BY <1>5, <2>1, <3>1 DEF At
  <2>3. CASE Ahead(t) # {}
    <3> DEFINE n == elements[Min(Ahead(t))]
    <3>1. Min(Ahead(t)) \in Index /\ n # NULL
      BY <2>3, FirstAhead DEF Typed, Ahead
    <3>2. n \in Elem /\ mem[n] # NULL
      BY <3>1 DEF Typed, TypeOK
    <3>3. mem[n].count <= Tally(Count, Elem)
      <4>1. Count[n] = mem[n].count /\ Count \in [Elem -> Nat]
        BY <3>2, CountsAreNumbers DEF Count, Typed
      <4> QED
        BY <3>2, <4>1, TallyBounds, TasksAssumption
    <3>4. task'[t].pc = "percentage" /\ task'[t].count = mem[n].count
      BY <1>2, <1>8, <2>3 DEF xa_for_each, Place
    <3> QED
      BY <1>5, <2>1, <3>3, <3>4 DEF At
  <2> QED
    BY <2>2, <2>3
<1>9. ASSUME NEW t \in Task, print_elem(t) PROVE ReadCounts' /\ LagBounded'
  <2>1. /\ \A u \in Task \ {t} : task'[u] = task[u]
        /\ task[t].pc = "percentage"
        /\ task'[t].pc = "next" /\ task'[t].count = task[t].count /\ task'[t].of = total
    BY <1>2, <1>9 DEF print_elem, At, Place
  <2>2. Unsummed \in SUBSET (Task \ {t})
    BY <2>1 DEF Unsummed
  <2>3. IsFiniteSet(Task \ {t}) /\ Cardinality(Task \ {t}) = Cardinality(Task) - 1
    BY TasksAssumption, FS_RemoveElement
  <2>4. Cardinality(Unsummed) <= Cardinality(Task) - 1
    BY <2>2, <2>3, FS_Subset
  <2>5. task[t].count <= Tally(Count, Elem) /\ task[t].count \in Nat
    BY <1>2, <2>1 DEF ReadCounts, At, Place
  <2>6. Tally(Count, Elem) = total + Cardinality(Unsummed) /\ Cardinality(Unsummed) \in Nat
    BY TasksFinite DEF TotalCounted
  <2>7. task[t].count <= total + Cardinality(Task) - 1
    BY <1>1, <1>2, <1>3, <2>4, <2>5, <2>6
  <2> QED
    BY <1>5, <2>1, <2>7 DEF At
<1> QED
  BY <1>4, <1>6, <1>7, <1>8, <1>9 DEF Next, vars, TaskStep, Find, PrintStep, delete_ds_monitoring

(* A proportion is printed of a total that lags behind its count by the    *)
(* searches of the other tasks at most.                                    *)
THEOREM PrintsLagLittle == Spec => []LagBounded
<1>1. Init => ReadCounts /\ LagBounded
  BY DEF Init, Idle, ReadCounts, LagBounded, At
<1>2. Typed /\ Typed' /\ TotalCounted /\ ReadCounts /\ LagBounded /\ [Next]_vars
        => ReadCounts' /\ LagBounded'
  BY LagStep
<1> QED
  BY <1>1, <1>2, TypedInit, TypedStep, TotalInit, TotalStep, PTL DEF Spec

-----------------------------------------------------------------------------
(* What leaks.  An element is made by a task that has missed one, and      *)
(* while the XArray has none for an index, all its elements are about to   *)
(* be stored or were lost in a failure: whoever misses then is one task of *)
(* many.                                                                   *)

Missed(i) == {t \in Task : At(t, "alloc") /\ task[t].index = i}
Storing(i) == {t \in Task : At(t, "store") /\ task[t].index = i}

LeakInv ==
  \A i \in Index :
    /\ Cardinality(ElemsOf(i)) + Cardinality(Missed(i)) <= Cardinality(Task) + failures
    /\ elements[i] = NULL /\ ~ destroyed =>
         Cardinality(ElemsOf(i)) <= Cardinality(Storing(i)) + failures

LEMMA LeakFinite ==
  ASSUME NEW i \in Index
  PROVE  /\ IsFiniteSet(ElemsOf(i)) /\ Cardinality(ElemsOf(i)) \in Nat
         /\ IsFiniteSet(Missed(i)) /\ Cardinality(Missed(i)) \in Nat
         /\ IsFiniteSet(Storing(i)) /\ Cardinality(Storing(i)) \in Nat
         /\ Cardinality(Task) \in Nat
<1>1. ElemsOf(i) \in SUBSET Elem /\ Missed(i) \in SUBSET Task /\ Storing(i) \in SUBSET Task
  BY DEF ElemsOf, Missed, Storing
<1> QED
  BY <1>1, TasksAssumption, FS_Subset, FS_CardinalityType

(* The steps that make, store and lose no element.                         *)
LEMMA LeakAside ==
  ASSUME Typed, LeakInv, NEW t \in Task,
         \/ find_ds_monitoring(t) \/ count_up(t) \/ add_total(t)
         \/ print_ds_monitoring(t) \/ xa_for_each(t) \/ print_elem(t)
  PROVE  LeakInv'
<1>1. UNCHANGED <<elements, destroyed, failures>>
  BY DEF find_ds_monitoring, count_up, add_total, print_ds_monitoring, xa_for_each, print_elem
<1>2. task \in [Task -> Place]
  BY DEF Typed, TypeOK
<1>3. ASSUME NEW i \in Index PROVE ElemsOf(i)' = ElemsOf(i)
  <2>1. CASE count_up(t)
    <3>1. mem[task[t].cur] # NULL /\ task[t].cur \in Elem
      BY <1>2, <2>1 DEF Typed, TypeOK, Local, At, count_up, Place
    <3>2. mem \in [Elem -> [key : Index, count : Nat] \cup {NULL}]
      BY DEF Typed, TypeOK
    <3>3. /\ mem' = [mem EXCEPT ![task[t].cur] = [mem[task[t].cur] EXCEPT !.count = @ + 1]]
          /\ [mem[task[t].cur] EXCEPT !.count = @ + 1] \in [key : Index, count : Nat]
          /\ [mem[task[t].cur] EXCEPT !.count = @ + 1].key = mem[task[t].cur].key
      BY <2>1, <3>1, <3>2 DEF count_up
    <3> QED
      BY <3>1, <3>2, <3>3, NullAssumption DEF ElemsOf
  <2>2. CASE UNCHANGED mem
    BY <2>2 DEF ElemsOf
  <2> QED
    BY <2>1, <2>2 DEF find_ds_monitoring, add_total, print_ds_monitoring, xa_for_each, print_elem
<1>4. ASSUME NEW i \in Index PROVE Missed(i)' = Missed(i) /\ Storing(i)' = Storing(i)
  <2>1. /\ \A u \in Task \ {t} : task'[u] = task[u]
        /\ task[t].pc \notin {"alloc", "store"} /\ task'[t].pc \notin {"alloc", "store"}
    <3> USE <1>2 DEF Place, Idle, At, Goto
    <3>1. CASE find_ds_monitoring(t)
      BY <3>1 DEF find_ds_monitoring
    <3>2. CASE count_up(t) \/ add_total(t)
      BY <3>2 DEF count_up, add_total
    <3>3. CASE print_ds_monitoring(t) \/ print_elem(t)
      BY <3>3 DEF print_ds_monitoring, print_elem
    <3>4. CASE xa_for_each(t)
      BY <3>4 DEF xa_for_each
    <3> QED
      BY <3>1, <3>2, <3>3, <3>4
  <2> QED
    BY <2>1 DEF Missed, Storing, At
<1> QED
  BY <1>1, <1>3, <1>4 DEF LeakInv

(* A task that misses is not yet among those that missed or store.         *)
LEMMA LeakMiss ==
  ASSUME Typed, LeakInv, NEW t \in Task, xa_load(t)
  PROVE  LeakInv'
<1> DEFINE k == task[t].index
<1>1. /\ task \in [Task -> Place] /\ k \in Index /\ failures \in Nat
      /\ UNCHANGED <<elements, destroyed, failures>> /\ task[t].pc = "load"
      /\ ~ destroyed
  BY DEF Typed, TypeOK, Local, Searching, At, xa_load, AtRest, Quiet
<1>2. ASSUME NEW i \in Index PROVE ElemsOf(i)' = ElemsOf(i)
  BY DEF ElemsOf, xa_load
<1>3. CASE elements[k] # NULL
  <2>1. ASSUME NEW i \in Index PROVE Missed(i)' = Missed(i) /\ Storing(i)' = Storing(i)
    BY <1>1, <1>3 DEF Missed, Storing, At, xa_load, Place
  <2> QED
    BY <1>1, <1>2, <2>1 DEF LeakInv
<1>4. CASE elements[k] = NULL
  <2>1. task' = [task EXCEPT ![t] = [task[t] EXCEPT !.cur = NULL, !.pc = "alloc"]]
    BY <1>1, <1>4 DEF xa_load
  <2>2. ASSUME NEW i \in Index
        PROVE  /\ Missed(i)' = IF i = k THEN Missed(i) \cup {t} ELSE Missed(i)
               /\ t \notin Missed(i) /\ Storing(i)' = Storing(i)
    BY <1>1, <2>1 DEF Missed, Storing, At, Place
  <2>3. Cardinality(Missed(k)) + Cardinality(Storing(k)) + 1 <= Cardinality(Task)
    <3>1. Missed(k) \cup Storing(k) \in SUBSET (Task \ {t}) /\ Missed(k) \cap Storing(k) = {}
      BY <1>1 DEF Missed, Storing, At
    <3>2. IsFiniteSet(Task \ {t}) /\ Cardinality(Task \ {t}) = Cardinality(Task) - 1
      BY TasksAssumption, FS_RemoveElement
    <3>3. Cardinality(Missed(k) \cup Storing(k)) <= Cardinality(Task) - 1
      BY <3>1, <3>2, FS_Subset
    <3>4. Cardinality(Missed(k) \cap Storing(k)) = 0
      BY <3>1, FS_EmptySet
    <3>5. Cardinality(Missed(k) \cup Storing(k))
            = Cardinality(Missed(k)) + Cardinality(Storing(k)) - Cardinality(Missed(k) \cap Storing(k))
      BY <1>1, LeakFinite, FS_Union
    <3> QED
      BY <1>1, <3>3, <3>4, <3>5, LeakFinite
  <2>4. ASSUME NEW i \in Index
        PROVE  /\ Cardinality(Missed(i)') = Cardinality(Missed(i)) + (IF i = k THEN 1 ELSE 0)
               /\ Cardinality(Storing(i)') = Cardinality(Storing(i))
    BY <2>2, LeakFinite, FS_AddElement
  <2>5. Cardinality(ElemsOf(k)) <= Cardinality(Storing(k)) + failures
    BY <1>1, <1>4 DEF LeakInv
  <2> HIDE DEF k
  <2>6. ASSUME NEW i \in Index
        PROVE  Cardinality(ElemsOf(i)') + Cardinality(Missed(i)') <= Cardinality(Task) + failures'
    <3>1. CASE i = k
      BY <1>1, <1>2, <2>3, <2>4, <2>5, <3>1, LeakFinite
    <3>2. CASE i # k
      BY <1>1, <1>2, <2>4, <3>2, LeakFinite DEF LeakInv
    <3> QED
      BY <3>1, <3>2
  <2> QED
    BY <1>1, <1>2, <2>4, <2>6 DEF LeakInv
<1> QED
  BY <1>3, <1>4

(* The new element has no other task to store it.                          *)
LEMMA LeakMade ==
  ASSUME Typed, Typed', LeakInv, NEW t \in Task, kmalloc_element(t)
  PROVE  LeakInv'
<1> DEFINE k == task[t].index
<1>1. /\ task \in [Task -> Place] /\ k \in Index /\ failures \in Nat
      /\ UNCHANGED <<elements, destroyed, failures>> /\ task[t].pc = "alloc"
  BY DEF Typed, TypeOK, Local, Searching, At, kmalloc_element
<1>2. task' = [task EXCEPT ![t] = [task[t] EXCEPT !.pc = "store", !.cur = Fresh]]
  BY <1>1 DEF kmalloc_element
<1>3. ASSUME NEW i \in Index
      PROVE  /\ Missed(i)' = (IF i = k THEN Missed(i) \ {t} ELSE Missed(i))
             /\ Storing(i)' = (IF i = k THEN Storing(i) \cup {t} ELSE Storing(i))
             /\ i = k => t \in Missed(i) /\ t \notin Storing(i)
  BY <1>1, <1>2 DEF Missed, Storing, At, Place
<1>4. ASSUME NEW i \in Index
      PROVE  ElemsOf(i)' = (IF i = k THEN ElemsOf(i) \cup {Fresh} ELSE ElemsOf(i)) /\ Fresh \notin ElemsOf(i)
  <2>1. mem[Fresh] = NULL
    BY DEF kmalloc_element, Fresh
  <2> QED
    BY <2>1, NewElementCounts DEF ElemsOf
<1>5. ASSUME NEW i \in Index
      PROVE  /\ Cardinality(ElemsOf(i)') = Cardinality(ElemsOf(i)) + (IF i = k THEN 1 ELSE 0)
             /\ Cardinality(Missed(i)') = Cardinality(Missed(i)) - (IF i = k THEN 1 ELSE 0)
             /\ Cardinality(Storing(i)') = Cardinality(Storing(i)) + (IF i = k THEN 1 ELSE 0)
  <2>1. Cardinality(ElemsOf(i)') = Cardinality(ElemsOf(i)) + (IF i = k THEN 1 ELSE 0)
    BY <1>4, LeakFinite, FS_AddElement
  <2>2. Cardinality(Missed(i)') = Cardinality(Missed(i)) - (IF i = k THEN 1 ELSE 0)
    BY <1>3, LeakFinite, FS_RemoveElement
  <2>3. Cardinality(Storing(i)') = Cardinality(Storing(i)) + (IF i = k THEN 1 ELSE 0)
    BY <1>3, LeakFinite, FS_AddElement
  <2> QED
    BY <2>1, <2>2, <2>3
<1> HIDE DEF k
<1> QED
  BY <1>1, <1>5, LeakFinite DEF LeakInv

(* A failure costs an element at most, and a store ends the misses.        *)
LEMMA LeakStored ==
  ASSUME Typed, LeakInv, NEW t \in Task, insert_faults(t) \/ xa_store(t) \/ xa_store_fails(t)
  PROVE  LeakInv'
<1> DEFINE k == task[t].index
<1>1. /\ task \in [Task -> Place] /\ k \in Index /\ failures \in Nat /\ failures' \in Nat
      /\ UNCHANGED <<mem, destroyed>> /\ task[t].pc \in {"alloc", "store"}
      /\ elements \in [Index -> alloc \cup {NULL}]
  BY DEF Typed, TypeOK, Local, Searching, At, insert_faults, xa_store, xa_store_fails, MayFail
<1>2. task' = [task EXCEPT ![t] = [task[t] EXCEPT !.pc = IF insert_faults(t) THEN "dead" ELSE "total"]]
  BY <1>1 DEF insert_faults, xa_store, xa_store_fails, Goto
<1>3. ASSUME NEW i \in Index
      PROVE  /\ ElemsOf(i)' = ElemsOf(i)
             /\ Missed(i)' = Missed(i) \ {t}
             /\ Storing(i)' = Storing(i) \ {t}
             /\ i # k => t \notin Storing(i)
  <2>1. task'[t].pc \in {"dead", "total"} /\ \A u \in Task \ {t} : task'[u] = task[u]
    BY <1>1, <1>2 DEF Place
  <2> QED
    BY <1>1, <2>1 DEF ElemsOf, Missed, Storing, At
<1>4. ASSUME NEW i \in Index
      PROVE  /\ Cardinality(Missed(i)') <= Cardinality(Missed(i))
             /\ Cardinality(Missed(i)') \in Int
             /\ Cardinality(Storing(i)') >= Cardinality(Storing(i)) - (IF i = k THEN 1 ELSE 0)
             /\ Cardinality(Storing(i)') \in Int
  <2>1. Cardinality(Missed(i) \ {t}) = IF t \in Missed(i) THEN Cardinality(Missed(i)) - 1
                                                          ELSE Cardinality(Missed(i))
    BY LeakFinite, FS_RemoveElement
  <2>2. Cardinality(Storing(i) \ {t}) = IF t \in Storing(i) THEN Cardinality(Storing(i)) - 1
                                                            ELSE Cardinality(Storing(i))
    BY LeakFinite, FS_RemoveElement
  <2> QED
    BY <1>3, <2>1, <2>2, LeakFinite
<1>5. CASE xa_store(t)
  <2>1. elements' = [elements EXCEPT ![k] = task[t].cur] /\ task[t].cur # NULL
        /\ failures' = failures
    BY <1>5 DEF xa_store, Typed, Local, At
  <2> HIDE DEF k
  <2>2. \A i \in Index : i # k => elements'[i] = elements[i]
    BY <1>1, <2>1
  <2>3. elements'[k] # NULL
    BY <1>1, <2>1
  <2> QED
    BY <1>1, <1>3, <1>4, <2>1, <2>2, <2>3, LeakFinite DEF LeakInv
<1>6. CASE insert_faults(t) \/ xa_store_fails(t)
  <2>1. failures' = failures + 1 /\ elements' = elements
    BY <1>6 DEF insert_faults, xa_store_fails, MayFail
  <2> HIDE DEF k
  <2> QED
    BY <1>1, <1>3, <1>4, <2>1, LeakFinite DEF LeakInv
<1> QED
  BY <1>5, <1>6

(* For every index there are no more elements than tasks and failures,     *)
(* however many searches follow.                                           *)
THEOREM LeaksBounded == Spec => []LeakBounded
<1>1. Init => LeakInv
  <2> SUFFICES ASSUME Init, NEW i \in Index
               PROVE  /\ Cardinality(ElemsOf(i)) + Cardinality(Missed(i)) <= Cardinality(Task) + failures
                      /\ Cardinality(ElemsOf(i)) <= Cardinality(Storing(i)) + failures
    BY DEF LeakInv
  <2>1. ElemsOf(i) = {} /\ Missed(i) = {} /\ Storing(i) = {} /\ failures = 0
    BY DEF Init, ElemsOf, Missed, Storing, At, Idle
  <2> QED
    BY <2>1, FS_EmptySet, TasksAssumption, FS_CardinalityType
<1>2. Typed /\ Typed' /\ LeakInv /\ [Next]_vars => LeakInv'
  <2> SUFFICES ASSUME Typed, Typed', LeakInv, [Next]_vars PROVE LeakInv'
    OBVIOUS
  <2>1. CASE UNCHANGED vars
    <3>1. \A i \in Index : /\ ElemsOf(i)' = ElemsOf(i)
                           /\ Missed(i)' = Missed(i) /\ Storing(i)' = Storing(i)
      BY <2>1 DEF vars, ElemsOf, Missed, Storing, At
    <3> QED
      BY <2>1, <3>1 DEF vars, LeakInv
  <2>2. CASE delete_ds_monitoring
    <3>1. \A i \in Index : ElemsOf(i)' = ElemsOf(i) /\ Missed(i)' = Missed(i)
      BY <2>2 DEF delete_ds_monitoring, ElemsOf, Missed, At
    <3>2. destroyed' /\ failures' = failures
      BY <2>2 DEF delete_ds_monitoring
    <3> QED
      BY <3>1, <3>2 DEF LeakInv
  <2>3. ASSUME NEW t \in Task, find_ds_monitoring(t) \/ print_ds_monitoring(t) \/ TaskStep(t)
        PROVE  LeakInv'
    BY <2>3, LeakAside, LeakMiss, LeakMade, LeakStored DEF TaskStep, Find, PrintStep
  <2> QED
    BY <2>1, <2>2, <2>3 DEF Next
<1>3. Typed /\ LeakInv => LeakBounded
  <2> SUFFICES ASSUME Typed, LeakInv, NEW i \in Index
               PROVE  Cardinality(ElemsOf(i)) <= Cardinality(Task) + failures
    BY DEF LeakBounded
  <2>1. failures \in Nat /\ Cardinality(ElemsOf(i)) + Cardinality(Missed(i)) <= Cardinality(Task) + failures
    BY DEF LeakInv, Typed, TypeOK
  <2> QED
    BY <2>1, LeakFinite
<1> QED
  BY <1>1, <1>2, <1>3, TypedInit, TypedStep, PTL DEF Spec

=============================================================================
