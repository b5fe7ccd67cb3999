---------------------------- MODULE DSMonitoring ----------------------------
(***************************************************************************)
(* The search counters of ds_monitoring.c: an XArray from the index of a   *)
(* watched element to a record that counts how often it was searched.  Any *)
(* number of tasks call find_ds_monitoring and print_ds_monitoring at the  *)
(* same time.  A counter is added to atomically (__sync_fetch_and_add) and *)
(* the XArray locks each of its operations, but nothing is held from the   *)
(* xa_load of a search to its xa_store.                                    *)
(***************************************************************************)
EXTENDS Integers, FiniteSetsExt, Tally

CONSTANTS
  Task,       \* the tasks that search and print
  Index,      \* what get_index may return: numbers, xa_for_each ascends
  Elem,       \* addresses kmalloc can return for an element
  NULL,
  MaxFinds,   \* bound: how many searches are begun
  MaxFailures \* bound: how many calls of kmalloc or xa_store fail

ASSUME IndexAssumption == Index \subseteq Nat /\ IsFiniteSet(Index)
ASSUME TasksAssumption == IsFiniteSet(Task) /\ IsFiniteSet(Elem)
ASSUME NullAssumption == NULL \notin Elem /\ NULL \notin [key : Index, count : Nat]
ASSUME BoundsAssumption == MaxFinds \in Nat /\ MaxFailures \in Nat

VARIABLES
  elements,  \* dm->elements: the XArray
  total,     \* dm->total_counts
  mem,       \* key and count of every element kmalloc returned, freed or not
  alloc,     \* the elements that have not been freed
  task,      \* where each task is, and its locals
  destroyed, \* delete_ds_monitoring was called
  searched,  \* history: searches begun for each index
  failures   \* history: failed allocations

vars == <<elements, total, mem, alloc, task, destroyed, searched, failures>>

Idle == [pc |-> "idle", index |-> 0, cur |-> NULL, count |-> 0, of |-> 0]

At(t, pc) == task[t].pc = pc
Goto(t, pc) == task' = [task EXCEPT ![t].pc = pc]
Quiet == \A t \in Task : task[t].pc \in {"idle", "dead"}

Begun == Tally(searched, Index)

-----------------------------------------------------------------------------
(* find_ds_monitoring *)

find_ds_monitoring(t) ==
  /\ At(t, "idle") /\ ~ destroyed /\ Begun < MaxFinds
  /\ \E i \in Index :
       /\ task' = [task EXCEPT ![t] = [Idle EXCEPT !.pc = "load", !.index = i]]
       /\ searched' = [searched EXCEPT ![i] = @ + 1]
  /\ UNCHANGED <<elements, total, mem, alloc, destroyed, failures>>

xa_load(t) ==
  /\ At(t, "load")
  /\ LET cur == elements[task[t].index]
     IN task' = [task EXCEPT ![t].cur = cur, ![t].pc = IF cur = NULL THEN "alloc" ELSE "count"]
  /\ UNCHANGED <<elements, total, mem, alloc, destroyed, searched, failures>>

count_up_torn(t) ==
  /\ At(t, "count")
  /\ \/ mem' = [mem EXCEPT ![task[t].cur].count = @ + 1]
     \/ (\E u \in Task \ {t} : At(u, "count") /\ task[u].cur = task[t].cur) /\ mem' = mem
  /\ Goto(t, "total")
  /\ UNCHANGED <<elements, total, alloc, destroyed, searched, failures>>
count_up(t) ==
  /\ At(t, "count")
  /\ mem' = [mem EXCEPT ![task[t].cur].count = @ + 1]
  /\ Goto(t, "total")
  /\ UNCHANGED <<elements, total, alloc, destroyed, searched, failures>>

add_total_torn(t) ==
  /\ At(t, "total")
  /\ \/ total' = total + 1
     \/ (\E u \in Task \ {t} : At(u, "total")) /\ total' = total
  /\ task' = [task EXCEPT ![t] = Idle]
  /\ UNCHANGED <<elements, mem, alloc, destroyed, searched, failures>>
add_total_new_only(t) ==
  /\ At(t, "total")
  /\ total' = IF mem[task[t].cur].count = 1 THEN total + 1 ELSE total
  /\ task' = [task EXCEPT ![t] = Idle]
  /\ UNCHANGED <<elements, mem, alloc, destroyed, searched, failures>>
add_total(t) ==
  /\ At(t, "total")
  /\ total' = total + 1
  /\ task' = [task EXCEPT ![t] = Idle]
  /\ UNCHANGED <<elements, mem, alloc, destroyed, searched, failures>>

-----------------------------------------------------------------------------
(* insert_ds_monitoring.  The results of both kmallocs and of xa_store are *)
(* not looked at: without memory the task dies on a NULL pointer, and an   *)
(* element that could not be stored is lost.                               *)

MayFail == failures < MaxFailures /\ failures' = failures + 1
Fresh == CHOOSE n \in Elem : mem[n] = NULL

kmalloc_element(t) ==
  /\ At(t, "alloc") /\ \E n \in Elem : mem[n] = NULL
  /\ mem' = [mem EXCEPT ![Fresh] = [key |-> task[t].index, count |-> 1]]
  /\ alloc' = alloc \cup {Fresh}
  /\ task' = [task EXCEPT ![t].pc = "store", ![t].cur = Fresh]
  /\ UNCHANGED <<elements, total, destroyed, searched, failures>>

(* No memory for the element, or for the copy of its name.                 *)
insert_faults(t) ==
  /\ At(t, "alloc") \/ At(t, "store")
  /\ MayFail
  /\ Goto(t, "dead")
  /\ UNCHANGED <<elements, total, mem, alloc, destroyed, searched>>

xa_store_forgotten(t) ==
  /\ At(t, "store")
  /\ Goto(t, "total")
  /\ UNCHANGED <<elements, total, mem, alloc, destroyed, searched, failures>>
xa_store(t) ==
  /\ At(t, "store")
  /\ elements' = [elements EXCEPT ![task[t].index] = task[t].cur]
  /\ Goto(t, "total")
  /\ UNCHANGED <<total, mem, alloc, destroyed, searched, failures>>

xa_store_fails(t) ==
  /\ At(t, "store")
  /\ MayFail
  /\ Goto(t, "total")
  /\ UNCHANGED <<elements, total, mem, alloc, destroyed, searched>>

-----------------------------------------------------------------------------
(* print_ds_monitoring: task[t].index is where xa_for_each goes on.        *)

print_ds_monitoring(t) ==
  /\ At(t, "idle") /\ ~ destroyed /\ total # 0
  /\ task' = [task EXCEPT ![t] = [Idle EXCEPT !.pc = "next"]]
  /\ UNCHANGED <<elements, total, mem, alloc, destroyed, searched, failures>>

Ahead(t) == {i \in Index : i >= task[t].index /\ elements[i] # NULL}

xa_for_each(t) ==
  /\ At(t, "next")
  /\ IF Ahead(t) = {}
     THEN task' = [task EXCEPT ![t] = Idle]
     ELSE task' = [task EXCEPT ![t].pc = "percentage", ![t].index = Min(Ahead(t)),
                               ![t].count = mem[elements[Min(Ahead(t))]].count]
  /\ UNCHANGED <<elements, total, mem, alloc, destroyed, searched, failures>>

(* The proportion is of the total as it is now; then print_elem.           *)
print_elem_again(t) ==
  /\ At(t, "percentage")
  /\ task' = [task EXCEPT ![t].pc = "next", ![t].of = total]
  /\ UNCHANGED <<elements, total, mem, alloc, destroyed, searched, failures>>
print_elem(t) ==
  /\ At(t, "percentage")
  /\ task' = [task EXCEPT ![t].pc = "next", ![t].index = @ + 1, ![t].of = total]
  /\ UNCHANGED <<elements, total, mem, alloc, destroyed, searched, failures>>

-----------------------------------------------------------------------------
(* delete_ds_monitoring frees what the XArray leads to.  Its caller, the   *)
(* exit of a module, has no search or print left running.                  *)
Stored == {elements[i] : i \in Index} \ {NULL}

delete_ds_monitoring_kept ==
  /\ Quiet /\ ~ destroyed
  /\ alloc' = alloc \ Stored
  /\ destroyed' = TRUE
  /\ UNCHANGED <<elements, total, mem, task, searched, failures>>
delete_ds_monitoring ==
  /\ Quiet /\ ~ destroyed
  /\ alloc' = alloc \ Stored
  /\ elements' = [i \in Index |-> NULL]
  /\ destroyed' = TRUE
  /\ UNCHANGED <<total, mem, task, searched, failures>>

-----------------------------------------------------------------------------
Init ==
  /\ elements = [i \in Index |-> NULL]
  /\ total = 0
  /\ mem = [n \in Elem |-> NULL]
  /\ alloc = {}
  /\ task = [t \in Task |-> Idle]
  /\ destroyed = FALSE
  /\ searched = [i \in Index |-> 0]
  /\ failures = 0

Find(t) ==
  \/ xa_load(t) \/ count_up(t) \/ add_total(t)
  \/ kmalloc_element(t) \/ insert_faults(t) \/ xa_store(t) \/ xa_store_fails(t)
PrintStep(t) == xa_for_each(t) \/ print_elem(t)
TaskStep(t) == Find(t) \/ PrintStep(t)

Next ==
  \/ \E t \in Task : find_ds_monitoring(t) \/ print_ds_monitoring(t) \/ TaskStep(t)
  \/ delete_ds_monitoring

(* The scheduler lets every task run on; nothing obliges one to call.      *)
Spec == Init /\ [][Next]_vars /\ \A t \in Task : WF_vars(TaskStep(t))

-----------------------------------------------------------------------------
Place == [pc : {"idle", "load", "count", "total", "alloc", "store", "next", "percentage", "dead"},
          index : Nat, cur : Elem \cup {NULL}, count : Nat, of : Nat]

(* The variables keep their types; the XArray leads to memory that was     *)
(* allocated and not freed, before and after delete_ds_monitoring.         *)
TypeOK ==
  /\ elements \in [Index -> alloc \cup {NULL}]
  /\ total \in Nat
  /\ mem \in [Elem -> [key : Index, count : Nat] \cup {NULL}]
  /\ alloc \subseteq {n \in Elem : mem[n] # NULL}
  /\ task \in [Task -> Place]
  /\ destroyed \in BOOLEAN
  /\ searched \in [Index -> Nat]
  /\ failures \in 0 .. MaxFailures

(* All the elements there ever were for an index, and what they counted.   *)
ElemsOf(i) == {n \in Elem : mem[n] # NULL /\ mem[n].key = i}
Count == [n \in Elem |-> IF mem[n] = NULL THEN 0 ELSE mem[n].count]
CountFor(i) == [n \in Elem |-> IF n \in ElemsOf(i) THEN mem[n].count ELSE 0]
Counted(i) == Tally(CountFor(i), Elem)

(* The tasks that have not counted their search yet, or died before that;  *)
(* and those that have, but have not added it to the total.                *)
Uncounted(i) ==
  {t \in Task : task[t].index = i /\ (\/ task[t].pc \in {"load", "count", "alloc"}
                                      \/ At(t, "dead") /\ task[t].cur = NULL)}
Unsummed == {t \in Task : task[t].cur # NULL /\ task[t].pc \in {"store", "total", "dead"}}

(* No search is counted twice or forgotten: each is in the count of one    *)
(* element of its index, be it the one that the XArray holds or one that   *)
(* another task's element has replaced.                                    *)
SearchesCounted == \A i \in Index : Counted(i) + Cardinality(Uncounted(i)) = searched[i]

(* The total is what all elements have counted, but for the tasks between  *)
(* their two additions.                                                    *)
TotalCounted == Tally(Count, Elem) = total + Cardinality(Unsummed)

(* An index makes a new element only while the XArray has none for it:     *)
(* each task can have missed the first one once, and a store can have      *)
(* failed.  More than that does not leak, however many searches follow.    *)
LeakBounded == \A i \in Index : Cardinality(ElemsOf(i)) <= Cardinality(Task) + failures

(* A printed proportion is of a total that may lag behind the count, by no *)
(* more than the searches of the other tasks that are under way.           *)
LagBounded ==
  \A t \in Task : At(t, "next") => task[t].count <= task[t].of + Cardinality(Task) - 1

(* Every search and every print comes back or dies of a NULL pointer, also *)
(* while others store elements ahead of and behind the print's iterator.   *)
TasksReturn == \A t \in Task : ~ At(t, "idle") ~> At(t, "idle") \/ At(t, "dead")

=============================================================================
