------------------------ MODULE BTreeProfilingProofs ------------------------
(***************************************************************************)
(* What the profiling module measures and prints, for every size of the    *)
(* trees, every number of CPUs, moves and failed allocations: the          *)
(* invariants of the module's run.                                         *)
(***************************************************************************)
EXTENDS BTreeProfiling, FiniteSetTheorems, TLAPS

-----------------------------------------------------------------------------
(* What a step that changes one value does to the tally.                   *)

LEMMA FiniteUnits ==
  ASSUME NEW S, IsFiniteSet(S), NEW f \in [S -> Nat]
  PROVE  IsFiniteSet(Units(f, S)) /\ Tally(f, S) \in Nat
<1> DEFINE Bar == [s \in S |-> {s} \X (1 .. f[s])]
           Bars == {{s} \X (1 .. f[s]) : s \in S}
<1>1. IsFiniteSet(Bars)
  <2>1. Bar \in Surjection(S, Bars)
    BY DEF Surjection
  <2> QED
    BY <2>1, FS_Surjection
<1>2. ASSUME NEW B \in Bars PROVE IsFiniteSet(B)
  <2>1. PICK s \in S : B = {s} \X (1 .. f[s])
    BY <1>2
  <2>2. f[s] \in Int /\ 1 \in Int
    OBVIOUS
  <2>3. IsFiniteSet({s}) /\ IsFiniteSet(1 .. f[s])
    BY <2>2, FS_Singleton, FS_Interval
  <2> QED
    BY <2>1, <2>3, FS_Product
<1>3. IsFiniteSet(UNION Bars)
  BY <1>1, <1>2, FS_UNION
<1> QED
  BY <1>3, FS_CardinalityType DEF Units, Tally

LEMMA TallyZero ==
  ASSUME NEW S, NEW f \in [S -> Nat], \A s \in S : f[s] = 0
  PROVE  Tally(f, S) = 0
<1>1. Units(f, S) = {}
  BY DEF Units
<1> QED
  BY <1>1, FS_EmptySet DEF Tally

LEMMA TallyAdds ==
  ASSUME NEW S, IsFiniteSet(S), NEW f \in [S -> Nat], NEW g \in [S -> Nat],
         NEW x \in S, f[x] <= g[x], \A s \in S \ {x} : g[s] = f[s]
  PROVE  Tally(g, S) = Tally(f, S) + g[x] - f[x]
<1> DEFINE More == {x} \X ((f[x] + 1) .. g[x])
<1>1. Units(g, S) = Units(f, S) \cup More
  <2>1. \A s \in S, n \in Int :
          <<s, n>> \in Units(g, S) <=> <<s, n>> \in Units(f, S) \cup More
    BY DEF Units
  <2>2. Units(g, S) \subseteq S \X Int /\ Units(f, S) \cup More \subseteq S \X Int
    BY DEF Units
  <2> QED
    BY <2>1, <2>2
<1>2. Units(f, S) \cap More = {}
  BY DEF Units
<1>3. IsFiniteSet(More) /\ Cardinality(More) = g[x] - f[x]
  <2>1. IsFiniteSet({x}) /\ Cardinality({x}) = 1
    BY FS_Singleton
  <2>2. f[x] + 1 \in Int /\ g[x] \in Int
    OBVIOUS
  <2>3. IsFiniteSet((f[x] + 1) .. g[x]) /\ Cardinality((f[x] + 1) .. g[x]) = g[x] - f[x]
    BY <2>2, FS_Interval
  <2>4. /\ IsFiniteSet(More)
        /\ Cardinality(More) = Cardinality({x}) * Cardinality((f[x] + 1) .. g[x])
    BY <2>1, <2>3, FS_Product
  <2> QED
    BY <2>1, <2>3, <2>4
<1>4. IsFiniteSet(Units(f, S)) /\ Tally(f, S) \in Nat
  BY FiniteUnits
<1>5. Cardinality(Units(f, S) \cup More)
        = Cardinality(Units(f, S)) + Cardinality(More) - Cardinality(Units(f, S) \cap More)
  BY <1>3, <1>4, FS_Union
<1>6. Cardinality(Units(f, S) \cap More) = 0
  BY <1>2, FS_EmptySet
<1> QED
  BY <1>1, <1>3, <1>4, <1>5, <1>6 DEF Tally

-----------------------------------------------------------------------------
(* The types, and where in the loops each statement is.                    *)

Reading == [time : Nat, count : Nat]
Line == [time : Nat, count : Nat, share : Int]

(* What the loops and their statements hold.                               *)
InLoop ==
  /\ pc \in {"init", "create", "value", "start", "call", "stop", "put", "draw", "loaded",
             "print", "gone", "bug", "oops"}
  /\ op \in Op /\ tree \in Tree /\ i \in Nat /\ i >= 1
  /\ op = "insert" => i <= TREE_SIZE
  /\ pc \in {"init", "create"} => op = "insert" /\ tree = "btree" /\ i = 1
  /\ pc = "value" => op = "insert"
  /\ pc \in {"draw", "loaded", "print", "gone"} => op = "lookup" /\ tree = "btree"

(* What is measured, and by which clock.                                   *)
Clocks ==
  /\ clock \in [Func -> [Cpu -> Reading]]
  /\ stopwatch \in [Tree -> [1 .. 2 -> Nat]]
  /\ now \in Nat /\ cpu \in Cpu

(* What is counted and printed.                                            *)
Accounts ==
  /\ search_counts \in [0 .. (TREE_SIZE - 1) -> Nat] /\ beyond \in Nat
  /\ printed \in Seq(Line) /\ totaltime \in Nat /\ totaltime >= 1
  /\ failures \in Nat
  /\ Len(printed) <= Len(Order)
  /\ pc \notin {"print", "gone"} => printed = <<>>

LEMMA Parameters ==
  /\ TREE_SIZE \in Nat /\ TREE_SIZE >= 1 /\ Rounds \in Nat /\ Rounds >= 1
  /\ IsFiniteSet(Cpu)
BY SizeAssumption, CpuAssumption

LEMMA InLoopInit == Init => InLoop
BY Parameters DEF Init, InLoop, Op, Tree

LEMMA InLoopStep == InLoop /\ [Next]_vars => InLoop'
<1> SUFFICES ASSUME InLoop, [Next]_vars PROVE InLoop'
  OBVIOUS
<1> USE Parameters DEF InLoop, loop, Op, Tree
<1>1. CASE bplus_module_init
  BY <1>1 DEF bplus_module_init
<1>2. CASE create_tree
  BY <1>2 DEF create_tree
<1>3. CASE kmalloc_value
  BY <1>3 DEF kmalloc_value
<1>4. CASE ktget_start
  BY <1>4 DEF ktget_start
<1>5. CASE measured_call
  BY <1>5 DEF measured_call, btree_insert, cbtree_insert, lookup
<1>6. CASE ktget_stop
  BY <1>6 DEF ktget_stop
<1>7. CASE ktput
  BY <1>7 DEF ktput, Onwards, fill_tree, find_tree
<1>8. CASE draw_key
  BY <1>8 DEF draw_key
<1>9. CASE ktprint
  BY <1>9 DEF ktprint
<1>10. CASE destroy_trees
  BY <1>10 DEF destroy_trees
<1>11. CASE bplus_module_exit
  BY <1>11 DEF bplus_module_exit
<1>12. CASE World
  BY <1>12 DEF World, tick, migrate, Measures
<1>13. CASE UNCHANGED vars
  BY <1>13 DEF vars
<1> QED
  BY <1>1, <1>2, <1>3, <1>4, <1>5, <1>6, <1>7, <1>8, <1>9, <1>10, <1>11, <1>12, <1>13 DEF Next, Task

LEMMA ClocksInit == Init => Clocks
<1> SUFFICES ASSUME Init PROVE Clocks
  OBVIOUS
<1>1. clock \in [Func -> [Cpu -> Reading]]
  BY DEF Init, Reading
<1>2. stopwatch \in [Tree -> [1 .. 2 -> Nat]]
  <2>1. <<0, 0>> \in [1 .. 2 -> Nat]
    OBVIOUS
  <2> QED
    BY <2>1 DEF Init, NoReadings
<1> QED
  BY <1>1, <1>2 DEF Init, Clocks

(* The account of a lap that did not go backwards, for the clock that it   *)
(* is put on and for all the others.                                       *)
LEMMA LapCharged ==
  ASSUME InLoop, Clocks, ktput, Lap >= 0
  PROVE  /\ <<op, tree>> \in Func /\ Lap \in Nat /\ clock' \in [Func -> [Cpu -> Reading]]
         /\ clock'[<<op, tree>>][cpu].time = clock[<<op, tree>>][cpu].time + Lap
         /\ clock'[<<op, tree>>][cpu].count = clock[<<op, tree>>][cpu].count + 1
         /\ \A f \in Func, c \in Cpu :
              f # <<op, tree>> \/ c # cpu => clock'[f][c] = clock[f][c]
<1> DEFINE f == <<op, tree>>
           new == [time |-> clock[f][cpu].time + Lap, count |-> clock[f][cpu].count + 1]
<1>1. f \in Func /\ cpu \in Cpu /\ clock[f] \in [Cpu -> Reading] /\ clock[f][cpu] \in Reading
  BY DEF InLoop, Clocks, Func
<1>2. Lap \in Nat
  <2>1. stopwatch[tree] \in [1 .. 2 -> Nat]
    BY DEF InLoop, Clocks
  <2>2. stopwatch[tree][1] \in Nat /\ stopwatch[tree][2] \in Nat
    BY <2>1
  <2> QED
    BY <2>2 DEF Lap
<1>3. new \in Reading
  BY <1>1, <1>2 DEF Reading
<1>4. clock' = [clock EXCEPT ![f] = [clock[f] EXCEPT ![cpu] = new]]
  BY <1>1, <1>2 DEF ktput, Clocks
<1> HIDE DEF f, new
<1>5. clock' \in [Func -> [Cpu -> Reading]]
  BY <1>1, <1>3, <1>4 DEF Clocks
<1>6. clock'[f][cpu] = new /\ \A g \in Func, c \in Cpu : g # f \/ c # cpu => clock'[g][c] = clock[g][c]
  BY <1>1, <1>3, <1>4 DEF Clocks
<1> USE DEF f, new
<1> QED
  BY <1>1, <1>2, <1>5, <1>6

LEMMA ClocksStep == InLoop /\ Clocks /\ [Next]_vars => Clocks'
<1> SUFFICES ASSUME InLoop, Clocks, [Next]_vars PROVE Clocks'
  OBVIOUS
<1>1. CASE ktget_start
  <2>1. tree \in Tree /\ stopwatch[tree] \in [1 .. 2 -> Nat] /\ now \in Nat
    BY DEF InLoop, Clocks
  <2>2. stopwatch' = [stopwatch EXCEPT ![tree] = [stopwatch[tree] EXCEPT ![1] = now]]
    BY <1>1, <2>1 DEF ktget_start, Clocks
  <2>3. [stopwatch[tree] EXCEPT ![1] = now] \in [1 .. 2 -> Nat]
    BY <2>1
  <2> QED
    BY <1>1, <2>1, <2>2, <2>3 DEF ktget_start, Clocks, world
<1>2. CASE ktget_stop
  <2>1. tree \in Tree /\ stopwatch[tree] \in [1 .. 2 -> Nat] /\ now \in Nat
    BY DEF InLoop, Clocks
  <2>2. stopwatch' = [stopwatch EXCEPT ![tree] = [stopwatch[tree] EXCEPT ![2] = now]]
    BY <1>2, <2>1 DEF ktget_stop, Clocks
  <2>3. [stopwatch[tree] EXCEPT ![2] = now] \in [1 .. 2 -> Nat]
    BY <2>1
  <2> QED
    BY <1>2, <2>1, <2>2, <2>3 DEF ktget_stop, Clocks, world
<1>3. CASE ktput
  <2>1. now' = now /\ cpu' = cpu
    BY <1>3 DEF ktput, world
  <2>2. CASE Lap < 0
    BY <1>3, <2>1, <2>2 DEF ktput, Clocks, measuring
  <2>3. CASE ~ (Lap < 0)
    <3>1. Lap >= 0
      <4>1. stopwatch[tree] \in [1 .. 2 -> Nat]
        BY DEF InLoop, Clocks
      <4>2. Lap \in Int
        BY <4>1 DEF Lap
      <4> QED
        BY <2>3, <4>2
    <3>2. clock' \in [Func -> [Cpu -> Reading]]
      BY <1>3, <3>1, LapCharged
    <3>3. NoReadings \in [Tree -> [1 .. 2 -> Nat]]
      <4>1. <<0, 0>> \in [1 .. 2 -> Nat]
        OBVIOUS
      <4> QED
        BY <4>1 DEF NoReadings
    <3>4. stopwatch' = stopwatch \/ stopwatch' = NoReadings
      BY <1>3, <2>3 DEF ktput, Onwards
    <3> QED
      BY <2>1, <3>2, <3>3, <3>4 DEF Clocks
  <2> QED
    BY <2>2, <2>3
<1>4. CASE World
  BY <1>4 DEF World, tick, migrate, measuring, Clocks
<1>5. CASE UNCHANGED <<measuring, world>>
  BY <1>5 DEF measuring, world, Clocks
<1>6. CASE \/ bplus_module_init \/ create_tree \/ kmalloc_value \/ measured_call \/ draw_key
           \/ ktprint \/ destroy_trees \/ bplus_module_exit \/ UNCHANGED vars
  BY <1>5, <1>6 DEF bplus_module_init, create_tree, kmalloc_value, measured_call, draw_key,
     ktprint, destroy_trees, bplus_module_exit, vars
<1> QED
  BY <1>1, <1>2, <1>3, <1>4, <1>6 DEF Next, Task

-----------------------------------------------------------------------------
(* Sums over the clocks.                                                   *)

LEMMA ClocksFinite == IsFiniteSet(Func \X Cpu) /\ IsFiniteSet(Cpu)
<1>1. IsFiniteSet({"insert"}) /\ IsFiniteSet({"btree"})
  BY FS_Singleton
<1>2. IsFiniteSet({"insert"} \cup {"lookup"}) /\ IsFiniteSet({"btree"} \cup {"cbtree"})
  BY <1>1, FS_AddElement
<1>3. Op = {"insert"} \cup {"lookup"} /\ Tree = {"btree"} \cup {"cbtree"}
  BY DEF Op, Tree
<1>4. IsFiniteSet(Func)
  BY <1>2, <1>3, FS_Product DEF Func
<1> QED
  BY <1>4, Parameters, FS_Product

CallsOn(f) == [c \in Cpu |-> clock[f][c].count]
TimeOn(f) == [c \in Cpu |-> clock[f][c].time]

LEMMA SumsAreNumbers ==
  ASSUME Clocks
  PROVE  /\ Times \in [Func \X Cpu -> Nat] /\ Tally(Times, Func \X Cpu) \in Nat
         /\ \A f \in Func : /\ CallsOn(f) \in [Cpu -> Nat] /\ Count(f) \in Nat
                            /\ TimeOn(f) \in [Cpu -> Nat] /\ Time(f) \in Nat
<1>1. \A f \in Func, c \in Cpu : clock[f][c].time \in Nat /\ clock[f][c].count \in Nat
  BY DEF Clocks, Reading
<1>2. /\ Times \in [Func \X Cpu -> Nat]
      /\ \A f \in Func : CallsOn(f) \in [Cpu -> Nat] /\ TimeOn(f) \in [Cpu -> Nat]
  BY <1>1 DEF Times, CallsOn, TimeOn
<1> QED
  BY <1>2, ClocksFinite, FiniteUnits DEF Count, CallsOn, Time, TimeOn

(* A lap is charged once, to one function.                                 *)
LEMMA ChargedOnce ==
  ASSUME InLoop, Clocks, ktput, Lap >= 0
  PROVE  /\ Tally(Times, Func \X Cpu)' = Tally(Times, Func \X Cpu) + Lap
         /\ \A f \in Func : Count(f)' = Count(f) + (IF f = <<op, tree>> THEN 1 ELSE 0)
<1>1. PICK g \in Func, d \in Cpu : g = <<op, tree>> /\ d = cpu
  BY LapCharged DEF Clocks
<1>2. /\ Lap \in Nat /\ clock' \in [Func -> [Cpu -> Reading]]
      /\ clock'[g][d].time = clock[g][d].time + Lap
      /\ clock'[g][d].count = clock[g][d].count + 1
      /\ \A f \in Func, c \in Cpu : f # g \/ c # d => clock'[f][c] = clock[f][c]
  BY <1>1, LapCharged
<1>3. /\ Times \in [Func \X Cpu -> Nat] /\ Tally(Times, Func \X Cpu) \in Nat
      /\ \A f \in Func : CallsOn(f) \in [Cpu -> Nat] /\ Count(f) \in Nat
  BY SumsAreNumbers
<1>4. \A f \in Func, c \in Cpu : clock'[f][c].time \in Nat /\ clock'[f][c].count \in Nat
  BY <1>2 DEF Reading
<1>5. Times' \in [Func \X Cpu -> Nat] /\ \A f \in Func : CallsOn(f)' \in [Cpu -> Nat]
  BY <1>4 DEF Times, CallsOn
<1>6. Tally(Times, Func \X Cpu)' = Tally(Times, Func \X Cpu) + Lap
  <2> DEFINE x == <<g, d>>
  <2>1. /\ x \in Func \X Cpu /\ Times'[x] = Times[x] + Lap
        /\ \A y \in (Func \X Cpu) \ {x} : Times'[y] = Times[y]
    BY <1>2 DEF Times
  <2> HIDE DEF x
  <2>2. Times[x] \in Nat /\ Times[x] <= Times'[x] /\ Times'[x] \in Nat
    BY <1>2, <1>3, <2>1
  <2>3. Tally(Times', Func \X Cpu) = Tally(Times, Func \X Cpu) + Times'[x] - Times[x]
    <3>1. IsFiniteSet(Func \X Cpu)
      BY ClocksFinite
    <3>2. Times \in [Func \X Cpu -> Nat] /\ Times' \in [Func \X Cpu -> Nat]
      BY <1>3, <1>5
    <3>3. x \in Func \X Cpu /\ \A y \in (Func \X Cpu) \ {x} : Times'[y] = Times[y]
      BY <2>1
    <3> QED
      BY <2>2, <3>1, <3>2, <3>3, TallyAdds
  <2> QED
    BY <1>2, <1>3, <2>1, <2>2, <2>3
<1>7. Count(g)' = Count(g) + 1
  <2>1. /\ CallsOn(g)'[d] = CallsOn(g)[d] + 1
        /\ \A c \in Cpu \ {d} : CallsOn(g)'[c] = CallsOn(g)[c]
    BY <1>2 DEF CallsOn
  <2>2. CallsOn(g)[d] \in Nat /\ CallsOn(g)[d] <= CallsOn(g)'[d] /\ CallsOn(g)'[d] \in Nat
    BY <1>3, <2>1
  <2>3. Tally(CallsOn(g)', Cpu) = Tally(CallsOn(g), Cpu) + CallsOn(g)'[d] - CallsOn(g)[d]
    <3>1. CallsOn(g) \in [Cpu -> Nat] /\ CallsOn(g)' \in [Cpu -> Nat]
      BY <1>3, <1>5
    <3> QED
      BY <2>1, <2>2, <3>1, ClocksFinite, TallyAdds
  <2>4. Count(g) = Tally(CallsOn(g), Cpu) /\ Count(g)' = Tally(CallsOn(g)', Cpu)
    BY DEF Count, CallsOn
  <2> QED
    BY <1>3, <2>1, <2>2, <2>3, <2>4
<1>8. ASSUME NEW f \in Func, f # g PROVE Count(f)' = Count(f)
  <2>1. \A c \in Cpu : clock'[f][c] = clock[f][c]
    BY <1>2, <1>8
  <2> QED
    BY <2>1 DEF Count
<1> QED
  BY <1>1, <1>3, <1>6, <1>7, <1>8

LEMMA SumsKept ==
  ASSUME UNCHANGED clock
  PROVE  /\ Tally(Times, Func \X Cpu)' = Tally(Times, Func \X Cpu)
         /\ \A f \in Func : Count(f)' = Count(f) /\ Time(f)' = Time(f)
BY DEF Times, Count, Time

LEMMA SumsInit ==
  ASSUME Init
  PROVE  Tally(Times, Func \X Cpu) = 0 /\ \A f \in Func : Count(f) = 0
<1>1. \A f \in Func, c \in Cpu : clock[f][c].time = 0 /\ clock[f][c].count = 0
  BY DEF Init
<1>2. Times \in [Func \X Cpu -> Nat] /\ \A fc \in Func \X Cpu : Times[fc] = 0
  BY <1>1 DEF Times
<1>3. ASSUME NEW f \in Func PROVE Count(f) = 0
  <2>1. CallsOn(f) \in [Cpu -> Nat] /\ \A c \in Cpu : CallsOn(f)[c] = 0
    BY <1>1 DEF CallsOn
  <2> QED
    BY <2>1, TallyZero DEF Count, CallsOn
<1> QED
  BY <1>2, <1>3, TallyZero

-----------------------------------------------------------------------------
(* Time: what has been charged lies before the first reading of a stop-    *)
(* watch that runs, so that the next lap starts behind it.                 *)

TimesInOrder ==
  /\ Tally(Times, Func \X Cpu) <= now
  /\ pc \in {"call", "stop", "put"} =>
       Tally(Times, Func \X Cpu) <= stopwatch[tree][1] /\ stopwatch[tree][1] <= now
  /\ pc = "put" => stopwatch[tree][1] <= stopwatch[tree][2] /\ stopwatch[tree][2] <= now

LEMMA LapForward ==
  ASSUME InLoop, Clocks, TimesInOrder, ktput
  PROVE  Lap \in Nat
<1>1. stopwatch[tree] \in [1 .. 2 -> Nat]
  BY DEF InLoop, Clocks
<1>2. stopwatch[tree][1] <= stopwatch[tree][2]
  BY DEF TimesInOrder, ktput
<1> QED
  BY <1>1, <1>2 DEF Lap

LEMMA TimesInit == Init => TimesInOrder
<1> SUFFICES ASSUME Init PROVE TimesInOrder
  OBVIOUS
<1>1. Tally(Times, Func \X Cpu) = 0
  BY SumsInit
<1> QED
  BY <1>1 DEF Init, TimesInOrder

LEMMA TimesStep == InLoop /\ InLoop' /\ Clocks /\ Clocks' /\ TimesInOrder /\ [Next]_vars => TimesInOrder'
<1> SUFFICES ASSUME InLoop, InLoop', Clocks, Clocks', TimesInOrder, [Next]_vars PROVE TimesInOrder'
  OBVIOUS
<1>1. /\ stopwatch[tree] \in [1 .. 2 -> Nat] /\ stopwatch[tree][1] \in Nat /\ stopwatch[tree][2] \in Nat
      /\ now \in Nat /\ Tally(Times, Func \X Cpu) \in Nat
  <2>1. stopwatch[tree] \in [1 .. 2 -> Nat]
    BY DEF InLoop, Clocks
  <2> QED
    BY <2>1, SumsAreNumbers DEF Clocks
<1>2. CASE ktget_start
  <2>1. stopwatch'[tree'][1] = now /\ now' = now /\ pc' = "call" /\ clock' = clock
    BY <1>1, <1>2 DEF ktget_start, loop, world, InLoop, Clocks
  <2> QED
    BY <1>1, <2>1, SumsKept DEF TimesInOrder
<1>3. CASE ktget_stop
  <2>1. /\ stopwatch'[tree'][2] = now /\ stopwatch'[tree'][1] = stopwatch[tree][1]
        /\ now' = now /\ pc = "stop" /\ pc' = "put" /\ clock' = clock
    BY <1>1, <1>3 DEF ktget_stop, loop, world, InLoop, Clocks
  <2> QED
    BY <1>1, <2>1, SumsKept DEF TimesInOrder
<1>4. CASE ktput
  <2>1. /\ Lap \in Nat /\ Lap >= 0 /\ ~ (Lap < 0) /\ pc = "put" /\ now' = now
        /\ Lap = stopwatch[tree][2] - stopwatch[tree][1]
    BY <1>1, <1>4, LapForward DEF ktput, world, Lap
  <2>2. Tally(Times, Func \X Cpu)' = Tally(Times, Func \X Cpu) + Lap
    BY <1>4, <2>1, ChargedOnce
  <2>3. Tally(Times, Func \X Cpu)' <= now'
    BY <1>1, <2>1, <2>2 DEF TimesInOrder
  <2>4. pc' \notin {"call", "stop", "put"}
    BY <1>4, <2>1 DEF ktput, Onwards, fill_tree, find_tree
  <2> QED
    BY <2>3, <2>4 DEF TimesInOrder
<1>5. CASE World
  <2>1. UNCHANGED <<clock, pc, stopwatch, tree>> /\ (now' = now + 1 \/ now' = now)
    BY <1>5 DEF World, tick, migrate, measuring, loop
  <2>2. Tally(Times, Func \X Cpu)' = Tally(Times, Func \X Cpu)
    BY <2>1, SumsKept
  <2> QED
    BY <1>1, <2>1, <2>2 DEF TimesInOrder
<1>6. CASE measured_call
  <2>1. UNCHANGED <<clock, stopwatch, tree, now>> /\ pc = "call"
    BY <1>6 DEF measured_call, measuring, loop, world
  <2>2. pc' # "put"
    BY <1>6 DEF measured_call, btree_insert, cbtree_insert, lookup
  <2>3. Tally(Times, Func \X Cpu)' = Tally(Times, Func \X Cpu)
    BY <2>1, SumsKept
  <2> QED
    BY <1>1, <2>1, <2>2, <2>3 DEF TimesInOrder
<1>7. CASE \/ bplus_module_init \/ create_tree \/ kmalloc_value \/ draw_key
           \/ ktprint \/ destroy_trees \/ bplus_module_exit
  <2>1. UNCHANGED <<clock, now>>
    BY <1>7 DEF bplus_module_init, create_tree, kmalloc_value, draw_key, ktprint, destroy_trees,
       bplus_module_exit, measuring, world
  <2>2. pc' \notin {"call", "stop", "put"}
    BY <1>7 DEF bplus_module_init, create_tree, kmalloc_value, draw_key, ktprint, destroy_trees,
       bplus_module_exit
  <2> QED
    BY <2>1, <2>2, SumsKept DEF TimesInOrder
<1>8. CASE UNCHANGED vars
  <2>1. UNCHANGED <<clock, now, pc, stopwatch, tree>>
    BY <1>8 DEF vars, measuring, loop, world
  <2> QED
    BY <2>1, SumsKept DEF TimesInOrder
<1> QED
  BY <1>2, <1>3, <1>4, <1>5, <1>6, <1>7, <1>8 DEF Next, Task

(* No moment is charged twice, on however many CPUs the task was moved     *)
(* while it measured.                                                      *)
THEOREM NoTimeTwice == Spec => []TimesApart
<1>1. TimesInOrder => TimesApart
  BY DEF TimesInOrder, TimesApart
<1> QED
  BY <1>1, InLoopInit, InLoopStep, ClocksInit, ClocksStep, TimesInit, TimesStep, PTL DEF Spec

-----------------------------------------------------------------------------
(* Calls: the counts of the clocks follow the loops.                       *)

Done == {"loaded", "print", "gone"}

(* All steps but ktput's leave both alone.                                 *)
LEMMA CallsAside ==
  ASSUME InLoop, [Next]_vars, ~ ktput
  PROVE  /\ UNCHANGED <<op, tree, i, clock>>
         /\ pc' \in {"bug", "oops"} \/ (pc' \in Done <=> pc \in Done)
         /\ pc' \notin {"bug", "oops"} => pc \notin {"bug", "oops"} \/ UNCHANGED vars
<1> USE DEF loop, measuring, Done
<1>1. CASE bplus_module_init \/ create_tree \/ kmalloc_value \/ draw_key \/ destroy_trees
  BY <1>1 DEF bplus_module_init, create_tree, kmalloc_value, draw_key, destroy_trees
<1>2. CASE ktget_start \/ ktget_stop \/ ktprint \/ bplus_module_exit
  BY <1>2 DEF ktget_start, ktget_stop, ktprint, bplus_module_exit
<1>3. CASE measured_call
  <2>1. pc = "call" /\ pc' \in {"stop", "bug", "oops"}
    BY <1>3 DEF measured_call, btree_insert, cbtree_insert, lookup
  <2> QED
    BY <1>3, <2>1 DEF measured_call
<1>4. CASE World
  BY <1>4 DEF World, tick, migrate, Measures
<1>5. CASE UNCHANGED vars
  BY <1>5 DEF vars
<1> QED
  BY <1>1, <1>2, <1>3, <1>4, <1>5 DEF Next, Task

LEMMA MeasuredKept ==
  ASSUME InLoop, [Next]_vars, ~ ktput, pc' \notin {"bug", "oops"}
  PROVE  \A f \in Func : Measured(f)' = Measured(f) /\ Count(f)' = Count(f)
<1>1. UNCHANGED <<op, tree, i, clock>> /\ (pc' \in Done <=> pc \in Done)
  BY CallsAside
<1> QED
  BY <1>1, SumsKept DEF Measured, Done

LEMMA MeasuredNext ==
  ASSUME InLoop, ktput, ~ (Lap < 0)
  PROVE  \A f \in Func : Measured(f)' = Measured(f) + (IF f = <<op, tree>> THEN 1 ELSE 0)
<1> SUFFICES ASSUME NEW f \in Func
             PROVE  Measured(f)' = Measured(f) + (IF f = <<op, tree>> THEN 1 ELSE 0)
  OBVIOUS
<1>1. PICK o \in Op, t \in Tree : f = <<o, t>>
  BY DEF Func
<1>2. pc = "put" /\ i \in Nat /\ TREE_SIZE \in Nat
  BY Parameters DEF InLoop, ktput
<1>3. CASE tree = "btree"
  <2>1. tree' = "cbtree" /\ op' = op /\ i' = i /\ pc' \in {"value", "start"}
    BY <1>3 DEF ktput, Onwards
  <2> QED
    BY <1>1, <1>2, <1>3, <2>1 DEF Measured, Op, Tree
<1>4. CASE tree = "cbtree"
  <2>1. tree' = "btree"
    BY <1>4 DEF ktput, Onwards
  <2>2. CASE op = "insert" /\ i < TREE_SIZE
    <3>1. op' = op /\ i' = i + 1 /\ pc' = "value"
      BY <1>4, <2>2 DEF ktput, Onwards, fill_tree
    <3> QED
      BY <1>1, <1>2, <1>4, <2>1, <2>2, <3>1 DEF Measured, Op, Tree
  <2>3. CASE op = "insert" /\ ~ (i < TREE_SIZE)
    <3>1. op' = "lookup" /\ i' = 1 /\ pc' = "draw" /\ i = TREE_SIZE
      BY <1>2, <1>4, <2>3 DEF ktput, Onwards, fill_tree, InLoop
    <3> QED
      BY <1>1, <1>2, <1>4, <2>1, <2>3, <3>1 DEF Measured, Op, Tree
  <2>4. CASE op = "lookup"
    <3>1. op' = op /\ ((pc' = "draw" /\ i' = i + 1) \/ (pc' = "loaded" /\ i' = i))
      BY <1>4, <2>4 DEF ktput, Onwards, find_tree
    <3> QED
      BY <1>1, <1>2, <1>4, <2>1, <2>4, <3>1 DEF Measured, Op, Tree
  <2> QED
    BY <2>2, <2>3, <2>4 DEF InLoop, Op
<1> QED
  BY <1>3, <1>4 DEF InLoop, Tree

LEMMA AccountsInit == Init => Accounts
<1> SUFFICES ASSUME Init PROVE Accounts
  OBVIOUS
<1>1. search_counts \in [0 .. (TREE_SIZE - 1) -> Nat]
  BY DEF Init
<1> QED
  BY <1>1 DEF Init, Accounts, Order

LEMMA TreesCounted == \A failed \in SUBSET Tree : IsFiniteSet(failed) /\ Cardinality(failed) \in Nat
<1>1. IsFiniteSet({"btree"} \cup {"cbtree"})
  BY FS_Singleton, FS_AddElement
<1>2. IsFiniteSet(Tree)
  BY <1>1 DEF Tree
<1> QED
  BY <1>2, FS_Subset, FS_CardinalityType

(* A line that ktprint prints.                                             *)
LEMMA Printed ==
  ASSUME InLoop, Clocks, Accounts, ktprint
  PROVE  \E f \in Func, line \in Line :
           /\ f = Order[Len(printed) + 1] /\ printed' = Append(printed, line)
           /\ line.time = Time(f) /\ line.count = Count(f)
           /\ line.share = Share(Time(f), totaltime')
           /\ totaltime' = (IF totaltime < Time(f) THEN Time(f) ELSE totaltime)
           /\ totaltime' \in Nat /\ totaltime' >= 1 /\ totaltime' >= Time(f)
<1> DEFINE f == Order[Len(printed) + 1]
<1>1. Len(printed) \in Nat /\ Len(printed) < 4
  BY DEF ktprint, Order, Accounts
<1>2. f \in Func
  BY <1>1 DEF Order, Func, Op, Tree
<1>3. Time(f) \in Nat /\ Count(f) \in Nat
  BY <1>2, SumsAreNumbers
<1>4. /\ totaltime' = (IF totaltime < Time(f) THEN Time(f) ELSE totaltime)
      /\ printed' = Append(printed, [time |-> Time(f), count |-> Count(f),
                                     share |-> Share(Time(f), totaltime')])
  BY DEF ktprint, __ktprint
<1> HIDE DEF f
<1>5. totaltime' \in Nat /\ totaltime' >= 1 /\ totaltime' >= Time(f)
  BY <1>3, <1>4 DEF Accounts
<1>6. Share(Time(f), totaltime') \in Int
  BY <1>3, <1>5 DEF Share, Whole
<1>7. f = Order[Len(printed) + 1]
  BY DEF f
<1>8. PICK line \in Line : /\ printed' = Append(printed, line)
                           /\ line.time = Time(f) /\ line.count = Count(f)
                           /\ line.share = Share(Time(f), totaltime')
  <2> DEFINE line == [time |-> Time(f), count |-> Count(f), share |-> Share(Time(f), totaltime')]
  <2>1. /\ line \in Line /\ line.time = Time(f) /\ line.count = Count(f)
        /\ line.share = Share(Time(f), totaltime')
    BY <1>3, <1>6 DEF Line
  <2>2. printed' = Append(printed, line)
    BY <1>4
  <2> HIDE DEF line
  <2> QED
    BY <2>1, <2>2
<1> QED
  BY <1>2, <1>4, <1>5, <1>7, <1>8

LEMMA AccountsStep == InLoop /\ InLoop' /\ Clocks /\ Accounts /\ [Next]_vars => Accounts'
<1> SUFFICES ASSUME InLoop, InLoop', Clocks, Accounts, [Next]_vars PROVE Accounts'
  OBVIOUS
<1>1. CASE ktprint
  <2>1. PICK line \in Line : printed' = Append(printed, line) /\ totaltime' \in Nat /\ totaltime' >= 1
    BY <1>1, Printed
  <2>2. printed' \in Seq(Line) /\ Len(printed') <= Len(Order)
    BY <1>1, <2>1 DEF Accounts, ktprint, Order
  <2> QED
    BY <1>1, <2>1, <2>2 DEF ktprint, Accounts, counts
<1>2. CASE draw_key
  <2>1. beyond' \in Nat /\ search_counts' \in [0 .. (TREE_SIZE - 1) -> Nat]
    <3>1. PICK k \in 0 .. TREE_SIZE :
            /\ search_counts' = IF k < TREE_SIZE THEN [search_counts EXCEPT ![k] = @ + 1] ELSE search_counts
            /\ beyond' = IF k = TREE_SIZE THEN beyond + 1 ELSE beyond
      BY <1>2 DEF draw_key, update_search_count
    <3>2. k < TREE_SIZE => k \in 0 .. (TREE_SIZE - 1)
      BY Parameters
    <3>3. search_counts' \in [0 .. (TREE_SIZE - 1) -> Nat]
      BY <3>1, <3>2 DEF Accounts
    <3>4. beyond' \in Nat
      BY <3>1 DEF Accounts
    <3> QED
      BY <3>3, <3>4
  <2>2. UNCHANGED <<printed, totaltime, failures>> /\ pc = "draw"
    BY <1>2 DEF draw_key, report
  <2> QED
    BY <2>1, <2>2 DEF Accounts
<1>3. CASE bplus_module_init \/ kmalloc_value
  BY <1>3 DEF bplus_module_init, kmalloc_value, MayFail, Succeeds, counts, report, Accounts
<1>4. CASE create_tree
  <2>1. failures' \in Nat
    BY <1>4, TreesCounted DEF create_tree, MayFail, Accounts
  <2> QED
    BY <1>4, <2>1 DEF create_tree, counts, report, Accounts
<1>5. CASE measured_call
  <2>1. failures' \in Nat
    BY <1>5 DEF measured_call, btree_insert, cbtree_insert, lookup, MayFail, Succeeds, Accounts
  <2>2. pc = "call" /\ UNCHANGED <<search_counts, beyond, printed, totaltime>>
    BY <1>5 DEF measured_call, counts, report
  <2> QED
    BY <2>1, <2>2 DEF Accounts
<1>6. CASE ktget_start \/ ktget_stop \/ ktput
  <2>1. /\ pc \in {"start", "stop", "put"}
        /\ UNCHANGED <<search_counts, beyond, printed, totaltime, failures>>
    BY <1>6 DEF ktget_start, ktget_stop, ktput, counts, report
  <2> QED
    BY <2>1 DEF Accounts
<1>7. CASE World \/ bplus_module_exit
  <2>1. /\ pc' = "print" => pc \in {"print", "loaded"}
        /\ pc' = "gone" => pc = "gone"
        /\ UNCHANGED <<search_counts, beyond, printed, totaltime, failures>>
    BY <1>7 DEF World, bplus_module_exit, counts, report
  <2> QED
    BY <1>7, <2>1 DEF Accounts, World, tick, migrate, Measures, bplus_module_exit
<1>8. CASE destroy_trees
  BY <1>8 DEF destroy_trees, counts, report, Accounts
<1>9. CASE UNCHANGED vars
  BY <1>9 DEF vars, counts, report, Accounts
<1> QED
  BY <1>1, <1>2, <1>3, <1>4, <1>5, <1>6, <1>7, <1>8, <1>9 DEF Next, Task

LEMMA CallsStep ==
  InLoop /\ InLoop' /\ Clocks /\ TimesInOrder /\ Accounts /\ CallsCounted /\ [Next]_vars
    => CallsCounted'
<1> SUFFICES ASSUME InLoop, InLoop', Clocks, TimesInOrder, Accounts, CallsCounted, [Next]_vars,
                    pc' \notin {"bug", "oops"}
             PROVE  /\ \A f \in Func : Count(f)' = Measured(f)'
                    /\ \A l \in 1 .. Len(printed') : printed'[l].count = Measured(Order[l])'
  BY DEF CallsCounted
<1>1. CASE ktput
  <2>1. ~ (Lap < 0) /\ Lap >= 0
    BY <1>1, LapForward
  <2>2. pc = "put" /\ printed' = printed /\ printed = <<>>
    BY <1>1 DEF ktput, report, Accounts
  <2>3. \A f \in Func : Count(f)' = Measured(f)'
    BY <1>1, <2>1, <2>2, ChargedOnce, MeasuredNext DEF CallsCounted
  <2> QED
    BY <2>2, <2>3
<1>2. CASE ~ ktput
  <2>1. CASE UNCHANGED vars
    BY <2>1, MeasuredKept, <1>2 DEF vars, report, CallsCounted, loop, Measured
  <2>2. CASE ~ UNCHANGED vars
    <3>1. /\ pc \notin {"bug", "oops"}
          /\ \A f \in Func : Measured(f)' = Measured(f) /\ Count(f)' = Count(f)
      BY <1>2, <2>2, CallsAside, MeasuredKept
    <3>2. \A f \in Func : Count(f)' = Measured(f)'
      BY <3>1 DEF CallsCounted
    <3>3. CASE ktprint
      <4>1. PICK f \in Func, line \in Line :
              f = Order[Len(printed) + 1] /\ printed' = Append(printed, line) /\ line.count = Count(f)
        BY <3>3, Printed
      <4>2. printed \in Seq(Line) /\ Len(printed) \in Nat /\ Len(printed) < 4
        BY <3>3 DEF ktprint, Order, Accounts
      <4>3. ASSUME NEW l \in 1 .. Len(printed') PROVE printed'[l].count = Measured(Order[l])'
        <5>1. Order[l] \in Func
          BY <4>1, <4>2 DEF Order, Func, Op, Tree
        <5>2. CASE l \in 1 .. Len(printed)
          BY <3>1, <4>1, <4>2, <5>1, <5>2 DEF CallsCounted
        <5>3. CASE l = Len(printed) + 1
          BY <3>1, <4>1, <4>2, <5>1, <5>3 DEF CallsCounted
        <5> QED
          BY <4>1, <4>2, <5>2, <5>3
      <4> QED
        BY <3>2, <4>3
    <3>4. CASE ~ ktprint
      <4>1. printed' = printed
        BY <3>4, <2>2 DEF Next, Task, bplus_module_init, create_tree, kmalloc_value, ktget_start,
           measured_call, ktget_stop, ktput, draw_key, destroy_trees, bplus_module_exit, World, report
      <4>2. \A l \in 1 .. Len(printed) : Order[l] \in Func
        <5>1. Len(printed) <= 4 /\ Len(printed) \in Nat
          BY DEF Accounts, Order
        <5> QED
          BY <5>1 DEF Order, Func, Op, Tree
      <4> QED
        BY <3>1, <3>2, <4>1, <4>2 DEF CallsCounted
    <3> QED
      BY <3>3, <3>4
  <2> QED
    BY <2>1, <2>2
<1> QED
  BY <1>1, <1>2

LEMMA CallsInit == Init => CallsCounted
<1> SUFFICES ASSUME Init PROVE CallsCounted
  OBVIOUS
<1>1. ASSUME NEW f \in Func PROVE Count(f) = 0 /\ Measured(f) = 0
  <2>1. Count(f) = 0
    BY SumsInit
  <2>2. pc = "init" /\ op = "insert" /\ tree = "btree" /\ i = 1
    BY DEF Init
  <2>3. Measured(f) = 0
    BY <2>2 DEF Measured
  <2> QED
    BY <2>1, <2>3
<1>2. printed = <<>>
  BY DEF Init
<1> QED
  BY <1>1, <1>2 DEF CallsCounted

(* Each call of a function is counted once, under its own name, whichever  *)
(* CPU the task has come to; and what is printed are those counts.         *)
THEOREM EveryCallCounted == Spec => []CallsCounted
BY InLoopInit, InLoopStep, ClocksInit, ClocksStep, AccountsInit, AccountsStep, TimesInit, TimesStep,
   CallsInit, CallsStep, PTL DEF Spec

-----------------------------------------------------------------------------
(* Searches: the counters of the keys and the clocks of the cached tree's  *)
(* lookups are two accounts of the same searches.                          *)

Drawn == Tally(search_counts, 0 .. (TREE_SIZE - 1)) + beyond
Underway == IF op = "insert" \/ pc \in {"draw", "loaded", "print", "gone"} THEN 0 ELSE 1

LEMMA KeysFinite == IsFiniteSet(0 .. (TREE_SIZE - 1))
<1>1. 0 \in Int /\ TREE_SIZE - 1 \in Int
  BY Parameters
<1> QED
  BY <1>1, FS_Interval

LEMMA DrawnNext ==
  ASSUME Accounts, Accounts', draw_key
  PROVE  Drawn' = Drawn + 1
<1> DEFINE K == 0 .. (TREE_SIZE - 1)
<1>1. PICK k \in 0 .. TREE_SIZE :
        /\ search_counts' = IF k < TREE_SIZE THEN [search_counts EXCEPT ![k] = @ + 1] ELSE search_counts
        /\ beyond' = IF k = TREE_SIZE THEN beyond + 1 ELSE beyond
  BY DEF draw_key, update_search_count
<1>2. search_counts \in [K -> Nat] /\ search_counts' \in [K -> Nat] /\ beyond \in Nat
  BY DEF Accounts
<1>3. Tally(search_counts, K) \in Nat /\ IsFiniteSet(K)
  BY <1>2, KeysFinite, FiniteUnits
<1>4. CASE k < TREE_SIZE
  <2>1. k \in K /\ beyond' = beyond /\ k # TREE_SIZE
    BY <1>1, <1>4, Parameters
  <2>2. search_counts'[k] = search_counts[k] + 1 /\ \A y \in K \ {k} : search_counts'[y] = search_counts[y]
    BY <1>1, <1>2, <1>4, <2>1
  <2>3. search_counts[k] \in Nat /\ search_counts[k] <= search_counts'[k] /\ search_counts'[k] \in Nat
    BY <1>2, <2>1, <2>2
  <2> HIDE DEF K
  <2>4. Tally(search_counts', K) = Tally(search_counts, K) + search_counts'[k] - search_counts[k]
    BY <1>2, <1>3, <2>1, <2>2, <2>3, TallyAdds
  <2>5. Tally(search_counts', K) = Tally(search_counts, K) + 1
    BY <1>3, <2>2, <2>3, <2>4
  <2> QED
    BY <1>2, <1>3, <2>1, <2>5 DEF Drawn, K
<1>5. CASE ~ (k < TREE_SIZE)
  <2>1. k = TREE_SIZE
    BY <1>5, Parameters
  <2>2. search_counts' = search_counts /\ beyond' = beyond + 1
    BY <1>1, <1>5, <2>1
  <2> QED
    BY <1>2, <1>3, <2>2 DEF Drawn
<1> QED
  BY <1>4, <1>5

LEMMA SearchesStep ==
  InLoop /\ InLoop' /\ Clocks /\ TimesInOrder /\ Accounts /\ Accounts' /\ SearchesAgree /\ [Next]_vars
    => SearchesAgree'
<1> SUFFICES ASSUME InLoop, InLoop', Clocks, TimesInOrder, Accounts, Accounts', SearchesAgree,
                    [Next]_vars
             PROVE  SearchesAgree'
  OBVIOUS
<1> DEFINE F == <<"lookup", "cbtree">>
<1>1. F \in Func /\ Count(F) \in Nat
  BY SumsAreNumbers DEF Func, Op, Tree
<1> HIDE DEF F
<1>2. Drawn = Count(F) + Underway
  BY DEF SearchesAgree, Drawn, Underway, F
<1>3. SUFFICES Drawn' = Count(F)' + Underway'
  BY DEF SearchesAgree, Drawn, Underway, F
<1>4. CASE draw_key
  <2>1. Drawn' = Drawn + 1
    BY <1>4, DrawnNext
  <2>2. Count(F)' = Count(F)
    BY <1>1, <1>4, SumsKept DEF draw_key, measuring
  <2>3. Underway = 0 /\ Underway' = 1
    BY <1>4 DEF draw_key, Underway, InLoop
  <2> QED
    BY <1>1, <1>2, <2>1, <2>2, <2>3
<1>5. CASE ktput
  <2>1. ~ (Lap < 0) /\ Lap >= 0
    BY <1>5, LapForward
  <2>2. Drawn' = Drawn
    BY <1>5 DEF ktput, counts, Drawn
  <2>3. Count(F)' = Count(F) + (IF F = <<op, tree>> THEN 1 ELSE 0)
    BY <1>1, <1>5, <2>1, ChargedOnce
  <2>4. Underway' = Underway - (IF F = <<op, tree>> THEN 1 ELSE 0)
    <3>1. pc = "put" /\ op \in {"insert", "lookup"} /\ tree \in {"btree", "cbtree"}
      BY <1>5 DEF ktput, InLoop, Op, Tree
    <3>2. CASE tree = "btree"
      BY <1>5, <2>1, <3>1, <3>2 DEF ktput, Onwards, Underway, F
    <3>3. CASE tree = "cbtree" /\ op = "insert"
      <4>1. op' = "insert" \/ pc' = "draw"
        BY <1>5, <2>1, <3>3 DEF ktput, Onwards, fill_tree
      <4> QED
        BY <3>3, <4>1 DEF Underway, F
    <3>4. CASE tree = "cbtree" /\ op = "lookup"
      <4>1. pc' \in {"draw", "loaded"}
        BY <1>5, <2>1, <3>4 DEF ktput, Onwards, find_tree
      <4> QED
        BY <3>1, <3>4, <4>1 DEF Underway, F
    <3> QED
      BY <3>1, <3>2, <3>3, <3>4
  <2> QED
    BY <1>1, <1>2, <2>2, <2>3, <2>4 DEF Underway
<1>6. CASE ~ draw_key /\ ~ ktput
  <2>1. UNCHANGED <<op, tree, i, clock>>
    BY <1>6, CallsAside
  <2>2. UNCHANGED <<search_counts, beyond>>
    BY <1>6 DEF Next, Task, bplus_module_init, create_tree, kmalloc_value, ktget_start,
       measured_call, ktget_stop, ktprint, destroy_trees, bplus_module_exit, World, counts, vars
  <2>3. Count(F)' = Count(F) /\ Drawn' = Drawn
    BY <1>1, <2>1, <2>2, SumsKept DEF Drawn
  <2>4. op = "insert" \/ (pc' \in {"draw", "loaded", "print", "gone"} <=> pc \in {"draw", "loaded", "print", "gone"})
    <3>1. CASE bplus_module_init \/ create_tree \/ kmalloc_value \/ ktget_start \/ ktget_stop
      BY <3>1 DEF bplus_module_init, create_tree, kmalloc_value, ktget_start, ktget_stop, InLoop
    <3>2. CASE measured_call
      BY <3>2 DEF measured_call, btree_insert, cbtree_insert, lookup
    <3>3. CASE ktprint \/ destroy_trees \/ bplus_module_exit
      BY <3>3 DEF ktprint, destroy_trees, bplus_module_exit
    <3>4. CASE World \/ UNCHANGED vars
      BY <3>4 DEF World, vars
    <3> QED
      BY <1>6, <3>1, <3>2, <3>3, <3>4 DEF Next, Task
  <2>5. Underway' = Underway
    BY <2>1, <2>4 DEF Underway
  <2> QED
    BY <1>2, <2>3, <2>5
<1> QED
  BY <1>4, <1>5, <1>6

(* What search_counts counts is what the clocks counted, but for the key   *)
(* that has no counter.                                                    *)
THEOREM AccountsOfSearchesAgree == Spec => []SearchesAgree
<1>1. Init => SearchesAgree
  <2> SUFFICES ASSUME Init PROVE SearchesAgree
    OBVIOUS
  <2>1. Count(<<"lookup", "cbtree">>) = 0
    BY SumsInit DEF Func, Op, Tree
  <2>2. Tally(search_counts, 0 .. (TREE_SIZE - 1)) = 0
    <3>1. search_counts \in [0 .. (TREE_SIZE - 1) -> Nat] /\ \A k \in 0 .. (TREE_SIZE - 1) : search_counts[k] = 0
      BY DEF Init
    <3> QED
      BY <3>1, TallyZero
  <2> QED
    BY <2>1, <2>2 DEF Init, SearchesAgree
<1> QED
  BY <1>1, InLoopInit, InLoopStep, ClocksInit, ClocksStep, AccountsInit, AccountsStep, TimesInit,
     TimesStep, SearchesStep, PTL DEF Spec

-----------------------------------------------------------------------------
(* The trees: how far each is filled, and what is missing without a        *)
(* failure having been counted.                                            *)

Filled(t) ==
  IF op = "lookup" THEN TREE_SIZE
  ELSE IF (t = "btree" /\ tree = "cbtree") \/ (t = tree /\ pc \in {"stop", "put"}) THEN i ELSE i - 1

(* Nothing is said of a tree that the task died over while it filled it.   *)
Contents ==
  /\ op = "insert" => key = i
  /\ pc # "gone" /\ ~ (op = "insert" /\ pc \in {"bug", "oops"}) =>
       /\ keys = 1 .. Filled("btree")
       /\ {p.k : p \in map} = 1 .. Filled("cbtree")
       /\ \A p \in map : p.v # NULL

Lacking ==
  /\ (pc = "create" \/ Measures) /\ ~ cachep => failures > 0
  /\ Measures => \A t \in Tree : ~ mempool[t] => failures > 0
  /\ queueless => failures > 0
  /\ op = "insert" /\ pc \in {"start", "call"} /\ val = NULL => failures > 0
  /\ DiesOfMemoryOrMark

(* The key that fill_tree inserts next is in neither tree.                 *)
LEMMA CachedInsertion ==
  ASSUME InLoop, Contents, pc = "call", cbtree_insert
  PROVE  \/ pc' = "stop" /\ val # NULL /\ map' = map \cup {[k |-> key, v |-> val]}
         \/ pc' = "bug" /\ val = NULL /\ failures' = failures
         \/ /\ pc' = "oops"
            /\ \/ failures' = failures + 1
               \/ failures' = failures /\ ~ (mempool["cbtree"] /\ cachep)
<1>1. key = i /\ {p.k : p \in map} = 1 .. (i - 1) /\ i \in Nat
  BY DEF Contents, Filled, InLoop, cbtree_insert
<1>2. Cached!At(key) = {}
  <2>1. ASSUME NEW p \in map, p.k = key PROVE FALSE
    <3>1. p.k \in 1 .. (i - 1)
      BY <1>1
    <3> QED
      BY <1>1, <2>1, <3>1
  <2> QED
    BY <2>1 DEF Cached!At
<1>3. CachedCall.op = "insert" /\ CachedCall.key = key /\ CachedCall.val = val
  BY DEF CachedCall, cbtree_insert
<1>4. ASSUME Cached!Insert(CachedCall), res'.status # "enomem"
      PROVE  \/ val # NULL /\ map' = map \cup {[k |-> key, v |-> val]} /\ res'.status = "ok"
             \/ val = NULL /\ res'.status = "bug"
  BY <1>2, <1>3, <1>4 DEF Cached!Insert, Cached!Answer
<1>5. PICK needed \in NodeOrNot(map) :
       \/ /\ val = NULL \/ (needed => mempool["cbtree"] /\ cachep)
          /\ Cached!Insert(CachedCall) /\ res'.status # "enomem"
          /\ pc' = IF res'.status = "bug" THEN "bug" ELSE "stop"
          /\ \/ Succeeds /\ queueless' = queueless
             \/ val # NULL /\ needed /\ MayFail(1) /\ queueless' = TRUE
       \/ /\ val # NULL /\ needed
          /\ \/ ~ (mempool["cbtree"] /\ cachep) /\ Succeeds
             \/ MayFail(1)
          /\ pc' = "oops" /\ UNCHANGED <<map, res, queueless>>
  BY DEF cbtree_insert
<1>6. CASE /\ Cached!Insert(CachedCall) /\ res'.status # "enomem"
           /\ pc' = IF res'.status = "bug" THEN "bug" ELSE "stop"
           /\ \/ Succeeds /\ queueless' = queueless
              \/ val # NULL /\ needed /\ MayFail(1) /\ queueless' = TRUE
  BY <1>4, <1>6 DEF Succeeds
<1>7. CASE /\ \/ ~ (mempool["cbtree"] /\ cachep) /\ Succeeds
              \/ MayFail(1)
           /\ pc' = "oops"
  BY <1>7 DEF Succeeds, MayFail
<1> QED
  BY <1>5, <1>6, <1>7

LEMMA LackingInit == Init => Lacking
BY DEF Init, Lacking, Measures, DiesOfMemoryOrMark

LEMMA LackingStep ==
  InLoop /\ Clocks /\ TimesInOrder /\ Accounts /\ Accounts' /\ Contents /\ Lacking /\ [Next]_vars
    => Lacking'
<1> SUFFICES ASSUME InLoop, Clocks, TimesInOrder, Accounts, Accounts', Contents, Lacking, [Next]_vars
             PROVE  Lacking'
  OBVIOUS
<1>1. failures \in Nat /\ failures' \in Nat
  BY DEF Accounts
<1> USE DEF Lacking, Measures, DiesOfMemoryOrMark
<1>2. CASE bplus_module_init
  BY <1>1, <1>2 DEF bplus_module_init, MayFail, Succeeds, trees
<1>3. CASE create_tree
  <2>1. PICK failed \in SUBSET Tree :
          mempool' = [t \in Tree |-> t \notin failed] /\ failures' = failures + Cardinality(failed)
    BY <1>3 DEF create_tree, MayFail
  <2>2. Cardinality(failed) \in Nat /\ (failed # {} => Cardinality(failed) > 0)
    BY TreesCounted, FS_EmptySet
  <2>3. ASSUME NEW t \in Tree, ~ mempool'[t] PROVE failures' > 0
    <3>1. t \in failed
      BY <2>1, <2>3
    <3>2. failed # {}
      BY <3>1
    <3> QED
      BY <1>1, <2>1, <2>2, <3>2
  <2>4. failures > 0 => failures' > 0
    BY <1>1, <2>1, <2>2
  <2> QED
    BY <1>3, <2>3, <2>4 DEF create_tree, trees, loop
<1>4. CASE kmalloc_value
  BY <1>1, <1>4, Parameters, NullAssumption DEF kmalloc_value, MayFail, Succeeds, trees, setup, loop, InLoop
<1>5. CASE ktget_start \/ ktget_stop \/ draw_key
  BY <1>1, <1>5 DEF ktget_start, ktget_stop, draw_key, trees, setup, loop, InLoop
<1>6. CASE measured_call
  <2>1. CASE btree_insert
    BY <1>1, <1>6, <2>1 DEF measured_call, btree_insert, setup, loop, InLoop, Tree
  <2>2. CASE cbtree_insert
    <3>1. pc = "call" /\ UNCHANGED <<op, val, cachep, mempool>> /\ op = "insert"
      BY <1>6, <2>2 DEF measured_call, cbtree_insert, setup, loop
    <3>2. failures' = failures \/ failures' = failures + 1
      BY <2>2 DEF cbtree_insert, Succeeds, MayFail
    <3>3. queueless' = queueless \/ failures' = failures + 1
      <4>1. \E needed \in NodeOrNot(map) :
              \/ queueless' = queueless
              \/ MayFail(1)
        BY <2>2 DEF cbtree_insert
      <4> QED
        BY <4>1 DEF MayFail
    <3>4. pc' \in {"stop", "bug", "oops"} /\ (pc' \in {"bug", "oops"} => failures' > 0)
      BY <1>1, <2>2, <3>1, CachedInsertion DEF Tree
    <3> QED
      BY <1>1, <3>1, <3>2, <3>3, <3>4
  <2>3. CASE lookup
    <3>1. MarkKills' <=> MarkKills
      BY <1>6 DEF measured_call, MarkKills, Overwrites, loop
    <3> QED
      BY <1>1, <1>6, <2>3, <3>1 DEF measured_call, lookup, setup, loop
  <2> QED
    BY <1>6, <2>1, <2>2, <2>3 DEF measured_call
<1>7. CASE ktput
  <2>1. ~ (Lap < 0) /\ pc = "put" /\ UNCHANGED <<queueless, cachep, mempool, val, failures>>
    BY <1>7, LapForward DEF ktput, trees, setup
  <2>2. CASE tree = "btree"
    <3>1. op' = op /\ pc' = IF op = "insert" THEN "value" ELSE "start"
      BY <1>7, <2>1, <2>2 DEF ktput, Onwards
    <3> QED
      BY <2>1, <3>1
  <2>3. CASE tree = "cbtree"
    <3>1. pc' \in {"value", "draw", "loaded"}
      BY <1>7, <2>1, <2>3 DEF ktput, Onwards, fill_tree, find_tree
    <3> QED
      BY <2>1, <3>1
  <2> QED
    BY <1>7, <2>1, <2>2, <2>3 DEF ktput, Onwards
<1>8. CASE ktprint \/ destroy_trees \/ bplus_module_exit
  BY <1>8 DEF ktprint, destroy_trees, bplus_module_exit, trees, setup, loop
<1>9. CASE World \/ UNCHANGED vars
  <2>1. MarkKills' <=> MarkKills
    BY <1>9 DEF World, vars, MarkKills, Overwrites, loop
  <2> QED
    BY <1>9, <2>1 DEF World, vars, trees, setup, loop
<1> QED
  BY <1>2, <1>3, <1>4, <1>5, <1>6, <1>7, <1>8, <1>9 DEF Next, Task

LEMMA ContentsInit == Init => Contents
<1> SUFFICES ASSUME Init PROVE Contents
  OBVIOUS
<1>1. 1 .. Filled("btree") = {} /\ 1 .. Filled("cbtree") = {}
  BY DEF Init, Filled
<1> QED
  BY <1>1 DEF Init, Contents

(* What the trees hold is a matter of how far they are filled.             *)
LEMMA ContentsKept ==
  ASSUME Contents, UNCHANGED <<keys, map>>,
         op' = "insert" => key' = i',
         pc' # "gone" /\ ~ (op' = "insert" /\ pc' \in {"bug", "oops"}) =>
           pc # "gone" /\ ~ (op = "insert" /\ pc \in {"bug", "oops"}),
         pc' # "gone" /\ ~ (op' = "insert" /\ pc' \in {"bug", "oops"}) =>
           \A t \in Tree : Filled(t)' = Filled(t)
  PROVE  Contents'
BY DEF Contents, Tree

LEMMA ContentsStep ==
  InLoop /\ InLoop' /\ Clocks /\ TimesInOrder /\ Contents /\ [Next]_vars => Contents'
<1> SUFFICES ASSUME InLoop, InLoop', Clocks, TimesInOrder, Contents, [Next]_vars PROVE Contents'
  OBVIOUS
<1>1. CASE bplus_module_init \/ create_tree \/ kmalloc_value \/ ktget_start
  <2>1. /\ UNCHANGED <<op, tree, i, key, keys, map>>
        /\ pc \in {"init", "create", "value", "start"} /\ pc' \in {"create", "value", "start", "call"}
    BY <1>1 DEF bplus_module_init, create_tree, kmalloc_value, ktget_start, loop, trees
  <2>2. \A t \in Tree : Filled(t)' = Filled(t)
    BY <2>1 DEF Filled
  <2> QED
    BY <2>1, <2>2, ContentsKept DEF Contents
<1>2. CASE ktget_stop \/ World \/ ktprint \/ bplus_module_exit \/ UNCHANGED vars
  <2>1. /\ UNCHANGED <<op, tree, i, key, keys, map>>
        /\ pc' = pc \/ (pc = "stop" /\ pc' = "put") \/ (pc = "loaded" /\ pc' = "print")
    BY <1>2 DEF ktget_stop, World, ktprint, bplus_module_exit, loop, trees, vars
  <2>2. \A t \in Tree : Filled(t)' = Filled(t)
    BY <2>1 DEF Filled
  <2> QED
    BY <2>1, <2>2, ContentsKept DEF Contents
<1>3. CASE measured_call
  <2>1. UNCHANGED <<op, tree, i, key, val>> /\ pc = "call"
    BY <1>3 DEF measured_call, loop
  <2>2. CASE btree_insert
    <3>1. op = "insert" /\ tree = "btree" /\ key = i /\ i \in Nat /\ i >= 1 /\ map' = map
      BY <2>1, <2>2 DEF btree_insert, Contents, InLoop
    <3>2. CASE pc' = "stop"
      <4>1. keys' = keys \cup {i}
        BY <2>2, <3>1, <3>2 DEF btree_insert
      <4>2. keys = 1 .. (i - 1) /\ {p.k : p \in map} = 1 .. Filled("cbtree") /\ \A p \in map : p.v # NULL
        BY <2>1, <3>1 DEF Contents, Filled
      <4>3. Filled("btree")' = i /\ Filled("cbtree")' = Filled("cbtree")
        BY <2>1, <3>1, <3>2 DEF Filled
      <4>4. keys' = 1 .. i
        BY <3>1, <4>1, <4>2
      <4> QED
        BY <2>1, <3>1, <4>2, <4>3, <4>4 DEF Contents
    <3>3. CASE pc' # "stop"
      <4>1. pc' \in {"bug", "oops"}
        BY <2>2, <3>3 DEF btree_insert
      <4> QED
        BY <2>1, <3>1, <4>1 DEF Contents
    <3> QED
      BY <3>2, <3>3
  <2>3. CASE cbtree_insert
    <3>1. op = "insert" /\ tree = "cbtree" /\ key = i /\ i \in Nat /\ i >= 1 /\ keys' = keys
      BY <2>1, <2>3 DEF cbtree_insert, Contents, InLoop
    <3>2. CASE pc' = "stop" /\ val # NULL /\ map' = map \cup {[k |-> key, v |-> val]}
      <4>1. /\ keys = 1 .. Filled("btree") /\ {p.k : p \in map} = 1 .. (i - 1)
            /\ \A p \in map : p.v # NULL
        BY <2>1, <3>1 DEF Contents, Filled
      <4>2. {p.k : p \in map'} = {p.k : p \in map} \cup {i}
        <5>1. ASSUME NEW p \in map' PROVE p.k \in {q.k : q \in map} \cup {i}
          BY <3>1, <3>2
        <5>2. ASSUME NEW p \in map PROVE p \in map'
          BY <3>2
        <5>3. [k |-> key, v |-> val] \in map' /\ [k |-> key, v |-> val].k = i
          BY <3>1, <3>2
        <5> QED
          BY <5>1, <5>2, <5>3
      <4>3. {p.k : p \in map'} = 1 .. i
        BY <3>1, <4>1, <4>2
      <4>4. \A p \in map' : p.v # NULL
        BY <3>2, <4>1
      <4>5. Filled("btree")' = Filled("btree") /\ Filled("cbtree")' = i
        BY <2>1, <3>1, <3>2 DEF Filled
      <4> QED
        BY <2>1, <3>1, <4>1, <4>3, <4>4, <4>5 DEF Contents
    <3>3. CASE pc' \in {"bug", "oops"}
      BY <2>1, <3>1, <3>3 DEF Contents
    <3> QED
      BY <2>1, <2>3, <3>2, <3>3, CachedInsertion
  <2>4. CASE lookup
    <3>1. op = "lookup" /\ keys' = keys /\ map' = map
      BY <2>4 DEF lookup, Cached!Lookup
    <3>2. \A t \in Tree : Filled(t)' = Filled(t)
      BY <2>1, <3>1 DEF Filled
    <3> QED
      BY <2>1, <3>1, <3>2, ContentsKept
  <2> QED
    BY <1>3, <2>2, <2>3, <2>4 DEF measured_call
<1>4. CASE ktput
  <2>1. ~ (Lap < 0) /\ pc = "put" /\ UNCHANGED <<keys, map>>
    BY <1>4, LapForward DEF ktput, trees
  <2>2. CASE tree = "btree"
    <3>1. tree' = "cbtree" /\ UNCHANGED <<op, i, key>> /\ pc' \in {"value", "start"}
      BY <1>4, <2>1, <2>2 DEF ktput, Onwards
    <3>2. \A t \in Tree : Filled(t)' = Filled(t)
      BY <2>1, <2>2, <3>1 DEF Filled, Tree
    <3> QED
      BY <2>1, <3>1, <3>2, ContentsKept DEF Contents
  <2>3. CASE tree = "cbtree" /\ op = "lookup"
    <3>1. tree' = "btree" /\ UNCHANGED <<op, key>> /\ pc' \in {"draw", "loaded"}
      BY <1>4, <2>1, <2>3 DEF ktput, Onwards, find_tree
    <3>2. \A t \in Tree : Filled(t)' = Filled(t)
      BY <2>3, <3>1 DEF Filled
    <3> QED
      BY <2>1, <2>3, <3>1, <3>2, ContentsKept
  <2>4. CASE tree = "cbtree" /\ op = "insert"
    <3>1. tree' = "btree" /\ fill_tree /\ i \in Nat /\ i <= TREE_SIZE
      BY <1>4, <2>1, <2>4 DEF ktput, Onwards, InLoop
    <3>2. \A t \in Tree : Filled(t) = i
      BY <2>1, <2>4 DEF Filled, Tree
    <3>3. CASE i < TREE_SIZE
      <4>1. pc' = "value" /\ op' = "insert" /\ i' = i + 1 /\ key' = i + 1
        BY <2>4, <3>1, <3>3 DEF fill_tree
      <4>2. \A t \in Tree : Filled(t)' = i
        BY <3>1, <4>1 DEF Filled, Tree
      <4> QED
        BY <2>1, <3>2, <4>1, <4>2, ContentsKept
    <3>4. CASE i = TREE_SIZE
      <4>1. pc' = "draw" /\ op' = "lookup"
        BY <3>1, <3>4, Parameters DEF fill_tree
      <4>2. \A t \in Tree : Filled(t)' = i
        BY <3>4, <4>1 DEF Filled
      <4> QED
        BY <2>1, <3>2, <4>1, <4>2, ContentsKept
    <3> QED
      BY <3>1, <3>3, <3>4, Parameters
  <2> QED
    BY <1>4, <2>1, <2>2, <2>3, <2>4 DEF InLoop, Tree, Op
<1>5. CASE draw_key
  <2>1. op = "lookup" /\ UNCHANGED <<op, keys, map>> /\ pc = "draw" /\ pc' = "start"
    BY <1>5 DEF draw_key, InLoop, trees
  <2>2. \A t \in Tree : Filled(t)' = Filled(t)
    BY <2>1 DEF Filled
  <2> QED
    BY <2>1, <2>2, ContentsKept
<1>6. CASE destroy_trees
  BY <1>6 DEF destroy_trees, Contents, InLoop, loop
<1> QED
  BY <1>1, <1>2, <1>3, <1>4, <1>5, <1>6 DEF Next, Task

-----------------------------------------------------------------------------
(* TreesAlike: whenever lookups are measured, both trees hold exactly the  *)
(* keys from 1 to TREE_SIZE, although the module looks at no failure.      *)
THEOREM LookupsSeeEqualTrees == Spec => []TreesAlike
<1>1. Init => InLoop /\ Clocks /\ TimesInOrder /\ Contents
  BY InLoopInit, ClocksInit, TimesInit, ContentsInit
<1>2. InLoop /\ Clocks /\ TimesInOrder /\ Contents /\ [Next]_vars
        => (InLoop /\ Clocks /\ TimesInOrder /\ Contents)'
  <2>1. InLoop /\ [Next]_vars => InLoop'
    BY InLoopStep
  <2>2. InLoop /\ Clocks /\ [Next]_vars => Clocks'
    BY ClocksStep
  <2> QED
    BY <2>1, <2>2, TimesStep, ContentsStep
<1>3. Contents => TreesAlike
  BY DEF Contents, TreesAlike, Filled
<1> QED
  BY <1>1, <1>2, <1>3, PTL DEF Spec

(* DiesOfMemoryOrMark: the task dies where an allocation has failed, or in *)
(* a lookup of the cached tree that overwrites a cache entry, of the long  *)
(* behind a leaf; neither of two readings of the clock nor of a key that   *)
(* is inserted twice.                                                      *)
THEOREM MemoryOrMarkKills == Spec => []DiesOfMemoryOrMark
<1> DEFINE IInv == InLoop /\ Clocks /\ TimesInOrder /\ Accounts /\ Contents /\ Lacking
<1>1. Init => IInv
  BY InLoopInit, ClocksInit, TimesInit, AccountsInit, ContentsInit, LackingInit
<1>2. IInv /\ [Next]_vars => IInv'
  <2>1. InLoop /\ [Next]_vars => InLoop'
    BY InLoopStep
  <2>2. InLoop /\ Clocks /\ [Next]_vars => Clocks'
    BY ClocksStep
  <2>3. IInv /\ [Next]_vars => Accounts'
    BY <2>1, AccountsStep
  <2> QED
    BY <2>1, <2>2, <2>3, TimesStep, ContentsStep, LackingStep
<1>3. IInv => DiesOfMemoryOrMark
  BY DEF Lacking
<1> QED
  BY <1>1, <1>2, <1>3, PTL DEF Spec

-----------------------------------------------------------------------------
(* The shares that ktprint shows.                                          *)

(* d is the longest of the first l times, or the 1 of an empty report.     *)
LongestIs(l, d) ==
  /\ \A j \in 1 .. l : printed[j].time <= d
  /\ d = 1 \/ \E j \in 1 .. l : printed[j].time = d

Shares ==
  /\ LongestIs(Len(printed), totaltime)
  /\ \A l \in 1 .. Len(printed) : \E d \in Nat \ {0} :
       LongestIs(l, d) /\ printed[l].share = Share(printed[l].time, d)

LEMMA Quotient ==
  ASSUME NEW w \in Nat, NEW x \in Nat, NEW b \in Nat, b >= 1, x <= b * w
  PROVE  x \div b \in 0 .. w
<1> DEFINE q == x \div b
<1>1. x \div b \in Int /\ x = b * (x \div b) + (x % b) /\ x % b \in 0 .. (b - 1)
  BY Z3
<1>2. q \in Int /\ b * q <= x /\ x < b * q + b
  <2>1. b * (x \div b) \in Int /\ x % b \in Int
    BY <1>1
  <2> QED
    BY <1>1, <2>1
<1> HIDE DEF q
<1>3. q >= 0
  <2>1. CASE q <= -1
    <3>1. b * q <= b * (-1)
      BY <1>2, <2>1
    <3> QED
      BY <1>2, <3>1
  <2> QED
    BY <1>2, <2>1
<1>4. q <= w
  <2>1. CASE q >= w + 1
    <3>1. b * q >= b * (w + 1)
      BY <1>2, <2>1
    <3> QED
      BY <1>2, <3>1
  <2> QED
    BY <1>2, <2>1
<1> QED
  BY <1>2, <1>3, <1>4 DEF q

LEMMA SharesInit == Init => Shares
BY DEF Init, Shares, LongestIs

LEMMA SharesStep == InLoop /\ Clocks /\ Accounts /\ Accounts' /\ Shares /\ [Next]_vars => Shares'
<1> SUFFICES ASSUME InLoop, Clocks, Accounts, Accounts', Shares, [Next]_vars PROVE Shares'
  OBVIOUS
<1>1. CASE ktprint
  <2> DEFINE n == Len(printed)
  <2>1. PICK f \in Func, line \in Line :
          /\ printed' = Append(printed, line)
          /\ line.time = Time(f)
          /\ line.share = Share(Time(f), totaltime')
          /\ totaltime' = (IF totaltime < Time(f) THEN Time(f) ELSE totaltime)
          /\ totaltime' \in Nat /\ totaltime' >= 1 /\ totaltime' >= Time(f)
    BY <1>1, Printed
  <2>2. /\ n \in Nat /\ Len(printed') = n + 1 /\ printed'[n + 1] = line
        /\ \A j \in 1 .. n : printed'[j] = printed[j] /\ printed[j] \in Line
    BY <2>1 DEF Accounts
  <2>3. LongestIs(n, totaltime) /\ totaltime \in Nat
    BY DEF Shares, Accounts
  <2> HIDE DEF n
  <2>4. /\ \A j \in 1 .. (n + 1) : printed'[j].time <= totaltime'
        /\ totaltime' = 1 \/ \E j \in 1 .. (n + 1) : printed'[j].time = totaltime'
    <3>1. ASSUME NEW j \in 1 .. n PROVE printed'[j].time <= totaltime'
      <4>1. printed[j].time \in Nat /\ printed[j].time <= totaltime
        BY <2>2, <2>3 DEF LongestIs, Line
      <4> QED
        BY <2>1, <2>2, <2>3, <4>1
    <3>2. printed'[n + 1].time = Time(f) /\ printed'[n + 1].time <= totaltime'
      BY <2>1, <2>2
    <3>3. \A j \in 1 .. (n + 1) : j \in 1 .. n \/ j = n + 1
      BY <2>2
    <3>4. \A j \in 1 .. (n + 1) : printed'[j].time <= totaltime'
      BY <3>1, <3>2, <3>3
    <3>5. CASE totaltime' = Time(f)
      <4>1. n + 1 \in 1 .. (n + 1) /\ printed'[n + 1].time = totaltime'
        BY <2>2, <3>2, <3>5
      <4> QED
        BY <3>4, <4>1
    <3>6. CASE totaltime' = totaltime
      <4>1. totaltime = 1 \/ \E j \in 1 .. n : printed[j].time = totaltime
        BY <2>3 DEF LongestIs
      <4>2. ASSUME NEW j \in 1 .. n, printed[j].time = totaltime
            PROVE  j \in 1 .. (n + 1) /\ printed'[j].time = totaltime'
        BY <2>2, <3>6, <4>2
      <4> QED
        BY <3>4, <3>6, <4>1, <4>2
    <3>7. totaltime' = Time(f) \/ totaltime' = totaltime
      BY <2>1
    <3> QED
      BY <3>5, <3>6, <3>7
  <2>5. ASSUME NEW l \in 1 .. n
        PROVE  \E d \in Nat \ {0} : /\ \A j \in 1 .. l : printed'[j].time <= d
                                    /\ d = 1 \/ \E j \in 1 .. l : printed'[j].time = d
                                    /\ printed'[l].share = Share(printed'[l].time, d)
    <3>1. PICK d \in Nat \ {0} : LongestIs(l, d) /\ printed[l].share = Share(printed[l].time, d)
      BY DEF Shares, n
    <3>2. \A j \in 1 .. l : j \in 1 .. n
      BY <2>2
    <3> QED
      BY <2>2, <3>1, <3>2 DEF LongestIs
  <2>6. printed'[n + 1].share = Share(printed'[n + 1].time, totaltime')
    BY <2>1, <2>2
  <2>7. totaltime' \in Nat \ {0}
    BY <2>1
  <2>8. \A l \in 1 .. (n + 1) : l \in 1 .. n \/ l = n + 1
    BY <2>2
  <2> QED
    BY <2>2, <2>4, <2>5, <2>6, <2>7, <2>8 DEF Shares, LongestIs
<1>2. CASE UNCHANGED <<printed, totaltime>>
  BY <1>2 DEF Shares, LongestIs
<1>3. ktprint \/ UNCHANGED <<printed, totaltime>>
  BY DEF Next, Task, bplus_module_init, create_tree, kmalloc_value, ktget_start, measured_call,
         ktget_stop, ktput, draw_key, destroy_trees, bplus_module_exit, World, vars, report
<1> QED
  BY <1>1, <1>2, <1>3

LEMMA SharesRight == Accounts /\ Shares => SharesOfLongest
<1> SUFFICES ASSUME Accounts, Shares, NEW l \in 1 .. Len(printed)
             PROVE  /\ printed[l].share \in 0 .. Whole
                    /\ Longest(l) > 0 => printed[l].share = Share(printed[l].time, Longest(l))
  BY DEF SharesOfLongest
<1> DEFINE times == {printed[j].time : j \in 1 .. l}
<1>1. PICK d \in Nat \ {0} : LongestIs(l, d) /\ printed[l].share = Share(printed[l].time, d)
  BY DEF Shares
<1>2. l \in Nat /\ l >= 1 /\ l \in 1 .. l /\ \A j \in 1 .. l : printed[j].time \in Nat
  <2>1. printed \in Seq(Line)
    BY DEF Accounts
  <2>2. l \in Nat /\ l >= 1 /\ \A j \in 1 .. l : j \in 1 .. Len(printed)
    BY <2>1
  <2>3. \A j \in 1 .. Len(printed) : printed[j] \in Line
    BY <2>1
  <2> QED
    BY <2>2, <2>3 DEF Line
<1>3. printed[l].time <= d
  BY <1>1, <1>2 DEF LongestIs
<1>4. printed[l].share \in 0 .. Whole
  <2>1. Whole \in Nat
    BY DEF Whole
  <2>2. /\ d \in Nat /\ d >= 1
        /\ printed[l].time * Whole \in Nat /\ printed[l].time * Whole <= d * Whole
    BY <1>2, <1>3, <2>1
  <2> DEFINE x == printed[l].time * Whole
  <2> HIDE DEF x
  <2>3. x \div d \in 0 .. Whole
    BY <2>1, <2>2, Quotient DEF x
  <2> QED
    BY <1>1, <2>3 DEF Share, x
<1>5. \A x \in times : x \in Nat /\ x <= d
  BY <1>1, <1>2 DEF LongestIs
<1>6. printed[l].time \in times
  BY <1>2
<1>7. d \in times \/ (d = 1 /\ \A x \in times : x = 0)
  <2>1. CASE \E j \in 1 .. l : printed[j].time = d
    BY <2>1
  <2>2. CASE d = 1 /\ d \notin times
    <3>1. ASSUME NEW x \in times PROVE x = 0
      <4>1. x # 1 /\ x \in Nat /\ x <= 1
        BY <1>5, <2>2
      <4> QED
        BY <4>1
    <3> QED
      BY <2>2, <3>1
  <2> QED
    BY <1>1, <2>1, <2>2 DEF LongestIs
<1>8. Longest(l) = Max(times)
  BY DEF Longest
<1> HIDE DEF times
<1>9. Max(times) \in times /\ \A y \in times : Max(times) >= y
  <2>1. CASE d \in times
    <3>1. \A y \in times : d >= y
      BY <1>5
    <3> QED
      BY <2>1, <3>1 DEF Max
  <2>2. CASE \A x \in times : x = 0
    <3>1. 0 \in times /\ \A y \in times : 0 >= y
      BY <1>6, <2>2
    <3> QED
      BY <3>1 DEF Max
  <2> QED
    BY <1>7, <2>1, <2>2
<1>10. Longest(l) > 0 => Longest(l) = d
  <2>1. CASE d \in times
    <3>1. Max(times) \in Nat /\ Max(times) >= d /\ Max(times) <= d
      BY <1>5, <1>9, <2>1
    <3> QED
      BY <1>8, <3>1
  <2>2. CASE \A x \in times : x = 0
    BY <1>8, <1>9, <2>2
  <2> QED
    BY <1>7, <2>1, <2>2
<1> QED
  BY <1>1, <1>4, <1>10

(* SharesOfLongest: each percentage printed lies between 0 and 100 and is  *)
(* that of the longest time among the lines up to its own.                 *)
THEOREM SharesAreOfLongest == Spec => []SharesOfLongest
<1> DEFINE IInv == InLoop /\ Clocks /\ Accounts /\ Shares
<1>1. Init => IInv
  BY InLoopInit, ClocksInit, AccountsInit, SharesInit
<1>2. IInv /\ [Next]_vars => IInv'
  <2>1. InLoop /\ [Next]_vars => InLoop'
    BY InLoopStep
  <2>2. InLoop /\ Clocks /\ [Next]_vars => Clocks'
    BY ClocksStep
  <2>3. IInv /\ [Next]_vars => Accounts'
    BY <2>1, AccountsStep
  <2> QED
    BY <2>1, <2>2, <2>3, SharesStep
<1>3. IInv => SharesOfLongest
  BY SharesRight
<1> QED
  BY <1>1, <1>2, <1>3, PTL DEF Spec

=============================================================================
