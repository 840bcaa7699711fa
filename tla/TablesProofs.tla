----------------------------- MODULE TablesProofs -----------------------------
(***************************************************************************)
(* Theorems about the split tables and their columns, for every node map.  *)
(***************************************************************************)
EXTENDS Tables, DataLemmas

(* Whoever makes the inner map of a class or stores in it is of the class. *)
Aligned ==
    /\ \A w \in writing : w[2] \in Goroutine => w[2][1] = w[1][1]
    /\ \A h \in Goroutine : \A g \in inner[h] : g[1] = h[1]

(* A goroutine has the names of the objects the server found for it.       *)
Answered ==
    \A g \in Goroutine :
        /\ pc[g] = "fetch" => Members(g) \intersect gone = {}
        /\ pc[g] \notin {"fetch", "failed"} =>
              answer[g] = {nodes[u].name : u \in {m \in Members(g) \ gone : nodes[m].prints}}

(* No write of the only goroutine of a class is lost.                      *)
Lone(g) == \A h \in Goroutine : h[1] = g[1] => h = g

LoneStored ==
    \A g \in Goroutine : Lone(g) =>
        /\ pc[g] = "inserting" => g[1] \in DOMAIN tables
        /\ pc[g] = "done" => Members(g) \subseteq gone \/ (g[1] \in DOMAIN tables /\ g \in inner[g])

(* The columns are chosen before anything is fetched or printed.           *)
ColumnsChosen ==
    /\ result = "waiting" => input.split
    /\ result \in {"waiting", "printed"} =>
          /\ columns.group = {k \in Kinds : ShowGroup(k)}
          /\ columns.namespace = IF input.split THEN {gk \in Classes : ShowNamespace(gk)}
                                 ELSE IF shouldShowNamespace THEN Classes ELSE {}

(* Printed are the tables of the goroutines, after the last has stored its.*)
OutputOfTables ==
    IF SplitPrinted
    THEN /\ \A g \in Goroutine : pc[g] = "done"
         /\ output = [k \in DOMAIN Order |-> [gk |-> Order[k], rows |-> TableOf(Order[k])]]
    ELSE output = <<>>

TablesInv == TypeOK /\ Aligned /\ Answered /\ LoneStored /\ ColumnsChosen /\ OutputOfTables

-----------------------------------------------------------------------------
(* What the operators of Tables return.                                    *)
LEMMA InputTypes ==
    ASSUME input \in Inputs
    PROVE  /\ IsFiniteSet(DOMAIN nodes)
           /\ \A u \in DOMAIN nodes :
                 /\ nodes[u].group \in Nat /\ nodes[u].kind \in Nat /\ nodes[u].ns \in Nat
                 /\ nodes[u].name \in Nat /\ nodes[u].depth \in Nat
                 /\ nodes[u].namespaced \in BOOLEAN /\ nodes[u].prints \in BOOLEAN
                 /\ nodes[u].kind # 0 => (nodes[u].ns # 0 <=> nodes[u].namespaced)
           /\ \A u, v \in DOMAIN nodes :
                 nodes[u].group = nodes[v].group /\ nodes[u].kind = nodes[v].kind =>
                    nodes[u].namespaced = nodes[v].namespaced
           /\ input.split \in BOOLEAN /\ input.maxDepth \in Nat
BY InputsAssumption DEF InputsAssumption, nodes

LEMMA GoroutineTypes ==
    ASSUME input \in Inputs, NEW g \in Goroutine
    PROVE  /\ g = <<g[1], g[2]>> /\ g[1] \in Classes /\ g[2] \in Nat /\ g # Outer
           /\ Members(g) \subseteq Selected
           /\ \A u \in Members(g) : nodes[u].kind # 0 /\ GK(u) = g[1] /\ nodes[u].ns = g[2]
           /\ \A h \in Goroutine : h # g => Members(g) \intersect Members(h) = {}
<1>1. PICK u \in Selected : nodes[u].kind # 0 /\ g = <<GK(u), nodes[u].ns>>
  BY DEF Goroutine, Slot
<1>2. g = <<g[1], g[2]>> /\ g[1] = GK(u) /\ g[2] \in Nat /\ g # Outer
  BY <1>1, InputTypes DEF Selected, Outer
<1>3. GK(u) \in Classes
  BY <1>1 DEF Classes, GK
<1>4. \A v \in Members(g) : nodes[v].kind # 0 /\ GK(v) = g[1] /\ nodes[v].ns = g[2]
  BY <1>1 DEF Members, Slot, GK
<1>5. Members(g) \subseteq Selected /\ \A h \in Goroutine : h # g => Members(g) \intersect Members(h) = {}
  BY DEF Members
<1> QED  BY <1>2, <1>3, <1>4, <1>5

LEMMA SameInput ==
    ASSUME UNCHANGED input
    PROVE  /\ Goroutine' = Goroutine /\ Selected' = Selected /\ nodes' = nodes
           /\ Classes' = Classes /\ Kinds' = Kinds
           /\ \A g : Members(g)' = Members(g) /\ (Lone(g)' <=> Lone(g))
           /\ \A k : ShowGroup(k)' <=> ShowGroup(k)
           /\ \A k : ShowNamespace(k)' <=> ShowNamespace(k)
           /\ shouldShowNamespace' <=> shouldShowNamespace
BY DEF Goroutine, Selected, nodes, Classes, Kinds, Members, Lone, Slot, GK, WithinDepth,
       ShowGroup, ShowNamespace, shouldShowNamespace

-----------------------------------------------------------------------------
(* The invariant holds, step by step.                                      *)
LEMMA TypeStep == TypeOK /\ [Next]_vars => TypeOK'
<1> SUFFICES ASSUME TypeOK, [Next]_vars
             PROVE  TypeOK'
  OBVIOUS
<1>1. UNCHANGED input
  BY DEF Next, Main, RootMissing, PrintTree, FanOut, WaitFails, PrintTables, Work, Fetch, FetchFails,
         Check, StartCreate, Create, StartInsert, Insert, Crash, vars
<1> USE <1>1, SameInput DEF TypeOK, goroutines, maps
<1>2. CASE RootMissing \/ WaitFails
  BY <1>2 DEF RootMissing, WaitFails
<1>3. CASE PrintTree
  BY <1>3 DEF PrintTree
<1>4. CASE FanOut
  BY <1>4 DEF FanOut
<1>5. CASE PrintTables
  BY <1>5 DEF PrintTables
<1>6. ASSUME NEW g \in Goroutine, Fetch(g)
      PROVE  TypeOK'
  <2>1. PICK missing \in SUBSET Members(g) :
          /\ gone' = gone \union missing
          /\ answer' = [answer EXCEPT ![g] =
                {nodes[u].name : u \in {m \in Members(g) \ missing : nodes[m].prints}}]
          /\ Goto(g, IF missing = Members(g) THEN "done" ELSE "check")
    BY <1>6 DEF Fetch
  <2>2. Members(g) \subseteq Selected /\ \A u \in Selected : nodes[u].name \in Nat
    BY GoroutineTypes, InputTypes DEF Selected
  <2>3. UNCHANGED <<input, maps, columns, output, result>>
    BY <1>6 DEF Fetch
  <2>4. {nodes[u].name : u \in {m \in Members(g) \ missing : nodes[m].prints}} \in SUBSET Nat
    BY <2>2
  <2> QED  BY <2>1, <2>2, <2>3, <2>4 DEF Goto
<1>7. ASSUME NEW g \in Goroutine, FetchFails(g) \/ Check(g)
      PROVE  TypeOK'
  BY <1>7 DEF FetchFails, Check, Goto
<1>8. ASSUME NEW g \in Goroutine, StartCreate(g)
      PROVE  TypeOK'
  BY <1>8 DEF StartCreate, Goto, StartWriting
<1>9. ASSUME NEW g \in Goroutine, Create(g)
      PROVE  TypeOK'
  <2>1. g[1] \in Classes
    BY GoroutineTypes
  <2> QED  BY <1>9, <2>1 DEF Create, Goto, StopWriting
<1>10. ASSUME NEW g \in Goroutine, StartInsert(g)
       PROVE  TypeOK'
  BY <1>10 DEF StartInsert, Goto, StartWriting
<1>11. ASSUME NEW g \in Goroutine, Insert(g)
       PROVE  TypeOK'
  BY <1>11 DEF Insert, Goto, StopWriting
<1>12. ASSUME NEW g \in Goroutine, Crash(g)
       PROVE  TypeOK'
  BY <1>12 DEF Crash
<1>13. CASE UNCHANGED vars
  BY <1>13 DEF vars
<1> QED  BY <1>2, <1>3, <1>4, <1>5, <1>6, <1>7, <1>8, <1>9, <1>10, <1>11, <1>12, <1>13
         DEF Next, Main, Work

LEMMA AlignedStep == TypeOK /\ Aligned /\ [Next]_vars => Aligned'
<1> SUFFICES ASSUME TypeOK, Aligned, [Next]_vars
             PROVE  Aligned'
  OBVIOUS
<1>1. UNCHANGED input
  BY DEF Next, Main, RootMissing, PrintTree, FanOut, WaitFails, PrintTables, Work, Fetch, FetchFails,
         Check, StartCreate, Create, StartInsert, Insert, Crash, vars
<1> USE <1>1, SameInput DEF TypeOK, Aligned
<1>2. ASSUME UNCHANGED <<writing, inner>>
      PROVE  Aligned'
  BY <1>2
<1>3. ASSUME NEW g \in Goroutine, StartCreate(g) \/ Create(g)
      PROVE  Aligned'
  BY <1>3, GoroutineTypes DEF StartCreate, Create, StartWriting, StopWriting
<1>4. ASSUME NEW g \in Goroutine, StartInsert(g)
      PROVE  Aligned'
  BY <1>4 DEF StartInsert, StartWriting
<1>5. ASSUME NEW g \in Goroutine, Insert(g)
      PROVE  Aligned'
  <2>1. PICK map \in Goroutine :
          /\ <<g, map>> \in writing
          /\ inner' = [inner EXCEPT ![map] = @ \union {g}] \/ UNCHANGED inner
          /\ writing' \subseteq writing
    BY <1>5 DEF Insert, StopWriting
  <2>2. map[1] = g[1]
    BY <2>1
  <2> QED  BY <2>1, <2>2
<1> QED  BY <1>2, <1>3, <1>4, <1>5
         DEF Next, Main, Work, RootMissing, PrintTree, FanOut, WaitFails, PrintTables, Fetch,
             FetchFails, Check, Crash, vars, maps, goroutines

LEMMA AnsweredStep == TypeOK /\ Answered /\ [Next]_vars => Answered'
<1> SUFFICES ASSUME TypeOK, Answered, [Next]_vars
             PROVE  Answered'
  OBVIOUS
<1>1. UNCHANGED input
  BY DEF Next, Main, RootMissing, PrintTree, FanOut, WaitFails, PrintTables, Work, Fetch, FetchFails,
         Check, StartCreate, Create, StartInsert, Insert, Crash, vars
<1>2. /\ Goroutine' = Goroutine /\ nodes' = nodes /\ \A g : Members(g)' = Members(g)
  BY <1>1, SameInput
<1> DEFINE Names(S) == {nodes[u].name : u \in {m \in S : nodes[m].prints}}
<1>3. ASSUME NEW g \in Goroutine, Fetch(g)
      PROVE  Answered'
  <2>1. PICK missing \in SUBSET Members(g) :
          /\ gone' = gone \union missing
          /\ answer' = [answer EXCEPT ![g] = Names(Members(g) \ missing)]
          /\ pc' = [pc EXCEPT ![g] = IF missing = Members(g) THEN "done" ELSE "check"]
    BY <1>3 DEF Fetch, Goto
  <2>2. Members(g) \intersect gone = {} /\ pc[g] = "fetch"
    BY <1>3 DEF Answered, Fetch, At
  <2>3. Members(g) \ gone' = Members(g) \ missing
    BY <2>1, <2>2
  <2>4. answer'[g] = Names(Members(g) \ gone') /\ pc'[g] # "fetch"
    BY <2>1, <2>3 DEF TypeOK
  <2>5. ASSUME NEW h \in Goroutine, h # g
        PROVE  /\ answer'[h] = answer[h] /\ pc'[h] = pc[h]
               /\ Members(h) \intersect gone' = Members(h) \intersect gone
               /\ Members(h) \ gone' = Members(h) \ gone
    <3>1. Members(h) \intersect missing = {}
      BY <2>1, <2>5, GoroutineTypes DEF TypeOK
    <3> QED  BY <2>1, <2>5, <3>1 DEF TypeOK
  <2>6. ASSUME NEW h \in Goroutine
        PROVE  /\ pc'[h] = "fetch" => Members(h) \intersect gone' = {}
               /\ pc'[h] \notin {"fetch", "failed"} => answer'[h] = Names(Members(h) \ gone')
    BY <2>4, <2>5 DEF Answered
  <2> QED  BY <1>2, <2>6 DEF Answered
<1>4. ASSUME UNCHANGED <<answer, gone>>,
             \A h \in Goroutine : \/ pc'[h] = pc[h]
                                  \/ pc'[h] = "failed"
                                  \/ pc[h] \notin {"fetch", "failed"} /\ pc'[h] # "fetch"
      PROVE  Answered'
  BY <1>2, <1>4 DEF Answered
<1>5. ASSUME NEW g \in Goroutine, FetchFails(g) \/ Check(g) \/ StartCreate(g) \/ Create(g)
                                  \/ StartInsert(g) \/ Insert(g)
      PROVE  Answered'
  BY <1>4, <1>5 DEF FetchFails, Check, StartCreate, Create, StartInsert, Insert, Goto, At, TypeOK
<1> QED  BY <1>3, <1>4, <1>5
         DEF Next, Main, Work, RootMissing, PrintTree, FanOut, WaitFails, PrintTables, Crash,
             vars, maps, goroutines

LEMMA LoneStep == TypeOK /\ Aligned /\ LoneStored /\ [Next]_vars => LoneStored'
<1> SUFFICES ASSUME TypeOK, Aligned, LoneStored, [Next]_vars
             PROVE  LoneStored'
  OBVIOUS
<1>1. UNCHANGED input
  BY DEF Next, Main, RootMissing, PrintTree, FanOut, WaitFails, PrintTables, Work, Fetch, FetchFails,
         Check, StartCreate, Create, StartInsert, Insert, Crash, vars
<1>2. Goroutine' = Goroutine /\ \A g : Members(g)' = Members(g) /\ (Lone(g)' <=> Lone(g))
  BY <1>1, SameInput
<1> DEFINE Stored(g) ==
             /\ pc[g] = "inserting" => g[1] \in DOMAIN tables
             /\ pc[g] = "done" =>
                   Members(g) \subseteq gone \/ (g[1] \in DOMAIN tables /\ g \in inner[g])
<1>3. ASSUME \A g \in Goroutine : Lone(g) /\ Stored(g) => Stored(g)'
      PROVE  LoneStored'
  BY <1>2, <1>3 DEF LoneStored
<1>4. ASSUME UNCHANGED <<pc, tables, inner, gone>>
      PROVE  LoneStored'
  BY <1>2, <1>3, <1>4
<1>5. ASSUME NEW g \in Goroutine, Fetch(g)
      PROVE  LoneStored'
  <2>1. PICK missing \in SUBSET Members(g) :
          /\ gone' = gone \union missing
          /\ pc' = [pc EXCEPT ![g] = IF missing = Members(g) THEN "done" ELSE "check"]
    BY <1>5 DEF Fetch, Goto
  <2>2. UNCHANGED <<tables, inner>>
    BY <1>5 DEF Fetch, maps
  <2> QED  BY <1>2, <1>3, <2>1, <2>2 DEF TypeOK
<1>6. ASSUME NEW g \in Goroutine, FetchFails(g) \/ Check(g) \/ StartCreate(g) \/ StartInsert(g)
      PROVE  LoneStored'
  <2>1. UNCHANGED <<tables, inner, gone>>
    BY <1>6 DEF FetchFails, Check, StartCreate, StartInsert, maps
  <2>2. \A h \in Goroutine : \/ pc'[h] = pc[h] \/ pc'[h] \notin {"inserting", "done"}
                             \/ pc'[h] = "inserting" /\ h[1] \in DOMAIN tables
    BY <1>6 DEF FetchFails, Check, StartCreate, StartInsert, Goto, TypeOK
  <2> QED  BY <1>2, <1>3, <2>1, <2>2
<1>7. ASSUME NEW g \in Goroutine, Create(g)
      PROVE  LoneStored'
  <2>1. UNCHANGED <<inner, gone>> /\ DOMAIN tables \subseteq DOMAIN tables'
    BY <1>7 DEF Create
  <2>2. \A h \in Goroutine : pc'[h] = pc[h] \/ pc'[h] \notin {"inserting", "done"}
    BY <1>7 DEF Create, Goto, TypeOK
  <2> QED  BY <1>2, <1>3, <2>1, <2>2
<1>8. ASSUME NEW g \in Goroutine, Insert(g)
      PROVE  LoneStored'
  <2>1. PICK map \in Goroutine :
          /\ <<g, map>> \in writing
          /\ \/ inner' = [inner EXCEPT ![map] = @ \union {g}]
             \/ Overlapping(g, map) /\ UNCHANGED inner
    BY <1>8 DEF Insert
  <2>2. UNCHANGED <<tables, gone>> /\ pc[g] = "inserting" /\ pc' = [pc EXCEPT ![g] = "done"]
    BY <1>8 DEF Insert, Goto, At
  <2>3. \A h \in Goroutine : inner[h] \subseteq inner'[h]
    BY <2>1 DEF TypeOK
  <2>4. ASSUME Lone(g), Stored(g)
        PROVE  g[1] \in DOMAIN tables /\ g \in inner'[g]
    <3>1. map = g
      BY <2>1, <2>4 DEF Lone, Aligned
    <3>2. ~Overlapping(g, map)
      <4>1. ASSUME NEW w \in writing, w[2] = map
            PROVE  w[1] = g
        <5>1. w[1] \in Goroutine /\ w[1][1] = map[1]
          BY <4>1 DEF Aligned, TypeOK
        <5> QED  BY <2>4, <3>1, <5>1 DEF Lone
      <4> QED  BY <4>1 DEF Overlapping
    <3> QED  BY <2>1, <2>2, <2>4, <3>1, <3>2 DEF TypeOK
  <2>5. \A h \in Goroutine : h # g => pc'[h] = pc[h]
    BY <2>2 DEF TypeOK
  <2>6. pc'[g] = "done"
    BY <2>2 DEF TypeOK
  <2> QED  BY <1>2, <1>3, <2>2, <2>3, <2>4, <2>5, <2>6
<1> QED  BY <1>4, <1>5, <1>6, <1>7, <1>8
         DEF Next, Main, Work, RootMissing, PrintTree, FanOut, WaitFails, PrintTables, Crash,
             vars, maps, goroutines

LEMMA ColumnsStep == ColumnsChosen /\ [Next]_vars => ColumnsChosen'
<1> SUFFICES ASSUME ColumnsChosen, [Next]_vars
             PROVE  ColumnsChosen'
  OBVIOUS
<1>1. UNCHANGED input
  BY DEF Next, Main, RootMissing, PrintTree, FanOut, WaitFails, PrintTables, Work, Fetch, FetchFails,
         Check, StartCreate, Create, StartInsert, Insert, Crash, vars
<1>2. /\ Kinds' = Kinds /\ Classes' = Classes /\ (shouldShowNamespace' <=> shouldShowNamespace)
      /\ \A k : ShowGroup(k)' <=> ShowGroup(k)
      /\ \A gk : ShowNamespace(gk)' <=> ShowNamespace(gk)
  BY <1>1, SameInput
<1>3. ASSUME UNCHANGED columns,
             \/ result' \in {result, "error", "crashed"}
             \/ result = "waiting" /\ result' = "printed"
      PROVE  ColumnsChosen'
  BY <1>1, <1>2, <1>3 DEF ColumnsChosen
<1>4. CASE PrintTree
  BY <1>1, <1>2, <1>4 DEF PrintTree, ColumnsChosen
<1>5. CASE FanOut
  BY <1>1, <1>2, <1>5 DEF FanOut, ColumnsChosen
<1>6. CASE RootMissing \/ WaitFails \/ PrintTables \/ UNCHANGED vars
  <2>1. /\ UNCHANGED columns
        /\ \/ result' \in {result, "error", "crashed"}
           \/ result = "waiting" /\ result' = "printed"
    BY <1>6 DEF RootMissing, WaitFails, PrintTables, Waited, vars
  <2> QED  BY <1>3, <2>1
<1>7. ASSUME NEW g \in Goroutine, Work(g)
      PROVE  ColumnsChosen'
  <2>1. UNCHANGED columns /\ result' \in {result, "error", "crashed"}
    BY <1>7 DEF Work, Crash, Fetch, FetchFails, Check, StartCreate, Create, StartInsert, Insert
  <2> QED  BY <1>3, <2>1
<1> QED  BY <1>4, <1>5, <1>6, <1>7 DEF Next, Main

LEMMA SameTables ==
    ASSUME UNCHANGED <<answer, tables, inner>>
    PROVE  Order' = Order /\ \A gk : TableOf(gk)' = TableOf(gk)
<1>1. \A g : RowsOf(g)' = RowsOf(g)
  BY DEF RowsOf, NamesOf
<1>2. \A gk : StoredByNamespace(gk)' = StoredByNamespace(gk)
  BY DEF StoredByNamespace
<1> QED  BY <1>1, <1>2 DEF TableOf, Order

LEMMA OutputStep == ColumnsChosen /\ OutputOfTables /\ [Next]_vars => OutputOfTables'
<1> SUFFICES ASSUME ColumnsChosen, OutputOfTables, [Next]_vars
             PROVE  OutputOfTables'
  OBVIOUS
<1>1. UNCHANGED input
  BY DEF Next, Main, RootMissing, PrintTree, FanOut, WaitFails, PrintTables, Work, Fetch, FetchFails,
         Check, StartCreate, Create, StartInsert, Insert, Crash, vars
<1>2. CASE PrintTables
  <2>1. /\ UNCHANGED <<input, pc, answer, tables, inner>>
        /\ output' = [k \in DOMAIN Order |-> [gk |-> Order[k], rows |-> TableOf(Order[k])]]
        /\ \A g \in Goroutine : pc[g] = "done"
    BY <1>2 DEF PrintTables, goroutines, maps
  <2>2. Goroutine' = Goroutine /\ SplitPrinted'
    BY <1>1, <1>2, SameInput DEF PrintTables, Waited, ColumnsChosen, SplitPrinted
  <2>3. Order' = Order /\ \A gk : TableOf(gk)' = TableOf(gk)
    BY <2>1, SameTables
  <2> QED  BY <2>1, <2>2, <2>3 DEF OutputOfTables
<1>3. CASE UNCHANGED vars
  <2>1. /\ UNCHANGED <<input, pc, answer, tables, inner, output>> /\ Goroutine' = Goroutine
        /\ SplitPrinted' = SplitPrinted
    BY <1>3, SameInput DEF vars, goroutines, maps, SplitPrinted
  <2>2. Order' = Order /\ \A gk : TableOf(gk)' = TableOf(gk)
    BY <2>1, SameTables
  <2> QED  BY <2>1, <2>2 DEF OutputOfTables
<1>4. ASSUME result \in {"running", "waiting"}, UNCHANGED output,
             result' = "printed" => ~input.split
      PROVE  OutputOfTables'
  BY <1>1, <1>4 DEF OutputOfTables, SplitPrinted
<1> QED  BY <1>2, <1>3, <1>4
         DEF Next, Main, Work, RootMissing, PrintTree, FanOut, WaitFails, Waited, Crash, Fetch,
             FetchFails, Check, StartCreate, Create, StartInsert, Insert, At

THEOREM TablesInvariant == Spec => []TablesInv
<1>1. Init => TablesInv
  BY DEF Init, TablesInv, TypeOK, Aligned, Answered, LoneStored, ColumnsChosen, OutputOfTables, SplitPrinted
<1>2. TablesInv /\ [Next]_vars => TablesInv'
  BY TypeStep, AlignedStep, AnsweredStep, LoneStep, ColumnsStep, OutputStep DEF TablesInv
<1> QED  BY <1>1, <1>2, PTL DEF Spec

(* Whatever overlaps, the maps hold tables of goroutines, each under its   *)
(* class.                                                                  *)
THEOREM TypeCorrect == Spec => []TypeOK
BY TablesInvariant, PTL DEF TablesInv

-----------------------------------------------------------------------------
LEMMA FiniteImage ==
    ASSUME NEW S, IsFiniteSet(S), NEW f, DOMAIN f = S
    PROVE  IsFiniteSet({f[x] : x \in S})
<1> DEFINE T == {f[x] : x \in S}
           g == [x \in S |-> f[x]]
<1>1. g \in Surjection(S, T)
  BY DEF Surjection
<1> HIDE DEF g, T
<1>2. IsFiniteSet(T)
  BY <1>1, FS_Surjection
<1> QED  BY <1>2 DEF T

LEMMA AtMostOne ==
    ASSUME NEW S, IsFiniteSet(S), ~(Cardinality(S) > 1), NEW a \in S, NEW b \in S
    PROVE  a = b
<1> SUFFICES ASSUME a # b
             PROVE  FALSE
  OBVIOUS
<1>1. IsFiniteSet(S \ {a}) /\ Cardinality(S \ {a}) = Cardinality(S) - 1
  BY FS_RemoveElement
<1>2. Cardinality(S) \in Nat /\ Cardinality(S \ {a}) \in Nat
  BY <1>1, FS_CardinalityType
<1>3. Cardinality(S \ {a}) = 0
  BY <1>1, <1>2
<1>4. S \ {a} = {}
  BY <1>1, <1>3, FS_EmptySet
<1> QED  BY <1>4

LEMMA FiniteSelected ==
    ASSUME input \in Inputs
    PROVE  IsFiniteSet(Selected) /\ IsFiniteSet(Goroutine)
<1>1. IsFiniteSet(Selected)
  BY InputTypes, FS_Subset DEF Selected
<1> DEFINE Kinded == {n \in Selected : nodes[n].kind # 0}
           slot == [u \in Kinded |-> Slot(u)]
<1>2. IsFiniteSet(Kinded)
  BY <1>1, FS_Subset
<1>3. DOMAIN slot = Kinded /\ Goroutine = {slot[u] : u \in Kinded}
  BY DEF Goroutine
<1> HIDE DEF slot, Kinded
<1>4. IsFiniteSet({slot[u] : u \in Kinded})
  BY <1>2, <1>3, FiniteImage
<1> QED  BY <1>1, <1>3, <1>4

(* The columns that are left out would have told no two shown objects      *)
(* apart: createShowGroupFn and createShowNamespaceFn lose nothing.        *)
THEOREM RowsAreDistinct == Spec => []RowsTellApart
<1>1. TablesInv => RowsTellApart
  <2> SUFFICES ASSUME TypeOK, ColumnsChosen, result = "printed",
                      NEW u \in Selected, NEW v \in Selected,
                      nodes[u].kind # 0, nodes[v].kind # 0, Look(u) = Look(v)
               PROVE  RowOf(u) = RowOf(v)
    BY DEF RowsTellApart, TablesInv
  <2> DEFINE k == nodes[u].kind
             OfKind == {n \in Selected : nodes[n].kind = k}
             Groups == {nodes[n].group : n \in OfKind}
             Namespaces == {nodes[n].ns : n \in Selected}
  <2>1. /\ nodes[v].kind = k /\ nodes[u].name = nodes[v].name
        /\ (IF k \in columns.group THEN nodes[u].group ELSE 0) =
              (IF k \in columns.group THEN nodes[v].group ELSE 0)
        /\ (IF GK(u) \in columns.namespace THEN nodes[u].ns ELSE 0) =
              (IF GK(v) \in columns.namespace THEN nodes[v].ns ELSE 0)
    BY DEF Look
  <2>2. IsFiniteSet(Groups) /\ IsFiniteSet(Namespaces)
    <3>1. IsFiniteSet(Selected) /\ IsFiniteSet(OfKind)
      BY FiniteSelected, FS_Subset DEF TypeOK
    <3> DEFINE group == [n \in OfKind |-> nodes[n].group]
               ns == [n \in Selected |-> nodes[n].ns]
    <3>2. /\ DOMAIN group = OfKind /\ Groups = {group[n] : n \in OfKind}
          /\ DOMAIN ns = Selected /\ Namespaces = {ns[n] : n \in Selected}
      OBVIOUS
    <3> HIDE DEF group, ns, OfKind, Groups, Namespaces
    <3>3. IsFiniteSet({group[n] : n \in OfKind}) /\ IsFiniteSet({ns[n] : n \in Selected})
      BY <3>1, <3>2, FiniteImage
    <3> QED  BY <3>2, <3>3
  <2>3. nodes[u].group = nodes[v].group
    <3>1. CASE k \in columns.group
      BY <2>1, <3>1
    <3>2. CASE k \notin columns.group
      <4>1. k \in Kinds
        BY DEF Kinds
      <4>2. ~ShowGroup(k)
        BY <3>2, <4>1 DEF ColumnsChosen
      <4>3. ~(Cardinality(Groups) > 1)
        BY <4>2 DEF ShowGroup
      <4>4. nodes[u].group \in Groups /\ nodes[v].group \in Groups
        BY <2>1
      <4> HIDE DEF Groups
      <4> QED  BY <2>2, <4>3, <4>4, AtMostOne
    <3> QED  BY <3>1, <3>2
  <2>4. GK(u) = GK(v)
    BY <2>1, <2>3 DEF GK
  <2>5. nodes[u].ns = nodes[v].ns
    <3>1. CASE GK(u) \in columns.namespace
      BY <2>1, <2>4, <3>1
    <3>2. CASE ~shouldShowNamespace
      <4>1. ~(Cardinality(Namespaces) > 1) /\ nodes[u].ns \in Namespaces /\ nodes[v].ns \in Namespaces
        BY <3>2 DEF shouldShowNamespace
      <4> HIDE DEF Namespaces
      <4> QED  BY <2>2, <4>1, AtMostOne
    <3>3. CASE GK(u) \notin columns.namespace /\ shouldShowNamespace
      <4>1. GK(u) \in Classes
        BY DEF Classes, GK
      <4>2. ~ShowNamespace(GK(u))
        BY <3>3, <4>1 DEF ColumnsChosen
      <4>3. PICK w \in Selected : GK(w) = GK(u) /\ ~nodes[w].namespaced
        BY <3>3, <4>2 DEF ShowNamespace
      <4>4. ~nodes[u].namespaced /\ ~nodes[v].namespaced
        <5>1. /\ nodes[w].group = nodes[u].group /\ nodes[w].kind = nodes[u].kind
              /\ nodes[w].group = nodes[v].group /\ nodes[w].kind = nodes[v].kind
              /\ {u, v, w} \subseteq DOMAIN nodes
          BY <2>4, <4>3 DEF GK, Selected
        <5> QED  BY <4>3, <5>1, InputTypes, Zenon DEF TypeOK
      <4> QED  BY <4>4, InputTypes DEF TypeOK, Selected
    <3> QED  BY <3>1, <3>2, <3>3
  <2> QED  BY <2>1, <2>4, <2>5 DEF RowOf
<1> QED  BY <1>1, TablesInvariant, PTL

-----------------------------------------------------------------------------
(* What a sort returns, if the pairs are a strict total order of the set.  *)
StrictOrder(S, less) ==
    /\ \A x, y, z \in S : <<x, y>> \in less /\ <<y, z>> \in less => <<x, z>> \in less
    /\ \A x, y \in S : x # y => <<x, y>> \in less \/ <<y, x>> \in less

LEMMA GreatestElement ==
    ASSUME NEW S, IsFiniteSet(S), S # {}, NEW less, StrictOrder(S, less)
    PROVE  \E m \in S : \A x \in S \ {m} : <<x, m>> \in less
<1> DEFINE Bounded(T) == \E m \in T : \A x \in T \ {m} : <<x, m>> \in less
           Good == {n \in Nat : \A T \in SUBSET S : Cardinality(T) = n + 1 => Bounded(T)}
<1>1. \A T \in SUBSET S : IsFiniteSet(T) /\ Cardinality(T) \in Nat
  BY FS_Subset, FS_CardinalityType
<1>2. 0 \in Good
  <2>1. ASSUME NEW T \in SUBSET S, Cardinality(T) = 1
        PROVE  Bounded(T)
    <3>1. PICK m \in T : TRUE
      BY <1>1, <2>1, FS_EmptySet
    <3>2. \A x \in T : x = m
      BY <1>1, <2>1, AtMostOne
    <3> QED  BY <3>1, <3>2
  <2> QED  BY <2>1
<1>3. ASSUME NEW n \in Good
      PROVE  n + 1 \in Good
  <2>1. ASSUME NEW T \in SUBSET S, Cardinality(T) = n + 2
        PROVE  Bounded(T)
    <3>1. PICK x \in T : TRUE
      BY <1>1, <2>1, FS_EmptySet
    <3>2. Cardinality(T \ {x}) = n + 1
      BY <1>1, <2>1, FS_RemoveElement
    <3>3. PICK m \in T \ {x} : \A y \in (T \ {x}) \ {m} : <<y, m>> \in less
      BY <3>2
    <3>4. CASE <<x, m>> \in less
      BY <3>3, <3>4
    <3>5. CASE <<m, x>> \in less
      BY <3>3, <3>5 DEF StrictOrder
    <3> QED  BY <3>3, <3>4, <3>5 DEF StrictOrder
  <2> HIDE DEF Bounded
  <2> QED  BY <2>1
<1>4. Good = Nat
  <2>1. Good \subseteq Nat
    OBVIOUS
  <2> HIDE DEF Good
  <2> QED  BY <1>2, <1>3, <2>1, SetInduction
<1>5. Cardinality(S) - 1 \in Nat
  BY <1>1, FS_EmptySet, FS_CardinalityType
<1>6. Bounded(S)
  <2>1. PICK n \in Nat : Cardinality(S) = n + 1
    <3>1. Cardinality(S) \in Nat /\ Cardinality(S) = (Cardinality(S) - 1) + 1
      BY <1>1
    <3> QED  BY <1>5, <3>1
  <2> HIDE DEF Bounded
  <2> QED  BY <1>4, <2>1
<1> QED  BY <1>6

LEMMA SortedSet ==
    ASSUME NEW S, IsFiniteSet(S), NEW less, StrictOrder(S, less)
    PROVE  Sorted(S, less) \in Seq(S) /\ Range(Sorted(S, less)) = S /\ InOrder(Sorted(S, less), less)
<1> DEFINE Sortable(T) == \E q \in [1 .. Cardinality(T) -> T] : Enumerates(q, T, less)
           Good == {n \in Nat : \A T \in SUBSET S : Cardinality(T) = n => Sortable(T)}
<1>1. \A T \in SUBSET S : IsFiniteSet(T) /\ Cardinality(T) \in Nat
  BY FS_Subset, FS_CardinalityType
<1>2. 0 \in Good
  <2>1. ASSUME NEW T \in SUBSET S, Cardinality(T) = 0
        PROVE  Sortable(T)
    <3>1. T = {}
      BY <1>1, <2>1, FS_EmptySet
    <3>2. <<>> \in [1 .. 0 -> {}] /\ Enumerates(<<>>, {}, less)
      BY DEF Enumerates
    <3> QED  BY <2>1, <3>1, <3>2
  <2> QED  BY <2>1
<1>3. ASSUME NEW n \in Good
      PROVE  n + 1 \in Good
  <2>1. ASSUME NEW T \in SUBSET S, Cardinality(T) = n + 1
        PROVE  Sortable(T)
    <3>1. T # {} /\ StrictOrder(T, less)
      <4>1. n + 1 # 0
        OBVIOUS
      <4>2. T # {}
        BY <2>1, <4>1, FS_EmptySet
      <4> QED  BY <4>2 DEF StrictOrder
    <3>2. PICK m \in T : \A x \in T \ {m} : <<x, m>> \in less
      BY <1>1, <3>1, GreatestElement
    <3>3. Cardinality(T \ {m}) = n
      BY <1>1, <2>1, FS_RemoveElement
    <3>4. PICK q \in [1 .. n -> T \ {m}] : Enumerates(q, T \ {m}, less)
      BY <3>3
    <3>5. PICK r : r = [i \in 1 .. n + 1 |-> IF i <= n THEN q[i] ELSE m]
      OBVIOUS
    <3>6. r \in [1 .. n + 1 -> T]
      BY <3>4, <3>5
    <3>7. T \subseteq Range(r)
      <4>1. \A i \in 1 .. n : i \in DOMAIN r /\ r[i] = q[i]
        BY <3>5
      <4>2. T \ {m} \subseteq Range(r)
        BY <3>4, <4>1 DEF Enumerates, Range
      <4>3. n + 1 \in DOMAIN r /\ r[n + 1] = m
        BY <3>5
      <4>4. m \in Range(r)
        BY <4>3 DEF Range
      <4> QED  BY <4>2, <4>4
    <3>8. ASSUME NEW i \in DOMAIN r, NEW j \in DOMAIN r, i < j
          PROVE  <<r[i], r[j]>> \in less
      <4>1. i \in 1 .. n /\ r[i] = q[i] /\ q[i] \in T \ {m}
        BY <3>4, <3>5, <3>8
      <4>2. CASE j = n + 1
        BY <3>2, <3>5, <4>1, <4>2
      <4>3. CASE j # n + 1
        <5>1. j \in 1 .. n /\ r[j] = q[j]
          BY <3>5, <4>3
        <5> QED  BY <3>4, <3>8, <4>1, <5>1 DEF Enumerates
      <4> QED  BY <4>2, <4>3
    <3> QED  BY <2>1, <3>6, <3>7, <3>8 DEF Enumerates
  <2> HIDE DEF Sortable
  <2> QED  BY <2>1
<1>4. Good = Nat
  <2>1. Good \subseteq Nat
    OBVIOUS
  <2> HIDE DEF Good
  <2> QED  BY <1>2, <1>3, <2>1, SetInduction
<1>5. Sortable(S)
  <2> HIDE DEF Sortable
  <2> QED  BY <1>1, <1>4
<1>6. Sorted(S, less) \in [1 .. Cardinality(S) -> S] /\ Enumerates(Sorted(S, less), S, less)
  BY <1>5 DEF Sorted
<1>7. PICK q : q = Sorted(S, less)
  OBVIOUS
<1>8. q \in [1 .. Cardinality(S) -> S] /\ Cardinality(S) \in Nat
  BY <1>1, <1>6, <1>7
<1>9. q \in Seq(S) /\ DOMAIN q = 1 .. Len(q)
  BY <1>8
<1> QED  BY <1>6, <1>7, <1>8, <1>9 DEF Enumerates, InOrder, Range

-----------------------------------------------------------------------------
(* The rows of a table are ordered by namespace and name, and all rows by  *)
(* class, namespace and name.                                              *)
Row == Nat \X Nat
Line == Classes \X Nat \X Nat

RowOrder == {p \in Row \X Row : p[1][1] < p[2][1] \/ (p[1][1] = p[2][1] /\ p[1][2] < p[2][2])}

LineOrder ==
    {p \in Line \X Line :
        \/ LessGroupKind(p[1][1], p[2][1])
        \/ p[1][1] = p[2][1] /\ p[1][2] < p[2][2]
        \/ p[1][1] = p[2][1] /\ p[1][2] = p[2][2] /\ p[1][3] < p[2][3]}

LEMMA RowsOfGoroutine ==
    ASSUME TablesInv, NEW g \in Goroutine, pc[g] = "done"
    PROVE  /\ RowsOf(g) \in Seq(Row)
           /\ InOrder(RowsOf(g), RowOrder)
           /\ \A x : x \in Range(RowsOf(g)) <=> \E name \in answer[g] : x = <<g[2], name>>
<1> DEFINE S == answer[g]
           less == {p \in S \X S : p[1] < p[2]}
           Asked == {m \in Members(g) \ gone : nodes[m].prints}
           name == [u \in Asked |-> nodes[u].name]
<1>1. S \subseteq Nat /\ g[2] \in Nat
  BY GoroutineTypes DEF TablesInv, TypeOK
<1>2. IsFiniteSet(S)
  <2>1. IsFiniteSet(Asked)
    <3>1. Asked \subseteq Selected /\ IsFiniteSet(Selected)
      BY GoroutineTypes, FiniteSelected DEF TablesInv, TypeOK
    <3> HIDE DEF Asked
    <3> QED  BY <3>1, FS_Subset
  <2>2. DOMAIN name = Asked /\ S = {name[u] : u \in Asked}
    BY DEF TablesInv, Answered
  <2> HIDE DEF name, Asked
  <2> QED  BY <2>1, <2>2, FiniteImage
<1>3. StrictOrder(S, less)
  BY <1>1 DEF StrictOrder
<1>4. NamesOf(g) = Sorted(S, less)
  BY DEF NamesOf
<1> HIDE DEF less, S
<1>5. PICK q : q = NamesOf(g)
  OBVIOUS
<1>6. q \in Seq(S) /\ Range(q) = S /\ InOrder(q, less)
  BY <1>2, <1>3, <1>4, <1>5, SortedSet
<1>7. DOMAIN q = 1 .. Len(q) /\ Len(q) \in Nat /\ \A k \in 1 .. Len(q) : q[k] \in Nat
  BY <1>1, <1>6, LenProperties, ElementOfSeq
<1>8. PICK r : r = RowsOf(g)
  OBVIOUS
<1>9. r = [k \in 1 .. Len(q) |-> <<g[2], q[k]>>]
  BY <1>5, <1>7, <1>8 DEF RowsOf
<1>10. r \in Seq(Row) /\ Len(r) = Len(q) /\ DOMAIN r = 1 .. Len(q)
  BY <1>1, <1>7, <1>9 DEF Row
<1>11. InOrder(r, RowOrder)
  <2>1. ASSUME NEW i \in 1 .. Len(q), NEW j \in 1 .. Len(q), i < j
        PROVE  <<r[i], r[j]>> \in RowOrder
    <3>1. q[i] < q[j]
      BY <1>6, <2>1 DEF InOrder, less
    <3>2. r[i] = <<g[2], q[i]>> /\ r[j] = <<g[2], q[j]>>
      BY <1>9
    <3> QED  BY <1>1, <1>7, <3>1, <3>2 DEF RowOrder, Row
  <2> QED  BY <1>10, <2>1 DEF InOrder
<1>12. \A x : x \in Range(r) <=> \E n \in S : x = <<g[2], n>>
  <2>1. S = {q[k] : k \in 1 .. Len(q)}
    BY <1>6, <1>7 DEF Range
  <2>2. Range(r) = {<<g[2], q[k]>> : k \in 1 .. Len(q)}
    BY <1>9 DEF Range
  <2> QED  BY <2>1, <2>2
<1> QED  BY <1>8, <1>10, <1>11, <1>12 DEF S

LEMMA RowsOfTable ==
    ASSUME TablesInv, \A g \in Goroutine : pc[g] = "done", NEW gk \in DOMAIN tables
    PROVE  /\ TableOf(gk) \in Seq(Row)
           /\ InOrder(TableOf(gk), RowOrder)
           /\ \A x : x \in Range(TableOf(gk)) <=>
                 \E g \in inner[tables[gk]] : \E name \in answer[g] : x = <<g[2], name>>
<1> DEFINE S == inner[tables[gk]]
           less == {p \in S \X S : p[1][2] < p[2][2]}
<1>1. S \subseteq Goroutine /\ \A g \in S : g = <<gk, g[2]>> /\ g[2] \in Nat
  BY GoroutineTypes DEF TablesInv, TypeOK, Aligned
<1>2. IsFiniteSet(S)
  <2> HIDE DEF S
  <2> QED  BY <1>1, FiniteSelected, FS_Subset DEF TablesInv, TypeOK
<1>3. StrictOrder(S, less)
  <2>1. \A x, y \in S : <<x, y>> \in less <=> x[2] < y[2]
    OBVIOUS
  <2>2. \A x, y \in S : x[2] = y[2] => x = y
    BY <1>1
  <2> HIDE DEF less, S
  <2> QED  BY <1>1, <2>1, <2>2 DEF StrictOrder
<1>4. PICK q : q = StoredByNamespace(gk)
  OBVIOUS
<1>5. q \in Seq(S) /\ Range(q) = S /\ InOrder(q, less)
  <2>1. q = Sorted(S, less)
    BY <1>4 DEF StoredByNamespace
  <2> HIDE DEF less, S
  <2> QED  BY <1>2, <1>3, <2>1, SortedSet
<1>6. PICK n \in Nat : n = Len(q) /\ DOMAIN q = 1 .. n /\ \A k \in 1 .. n : q[k] \in S
  BY <1>5, LenProperties, ElementOfSeq
<1>7. PICK seqs : seqs = [k \in 1 .. n |-> RowsOf(q[k])]
  OBVIOUS
<1>8. /\ \A k \in 1 .. n : /\ q[k] \in Goroutine
                           /\ seqs[k] = RowsOf(q[k])
                           /\ RowsOf(q[k]) \in Seq(Row)
                           /\ InOrder(RowsOf(q[k]), RowOrder)
                           /\ \A x : x \in Range(RowsOf(q[k])) <=>
                                 \E name \in answer[q[k]] : x = <<q[k][2], name>>
  BY <1>1, <1>6, <1>7, RowsOfGoroutine
<1>9. seqs \in Seq(Seq(Row)) /\ Len(seqs) = n
  BY <1>7, <1>8
<1>10. ASSUME NEW i \in 1 .. n, NEW j \in 1 .. n, i < j,
              NEW x \in Range(seqs[i]), NEW y \in Range(seqs[j])
       PROVE  <<x, y>> \in RowOrder
  <2>1. q[i][2] < q[j][2] /\ q[i][2] \in Nat /\ q[j][2] \in Nat
    BY <1>1, <1>5, <1>6, <1>10 DEF InOrder
  <2>2. PICK name \in answer[q[i]] : x = <<q[i][2], name>>
    BY <1>8
  <2>3. PICK other \in answer[q[j]] : y = <<q[j][2], other>>
    BY <1>8
  <2>4. name \in Nat /\ other \in Nat
    BY <1>8 DEF TablesInv, TypeOK
  <2> QED  BY <2>1, <2>2, <2>3, <2>4 DEF RowOrder, Row
<1>11. PICK t : t = FlattenSeq(seqs)
  OBVIOUS
<1>12. /\ t \in Seq(Row) /\ InOrder(t, RowOrder)
       /\ \A x : x \in Range(t) <=> \E i \in 1 .. n : x \in Range(seqs[i])
  <2>1. \A i \in 1 .. n : InOrder(seqs[i], RowOrder)
    BY <1>8
  <2> QED  BY <1>9, <1>10, <1>11, <2>1, FlattenProperties
<1>13. t = TableOf(gk)
  BY <1>4, <1>6, <1>7, <1>11 DEF TableOf
<1>14. \A x : (\E i \in 1 .. n : x \in Range(seqs[i])) <=>
          \E g \in S : \E name \in answer[g] : x = <<g[2], name>>
  <2>1. S = {q[k] : k \in 1 .. n}
    BY <1>5, <1>6 DEF Range
  <2> HIDE DEF S
  <2> QED  BY <1>8, <2>1
<1> QED  BY <1>12, <1>13, <1>14

LEMMA ClassesInOrder ==
    ASSUME TablesInv
    PROVE  /\ Order \in Seq(DOMAIN tables) /\ Range(Order) = DOMAIN tables
           /\ \A i, j \in 1 .. Len(Order) : i < j => LessGroupKind(Order[i], Order[j])
<1> DEFINE S == DOMAIN tables
           less == {p \in S \X S : LessGroupKind(p[1], p[2])}
<1>1. /\ S \subseteq Classes
      /\ \A c \in Classes : c = [group |-> c.group, kind |-> c.kind] /\ c.group \in Nat /\ c.kind \in Nat
  BY InputTypes DEF TablesInv, TypeOK, Classes, GK, Selected
<1>2. IsFiniteSet(S)
  <2> DEFINE class == [g \in Goroutine |-> g[1]]
             made == [c \in S |-> tables[c]]
  <2>1. IsFiniteSet({class[g] : g \in Goroutine})
    <3>1. DOMAIN class = Goroutine
      OBVIOUS
    <3> HIDE DEF class
    <3> QED  BY <3>1, FiniteSelected, FiniteImage DEF TablesInv, TypeOK
  <2>2. S \subseteq {class[g] : g \in Goroutine}
    BY DEF TablesInv, TypeOK
  <2> HIDE DEF class, S
  <2> QED  BY <2>1, <2>2, FS_Subset
<1>3. \A x, y \in S : <<x, y>> \in less <=> LessGroupKind(x, y)
  OBVIOUS
<1>4. StrictOrder(S, less)
  <2> HIDE DEF less, S
  <2>1. ASSUME NEW x \in S, NEW y \in S, x # y
        PROVE  <<x, y>> \in less \/ <<y, x>> \in less
    <3>1. x.group # y.group \/ x.kind # y.kind
      BY <1>1, <2>1
    <3>2. LessGroupKind(x, y) \/ LessGroupKind(y, x)
      BY <1>1, <3>1 DEF LessGroupKind
    <3> QED  BY <1>3, <3>2
  <2>2. ASSUME NEW x \in S, NEW y \in S, NEW z \in S, <<x, y>> \in less, <<y, z>> \in less
        PROVE  <<x, z>> \in less
    <3>1. LessGroupKind(x, y) /\ LessGroupKind(y, z)
      BY <1>3, <2>2
    <3>2. LessGroupKind(x, z)
      BY <1>1, <3>1 DEF LessGroupKind
    <3> QED  BY <1>3, <3>2
  <2> QED  BY <2>1, <2>2 DEF StrictOrder
<1>5. Order = Sorted(S, less)
  BY DEF Order
<1> HIDE DEF less, S
<1>6. PICK q : q = Order
  OBVIOUS
<1>7. q \in Seq(S) /\ Range(q) = S /\ InOrder(q, less)
  BY <1>2, <1>4, <1>5, <1>6, SortedSet
<1>8. \A k \in 1 .. Len(q) : q[k] \in S
  BY <1>7, ElementOfSeq
<1> QED  BY <1>3, <1>6, <1>7, <1>8 DEF InOrder, S

(* What is printed, if anything is.                                        *)
LEMMA PrintedRows ==
    ASSUME TablesInv
    PROVE  /\ AllRows \in Seq(Line)
           /\ InOrder(AllRows, LineOrder)
           /\ ~SplitPrinted => \A x : x \notin Range(AllRows)
           /\ SplitPrinted => \A x : x \in Range(AllRows) <=>
                 \E gk \in DOMAIN tables : \E g \in inner[tables[gk]] : \E name \in answer[g] :
                    x = <<gk, g[2], name>>
<1> DEFINE line(t, k) == <<output[t].gk, output[t].rows[k][1], output[t].rows[k][2]>>
           lines(t) == [k \in DOMAIN output[t].rows |-> line(t, k)]
           seqs == [t \in DOMAIN output |-> lines(t)]
<1>1. AllRows = FlattenSeq(seqs)
  BY Zenon DEF AllRows
<1>2. CASE ~SplitPrinted
  <2>1. output = <<>>
    BY <1>2 DEF TablesInv, OutputOfTables
  <2>2. seqs \in Seq(Seq(Line)) /\ Len(seqs) = 0
    BY <2>1
  <2> HIDE DEF seqs
  <2>3. /\ AllRows \in Seq(Line) /\ InOrder(AllRows, LineOrder)
        /\ \A x : x \in Range(AllRows) <=> \E i \in 1 .. Len(seqs) : x \in Range(seqs[i])
    <3>1. \A i : i \notin 1 .. Len(seqs)
      BY <2>2
    <3> QED  BY <1>1, <2>2, <3>1, FlattenProperties
  <2> QED  BY <1>2, <2>2, <2>3
<1>3. CASE SplitPrinted
  <2>1. /\ \A g \in Goroutine : pc[g] = "done"
        /\ output = [k \in DOMAIN Order |-> [gk |-> Order[k], rows |-> TableOf(Order[k])]]
    BY <1>3 DEF TablesInv, OutputOfTables
  <2>2. PICK n \in Nat : n = Len(Order) /\ DOMAIN Order = 1 .. n
    BY ClassesInOrder, LenProperties
  <2>3. \A t \in 1 .. n : Order[t] \in DOMAIN tables /\ Order[t] \in Classes
    BY <2>2, ClassesInOrder, ElementOfSeq DEF TablesInv, TypeOK
  <2>4. /\ DOMAIN output = 1 .. n
        /\ \A t \in 1 .. n : output[t].gk = Order[t] /\ output[t].rows = TableOf(Order[t])
    BY <2>1, <2>2
  <2>5. \A t \in 1 .. n :
          /\ TableOf(Order[t]) \in Seq(Row)
          /\ InOrder(TableOf(Order[t]), RowOrder)
          /\ \A x : x \in Range(TableOf(Order[t])) <=>
                \E g \in inner[tables[Order[t]]] : \E name \in answer[g] : x = <<g[2], name>>
    BY <2>1, <2>3, RowsOfTable
  <2>6. ASSUME NEW t \in 1 .. n
        PROVE  /\ lines(t) \in Seq(Line)
               /\ InOrder(lines(t), LineOrder)
               /\ \A x : x \in Range(lines(t)) <=>
                     \E r \in Range(TableOf(Order[t])) : x = <<Order[t], r[1], r[2]>>
    <3>1. PICK rows \in Seq(Row) : rows = TableOf(Order[t])
      BY <2>5
    <3>2. PICK m \in Nat : m = Len(rows) /\ DOMAIN rows = 1 .. m /\ \A k \in 1 .. m : rows[k] \in Row
      BY LenProperties, ElementOfSeq
    <3>3. PICK l : l = lines(t)
      OBVIOUS
    <3>4. l = [k \in 1 .. m |-> <<Order[t], rows[k][1], rows[k][2]>>]
      BY <2>4, <3>1, <3>2, <3>3, Zenon
    <3>5. l \in Seq(Line) /\ Len(l) = m /\ DOMAIN l = 1 .. m
      BY <2>3, <3>2, <3>4 DEF Line, Row
    <3>6. ASSUME NEW i \in 1 .. m, NEW j \in 1 .. m, i < j
          PROVE  <<l[i], l[j]>> \in LineOrder
      <4>1. <<rows[i], rows[j]>> \in RowOrder
        BY <2>5, <3>1, <3>2, <3>6 DEF InOrder
      <4>2. rows[i][1] < rows[j][1] \/ (rows[i][1] = rows[j][1] /\ rows[i][2] < rows[j][2])
        BY <4>1 DEF RowOrder
      <4>3. l[i] \in Line /\ l[j] \in Line
        BY <2>3, <3>2, <3>4 DEF Line, Row
      <4>4. /\ l[i][1] = Order[t] /\ l[i][2] = rows[i][1] /\ l[i][3] = rows[i][2]
            /\ l[j][1] = Order[t] /\ l[j][2] = rows[j][1] /\ l[j][3] = rows[j][2]
        BY <3>4
      <4> QED  BY <4>2, <4>3, <4>4 DEF LineOrder
    <3>7. \A x : x \in Range(l) <=> \E r \in Range(rows) : x = <<Order[t], r[1], r[2]>>
      BY <3>2, <3>4 DEF Range
    <3> QED  BY <3>1, <3>3, <3>5, <3>6, <3>7 DEF InOrder
  <2>7. DOMAIN seqs = 1 .. n /\ \A t \in 1 .. n : seqs[t] = lines(t)
    BY <2>4
  <2>8. seqs \in Seq(Seq(Line)) /\ Len(seqs) = n
    <3>1. seqs = [t \in 1 .. n |-> lines(t)]
      BY <2>4, Zenon
    <3> HIDE DEF seqs, lines
    <3> QED  BY <2>6, <3>1
  <2> HIDE DEF seqs, lines
  <2>9. ASSUME NEW i \in 1 .. n, NEW j \in 1 .. n, i < j,
               NEW x \in Range(seqs[i]), NEW y \in Range(seqs[j])
        PROVE  <<x, y>> \in LineOrder
    <3>1. LessGroupKind(Order[i], Order[j])
      BY <2>2, <2>9, ClassesInOrder
    <3>2. PICK r \in Range(TableOf(Order[i])) : x = <<Order[i], r[1], r[2]>>
      BY <2>6, <2>7
    <3>3. PICK s \in Range(TableOf(Order[j])) : y = <<Order[j], s[1], s[2]>>
      BY <2>6, <2>7
    <3>4. r \in Row /\ s \in Row
      BY <2>5, RangeOfSequence
    <3> QED  BY <2>3, <3>1, <3>2, <3>3, <3>4 DEF LineOrder, Line, Row
  <2>10. /\ AllRows \in Seq(Line) /\ InOrder(AllRows, LineOrder)
         /\ \A x : x \in Range(AllRows) <=> \E i \in 1 .. n : x \in Range(seqs[i])
    <3>1. \A i \in 1 .. n : InOrder(seqs[i], LineOrder)
      BY <2>6, <2>7
    <3> QED  BY <1>1, <2>8, <2>9, <3>1, FlattenProperties
  <2>11. ASSUME NEW x
         PROVE  (\E i \in 1 .. n : x \in Range(seqs[i])) <=>
                \E gk \in DOMAIN tables : \E g \in inner[tables[gk]] : \E name \in answer[g] :
                   x = <<gk, g[2], name>>
    <3>1. DOMAIN tables = {Order[t] : t \in 1 .. n}
      BY <2>2, ClassesInOrder DEF Range
    <3>2. ASSUME NEW t \in 1 .. n
          PROVE  x \in Range(seqs[t]) <=>
                 \E g \in inner[tables[Order[t]]] : \E name \in answer[g] : x = <<Order[t], g[2], name>>
      <4>1. x \in Range(seqs[t]) <=> \E r \in Range(TableOf(Order[t])) : x = <<Order[t], r[1], r[2]>>
        BY <2>6, <2>7
      <4>2. \A r : r \in Range(TableOf(Order[t])) <=>
               \E g \in inner[tables[Order[t]]] : \E name \in answer[g] : r = <<g[2], name>>
        BY <2>5
      <4>3. \A g \in inner[tables[Order[t]]] : \A name \in answer[g] :
               <<g[2], name>>[1] = g[2] /\ <<g[2], name>>[2] = name
        OBVIOUS
      <4>4. ASSUME NEW g \in inner[tables[Order[t]]], NEW name \in answer[g], x = <<Order[t], g[2], name>>
            PROVE  \E r \in Range(TableOf(Order[t])) : x = <<Order[t], r[1], r[2]>>
        <5>1. <<g[2], name>> \in Range(TableOf(Order[t]))
          BY <4>2
        <5> QED  BY <4>3, <4>4, <5>1
      <4>5. ASSUME NEW r \in Range(TableOf(Order[t])), x = <<Order[t], r[1], r[2]>>
            PROVE  \E g \in inner[tables[Order[t]]] : \E name \in answer[g] :
                      x = <<Order[t], g[2], name>>
        <5>1. PICK g \in inner[tables[Order[t]]] : \E name \in answer[g] : r = <<g[2], name>>
          BY <4>2
        <5>2. PICK name \in answer[g] : r = <<g[2], name>>
          BY <5>1
        <5> QED  BY <4>5, <5>2
      <4> QED  BY <4>1, <4>4, <4>5
    <3> QED  BY <3>1, <3>2
  <2> QED  BY <1>3, <2>10, <2>11
<1> QED  BY <1>2, <1>3

(* Rows come out by class, namespace and name whatever the order in which  *)
(* the goroutines got and stored theirs, none twice, and each is that of   *)
(* an object that was asked for and found.                                 *)
THEOREM RowsInOrder == Spec => []TablesInOrder
<1>1. TablesInv => TablesInOrder
  <2> SUFFICES ASSUME TablesInv
               PROVE  TablesInOrder
    OBVIOUS
  <2>1. PICK rows \in Seq(Line) : rows = AllRows
    BY PrintedRows
  <2>2. DOMAIN rows = 1 .. Len(rows)
    BY LenProperties
  <2>3. ASSUME NEW i \in DOMAIN rows, NEW j \in DOMAIN rows, i < j
        PROVE  \/ LessGroupKind(rows[i][1], rows[j][1])
               \/ rows[i][1] = rows[j][1] /\ rows[i][2] < rows[j][2]
               \/ rows[i][1] = rows[j][1] /\ rows[i][2] = rows[j][2] /\ rows[i][3] < rows[j][3]
    <3>1. <<rows[i], rows[j]>> \in LineOrder
      BY <2>1, <2>2, <2>3, PrintedRows DEF InOrder
    <3> QED  BY <3>1 DEF LineOrder
  <2>4. ASSUME NEW k \in DOMAIN rows
        PROVE  \E u \in Found : rows[k] = RowOf(u)
    <3>1. rows[k] \in Range(rows)
      BY DEF Range
    <3>2. SplitPrinted
      BY <2>1, <3>1, PrintedRows
    <3>3. PICK gk \in DOMAIN tables : \E g \in inner[tables[gk]] : \E name \in answer[g] :
             rows[k] = <<gk, g[2], name>>
      BY <2>1, <3>1, <3>2, PrintedRows
    <3>4. PICK g \in inner[tables[gk]] : \E name \in answer[g] : rows[k] = <<gk, g[2], name>>
      BY <3>3
    <3>5. g \in Goroutine /\ g[1] = gk /\ pc[g] = "done"
      BY <3>2 DEF TablesInv, TypeOK, Aligned, OutputOfTables
    <3>6. PICK u \in Members(g) \ gone : nodes[u].prints /\ rows[k] = <<gk, g[2], nodes[u].name>>
      BY <3>4, <3>5 DEF TablesInv, Answered
    <3>7. nodes[u].kind # 0 /\ GK(u) = gk /\ nodes[u].ns = g[2] /\ u \in Selected
      BY <3>5, GoroutineTypes DEF TablesInv, TypeOK
    <3> QED  BY <3>6, <3>7 DEF Found, RowOf, Selected, WithinDepth
  <2> QED  BY <2>1, <2>3, <2>4, Zenon DEF TablesInOrder
<1> QED  BY <1>1, TablesInvariant, PTL

(* The objects of a class that is all in one namespace are all shown,      *)
(* however the goroutines of other classes overlap with the one that       *)
(* fetches them: a write that is lost ends the program.                    *)
THEOREM LoneClassShown == Spec => []LoneClassWhole
<1>1. TablesInv => LoneClassWhole
  <2> SUFFICES ASSUME TablesInv, SplitPrinted, NEW u \in Found,
                      \A v \in DOMAIN nodes : GK(v) = GK(u) => nodes[v].ns = nodes[u].ns
               PROVE  \E k \in DOMAIN AllRows : AllRows[k] = RowOf(u)
    BY DEF LoneClassWhole
  <2> DEFINE g == Slot(u)
  <2>1. u \in Selected /\ u \notin gone /\ nodes[u].kind # 0 /\ nodes[u].prints
    BY DEF Found, Selected, WithinDepth
  <2>2. g \in Goroutine /\ u \in Members(g) /\ g[1] = GK(u) /\ g[2] = nodes[u].ns
    BY <2>1 DEF Goroutine, Members, Slot
  <2>3. Lone(g)
    <3>1. ASSUME NEW h \in Goroutine, h[1] = g[1]
          PROVE  h = g
      <4>1. PICK v \in Selected : h = Slot(v)
        BY DEF Goroutine
      <4>2. GK(v) = GK(u) /\ v \in DOMAIN nodes
        BY <2>2, <3>1, <4>1 DEF Slot, Selected
      <4> QED  BY <4>1, <4>2 DEF Slot
    <3> QED  BY <3>1 DEF Lone
  <2> HIDE DEF g
  <2>4. pc[g] = "done"
    BY <2>2 DEF TablesInv, OutputOfTables
  <2>5. GK(u) \in DOMAIN tables /\ g \in inner[g]
    BY <2>1, <2>2, <2>3, <2>4 DEF TablesInv, LoneStored
  <2>6. tables[GK(u)] = g
    BY <2>2, <2>3, <2>5 DEF TablesInv, TypeOK, Lone
  <2>7. nodes[u].name \in answer[g]
    BY <2>1, <2>2, <2>4 DEF TablesInv, Answered
  <2>8. RowOf(u) = <<GK(u), g[2], nodes[u].name>>
    BY <2>2 DEF RowOf
  <2>9. RowOf(u) \in Range(AllRows)
    BY <2>5, <2>6, <2>7, <2>8, PrintedRows
  <2> QED  BY <2>9 DEF Range
<1> QED  BY <1>1, TablesInvariant, PTL

=============================================================================
