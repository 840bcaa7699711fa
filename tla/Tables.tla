------------------------------- MODULE Tables -------------------------------
(***************************************************************************)
(* tablePrinter (internal/printers/printers.go): which columns a tree      *)
(* gets, and the split output, one table for every group and kind.  For    *)
(* the latter, a goroutine per group, kind and namespace asks the server   *)
(* for a table of the objects by their names (GetTable) and stores it in a *)
(* map of maps that all of them share and no lock protects.                *)
(*                                                                         *)
(* Go's maps are no atomic variables.  A write takes time; another access  *)
(* of the same map meanwhile may be noticed, which ends the program, or    *)
(* not, and then a write that ends before another may be lost (one is      *)
(* kept).  What needs no overlap: two goroutines of one group and kind may *)
(* both find its inner map missing, and make one each.                     *)
(***************************************************************************)
EXTENDS Naturals, Sequences, FiniteSets, Functions, SequencesExt

CONSTANTS
    Uid,
    Inputs       \* what Print may be given

(* A node map: every node's group, kind, namespace and name, numbered in   *)
(* the order of the strings (0 is the empty one), its depth, whether its   *)
(* class is namespaced, and whether the server prints tables of its class. *)
(* Only the release node has no kind.  A group and kind is namespaced for  *)
(* all of its objects or for none.                                         *)
ASSUME InputsAssumption ==
    \A i \in Inputs :
        /\ DOMAIN i.nodes \subseteq Uid /\ IsFiniteSet(DOMAIN i.nodes)
        /\ \A u \in DOMAIN i.nodes :
              LET n == i.nodes[u] IN
              /\ {n.group, n.kind, n.ns, n.name, n.depth} \subseteq Nat
              /\ {n.namespaced, n.prints} \subseteq BOOLEAN
              /\ n.kind # 0 => (n.ns # 0 <=> n.namespaced)
              /\ \A v \in DOMAIN i.nodes :
                    LET m == i.nodes[v] IN
                    n.group = m.group /\ n.kind = m.kind => n.namespaced = m.namespaced
        /\ i.maxDepth \in Nat /\ i.root \in Uid
        /\ {i.split, i.showGroup, i.showNamespace} \subseteq BOOLEAN

VARIABLES
    input,       \* what Print is given, never changed
    pc,          \* where each goroutine is; they are named by what they fetch
    answer,      \* the names in the table each has received
    gone,        \* the nodes whose objects the server did not find
    tables,      \* tableByGKAndNS: of each group and kind, the goroutine that
                 \* made its inner map
    inner,       \* the inner map each has made: the goroutines stored in it
    writing,     \* the goroutines that are writing a map, and which
    columns,     \* the kinds shown with a group, and the classes with a namespace
    output,      \* the tables printed
    result       \* "running", then "waiting" for the goroutines, "printed",
                 \* "error" or "crashed"

goroutines == <<pc, answer, gone>>
maps == <<tables, inner, writing>>
vars == <<input, goroutines, maps, columns, output, result>>

nodes == input.nodes
GK(u) == [group |-> nodes[u].group, kind |-> nodes[u].kind]
Slot(u) == <<GK(u), nodes[u].ns>>

WithinDepth(u) == input.maxDepth = 0 \/ nodes[u].depth <= input.maxDepth

Selected == {u \in DOMAIN nodes : WithinDepth(u)}

(* Objects grouped by GroupKind and namespace; the release is left out.    *)
Goroutine == {Slot(u) : u \in {n \in Selected : nodes[n].kind # 0}}
Members(g) == {u \in Selected : Slot(u) = g}

Init ==
    /\ input \in Inputs
    /\ pc = [g \in Goroutine |-> "fetch"]
    /\ answer = [g \in Goroutine |-> {}]
    /\ gone = {}
    /\ tables = <<>>
    /\ inner = [g \in Goroutine |-> {}]
    /\ writing = {}
    /\ columns = [group |-> {}, namespace |-> {}]
    /\ output = <<>>
    /\ result = "running"

-----------------------------------------------------------------------------
(* Mutant of ShowGroup: the core group, which has no name, does not count. *)
ShowGroupNamed(kind) ==
    input.showGroup \/
        Cardinality({nodes[u].group : u \in {n \in Selected : nodes[n].kind = kind}} \ {0}) > 1

(* createShowGroupFn: a kind that occurs in several groups is shown with   *)
(* its group.                                                              *)
ShowGroup(kind) ==
    input.showGroup \/
        Cardinality({nodes[u].group : u \in {n \in Selected : nodes[n].kind = kind}}) > 1

shouldShowNamespace == Cardinality({nodes[u].ns : u \in Selected}) > 1

(* createShowNamespaceFn.                                                  *)
ShowNamespace(gk) ==
    /\ input.showNamespace \/ shouldShowNamespace
    /\ \A u \in Selected : GK(u) = gk => nodes[u].namespaced

Kinds == {nodes[u].kind : u \in Selected} \ {0}
Classes == {GK(u) : u \in Selected} \ {[group |-> 0, kind |-> 0]}

(* Print: the root must be in the node map.                                *)
RootMissing ==
    /\ result = "running"
    /\ input.root \notin DOMAIN nodes
    /\ result' = "error"
    /\ UNCHANGED <<input, goroutines, maps, columns, output>>

(* printTable: the rows are TreePrinter's.  --show-namespace is overridden *)
(* by what the namespaces of the nodes call for.                           *)
PrintTree ==
    /\ result = "running"
    /\ input.root \in DOMAIN nodes /\ ~input.split
    /\ columns' = [group |-> {k \in Kinds : ShowGroup(k)},
                   namespace |-> IF shouldShowNamespace THEN Classes ELSE {}]
    /\ result' = "printed"
    /\ UNCHANGED <<input, goroutines, maps, output>>

(* printTablesByGK: fan out.                                               *)
FanOut ==
    /\ result = "running"
    /\ input.root \in DOMAIN nodes /\ input.split
    /\ columns' = [group |-> {k \in Kinds : ShowGroup(k)},
                   namespace |-> {gk \in Classes : ShowNamespace(gk)}]
    /\ result' = "waiting"
    /\ UNCHANGED <<input, goroutines, maps, output>>

-----------------------------------------------------------------------------
At(g, step) == result = "waiting" /\ pc[g] = step
Goto(g, next) == pc' = [pc EXCEPT ![g] = next]

(* GetTable: one table of the objects that are still there, or nil if none *)
(* is.  A server that does not print tables answers with the object itself,*)
(* which decodes into a table without rows.                                *)
Fetch(g) ==
    /\ At(g, "fetch")
    /\ \E missing \in SUBSET Members(g) :
          /\ gone' = gone \union missing
          /\ answer' = [answer EXCEPT ![g] =
                {nodes[u].name : u \in {m \in Members(g) \ missing : nodes[m].prints}}]
          /\ Goto(g, IF missing = Members(g) THEN "done" ELSE "check")
    /\ UNCHANGED <<input, maps, columns, output, result>>

(* Any other error.  The failure of one does not stop the others: GetTable *)
(* is given the group's context and does not use it.                       *)
FetchFails(g) ==
    /\ At(g, "fetch")
    /\ Goto(g, "failed")
    /\ UNCHANGED <<input, answer, gone, maps, columns, output, result>>

Check(g) ==
    /\ At(g, "check")
    /\ Goto(g, IF g[1] \in DOMAIN tables THEN "insert" ELSE "create")
    /\ UNCHANGED <<input, answer, gone, maps, columns, output, result>>

(* The outer map, and who writes what: an inner map is named by its maker. *)
Outer == <<>>
StartWriting(g, map) == writing' = writing \union {<<g, map>>}
StopWriting(g, map) == writing' = writing \ {<<g, map>>}
Overlapping(g, map) == \E w \in writing : w[1] # g /\ w[2] = map

StartCreate(g) ==
    /\ At(g, "create")
    /\ StartWriting(g, Outer)
    /\ Goto(g, "creating")
    /\ UNCHANGED <<input, answer, gone, tables, inner, columns, output, result>>

(* Mutant of Create: gk is the variable of the loop, not a copy of it.     *)
CreateCaptured(g) ==
    /\ At(g, "creating")
    /\ \E h \in Goroutine :
          tables' = [gk \in DOMAIN tables \union {h[1]} |-> IF gk = h[1] THEN g ELSE tables[gk]]
    /\ StopWriting(g, Outer)
    /\ Goto(g, "insert")
    /\ UNCHANGED <<input, answer, gone, inner, columns, output, result>>

(* tableByGKAndNS[gk] = a new map, whoever made one since the check.       *)
Create(g) ==
    /\ At(g, "creating")
    /\ \/ tables' = [gk \in DOMAIN tables \union {g[1]} |-> IF gk = g[1] THEN g ELSE tables[gk]]
       \/ Overlapping(g, Outer) /\ UNCHANGED tables
    /\ StopWriting(g, Outer)
    /\ Goto(g, "insert")
    /\ UNCHANGED <<input, answer, gone, inner, columns, output, result>>

StartInsert(g) ==
    /\ At(g, "insert")
    /\ g[1] \in DOMAIN tables
    /\ StartWriting(g, tables[g[1]])
    /\ Goto(g, "inserting")
    /\ UNCHANGED <<input, answer, gone, tables, inner, columns, output, result>>

(* tableByGKAndNS[gk][ns] = table, in the inner map found before.          *)
Insert(g) ==
    /\ At(g, "inserting")
    /\ \E map \in Goroutine :
          /\ <<g, map>> \in writing
          /\ \/ inner' = [inner EXCEPT ![map] = @ \union {g}]
             \/ Overlapping(g, map) /\ UNCHANGED inner
          /\ StopWriting(g, map)
    /\ Goto(g, "done")
    /\ UNCHANGED <<input, answer, gone, tables, columns, output, result>>

(* An access is noticed to overlap with a write of another goroutine, or   *)
(* the inner map has been lost.                                            *)
Crash(g) ==
    /\ \/ pc[g] \in {"check", "create", "creating", "insert"} /\ Overlapping(g, Outer)
       \/ pc[g] = "insert" /\ (g[1] \in DOMAIN tables => Overlapping(g, tables[g[1]]))
       \/ pc[g] = "inserting" /\ \E w \in writing : w[1] = g /\ Overlapping(g, w[2])
    /\ result = "waiting"
    /\ result' = "crashed"
    /\ UNCHANGED <<input, goroutines, maps, columns, output>>

-----------------------------------------------------------------------------
(* Mutant of Waited: a goroutine that fails is never done.                 *)
WaitedForSuccess == result = "waiting" /\ \A g \in Goroutine : pc[g] = "done"

(* eg.Wait.                                                                *)
Waited == result = "waiting" /\ \A g \in Goroutine : pc[g] \in {"done", "failed"}

WaitFails ==
    /\ Waited
    /\ \E g \in Goroutine : pc[g] = "failed"
    /\ result' = "error"
    /\ UNCHANGED <<input, goroutines, maps, columns, output>>

(* lessGroupKind compares "kind.group".                                    *)
LessGroupKind(a, b) == a.kind < b.kind \/ (a.kind = b.kind /\ a.group < b.group)

(* What a sort of the elements of S returns: each of them, in the order    *)
(* that the pairs of "less" are.                                           *)
Enumerates(q, S, less) ==
    /\ S \subseteq Range(q)
    /\ \A i, j \in DOMAIN q : i < j => <<q[i], q[j]>> \in less

Sorted(S, less) ==
    CHOOSE q \in [1 .. Cardinality(S) -> S] : Enumerates(q, S, less)

(* Mutant of StoredByNamespace: in the reverse order.                      *)
StoredReversed(gk) ==
    LET stored == inner[tables[gk]]
    IN  Sorted(stored, {p \in stored \X stored : p[1][2] > p[2][2]})

StoredByNamespace(gk) ==
    LET stored == inner[tables[gk]]
    IN  Sorted(stored, {p \in stored \X stored : p[1][2] < p[2][2]})

(* The rows of one goroutine's table: it asked for its names in order.     *)
NamesOf(g) == Sorted(answer[g], {p \in answer[g] \X answer[g] : p[1] < p[2]})
RowsOf(g) == [k \in DOMAIN NamesOf(g) |-> <<g[2], NamesOf(g)[k]>>]

Order ==
    LET known == DOMAIN tables
    IN  Sorted(known, {p \in known \X known : LessGroupKind(p[1], p[2])})

TableOf(gk) ==
    LET stored == StoredByNamespace(gk)
    IN  FlattenSeq([k \in DOMAIN stored |-> RowsOf(stored[k])])

(* Mutant of PrintTables: the error of Wait is ignored.                    *)
PrintTablesAnyway ==
    /\ Waited
    /\ output' = [k \in DOMAIN Order |-> [gk |-> Order[k], rows |-> TableOf(Order[k])]]
    /\ result' = "printed"
    /\ UNCHANGED <<input, goroutines, maps, columns>>

PrintTables ==
    /\ Waited
    /\ \A g \in Goroutine : pc[g] = "done"
    /\ output' = [k \in DOMAIN Order |-> [gk |-> Order[k], rows |-> TableOf(Order[k])]]
    /\ result' = "printed"
    /\ UNCHANGED <<input, goroutines, maps, columns>>

Main == RootMissing \/ PrintTree \/ FanOut \/ WaitFails \/ PrintTables

Work(g) ==
    \/ Fetch(g) \/ FetchFails(g) \/ Check(g)
    \/ StartCreate(g) \/ Create(g) \/ StartInsert(g) \/ Insert(g) \/ Crash(g)

Next == Main \/ \E g \in Goroutine : Work(g)

Spec == Init /\ [][Next]_vars

(* Go runs the goroutines that can run, and Wait returns.  Each has a few  *)
(* steps, so one of them moving is all it takes; the server answers.       *)
FairSpec == Spec /\ WF_vars(Main) /\ WF_vars(\E g \in Goroutine : Work(g))

-----------------------------------------------------------------------------
TypeOK ==
    /\ input \in Inputs
    /\ pc \in [Goroutine -> {"fetch", "check", "create", "creating", "insert",
                             "inserting", "done", "failed"}]
    /\ answer \in [Goroutine -> SUBSET Nat]
    /\ gone \subseteq Selected
    /\ DOMAIN tables \subseteq Classes
    /\ \A gk \in DOMAIN tables : tables[gk] \in Goroutine /\ tables[gk][1] = gk
    /\ inner \in [Goroutine -> SUBSET Goroutine]
    /\ writing \subseteq Goroutine \X (Goroutine \union {Outer})
    /\ columns.group \subseteq Kinds /\ columns.namespace \subseteq Classes
    /\ result \in {"running", "waiting", "printed", "error", "crashed"}

SplitPrinted == result = "printed" /\ input.split

(* The rows of all tables, one after the other: <<group and kind, namespace, name>>. *)
AllRows ==
    FlattenSeq([t \in DOMAIN output |->
        [k \in DOMAIN output[t].rows |->
            <<output[t].gk, output[t].rows[k][1], output[t].rows[k][2]>>]])

(* The objects Print is asked for that the server still had.               *)
Found ==
    {u \in DOMAIN nodes \ gone :
        /\ nodes[u].kind # 0 /\ nodes[u].prints
        /\ input.maxDepth = 0 \/ nodes[u].depth <= input.maxDepth}

RowOf(u) == <<GK(u), nodes[u].ns, nodes[u].name>>

(* "Sort Tables by GroupKind", "Sort TableRows by namespace" and "by       *)
(* name": the answers arrive and are stored in any order, and the tables   *)
(* come out in one, without a row twice, and without one of another class  *)
(* or namespace, of an object deeper than --depth or of the release.       *)
TablesInOrder ==
    /\ \A i, j \in DOMAIN AllRows : i < j =>
          LET a == AllRows[i]
              b == AllRows[j]
          IN  \/ LessGroupKind(a[1], b[1])
              \/ a[1] = b[1] /\ a[2] < b[2]
              \/ a[1] = b[1] /\ a[2] = b[2] /\ a[3] < b[3]
    /\ \A k \in DOMAIN AllRows : \E u \in Found : AllRows[k] = RowOf(u)

(* A class whose objects are all in one namespace is fetched by a single   *)
(* goroutine: whatever the others do to the shared map, its objects are    *)
(* all shown, or nothing is printed.                                       *)
LoneClassWhole ==
    SplitPrinted =>
        \A u \in Found :
            (\A v \in DOMAIN nodes : GK(v) = GK(u) => nodes[v].ns = nodes[u].ns)
            => \E k \in DOMAIN AllRows : AllRows[k] = RowOf(u)

(* What a row says of its object: its group, kind and namespace only where *)
(* the columns show them.                                                  *)
Look(u) ==
    <<nodes[u].kind,
      IF nodes[u].kind \in columns.group THEN nodes[u].group ELSE 0,
      IF GK(u) \in columns.namespace THEN nodes[u].ns ELSE 0,
      nodes[u].name>>

(* Groups and namespaces are hidden where they do not matter, and never    *)
(* where two objects that are shown would look the same without.           *)
RowsTellApart ==
    result = "printed" =>
        \A u, v \in {n \in Selected : nodes[n].kind # 0} :
            RowOf(u) # RowOf(v) => Look(u) # Look(v)

(* Print returns, or the program ends.                                     *)
PrintReturns == <>(result \in {"printed", "error", "crashed"})

(* "Fan-out to get server-print tables for all objects": every object that *)
(* was found has a row in the tables.                                      *)
FoundIsShown ==
    SplitPrinted => \A u \in Found : \E k \in DOMAIN AllRows : AllRows[k] = RowOf(u)
=============================================================================
