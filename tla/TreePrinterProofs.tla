------------------------- MODULE TreePrinterProofs -------------------------
(***************************************************************************)
(* Theorems about the drawing of the tree, for every node map and depth.   *)
(***************************************************************************)
EXTENDS TreeCells, DataLemmas, FiniteSetTheorems, SequenceTheorems, TLAPS

(***************************************************************************)
(* The inductive invariant, in parts.                                      *)
(***************************************************************************)
Frame == [uid : Nodes, prefix : Seq(BOOLEAN), deps : Seq(Nodes)]
Row == [uid : Nodes, prefix : Seq(BOOLEAN), of : Nodes]

(* The call at position d of the stack is at depth d, for a node whose     *)
(* relations nobody else prints; a call is made for the row printed last.  *)
Nested ==
    /\ pc = "root" => rows = <<>> /\ stack = <<>> /\ callee = [uid |-> root, prefix |-> <<>>]
    /\ pc = "done" => stack = <<>>
    /\ \A d \in 1 .. Len(stack) : Len(stack[d].prefix) + 1 = d
    /\ pc = "call" => /\ rows # <<>>
                      /\ rows[Len(rows)].uid = callee.uid
                      /\ rows[Len(rows)].prefix = callee.prefix
                      /\ Len(callee.prefix) = Len(stack)

(* The depth asked for is not exceeded.                                    *)
Limited ==
    maxDepth # 0 => /\ \A k \in 1 .. Len(rows) : Level(k) <= maxDepth
                    /\ Len(stack) <= maxDepth
                    /\ pc = "call" => Len(stack) < maxDepth

(* Row j is the one under which the call at position d prints: all below   *)
(* it are deeper.                                                          *)
Anchor(d, j) ==
    /\ rows[j].uid = stack[d].uid
    /\ rows[j].prefix = stack[d].prefix
    /\ \A i \in j + 1 .. Len(rows) : Level(i) >= d

Anchored == \A d \in 1 .. Len(stack) : \E j \in 1 .. Len(rows) : Anchor(d, j)

(* A call that has drawn a last branch has nothing more to print.          *)
Closed ==
    \A d \in 1 .. Len(stack) : \A j \in 1 .. Len(rows) : Anchor(d, j) =>
        \A k \in j + 1 .. Len(rows) :
            Level(k) = d /\ rows[k].prefix[d] => stack[d].deps = <<>>

(* A call that still prints under row j.                                   *)
Open(j) == \E d \in 1 .. Len(stack) : Anchor(d, j) /\ stack[d].deps # <<>>

LaterSibling(j, k) == \E i \in k + 1 .. Len(rows) : ParentRow(j, i)

(* Every row but the first hangs on its parent, and says truly whether     *)
(* another will follow.                                                    *)
HangsOn(k, j) ==
    /\ ParentRow(j, k)
    /\ rows[j].uid = rows[k].of
    /\ SubSeq(rows[k].prefix, 1, Level(j)) = rows[j].prefix
    /\ rows[k].prefix[Level(k)] => ~LaterSibling(j, k)
    /\ ~rows[k].prefix[Level(k)] => LaterSibling(j, k) \/ Open(j)

Drawn == \A k \in 2 .. Len(rows) : \E j \in 1 .. k - 1 : HangsOn(k, j)

Inv == TypeOK /\ Nested /\ Limited /\ RecursionBounded /\ Anchored /\ Closed /\ Drawn

(***************************************************************************)
(* Types, and what each step does to the sequences.                        *)
(***************************************************************************)
LEMMA InputTypes ==
    ASSUME input \in Inputs
    PROVE  /\ IsFiniteSet(Nodes) /\ root \in Nodes /\ maxDepth \in Nat
           /\ \A u \in Nodes : adj[u] \subseteq Nodes
BY InputsAssumption DEF Nodes, adj, root, maxDepth

LEMMA StateTypes ==
    ASSUME TypeOK
    PROVE  /\ Len(stack) \in Nat /\ Len(rows) \in Nat
           /\ \A d \in 1 .. Len(stack) :
                 /\ stack[d] \in Frame
                 /\ stack[d].uid \in Nodes
                 /\ stack[d].prefix \in Seq(BOOLEAN) /\ Len(stack[d].prefix) \in Nat
                 /\ stack[d].deps \in Seq(Nodes) /\ Len(stack[d].deps) \in Nat
           /\ \A k \in 1 .. Len(rows) :
                 /\ rows[k] \in Row
                 /\ rows[k].prefix \in Seq(BOOLEAN) /\ Level(k) \in Nat
           /\ stack # <<>> => Len(stack) \in 1 .. Len(stack) /\ Top = stack[Len(stack)]
           /\ rows # <<>> => Len(rows) \in 1 .. Len(rows)
<1>1. stack \in Seq(Frame) /\ rows \in Seq(Row)
  BY DEF TypeOK, Frame, Row
<1>2. Len(stack) \in Nat /\ Len(rows) \in Nat
  BY <1>1, LenProperties
<1>3. \A d \in 1 .. Len(stack) : stack[d] \in Frame
  BY <1>1, ElementOfSeq
<1>4. \A k \in 1 .. Len(rows) : rows[k] \in Row
  BY <1>1, ElementOfSeq
<1>5. \A f \in Frame : f.uid \in Nodes /\ f.prefix \in Seq(BOOLEAN) /\ f.deps \in Seq(Nodes)
  BY DEF Frame
<1>6. \A f \in Row : f.prefix \in Seq(BOOLEAN)
  BY DEF Row
<1>7. \A s \in Seq(BOOLEAN) : Len(s) \in Nat
  BY LenProperties
<1>8. \A s \in Seq(Nodes) : Len(s) \in Nat
  BY LenProperties
<1>9. /\ stack # <<>> => Len(stack) \in 1 .. Len(stack)
      /\ rows # <<>> => Len(rows) \in 1 .. Len(rows)
  BY <1>1, EmptySeq
<1> QED  BY <1>2, <1>3, <1>4, <1>5, <1>6, <1>7, <1>8, <1>9 DEF Level, Top

(* Sorting the relations of a node returns a sequence of nodes.            *)
LEMMA SortDepsType ==
    ASSUME input \in Inputs, NEW u \in Nodes, NEW deps \in SortDeps(adj[u])
    PROVE  deps \in Seq(Nodes)
<1>1. adj[u] \subseteq Nodes /\ IsFiniteSet(Nodes)
  BY InputTypes
<1>2. Cardinality(adj[u]) \in Nat
  BY <1>1, FS_Subset, FS_CardinalityType
<1>3. deps \in [1 .. Cardinality(adj[u]) -> Nodes]
  BY <1>1 DEF SortDeps, Surjection
<1> QED  BY <1>2, <1>3, SeqDef

LEMMA EnterEffect ==
    ASSUME TypeOK, Enter
    PROVE  /\ stack' \in Seq(Frame) /\ Len(stack') = Len(stack) + 1
           /\ \A d \in 1 .. Len(stack) : stack'[d] = stack[d]
           /\ stack'[Len(stack) + 1].uid = callee.uid
           /\ stack'[Len(stack) + 1].prefix = callee.prefix
<1>1. PICK deps \in SortDeps(adj[callee.uid]) :
        stack' = Append(stack, [uid |-> callee.uid, prefix |-> callee.prefix, deps |-> deps])
  BY DEF Enter
<1> DEFINE f == [uid |-> callee.uid, prefix |-> callee.prefix, deps |-> deps]
<1>2. callee.uid \in Nodes /\ callee.prefix \in Seq(BOOLEAN)
  BY DEF TypeOK
<1>3. f \in Frame
  BY <1>2, SortDepsType DEF TypeOK, Frame
<1>4. stack \in Seq(Frame)
  BY DEF TypeOK, Frame
<1> HIDE DEF f
<1>5. stack' = Append(stack, f)
  BY <1>1 DEF f
<1>6. /\ stack' \in Seq(Frame) /\ Len(stack') = Len(stack) + 1
      /\ \A d \in 1 .. Len(stack) : stack'[d] = stack[d]
      /\ stack'[Len(stack) + 1] = f
  BY <1>3, <1>4, <1>5, AppendProperties
<1> QED  BY <1>6 DEF f

LEMMA PrintDepEffect ==
    ASSUME TypeOK, PrintDep
    PROVE  /\ Len(stack) \in 1 .. Len(stack) /\ Top \in Frame /\ Top.deps # <<>>
           /\ stack' \in Seq(Frame) /\ Len(stack') = Len(stack)
           /\ \A d \in 1 .. Len(stack) :
                 /\ stack'[d].uid = stack[d].uid /\ stack'[d].prefix = stack[d].prefix
                 /\ d # Len(stack) => stack'[d] = stack[d]
           /\ stack'[Len(stack)].deps = Tail(Top.deps)
           /\ rows' \in Seq(Row) /\ Len(rows') = Len(rows) + 1
           /\ \A k \in 1 .. Len(rows) : rows'[k] = rows[k]
           /\ rows'[Len(rows) + 1] = [uid |-> Head(Top.deps), prefix |-> Append(Top.prefix, IsLast),
                                      of |-> Top.uid]
           /\ Head(Top.deps) \in Nodes /\ Append(Top.prefix, IsLast) \in Seq(BOOLEAN)
           /\ UNCHANGED <<input, uidSet>> /\ pc = "loop"
           /\ \/ /\ pc' = "call" /\ Descends
                 /\ callee' = [uid |-> Head(Top.deps), prefix |-> Append(Top.prefix, IsLast)]
              \/ UNCHANGED <<pc, callee>>
<1>1. stack # <<>> /\ Top.deps # <<>>
  BY DEF PrintDep
<1>2. Len(stack) \in 1 .. Len(stack) /\ Top = stack[Len(stack)] /\ Top \in Frame
  BY <1>1, StateTypes
<1>3. Top.uid \in Nodes /\ Top.prefix \in Seq(BOOLEAN) /\ Top.deps \in Seq(Nodes)
  BY <1>2 DEF Frame
<1>4. Head(Top.deps) \in Nodes /\ Tail(Top.deps) \in Seq(Nodes)
  BY <1>1, <1>3, HeadTailProperties
<1>5. IsLast \in BOOLEAN
  BY DEF IsLast
<1>6. Append(Top.prefix, IsLast) \in Seq(BOOLEAN)
  BY <1>3, <1>5, AppendProperties
<1> DEFINE r == [uid |-> Head(Top.deps), prefix |-> Append(Top.prefix, IsLast), of |-> Top.uid]
           f == [stack[Len(stack)] EXCEPT !.deps = Tail(Top.deps)]
<1>7. r \in Row /\ rows' = Append(rows, r) /\ rows \in Seq(Row)
  BY <1>3, <1>4, <1>6 DEF Row, PrintDep, TypeOK
<1>8. /\ f \in Frame /\ f.uid = Top.uid /\ f.prefix = Top.prefix /\ f.deps = Tail(Top.deps)
  BY <1>2, <1>4 DEF Frame
<1>9. stack' = [stack EXCEPT ![Len(stack)] = f] /\ stack \in Seq(Frame)
  BY <1>2 DEF PrintDep, TypeOK, Frame
<1> HIDE DEF r, f
<1>10. /\ rows' \in Seq(Row) /\ Len(rows') = Len(rows) + 1
       /\ \A k \in 1 .. Len(rows) : rows'[k] = rows[k]
       /\ rows'[Len(rows) + 1] = r
  BY <1>7, AppendProperties
<1>11. /\ stack' \in Seq(Frame) /\ Len(stack') = Len(stack)
       /\ \A d \in 1 .. Len(stack) : stack'[d] = IF d = Len(stack) THEN f ELSE stack[d]
  BY <1>2, <1>8, <1>9, ExceptSeq
<1>12. /\ UNCHANGED <<input, uidSet>> /\ pc = "loop"
       /\ \/ /\ pc' = "call" /\ Descends
             /\ callee' = [uid |-> Head(Top.deps), prefix |-> Append(Top.prefix, IsLast)]
          \/ UNCHANGED <<pc, callee>>
  BY DEF PrintDep
<1> QED  BY <1>1, <1>2, <1>4, <1>6, <1>8, <1>10, <1>11, <1>12 DEF r

LEMMA ReturnEffect ==
    ASSUME TypeOK, Return
    PROVE  /\ Len(stack) \in 1 .. Len(stack) /\ Top.deps = <<>>
           /\ stack' \in Seq(Frame) /\ Len(stack') = Len(stack) - 1
           /\ \A d \in 1 .. Len(stack') : d \in 1 .. Len(stack) /\ stack'[d] = stack[d]
<1>1. Len(stack) \in 1 .. Len(stack) /\ Top.deps = <<>>
  BY StateTypes DEF Return
<1>2. \A d \in 1 .. Len(stack) - 1 : stack[d] \in Frame
  BY StateTypes
<1>3. /\ SubSeq(stack, 1, Len(stack) - 1) \in Seq(Frame)
      /\ Len(SubSeq(stack, 1, Len(stack) - 1)) = Len(stack) - 1
      /\ \A d \in 1 .. Len(stack) - 1 : SubSeq(stack, 1, Len(stack) - 1)[d] = stack[d]
  <2> DEFINE n == Len(stack) - 1
  <2>1. n \in Nat /\ 1 \in Int /\ n \in Int /\ n - 1 + 1 = n
    BY <1>1, StateTypes
  <2> HIDE DEF n
  <2>2. \A i \in 1 .. n : stack[i] \in Frame
    BY <1>2 DEF n
  <2>3. /\ SubSeq(stack, 1, n) \in Seq(Frame)
        /\ Len(SubSeq(stack, 1, n)) = IF 1 <= n THEN n - 1 + 1 ELSE 0
        /\ \A i \in 1 .. n - 1 + 1 : SubSeq(stack, 1, n)[i] = stack[1 + i - 1]
    BY <2>1, <2>2, SubSeqProperties
  <2>4. Len(SubSeq(stack, 1, n)) = n /\ \A i \in 1 .. n : SubSeq(stack, 1, n)[i] = stack[i]
    BY <2>1, <2>3
  <2> QED  BY <2>3, <2>4 DEF n
<1> QED  BY <1>1, <1>3 DEF Return

LEMMA TypeInit == Init => TypeOK
<1> SUFFICES ASSUME Init PROVE TypeOK
  OBVIOUS
<1>1. root \in Nodes
  BY InputTypes DEF Init
<1> QED  BY <1>1, EmptySeq DEF Init, TypeOK

LEMMA PrintRootEffect ==
    ASSUME TypeOK, PrintRoot
    PROVE  /\ rows' \in Seq(Row) /\ Len(rows') = 1
           /\ rows'[1] = [uid |-> root, prefix |-> <<>>, of |-> root]
<1>1. root \in Nodes
  BY InputTypes DEF TypeOK
<1>2. <<>> \in Seq(BOOLEAN)
  BY EmptySeq
<1> QED  BY <1>1, <1>2 DEF PrintRoot, Row

LEMMA TypeNext ==
    ASSUME TypeOK, [Next]_vars
    PROVE  TypeOK'
<1>1. CASE UNCHANGED vars
  BY <1>1 DEF TypeOK, vars, Nodes, adj
<1>2. Nodes' = Nodes /\ input' \in Inputs
  BY DEF TypeOK, Next, PrintRoot, SkipSeen, Enter, PrintDep, Return, Finish, vars, Nodes, adj
<1>3. CASE PrintRoot
  BY <1>2, <1>3, PrintRootEffect DEF PrintRoot, TypeOK, Row
<1>4. CASE SkipSeen
  BY <1>2, <1>4 DEF SkipSeen, TypeOK
<1>5. CASE Enter
  BY <1>2, <1>5, EnterEffect DEF Enter, TypeOK, Frame
<1>6. CASE PrintDep
  <2>1. pc' \in {"root", "call", "loop", "done"} /\ UNCHANGED uidSet
    BY <1>6, PrintDepEffect
  <2>2. callee' \in [uid : Nodes, prefix : Seq(BOOLEAN)]
    <3> DEFINE p == Append(Top.prefix, IsLast)
               u == Head(Top.deps)
    <3>1. u \in Nodes /\ p \in Seq(BOOLEAN)
      BY <1>6, PrintDepEffect
    <3>2. callee' = [uid |-> u, prefix |-> p] \/ callee' = callee
      BY <1>6, PrintDepEffect
    <3> HIDE DEF p, u
    <3> QED  BY <3>1, <3>2 DEF TypeOK
  <2> QED  BY <1>2, <1>6, <2>1, <2>2, PrintDepEffect DEF TypeOK, Frame, Row
<1>7. CASE Return
  BY <1>2, <1>7, ReturnEffect DEF Return, TypeOK, Frame
<1>8. CASE Finish
  BY <1>2, <1>8 DEF Finish, TypeOK
<1> QED  BY <1>1, <1>3, <1>4, <1>5, <1>6, <1>7, <1>8 DEF Next

(***************************************************************************)
(* The calls, their depth and the anchors.                                 *)
(***************************************************************************)
LEMMA NestedNext ==
    ASSUME TypeOK, Nested, [Next]_vars
    PROVE  Nested'
<1>1. CASE UNCHANGED vars
  BY <1>1 DEF Nested, vars, root
<1>2. CASE PrintRoot
  <2>1. stack' = stack /\ callee' = callee /\ pc' = "call" /\ stack = <<>>
        /\ callee = [uid |-> root, prefix |-> <<>>]
    BY <1>2 DEF PrintRoot, Nested
  <2>2. rows' = <<[uid |-> root, prefix |-> <<>>, of |-> root]>>
    BY <1>2 DEF PrintRoot
  <2>3. Len(rows') = 1 /\ rows' # <<>>
        /\ rows'[1] = [uid |-> root, prefix |-> <<>>, of |-> root]
    BY <2>2
  <2> QED  BY <2>1, <2>3 DEF Nested
<1>3. CASE SkipSeen
  BY <1>3 DEF SkipSeen, Nested
<1>4. CASE Enter
  <2>1. Len(callee.prefix) = Len(stack) /\ pc' = "loop"
    BY <1>4 DEF Enter, Nested
  <2>2. \A d \in 1 .. Len(stack') : d \in 1 .. Len(stack) \/ d = Len(stack) + 1
    BY <1>4, EnterEffect, StateTypes
  <2>3. \A d \in 1 .. Len(stack') : Len(stack'[d].prefix) + 1 = d
    BY <1>4, <2>1, <2>2, EnterEffect DEF Nested
  <2> QED  BY <2>1, <2>3 DEF Nested
<1>5. CASE PrintDep
  <2> DEFINE p == Append(Top.prefix, IsLast)
             u == Head(Top.deps)
             o == Top.uid
  <2>1. \A d \in 1 .. Len(stack') : Len(stack'[d].prefix) + 1 = d
    BY <1>5, PrintDepEffect DEF Nested
  <2>2. pc' \in {"call", "loop"}
    BY <1>5, PrintDepEffect
  <2>3. Len(p) = Len(stack)
    <3>1. Len(stack) \in 1 .. Len(stack) /\ Top = stack[Len(stack)]
      BY <1>5, PrintDepEffect DEF Top
    <3>2. Top.prefix \in Seq(BOOLEAN) /\ Len(Top.prefix) + 1 = Len(stack)
      BY <3>1, StateTypes DEF Nested
    <3>3. IsLast \in BOOLEAN
      BY DEF IsLast
    <3> QED  BY <3>2, <3>3, AppendProperties
  <2>4. /\ rows'[Len(rows) + 1] = [uid |-> u, prefix |-> p, of |-> o]
        /\ Len(rows') = Len(rows) + 1 /\ Len(rows) \in Nat
        /\ pc' = "call" => callee' = [uid |-> u, prefix |-> p]
    BY <1>5, PrintDepEffect, StateTypes
  <2> HIDE DEF p, u, o
  <2>5. rows' # <<>>
    BY <2>4
  <2>6. Len(stack') = Len(stack)
    BY <1>5, PrintDepEffect
  <2> QED  BY <2>1, <2>2, <2>3, <2>4, <2>5, <2>6 DEF Nested
<1>6. CASE Return
  BY <1>6, ReturnEffect DEF Return, Nested
<1>7. CASE Finish
  BY <1>7 DEF Finish, Nested
<1> QED  BY <1>1, <1>2, <1>3, <1>4, <1>5, <1>6, <1>7 DEF Next

(* The row that is printed is one level below the one it hangs on.         *)
LEMMA NewRow ==
    ASSUME TypeOK, Nested, PrintDep
    PROVE  /\ Len(rows') = Len(rows) + 1 /\ Len(rows) \in Nat
           /\ Len(rows'[Len(rows) + 1].prefix) = Len(stack)
           /\ Len(stack) \in 1 .. Len(stack)
           /\ Len(stack[Len(stack)].prefix) = Len(stack) - 1
           /\ rows'[Len(rows) + 1].prefix[Len(stack)] <=> Len(stack[Len(stack)].deps) = 1
           /\ SubSeq(rows'[Len(rows) + 1].prefix, 1, Len(stack) - 1) = stack[Len(stack)].prefix
           /\ rows'[Len(rows) + 1].of = stack[Len(stack)].uid
           /\ \A k \in 1 .. Len(rows) : rows'[k] = rows[k] /\ Level(k)' = Level(k)
<1> DEFINE p == Top.prefix
           q == Append(p, IsLast)
           u == Head(Top.deps)
           o == Top.uid
<1>1. /\ Len(stack) \in 1 .. Len(stack) /\ Top = stack[Len(stack)]
      /\ Len(rows') = Len(rows) + 1 /\ Len(rows) \in Nat
      /\ \A k \in 1 .. Len(rows) : rows'[k] = rows[k]
      /\ rows'[Len(rows) + 1] = [uid |-> u, prefix |-> q, of |-> o]
  BY PrintDepEffect, StateTypes DEF Top
<1>2. p \in Seq(BOOLEAN) /\ Len(p) + 1 = Len(stack) /\ Len(p) \in Nat
  BY <1>1, StateTypes DEF Nested
<1>3. IsLast \in BOOLEAN /\ (IsLast <=> Len(stack[Len(stack)].deps) = 1)
  BY <1>1 DEF IsLast
<1>4. q \in Seq(BOOLEAN) /\ Len(q) = Len(stack) /\ q[Len(stack)] = IsLast
      /\ \A i \in 1 .. Len(p) : q[i] = p[i]
  BY <1>2, <1>3, AppendProperties
<1>5. SubSeq(q, 1, Len(stack) - 1) = p
  <2> DEFINE n == Len(p)
             s == SubSeq(q, 1, n)
  <2>1. n \in Nat /\ n \in Int /\ 1 \in Int /\ n = Len(stack) - 1
    BY <1>2
  <2>2. \A i \in 1 .. n : q[i] \in BOOLEAN
    BY <1>2, <1>4, ElementOfSeq
  <2> HIDE DEF n, q
  <2>3. /\ s \in Seq(BOOLEAN)
        /\ Len(s) = IF 1 <= n THEN n - 1 + 1 ELSE 0
        /\ \A i \in 1 .. n - 1 + 1 : s[i] = q[1 + i - 1]
    BY <2>1, <2>2, SubSeqProperties
  <2>4. Len(s) = n /\ \A i \in 1 .. n : s[i] = q[i]
    BY <2>1, <2>3
  <2>5. Len(s) = Len(p) /\ \A i \in 1 .. Len(p) : s[i] = p[i]
    BY <2>4, <1>4 DEF n
  <2> HIDE DEF s
  <2>6. s = p
    BY <1>2, <2>3, <2>5, SeqEqual
  <2> QED  BY <2>1, <2>6 DEF s
<1> HIDE DEF q, u, o
<1>6. Len(stack[Len(stack)].prefix) = Len(stack) - 1
  BY <1>1, <1>2
<1>7. rows'[Len(rows) + 1].prefix = q /\ rows'[Len(rows) + 1].of = o
  BY <1>1
<1>8. \A k \in 1 .. Len(rows) : rows'[k] = rows[k] /\ Level(k)' = Level(k)
  BY <1>1 DEF Level
<1>9. o = stack[Len(stack)].uid
  BY <1>1 DEF o
<1> QED  BY <1>1, <1>3, <1>4, <1>5, <1>6, <1>7, <1>8, <1>9

LEMMA LimitedNext ==
    ASSUME TypeOK, Nested, Limited, [Next]_vars
    PROVE  Limited'
<1> SUFFICES ASSUME maxDepth' # 0
             PROVE  /\ \A k \in 1 .. Len(rows') : Level(k)' <= maxDepth'
                    /\ Len(stack') <= maxDepth'
                    /\ pc' = "call" => Len(stack') < maxDepth'
  BY DEF Limited
<1>1. maxDepth' = maxDepth /\ maxDepth \in Nat
  BY InputTypes
     DEF TypeOK, Next, vars, PrintRoot, SkipSeen, Enter, PrintDep, Return, Finish, maxDepth
<1>2. /\ \A k \in 1 .. Len(rows) : Level(k) <= maxDepth
      /\ Len(stack) <= maxDepth
      /\ pc = "call" => Len(stack) < maxDepth
  BY <1>1 DEF Limited
<1>3. CASE UNCHANGED <<stack, rows, pc>>
  BY <1>1, <1>2, <1>3 DEF Level
<1>4. CASE PrintRoot
  <2>1. Len(rows') = 1 /\ Level(1)' = 0
    BY <1>4, PrintRootEffect DEF Level
  <2>2. Len(stack') = 0
    BY <1>4 DEF PrintRoot, Nested
  <2> QED  BY <1>1, <2>1, <2>2
<1>5. CASE SkipSeen
  BY <1>1, <1>2, <1>5 DEF SkipSeen, Level
<1>6. CASE Enter
  <2>1. Len(stack) < maxDepth /\ pc' = "loop" /\ rows' = rows
    BY <1>2, <1>6 DEF Enter
  <2> QED  BY <1>1, <1>2, <1>6, <2>1, EnterEffect, StateTypes DEF Level
<1>7. CASE PrintDep
  <2>1. \A k \in 1 .. Len(rows') : k \in 1 .. Len(rows) \/ k = Len(rows) + 1
    BY <1>7, NewRow
  <2>2. \A k \in 1 .. Len(rows') : Level(k)' <= maxDepth
    BY <1>2, <1>7, <2>1, NewRow DEF Level
  <2>3. pc' = "call" => Len(stack) < maxDepth
    <3>1. pc' = "call" => Descends
      BY <1>7, PrintDepEffect
    <3>2. Depth = Len(stack)
      BY <1>7, NewRow DEF Depth, Top
    <3> QED  BY <1>1, <3>1, <3>2 DEF Descends
  <2> QED  BY <1>1, <1>2, <1>7, <2>2, <2>3, PrintDepEffect
<1>8. CASE Return
  <2>1. rows' = rows /\ pc' = "loop"
    BY <1>8 DEF Return
  <2> QED  BY <1>1, <1>2, <1>8, <2>1, ReturnEffect, StateTypes DEF Level
<1>9. CASE Finish
  BY <1>1, <1>2, <1>9 DEF Finish, Level
<1> QED  BY <1>3, <1>4, <1>5, <1>6, <1>7, <1>8, <1>9 DEF Next, vars

LEMMA RecursionNext ==
    ASSUME TypeOK, RecursionBounded, [Next]_vars
    PROVE  RecursionBounded'
<1>1. CASE UNCHANGED <<stack, uidSet>>
  BY <1>1 DEF RecursionBounded
<1>2. CASE Enter
  <2>1. uidSet' = uidSet \union {callee.uid} /\ callee.uid \notin uidSet
    BY <1>2 DEF Enter, Seen
  <2>2. \A d \in 1 .. Len(stack') : d \in 1 .. Len(stack) \/ d = Len(stack) + 1
    BY <1>2, EnterEffect, StateTypes
  <2> QED  BY <1>2, <2>1, <2>2, EnterEffect DEF RecursionBounded
<1>3. CASE PrintDep
  BY <1>3, PrintDepEffect DEF RecursionBounded
<1>4. CASE Return
  <2>1. uidSet' = uidSet
    BY <1>4 DEF Return
  <2> QED  BY <1>4, <2>1, ReturnEffect DEF RecursionBounded
<1> QED  BY <1>1, <1>2, <1>3, <1>4 DEF Next, vars, PrintRoot, SkipSeen, Finish

LEMMA AnchorType ==
    ASSUME TypeOK, Nested, NEW d \in 1 .. Len(stack), NEW j \in 1 .. Len(rows), Anchor(d, j)
    PROVE  Level(j) = d - 1
<1>1. Len(stack[d].prefix) + 1 = d /\ Len(stack[d].prefix) \in Nat
  BY StateTypes DEF Nested
<1>2. Level(j) = Len(stack[d].prefix)
  BY DEF Anchor, Level
<1> QED  BY <1>1, <1>2

(* An anchor remains one when a row is printed: it is at least as deep.    *)
LEMMA AnchorKept ==
    ASSUME TypeOK, Nested, PrintDep,
           NEW d \in 1 .. Len(stack), NEW j \in 1 .. Len(rows)
    PROVE  Anchor(d, j)' <=> Anchor(d, j)
<1>1. /\ Len(rows') = Len(rows) + 1 /\ Len(rows) \in Nat
      /\ Len(rows'[Len(rows) + 1].prefix) = Len(stack) /\ d <= Len(stack)
      /\ \A k \in 1 .. Len(rows) : rows'[k] = rows[k] /\ Level(k)' = Level(k)
  BY NewRow
<1>2. stack'[d].uid = stack[d].uid /\ stack'[d].prefix = stack[d].prefix
  BY PrintDepEffect
<1>3. ASSUME Anchor(d, j)
      PROVE  Anchor(d, j)'
  <2>1. \A i \in j + 1 .. Len(rows') : i \in j + 1 .. Len(rows) \/ i = Len(rows) + 1
    BY <1>1
  <2>2. \A i \in j + 1 .. Len(rows) : i \in 1 .. Len(rows)
    OBVIOUS
  <2>3. \A i \in j + 1 .. Len(rows') : Len(rows'[i].prefix) >= d
    BY <1>1, <1>3, <2>1, <2>2 DEF Anchor, Level
  <2> QED  BY <1>1, <1>2, <1>3, <2>3 DEF Anchor, Level
<1>4. ASSUME Anchor(d, j)'
      PROVE  Anchor(d, j)
  <2>1. \A i \in j + 1 .. Len(rows) : i \in 1 .. Len(rows) /\ i \in j + 1 .. Len(rows')
    BY <1>1
  <2> QED  BY <1>1, <1>2, <1>4, <2>1 DEF Anchor
<1> QED  BY <1>3, <1>4

LEMMA AnchoredNext ==
    ASSUME TypeOK, Nested, Anchored, [Next]_vars
    PROVE  Anchored'
<1>1. CASE UNCHANGED <<stack, rows>>
  BY <1>1 DEF Anchored, Anchor, Level
<1>2. CASE PrintRoot
  BY <1>2 DEF PrintRoot, Nested, Anchored
<1>3. CASE Enter
  <2>1. rows' = rows /\ Len(rows) \in 1 .. Len(rows) /\ Len(rows) \in Nat
        /\ rows[Len(rows)].uid = callee.uid /\ rows[Len(rows)].prefix = callee.prefix
    BY <1>3, StateTypes DEF Enter, Nested
  <2> SUFFICES ASSUME NEW d \in 1 .. Len(stack')
               PROVE  \E j \in 1 .. Len(rows') : Anchor(d, j)'
    BY DEF Anchored
  <2>2. d \in 1 .. Len(stack) \/ d = Len(stack) + 1
    BY <1>3, EnterEffect, StateTypes
  <2>3. CASE d \in 1 .. Len(stack)
    <3>1. PICK j \in 1 .. Len(rows) : Anchor(d, j)
      BY <2>3 DEF Anchored
    <3>2. stack'[d] = stack[d]
      BY <1>3, <2>3, EnterEffect
    <3> QED  BY <2>1, <3>1, <3>2 DEF Anchor, Level
  <2>4. CASE d = Len(stack) + 1
    <3>1. stack'[d].uid = callee.uid /\ stack'[d].prefix = callee.prefix
      BY <1>3, <2>4, EnterEffect
    <3>2. PICK j \in 1 .. Len(rows) : j = Len(rows)
      BY <2>1
    <3>3. Anchor(d, j)'
      BY <2>1, <3>1, <3>2 DEF Anchor
    <3> QED  BY <2>1, <3>2, <3>3
  <2> QED  BY <2>2, <2>3, <2>4
<1>4. CASE PrintDep
  <2> SUFFICES ASSUME NEW d \in 1 .. Len(stack')
               PROVE  \E j \in 1 .. Len(rows') : Anchor(d, j)'
    BY DEF Anchored
  <2>1. d \in 1 .. Len(stack)
    BY <1>4, PrintDepEffect
  <2>2. PICK j \in 1 .. Len(rows) : Anchor(d, j)
    BY <2>1 DEF Anchored
  <2>3. Anchor(d, j)'
    BY <1>4, <2>1, <2>2, AnchorKept
  <2>4. j \in 1 .. Len(rows')
    BY <1>4, NewRow
  <2> QED  BY <2>3, <2>4
<1>5. CASE Return
  <2>1. rows' = rows
    BY <1>5 DEF Return
  <2> QED  BY <1>5, <2>1, ReturnEffect DEF Anchored, Anchor, Level
<1> QED  BY <1>1, <1>2, <1>3, <1>4, <1>5 DEF Next, vars, SkipSeen, Finish

LEMMA ClosedNext ==
    ASSUME TypeOK, Nested, Closed, [Next]_vars
    PROVE  Closed'
<1>1. CASE UNCHANGED <<stack, rows>>
  BY <1>1 DEF Closed, Anchor, Level
<1>2. CASE PrintRoot
  BY <1>2 DEF PrintRoot, Nested, Closed
<1>3. SUFFICES ASSUME Enter \/ PrintDep \/ Return,
                      NEW d \in 1 .. Len(stack'), NEW j \in 1 .. Len(rows'), Anchor(d, j)',
                      NEW k \in j + 1 .. Len(rows'), Level(k)' = d, rows'[k].prefix[d]
               PROVE  stack'[d].deps = <<>>
  BY <1>1, <1>2 DEF Closed, Next, vars, SkipSeen, Finish
<1>4. CASE Enter
  <2>1. rows' = rows
    BY <1>4 DEF Enter
  <2>2. d \in 1 .. Len(stack) \/ d = Len(stack) + 1
    BY <1>4, EnterEffect, StateTypes
  <2>3. CASE d \in 1 .. Len(stack)
    BY <1>3, <1>4, <2>1, <2>3, EnterEffect DEF Closed, Anchor, Level
  <2>4. CASE d = Len(stack) + 1
    <3>1. Len(rows) \in j + 1 .. Len(rows) /\ Len(rows) \in Nat
      BY <2>1, StateTypes
    <3>2. Len(rows[Len(rows)].prefix) >= d
      BY <1>3, <2>1, <3>1 DEF Anchor, Level
    <3>3. Len(rows[Len(rows)].prefix) = Len(stack)
      BY <1>4 DEF Enter, Nested
    <3> QED  BY <2>4, <3>2, <3>3, StateTypes
  <2> QED  BY <2>2, <2>3, <2>4
<1>5. CASE PrintDep
  <2>1. d \in 1 .. Len(stack) /\ j \in 1 .. Len(rows)
        /\ (k \in j + 1 .. Len(rows) \/ k = Len(rows) + 1)
    <3>1. Len(stack') = Len(stack)
      BY <1>5, PrintDepEffect
    <3>2. Len(rows') = Len(rows) + 1 /\ Len(rows) \in Nat
      BY <1>5, NewRow
    <3> QED  BY <3>1, <3>2
  <2>2. Anchor(d, j)
    BY <1>3, <1>5, <2>1, AnchorKept
  <2>3. CASE k \in j + 1 .. Len(rows)
    <3>1. rows'[k] = rows[k] /\ Level(k)' = Level(k)
      BY <1>5, <2>1, <2>3, NewRow
    <3>2. stack[d].deps = <<>>
      BY <1>3, <2>1, <2>2, <2>3, <3>1 DEF Closed
    <3>3. d # Len(stack)
      BY <1>5, <3>2, PrintDepEffect DEF Top
    <3> QED  BY <1>5, <2>1, <3>2, <3>3, PrintDepEffect
  <2>4. CASE k = Len(rows) + 1
    <3>1. d = Len(stack)
      BY <1>3, <1>5, <2>4, NewRow DEF Level
    <3>2. Len(stack[Len(stack)].deps) = 1
      BY <1>3, <1>5, <2>4, <3>1, NewRow
    <3>3. Top.deps \in Seq(Nodes) /\ Top.deps # <<>> /\ Len(Top.deps) = 1
      BY <1>5, <3>2, PrintDepEffect, StateTypes DEF Top
    <3>4. Tail(Top.deps) \in Seq(Nodes) /\ Len(Tail(Top.deps)) = 0
      BY <3>3, HeadTailProperties
    <3>5. Tail(Top.deps) = <<>>
      BY <3>4, EmptySeq
    <3> QED  BY <1>5, <3>1, <3>5, PrintDepEffect
  <2> QED  BY <2>1, <2>3, <2>4
<1>6. CASE Return
  <2>1. rows' = rows
    BY <1>6 DEF Return
  <2>2. d \in 1 .. Len(stack) /\ stack'[d] = stack[d]
    BY <1>6, ReturnEffect
  <2>3. Anchor(d, j) /\ Level(k) = d /\ rows[k].prefix[d]
    BY <1>3, <2>1, <2>2 DEF Anchor, Level
  <2>4. stack[d].deps = <<>>
    BY <2>1, <2>2, <2>3 DEF Closed
  <2> QED  BY <2>2, <2>4
<1> QED  BY <1>3, <1>4, <1>5, <1>6

(***************************************************************************)
(* The drawing.                                                            *)
(***************************************************************************)

(* Two rows that have the same rows below them at a level hang on one.     *)
LEMMA AnchorUnique ==
    ASSUME TypeOK, Nested, NEW d \in 1 .. Len(stack),
           NEW i \in 1 .. Len(rows), NEW j \in 1 .. Len(rows), Anchor(d, i),
           Level(j) = d - 1, \A k \in j + 1 .. Len(rows) : Level(k) >= d
    PROVE  i = j
<1>1. Level(i) = d - 1
  BY AnchorType
<1>2. \A k \in i + 1 .. Len(rows) : Level(k) >= d
  BY DEF Anchor
<1>3. i < j => FALSE
  BY <1>2
<1>4. j < i => FALSE
  BY <1>1
<1> QED  BY <1>3, <1>4, StateTypes

(* A drawing that only gains a row keeps the parents it had.               *)
LEMMA ParentKept ==
    ASSUME TypeOK, Nested, PrintDep, NEW k \in 1 .. Len(rows), NEW j \in 1 .. k - 1
    PROVE  ParentRow(j, k)' <=> ParentRow(j, k)
<1>1. \A i \in j .. k : i \in 1 .. Len(rows)
  OBVIOUS
<1>2. \A i \in j .. k : Level(i)' = Level(i)
  BY <1>1, NewRow
<1>3. j \in j .. k /\ k \in j .. k /\ \A i \in j + 1 .. k - 1 : i \in j .. k
  OBVIOUS
<1> QED  BY <1>2, <1>3 DEF ParentRow

(* The new row hangs on the anchor of the innermost call.                  *)
LEMMA NewRowHangs ==
    ASSUME TypeOK, Nested, Anchored, PrintDep, NEW m, m = Len(rows) + 1
    PROVE  \E j \in 1 .. m - 1 : HangsOn(m, j)'
<1> DEFINE n == Len(stack)
<1>1. /\ Len(rows') = m /\ Len(rows) \in Nat /\ m \in Nat /\ Len(rows) = m - 1
      /\ Len(rows'[m].prefix) = n
      /\ n \in 1 .. n /\ n \in Nat
      /\ Len(stack[n].prefix) = n - 1
      /\ rows'[m].prefix[n] <=> Len(stack[n].deps) = 1
      /\ SubSeq(rows'[m].prefix, 1, n - 1) = stack[n].prefix
      /\ rows'[m].of = stack[n].uid
      /\ \A k \in 1 .. Len(rows) : rows'[k] = rows[k] /\ Level(k)' = Level(k)
  BY NewRow
<1>2. PICK j \in 1 .. Len(rows) : Anchor(n, j)
  BY <1>1 DEF Anchored
<1>3. Level(j) = n - 1 /\ \A i \in j + 1 .. m - 1 : Level(i) >= n
  BY <1>1, <1>2, AnchorType DEF Anchor
<1>4. Level(m)' = n /\ Level(j)' = n - 1 /\ \A i \in j + 1 .. m - 1 : Level(i)' >= n
  <2>1. Level(m)' = n
    BY <1>1 DEF Level
  <2>2. \A i \in j + 1 .. m - 1 : i \in 1 .. Len(rows)
    BY <1>1
  <2> QED  BY <1>1, <1>3, <2>1, <2>2
<1>5. ParentRow(j, m)'
  BY <1>1, <1>4 DEF ParentRow
<1>6. rows'[j].uid = rows'[m].of /\ SubSeq(rows'[m].prefix, 1, n - 1) = rows'[j].prefix
  BY <1>1, <1>2 DEF Anchor
<1>7. ~LaterSibling(j, m)'
  BY <1>1 DEF LaterSibling
<1>8. ~rows'[m].prefix[n] => Open(j)'
  <2> SUFFICES ASSUME ~rows'[m].prefix[n]
               PROVE  Open(j)'
    OBVIOUS
  <2>1. stack[n].deps \in Seq(Nodes) /\ stack[n].deps # <<>> /\ Len(stack[n].deps) # 1
    BY <1>1, PrintDepEffect, StateTypes DEF Top
  <2>2. Tail(stack[n].deps) # <<>>
    <3> DEFINE s == stack[n].deps
    <3>1. Len(s) \in Nat /\ Len(s) # 0 /\ Len(s) # 1 /\ Len(Tail(s)) = Len(s) - 1
          /\ Tail(s) \in Seq(Nodes)
      BY <2>1, HeadTailProperties, EmptySeq
    <3> HIDE DEF s
    <3>2. Len(Tail(s)) # 0
      BY <3>1
    <3>3. Tail(s) # <<>>
      BY <3>1, <3>2, EmptySeq
    <3> QED  BY <3>3 DEF s
  <2>3. stack'[n].deps # <<>> /\ n \in 1 .. Len(stack')
    BY <1>1, <2>2, PrintDepEffect DEF Top
  <2>4. PICK d \in 1 .. Len(stack) : d = n
    BY <1>1
  <2>5. Anchor(d, j)'
    BY <1>1, <1>2, <2>4, AnchorKept
  <2> QED  BY <2>3, <2>4, <2>5 DEF Open
<1> HIDE DEF n
<1>9. HangsOn(m, j)'
  BY <1>4, <1>5, <1>6, <1>7, <1>8 DEF HangsOn
<1> QED  BY <1>1, <1>9

(* A row that is drawn already hangs on the same row as before.            *)
LEMMA OldRowHangs ==
    ASSUME TypeOK, Nested, Anchored, Closed, PrintDep,
           NEW k \in 2 .. Len(rows), NEW j \in 1 .. k - 1, HangsOn(k, j)
    PROVE  HangsOn(k, j)'
<1> DEFINE n == Len(stack)
           m == Len(rows) + 1
<1>1. /\ Len(rows') = m /\ Len(rows) \in Nat
      /\ Len(rows'[m].prefix) = n /\ n \in 1 .. n /\ n \in Nat
      /\ \A i \in 1 .. Len(rows) : rows'[i] = rows[i] /\ Level(i)' = Level(i)
  BY NewRow
<1>2. k \in 1 .. Len(rows) /\ j \in 1 .. Len(rows) /\ j < k
  BY <1>1
<1>3. ParentRow(j, k)' /\ rows'[j].uid = rows'[k].of
      /\ SubSeq(rows'[k].prefix, 1, Level(j)') = rows'[j].prefix
      /\ rows'[k] = rows[k] /\ Level(k)' = Level(k) /\ Level(k) = Level(j) + 1
  <2>1. ParentRow(j, k) /\ rows[j].uid = rows[k].of
        /\ SubSeq(rows[k].prefix, 1, Level(j)) = rows[j].prefix
    BY DEF HangsOn
  <2> QED  BY <1>1, <1>2, <2>1, ParentKept DEF ParentRow
<1>4. ASSUME NEW i \in k + 1 .. Len(rows)
      PROVE  ParentRow(j, i)' <=> ParentRow(j, i)
  <2>1. i \in 1 .. Len(rows) /\ j \in 1 .. i - 1
    BY <1>2
  <2> QED  BY <2>1, ParentKept
<1>5. ASSUME Level(j) = n - 1, \A i \in j + 1 .. Len(rows) : Level(i) >= n
      PROVE  Anchor(n, j)
  <2>1. PICK a \in 1 .. Len(rows) : Anchor(n, a)
    BY <1>1 DEF Anchored
  <2>2. a = j
    BY <1>1, <1>2, <1>5, <2>1, AnchorUnique
  <2> QED  BY <2>1, <2>2
<1>6. rows'[k].prefix[Level(k)'] => ~LaterSibling(j, k)'
  <2> SUFFICES ASSUME rows[k].prefix[Level(k)], LaterSibling(j, k)'
               PROVE  FALSE
    BY <1>3
  <2>1. PICK i \in k + 1 .. Len(rows') : ParentRow(j, i)'
    BY DEF LaterSibling
  <2>2. i \notin k + 1 .. Len(rows)
    <3>1. ~LaterSibling(j, k)
      BY DEF HangsOn
    <3> QED  BY <1>4, <2>1, <3>1 DEF LaterSibling
  <2>3. i = m
    <3>1. i \in k + 1 .. Len(rows) + 1 /\ k \in Int /\ Len(rows) \in Nat
      BY <1>1, <1>2, <2>1
    <3> QED  BY <2>2, <3>1
  <2>4. Level(j)' + 1 = n /\ \A a \in j + 1 .. m - 1 : Level(a)' >= n
    BY <1>1, <2>1, <2>3 DEF ParentRow, Level
  <2>5. Level(j) = n - 1 /\ \A a \in j + 1 .. Len(rows) : Level(a) >= n
    <3>1. \A a \in j + 1 .. Len(rows) : a \in 1 .. Len(rows) /\ a \in j + 1 .. m - 1
      BY <1>1
    <3>2. Level(j) \in Nat
      BY <1>2, StateTypes
    <3> QED  BY <1>1, <1>2, <2>4, <3>1, <3>2
  <2>6. Anchor(n, j) /\ k \in j + 1 .. Len(rows) /\ Level(k) = n
    <3>1. Anchor(n, j)
      BY <1>5, <2>5
    <3>2. k \in j + 1 .. Len(rows)
      BY <1>2
    <3>3. Level(k) = n
      BY <1>1, <1>3, <2>5
    <3> QED  BY <3>1, <3>2, <3>3
  <2>7. stack[n].deps = <<>>
    BY <1>1, <1>2, <2>6 DEF Closed
  <2> QED  BY <2>7, PrintDepEffect DEF Top
<1>7. ~rows'[k].prefix[Level(k)'] => LaterSibling(j, k)' \/ Open(j)'
  <2> SUFFICES ASSUME ~rows[k].prefix[Level(k)]
               PROVE  LaterSibling(j, k)' \/ Open(j)'
    BY <1>3
  <2>1. LaterSibling(j, k) \/ Open(j)
    BY DEF HangsOn
  <2>2. CASE LaterSibling(j, k)
    <3>1. PICK i \in k + 1 .. Len(rows) : ParentRow(j, i)
      BY <2>2 DEF LaterSibling
    <3>2. ParentRow(j, i)' /\ i \in k + 1 .. Len(rows')
      BY <1>1, <1>4, <3>1
    <3> QED  BY <3>2 DEF LaterSibling
  <2>3. CASE Open(j)
    <3>1. PICK d \in 1 .. Len(stack) : Anchor(d, j) /\ stack[d].deps # <<>>
      BY <2>3 DEF Open
    <3>2. Anchor(d, j)' /\ d \in 1 .. Len(stack')
      BY <1>2, <3>1, AnchorKept, PrintDepEffect
    <3>3. CASE d # n
      <4>1. stack'[d].deps # <<>>
        BY <3>1, <3>3, PrintDepEffect
      <4> QED  BY <3>2, <4>1 DEF Open
    <3>4. CASE d = n
      <4>1. Level(j) = n - 1 /\ \A i \in j + 1 .. Len(rows) : Level(i) >= n
        BY <1>2, <3>1, <3>4, AnchorType DEF Anchor
      <4>2. Level(j)' = n - 1 /\ \A i \in j + 1 .. m - 1 : Level(i)' >= n
        <5>1. \A i \in j + 1 .. m - 1 : i \in 1 .. Len(rows) /\ i \in j + 1 .. Len(rows)
          BY <1>1, <1>2
        <5> QED  BY <1>1, <1>2, <4>1, <5>1
      <4>3. PICK i \in k + 1 .. Len(rows') : i = m
        BY <1>1, <1>2
      <4>4. Level(i)' = n
        BY <1>1, <4>3 DEF Level
      <4>5. ParentRow(j, i)'
        BY <1>1, <1>2, <4>2, <4>3, <4>4 DEF ParentRow
      <4> QED  BY <4>5 DEF LaterSibling
    <3> QED  BY <3>3, <3>4
  <2> QED  BY <2>1, <2>2, <2>3
<1> QED  BY <1>3, <1>6, <1>7 DEF HangsOn

LEMMA DrawnNext ==
    ASSUME TypeOK, Nested, Anchored, Closed, Drawn, [Next]_vars
    PROVE  Drawn'
<1>2. CASE PrintRoot
  <2>1. Len(rows') = 1 /\ 2 .. 1 = {}
    BY <1>2, PrintRootEffect
  <2> QED  BY <2>1 DEF Drawn
<1>3. CASE PrintDep
  <2> SUFFICES ASSUME NEW k \in 2 .. Len(rows')
               PROVE  \E j \in 1 .. k - 1 : HangsOn(k, j)'
    BY DEF Drawn
  <2>1. k \in 2 .. Len(rows) \/ k = Len(rows) + 1
    BY <1>3, NewRow
  <2>2. CASE k \in 2 .. Len(rows)
    <3>1. PICK j \in 1 .. k - 1 : HangsOn(k, j)
      BY <2>2 DEF Drawn
    <3>2. HangsOn(k, j)'
      BY <1>3, <2>2, <3>1, OldRowHangs
    <3> QED  BY <3>2
  <2>3. CASE k = Len(rows) + 1
    BY <1>3, <2>3, NewRowHangs
  <2> QED  BY <2>1, <2>2, <2>3
<1>4. ASSUME Enter \/ Return \/ UNCHANGED <<stack, rows>>
      PROVE  Drawn'
  <2>1. rows' = rows
    BY <1>4 DEF Enter, Return
  <2>2. ASSUME NEW j, Open(j)
        PROVE  Open(j)'
    <3>1. PICK d \in 1 .. Len(stack) : Anchor(d, j) /\ stack[d].deps # <<>>
      BY <2>2 DEF Open
    <3>2. d \in 1 .. Len(stack') /\ stack'[d] = stack[d]
      <4>1. CASE Enter
        BY <4>1, EnterEffect, StateTypes
      <4>2. CASE Return
        <5>1. d # Len(stack)
          BY <3>1, <4>2, ReturnEffect DEF Top
        <5>2. d \in 1 .. Len(stack')
          BY <4>2, <5>1, ReturnEffect, StateTypes
        <5> QED  BY <4>2, <5>2, ReturnEffect
      <4> QED  BY <1>4, <4>1, <4>2
    <3>3. Anchor(d, j)'
      BY <2>1, <3>1, <3>2 DEF Anchor, Level
    <3> QED  BY <3>1, <3>2, <3>3 DEF Open
  <2>3. ASSUME NEW k \in 2 .. Len(rows), NEW j \in 1 .. k - 1, HangsOn(k, j)
        PROVE  HangsOn(k, j)'
    <3>1. /\ Level(k)' = Level(k) /\ Level(j)' = Level(j)
          /\ ParentRow(j, k)' <=> ParentRow(j, k)
          /\ LaterSibling(j, k)' <=> LaterSibling(j, k)
      BY <2>1 DEF ParentRow, LaterSibling, Level
    <3> QED  BY <2>1, <2>2, <2>3, <3>1 DEF HangsOn
  <2> QED  BY <2>1, <2>3 DEF Drawn
<1> QED  BY <1>2, <1>3, <1>4 DEF Next, vars, SkipSeen, Finish

LEMMA InvInit == Init => Inv
<1> SUFFICES ASSUME Init PROVE Inv
  OBVIOUS
<1>1. TypeOK
  BY TypeInit
<1>2. Nested /\ RecursionBounded /\ Anchored /\ Closed /\ Drawn
  BY DEF Init, Nested, RecursionBounded, Anchored, Closed, Drawn
<1>3. Limited
  BY <1>1, InputTypes DEF Init, Limited, TypeOK
<1> QED  BY <1>1, <1>2, <1>3 DEF Inv

LEMMA InvNext == Inv /\ [Next]_vars => Inv'
<1> SUFFICES ASSUME Inv, [Next]_vars PROVE Inv'
  OBVIOUS
<1>1. TypeOK'
  BY TypeNext DEF Inv
<1>2. Nested'
  BY NestedNext DEF Inv
<1>3. Limited'
  BY LimitedNext DEF Inv
<1>4. RecursionBounded'
  BY RecursionNext DEF Inv
<1>5. Anchored'
  BY AnchoredNext DEF Inv
<1>6. Closed'
  BY ClosedNext DEF Inv
<1>7. Drawn'
  BY DrawnNext DEF Inv
<1> QED  BY <1>1, <1>2, <1>3, <1>4, <1>5, <1>6, <1>7 DEF Inv

LEMMA Invariance == Spec => []Inv
<1> QED  BY InvInit, InvNext, PTL DEF Spec

(***************************************************************************)
(* Which relations are printed: the invariant behind                       *)
(* EveryRelationPrintedOnce and DepthHonoured.                             *)
(***************************************************************************)

(* Row k shows the relation from u to v.                                   *)
Shows(k, u, v) == rows[k].of = u /\ rows[k].uid = v

(* What a call still has to print are relations of its node, each once.    *)
Remaining ==
    \A d \in 1 .. Len(stack) :
        /\ Range(stack[d].deps) \subseteq adj[stack[d].uid]
        /\ \A i, j \in 1 .. Len(stack[d].deps) : stack[d].deps[i] = stack[d].deps[j] => i = j

(* Every row but the first is a relation of an entered node, that no other *)
(* row shows and no call will show again.                                  *)
Once ==
    \A k \in 2 .. Len(rows) :
        /\ rows[k].of \in uidSet /\ rows[k].uid \in adj[rows[k].of]
        /\ \A j \in 2 .. Len(rows) : Shows(j, rows[k].of, rows[k].uid) => j = k
        /\ \A d \in 1 .. Len(stack) :
              stack[d].uid = rows[k].of => rows[k].uid \notin Range(stack[d].deps)

(* Every relation of an entered node is printed or will be.                *)
Accounted ==
    \A u \in uidSet : \A v \in adj[u] :
        \/ \E k \in 2 .. Len(rows) : Shows(k, u, v)
        \/ \E d \in 1 .. Len(stack) : stack[d].uid = u /\ v \in Range(stack[d].deps)

(* Every row that the depth does not cut is entered: the last one perhaps  *)
(* by the call being made.                                                 *)
Entered ==
    \A k \in 1 .. Len(rows) :
        maxDepth = 0 \/ Level(k) < maxDepth =>
            rows[k].uid \in uidSet \/ (pc = "call" /\ k = Len(rows))

(* The first row, and no other, is that of the root's call; the relations  *)
(* of the root are one level below.                                        *)
Rooted ==
    /\ pc # "root" => rows # <<>>
    /\ rows # <<>> => rows[1].uid = root /\ Level(1) = 0
    /\ stack # <<>> => stack[1].uid = root
    /\ \A k \in 2 .. Len(rows) : Level(k) # 0 /\ (rows[k].of = root => Level(k) = 1)
    /\ \A u \in uidSet : \E k \in 1 .. Len(rows) : rows[k].uid = u

(* A row is as many relations away from the root as it is indented, or     *)
(* fewer, and no row is indented more than there are nodes.                *)
Near ==
    \A k \in 1 .. Len(rows) : rows[k].uid \in Within(Level(k)) /\ Level(k) <= Cardinality(Nodes)

PrintedInv == Inv /\ Remaining /\ Once /\ Accounted /\ Entered /\ Rooted /\ Near

-----------------------------------------------------------------------------
(* The nodes at most n relations away, by recursion on n.                  *)
WithinOf(i, n) ==
    LET W[k \in 0 .. n] == IF k = 0 THEN {i.root}
                           ELSE W[k - 1] \union UNION {i.adj[u] : u \in W[k - 1]}
    IN  W[n]

Grow(S) == S \union (UNION {adj[u] : u \in S})

LEMMA WithinUnique ==
    ASSUME NEW m \in Nat, NEW g, g[0] = {root}, \A i \in 1 .. m : g[i] = Grow(g[i - 1])
    PROVE  Within(m) = g[m]
<1> DEFINE W[k \in 0 .. m] == IF k = 0 THEN {root}
                              ELSE W[k - 1] \union UNION {adj[u] : u \in W[k - 1]}
           h == [k \in 0 .. m |-> g[k]]
<1>1. ASSUME NEW k \in 0 .. m
      PROVE  h[k] = IF k = 0 THEN {root} ELSE h[k - 1] \union UNION {adj[u] : u \in h[k - 1]}
  <2>1. CASE k = 0
    BY <2>1
  <2>2. CASE k # 0
    <3>1. k \in 1 .. m /\ k - 1 \in 0 .. m
      BY <2>2
    <3>2. h[k] = g[k] /\ h[k - 1] = g[k - 1] /\ g[k] = Grow(g[k - 1])
      BY <3>1
    <3> HIDE DEF h
    <3> QED  BY <2>2, <3>2, Zenon DEF Grow
  <2> QED  BY <2>1, <2>2
<1>2. h = [k \in 0 .. m |-> IF k = 0 THEN {root}
                               ELSE h[k - 1] \union UNION {adj[u] : u \in h[k - 1]}]
  BY <1>1, Zenon
<1> HIDE DEF h
<1>3. W = [k \in 0 .. m |-> IF k = 0 THEN {root}
                               ELSE W[k - 1] \union UNION {adj[u] : u \in W[k - 1]}]
  <2> HIDE DEF W
  <2> QED  BY <1>2, Zenon DEF W
<1>4. Within(m) = W[m]
  BY Zenon DEF Within
<1> HIDE DEF W
<1> DEFINE Same == {i \in Nat : i \in 0 .. m => W[i] = g[i]}
<1>5. 0 \in Same
  BY <1>3
<1>6. ASSUME NEW i \in Same
      PROVE  i + 1 \in Same
  <2> SUFFICES ASSUME i + 1 \in 0 .. m
               PROVE  W[i + 1] = g[i + 1]
    OBVIOUS
  <2>1. i \in 0 .. m /\ i + 1 \in 1 .. m /\ (i + 1) - 1 = i /\ i + 1 # 0
    OBVIOUS
  <2>2. W[i] = g[i] /\ g[i + 1] = Grow(g[i])
    BY <2>1
  <2>3. W[i + 1] = W[i] \union UNION {adj[u] : u \in W[i]}
    BY <1>3, <2>1, Zenon
  <2> QED  BY <2>2, <2>3, Zenon DEF Grow
<1>7. Same = Nat
  <2> HIDE DEF Same
  <2>1. Same \subseteq Nat
    BY DEF Same
  <2> QED  BY <1>5, <1>6, <2>1, SetInduction
<1>8. W[m] = g[m]
  BY <1>7
<1> QED  BY <1>4, <1>8

LEMMA WithinSteps ==
    ASSUME input \in Inputs, NEW n \in Nat
    PROVE  /\ Within(0) = {root}
           /\ Within(n) \subseteq Nodes
           /\ Within(n + 1) = Grow(Within(n))
<1> DEFINE m == n + 1
           step == [i \in 1 .. m |-> [S \in SUBSET Nodes |-> Grow(S)]]
<1>1. {root} \in SUBSET Nodes /\ \A S \in SUBSET Nodes : Grow(S) \in SUBSET Nodes
  <2>1. ASSUME NEW S \in SUBSET Nodes
        PROVE  Grow(S) \subseteq Nodes
    BY InputTypes, Zenon DEF Grow
  <2> QED  BY <2>1, InputTypes
<1>2. StepsOn(step, SUBSET Nodes, m)
  BY <1>1 DEF StepsOn
<1> HIDE DEF step
<1>3. PICK f : Recursive(f, {root}, step, SUBSET Nodes, m)
  <2>1. m \in Nat
    OBVIOUS
  <2> HIDE DEF m
  <2> QED  BY <1>1, <1>2, <2>1, RecursiveFunction
<1>4. f \in [0 .. m -> SUBSET Nodes] /\ f[0] = {root}
  BY <1>3 DEF Recursive
<1>5. \A i \in 1 .. m : f[i] = Grow(f[i - 1])
  <2> SUFFICES ASSUME NEW i \in 1 .. m
               PROVE  f[i] = Grow(f[i - 1])
    OBVIOUS
  <2>1. f[i] = step[i][f[i - 1]]
    BY <1>3 DEF Recursive
  <2>2. i - 1 \in 0 .. m
    OBVIOUS
  <2>3. f[i - 1] \in SUBSET Nodes
    BY <1>4, <2>2
  <2> QED  BY <2>1, <2>3 DEF step
<1>6. Within(0) = f[0]
  BY <1>4, WithinUnique
<1>7. Within(n) = f[n]
  BY <1>4, <1>5, WithinUnique
<1>8. Within(m) = f[m]
  BY <1>4, <1>5, WithinUnique
<1>9. f[m] = Grow(f[n]) /\ f[n] \in SUBSET Nodes
  BY <1>4, <1>5
<1> QED  BY <1>4, <1>6, <1>7, <1>8, <1>9

LEMMA WithinGrows ==
    ASSUME input \in Inputs, NEW m \in Nat, NEW n \in Nat, m <= n
    PROVE  Within(m) \subseteq Within(n)
<1> DEFINE Good == {i \in Nat : Within(m) \subseteq Within(m + i)}
<1>1. 0 \in Good
  OBVIOUS
<1>2. ASSUME NEW i \in Good
      PROVE  i + 1 \in Good
  <2>1. m + i \in Nat /\ m + (i + 1) = (m + i) + 1
    OBVIOUS
  <2>2. Within((m + i) + 1) = Grow(Within(m + i))
    BY <2>1, WithinSteps
  <2>3. Within(m + i) \subseteq Within((m + i) + 1)
    BY <2>2 DEF Grow
  <2> QED  BY <2>1, <2>3
<1>3. Good = Nat
  <2>1. Good \subseteq Nat
    OBVIOUS
  <2> HIDE DEF Good
  <2> QED  BY <1>1, <1>2, <2>1, SetInduction
<1>4. n - m \in Nat /\ m + (n - m) = n
  OBVIOUS
<1>5. Within(m) \subseteq Within(m + (n - m))
  BY <1>3, <1>4
<1> QED  BY <1>4, <1>5

(* The node map, the root and the depth do not change.                     *)
LEMMA InputKept ==
    ASSUME [Next]_vars
    PROVE  /\ input' = input /\ adj' = adj /\ root' = root /\ maxDepth' = maxDepth /\ Nodes' = Nodes
           /\ \A n : Within(n)' = Within(n)
<1>1. input' = input
  BY DEF Next, PrintRoot, SkipSeen, Enter, PrintDep, Return, Finish, vars
<1>2. adj' = adj /\ root' = root /\ maxDepth' = maxDepth /\ Nodes' = Nodes
  BY <1>1 DEF adj, root, maxDepth, Nodes
<1>3. ASSUME NEW n
      PROVE  Within(n)' = Within(n)
  <2>1. Within(n) = WithinOf(input, n)
    BY Zenon DEF Within, WithinOf, adj, root
  <2>2. Within(n)' = WithinOf(input', n)
    BY Zenon DEF Within, WithinOf, adj, root
  <2> QED  BY <1>1, <2>1, <2>2
<1> QED  BY <1>1, <1>2, <1>3

(* Sorting loses no relation and repeats none.                             *)
LEMMA SortDepsOnce ==
    ASSUME input \in Inputs, NEW u \in Nodes, NEW deps \in SortDeps(adj[u])
    PROVE  /\ Range(deps) = adj[u]
           /\ \A i, j \in 1 .. Len(deps) : deps[i] = deps[j] => i = j
<1> DEFINE n == Cardinality(adj[u])
<1>1. IsFiniteSet(adj[u]) /\ n \in Nat
  BY InputTypes, FS_Subset, FS_CardinalityType
<1>2. deps \in Surjection(1 .. n, adj[u])
  BY DEF SortDeps
<1>3. IsFiniteSet(1 .. n) /\ Cardinality(1 .. n) = n
  BY <1>1, FS_Interval
<1>4. deps \in Injection(1 .. n, adj[u])
  BY <1>2, <1>3, FS_Surjection
<1>5. DOMAIN deps = 1 .. n /\ Len(deps) = n
  BY <1>1, <1>2, SortDepsType, LenProperties DEF Surjection
<1>6. Range(deps) = adj[u]
  BY <1>2, <1>5 DEF Range, Surjection
<1>7. \A i, j \in 1 .. n : deps[i] = deps[j] => i = j
  BY <1>4 DEF Injection, IsInjective
<1> QED  BY <1>5, <1>6, <1>7

LEMMA TailOnce ==
    ASSUME NEW S, NEW s \in Seq(S), s # <<>>, \A i, j \in 1 .. Len(s) : s[i] = s[j] => i = j
    PROVE  /\ Head(s) \in Range(s)
           /\ Range(Tail(s)) = Range(s) \ {Head(s)}
           /\ \A i, j \in 1 .. Len(Tail(s)) : Tail(s)[i] = Tail(s)[j] => i = j
<1>1. /\ Len(s) \in Nat /\ Len(s) # 0 /\ Head(s) = s[1] /\ Tail(s) \in Seq(S)
      /\ Len(Tail(s)) = Len(s) - 1
      /\ \A i \in 1 .. Len(s) - 1 : Tail(s)[i] = s[i + 1]
  BY HeadTailProperties, LenProperties, EmptySeq
<1>2. /\ Range(s) = {s[i] : i \in 1 .. Len(s)}
      /\ Range(Tail(s)) = {Tail(s)[i] : i \in 1 .. Len(s) - 1}
  <2>1. Range(Tail(s)) = {Tail(s)[i] : i \in 1 .. Len(Tail(s))}
    <3>1. PICK t \in Seq(S) : t = Tail(s)
      BY <1>1
    <3>2. Range(t) = {t[i] : i \in 1 .. Len(t)}
      BY RangeOfSequence
    <3> QED  BY <3>1, <3>2, Zenon
  <2>2. Range(s) = {s[i] : i \in 1 .. Len(s)}
    BY RangeOfSequence
  <2> QED  BY <1>1, <2>1, <2>2, Zenon
<1>3. \A i \in 1 .. Len(s) - 1 : i + 1 \in 1 .. Len(s) /\ i + 1 # 1
  BY <1>1
<1>4. \A i \in 1 .. Len(s) : i = 1 \/ (i - 1 \in 1 .. Len(s) - 1 /\ (i - 1) + 1 = i)
  BY <1>1
<1>5. 1 \in 1 .. Len(s)
  BY <1>1
<1>6. Range(Tail(s)) \subseteq Range(s) \ {Head(s)}
  BY <1>1, <1>2, <1>3, <1>5
<1>7. ASSUME NEW x \in Range(s) \ {Head(s)}
      PROVE  x \in Range(Tail(s))
  <2>1. PICK i \in 1 .. Len(s) : x = s[i]
    BY <1>2
  <2>2. i - 1 \in 1 .. Len(s) - 1 /\ (i - 1) + 1 = i
    BY <1>1, <1>4, <2>1
  <2>3. Tail(s)[i - 1] = x
    BY <1>1, <2>1, <2>2
  <2> QED  BY <1>2, <2>2, <2>3
<1>8. \A i, j \in 1 .. Len(Tail(s)) : Tail(s)[i] = Tail(s)[j] => i = j
  BY <1>1, <1>3
<1> QED  BY <1>1, <1>2, <1>5, <1>6, <1>7, <1>8

(***************************************************************************)
(* What the steps do to the relations that are still to print.             *)
(***************************************************************************)
LEMMA EnterDeps ==
    ASSUME TypeOK, Enter
    PROVE  /\ Range(stack'[Len(stack) + 1].deps) = adj[callee.uid]
           /\ \A i, j \in 1 .. Len(stack'[Len(stack) + 1].deps) :
                 stack'[Len(stack) + 1].deps[i] = stack'[Len(stack) + 1].deps[j] => i = j
           /\ \A d \in 1 .. Len(stack') : d \in 1 .. Len(stack) \/ d = Len(stack) + 1
           /\ uidSet' = uidSet \union {callee.uid} /\ callee.uid \notin uidSet
           /\ rows' = rows /\ pc = "call" /\ pc' = "loop"
<1>1. PICK deps \in SortDeps(adj[callee.uid]) :
        stack' = Append(stack, [uid |-> callee.uid, prefix |-> callee.prefix, deps |-> deps])
  BY DEF Enter
<1> DEFINE f == [uid |-> callee.uid, prefix |-> callee.prefix, deps |-> deps]
<1>2. callee.uid \in Nodes /\ callee.prefix \in Seq(BOOLEAN) /\ input \in Inputs
  BY DEF TypeOK
<1>3. /\ Range(deps) = adj[callee.uid]
      /\ \A i, j \in 1 .. Len(deps) : deps[i] = deps[j] => i = j
  BY <1>2, SortDepsOnce
<1>4. f \in Frame /\ stack \in Seq(Frame)
  BY <1>2, SortDepsType DEF TypeOK, Frame
<1>5. f.deps = deps
  OBVIOUS
<1> HIDE DEF f
<1>6. stack'[Len(stack) + 1] = f
  <2>1. stack' = Append(stack, f)
    BY <1>1 DEF f
  <2> QED  BY <1>4, <2>1, AppendProperties
<1>7. \A d \in 1 .. Len(stack') : d \in 1 .. Len(stack) \/ d = Len(stack) + 1
  BY EnterEffect, StateTypes
<1>8. /\ uidSet' = uidSet \union {callee.uid} /\ callee.uid \notin uidSet
      /\ rows' = rows /\ pc = "call" /\ pc' = "loop"
  BY DEF Enter, Seen
<1> QED  BY <1>3, <1>5, <1>6, <1>7, <1>8

LEMMA PrintDepDeps ==
    ASSUME TypeOK, Remaining, PrintDep
    PROVE  \E v \in adj[stack[Len(stack)].uid] :
              /\ v \in Range(stack[Len(stack)].deps)
              /\ Range(stack'[Len(stack)].deps) = Range(stack[Len(stack)].deps) \ {v}
              /\ \A i, j \in 1 .. Len(stack'[Len(stack)].deps) :
                    stack'[Len(stack)].deps[i] = stack'[Len(stack)].deps[j] => i = j
              /\ rows'[Len(rows) + 1].uid = v
              /\ rows'[Len(rows) + 1].of = stack[Len(stack)].uid
<1>1. /\ Len(stack) \in 1 .. Len(stack) /\ Top.deps # <<>> /\ Top = stack[Len(stack)]
      /\ stack'[Len(stack)].deps = Tail(Top.deps)
      /\ rows'[Len(rows) + 1] = [uid |-> Head(Top.deps), prefix |-> Append(Top.prefix, IsLast),
                                 of |-> Top.uid]
  BY PrintDepEffect DEF Top
<1>2. /\ Range(Top.deps) \subseteq adj[Top.uid]
      /\ \A i, j \in 1 .. Len(Top.deps) : Top.deps[i] = Top.deps[j] => i = j
  BY <1>1 DEF Remaining
<1>3. Top.deps \in Seq(Nodes)
  BY <1>1, StateTypes
<1>4. PICK deps \in Seq(Nodes) : deps = Top.deps
  BY <1>3
<1>5. /\ Head(deps) \in Range(deps)
      /\ Range(Tail(deps)) = Range(deps) \ {Head(deps)}
      /\ \A i, j \in 1 .. Len(Tail(deps)) : Tail(deps)[i] = Tail(deps)[j] => i = j
  BY <1>1, <1>2, <1>4, TailOnce
<1>6. Head(deps) \in adj[Top.uid]
  BY <1>2, <1>4, <1>5
<1>7. rows'[Len(rows) + 1].uid = Head(deps) /\ rows'[Len(rows) + 1].of = Top.uid
  BY <1>1, <1>4
<1>8. stack'[Len(stack)].deps = Tail(deps)
  BY <1>1, <1>4
<1>9. Head(deps) \in adj[stack[Len(stack)].uid]
  BY <1>1, <1>6
<1>10. Range(stack'[Len(stack)].deps) = Range(stack[Len(stack)].deps) \ {Head(deps)}
  BY <1>1, <1>4, <1>5, <1>8, Zenon
<1> WITNESS Head(deps) \in adj[stack[Len(stack)].uid]
<1> QED  BY <1>1, <1>4, <1>5, <1>7, <1>8, <1>10

(* A call in progress prints below a row.                                  *)
LEMMA HasRow ==
    ASSUME TypeOK, Anchored, stack # <<>>
    PROVE  rows # <<>>
<1>1. Len(stack) \in 1 .. Len(stack)
  BY StateTypes
<1>2. PICK j \in 1 .. Len(rows) : Anchor(Len(stack), j)
  BY <1>1 DEF Anchored
<1>3. Len(rows) # 0
  BY <1>2, StateTypes
<1> QED  BY <1>3

(* The calls in progress are at most as many as the nodes.                 *)
LEMMA StackBounded ==
    ASSUME TypeOK, RecursionBounded
    PROVE  Len(stack) <= Cardinality(Nodes) /\ Cardinality(Nodes) \in Nat
<1> DEFINE n == Len(stack)
           f == [d \in 1 .. n |-> stack[d].uid]
<1>1. IsFiniteSet(Nodes) /\ n \in Nat
  BY InputTypes, StateTypes DEF TypeOK
<1>2. f \in Injection(1 .. n, Nodes)
  <2>1. f \in [1 .. n -> Nodes]
    BY StateTypes
  <2>2. \A j, k \in 1 .. n : f[j] = f[k] => j = k
    BY DEF RecursionBounded
  <2> QED  BY <2>1, <2>2 DEF Injection, IsInjective
<1> HIDE DEF f
<1>3. Cardinality(1 .. n) <= Cardinality(Nodes)
  BY <1>1, <1>2, FS_Injection
<1>4. Cardinality(1 .. n) = n
  BY <1>1, FS_Interval
<1>5. Cardinality(Nodes) \in Nat
  BY <1>1, FS_CardinalityType
<1> QED  BY <1>3, <1>4, <1>5

(***************************************************************************)
(* Every part of the invariant, step by step.                              *)
(***************************************************************************)
LEMMA RemainingNext ==
    ASSUME TypeOK, Remaining, [Next]_vars
    PROVE  Remaining'
<1>1. adj' = adj
  BY InputKept
<1>2. CASE UNCHANGED stack
  BY <1>1, <1>2 DEF Remaining
<1>3. CASE Enter
  BY <1>1, <1>3, EnterEffect, EnterDeps DEF Remaining
<1>4. CASE PrintDep
  <2> DEFINE n == Len(stack)
  <2>1. /\ n \in 1 .. n /\ Len(stack') = n
        /\ \A d \in 1 .. n : stack'[d].uid = stack[d].uid /\ (d # n => stack'[d] = stack[d])
    BY <1>4, PrintDepEffect
  <2>2. /\ Range(stack'[n].deps) \subseteq Range(stack[n].deps)
        /\ \A i, j \in 1 .. Len(stack'[n].deps) :
              stack'[n].deps[i] = stack'[n].deps[j] => i = j
    BY <1>4, PrintDepDeps
  <2> HIDE DEF n
  <2> SUFFICES ASSUME NEW d \in 1 .. n
               PROVE  /\ Range(stack'[d].deps) \subseteq adj[stack'[d].uid]
                      /\ \A i, j \in 1 .. Len(stack'[d].deps) :
                            stack'[d].deps[i] = stack'[d].deps[j] => i = j
    BY <1>1, <2>1 DEF Remaining
  <2>3. CASE d = n
    BY <2>1, <2>2, <2>3 DEF Remaining, n
  <2>4. CASE d # n
    BY <2>1, <2>4 DEF Remaining, n
  <2> QED  BY <2>3, <2>4
<1>5. CASE Return
  BY <1>1, <1>5, ReturnEffect DEF Remaining
<1> QED  BY <1>2, <1>3, <1>4, <1>5 DEF Next, vars, PrintRoot, SkipSeen, Finish

LEMMA OnceNext ==
    ASSUME TypeOK, Nested, RecursionBounded, Remaining, Once, [Next]_vars
    PROVE  Once'
<1>1. adj' = adj
  BY InputKept
<1>2. CASE UNCHANGED <<stack, rows, uidSet>>
  BY <1>1, <1>2 DEF Once, Shows
<1>3. CASE PrintRoot
  <2>1. Len(rows') = 1
    BY <1>3, PrintRootEffect
  <2> QED  BY <2>1 DEF Once
<1>4. CASE Enter
  <2>1. \A k \in 2 .. Len(rows) : rows[k].of # callee.uid
    BY <1>4, EnterDeps DEF Once
  <2>2. \A d \in 1 .. Len(stack') :
           (d \in 1 .. Len(stack) /\ stack'[d] = stack[d]) \/ stack'[d].uid = callee.uid
    BY <1>4, EnterEffect, EnterDeps
  <2>3. rows' = rows /\ uidSet \subseteq uidSet'
    BY <1>4, EnterDeps
  <2> QED  BY <1>1, <2>1, <2>2, <2>3 DEF Once, Shows
<1>5. CASE PrintDep
  <2> DEFINE n == Len(stack)
             m == Len(rows)
  <2>1. /\ n \in 1 .. n /\ m \in Nat /\ Len(rows') = m + 1 /\ Len(stack') = n
        /\ \A k \in 1 .. m : rows'[k] = rows[k]
        /\ \A d \in 1 .. n : stack'[d].uid = stack[d].uid /\ (d # n => stack'[d] = stack[d])
        /\ uidSet' = uidSet
    BY <1>5, NewRow, PrintDepEffect
  <2>2. PICK v \in adj[stack[n].uid] :
           /\ v \in Range(stack[n].deps)
           /\ Range(stack'[n].deps) = Range(stack[n].deps) \ {v}
           /\ rows'[m + 1].uid = v
           /\ rows'[m + 1].of = stack[n].uid
    BY <1>5, PrintDepDeps
  <2>3. stack[n].uid \in uidSet /\ \A d \in 1 .. n : stack[d].uid = stack[n].uid => d = n
    BY <2>1 DEF RecursionBounded
  <2>4. \A k \in 2 .. m : ~Shows(k, stack[n].uid, v)
    BY <2>1, <2>2 DEF Once, Shows
  <2>5. \A k \in 2 .. m + 1 : (k \in 2 .. m /\ k \in 1 .. m) \/ k = m + 1
    BY <2>1
  <2>6. \A d \in 1 .. n : Range(stack'[d].deps) \subseteq Range(stack[d].deps)
    BY <2>1, <2>2
  <2> SUFFICES ASSUME NEW k \in 2 .. m + 1
               PROVE  /\ rows'[k].of \in uidSet /\ rows'[k].uid \in adj[rows'[k].of]
                      /\ \A j \in 2 .. m + 1 :
                            rows'[j].of = rows'[k].of /\ rows'[j].uid = rows'[k].uid => j = k
                      /\ \A d \in 1 .. n :
                            stack'[d].uid = rows'[k].of =>
                                rows'[k].uid \notin Range(stack'[d].deps)
    BY <1>1, <2>1 DEF Once, Shows
  <2>7. CASE k \in 2 .. m
    <3>1. /\ rows'[k] = rows[k] /\ rows[k].of \in uidSet /\ rows[k].uid \in adj[rows[k].of]
          /\ \A j \in 2 .. m : Shows(j, rows[k].of, rows[k].uid) => j = k
          /\ \A d \in 1 .. n :
                stack[d].uid = rows[k].of => rows[k].uid \notin Range(stack[d].deps)
      BY <2>1, <2>5, <2>7 DEF Once
    <3>2. \A j \in 2 .. m + 1 : rows'[j].of = rows[k].of /\ rows'[j].uid = rows[k].uid => j = k
      BY <2>1, <2>2, <2>4, <2>5, <2>7, <3>1 DEF Shows
    <3>3. \A d \in 1 .. n :
             stack'[d].uid = rows[k].of => rows[k].uid \notin Range(stack'[d].deps)
      BY <2>1, <2>6, <3>1
    <3> QED  BY <3>1, <3>2, <3>3
  <2>8. CASE k = m + 1
    <3>1. \A j \in 2 .. m + 1 :
             rows'[j].of = rows'[k].of /\ rows'[j].uid = rows'[k].uid => j = k
      BY <2>1, <2>2, <2>4, <2>5, <2>8 DEF Shows
    <3>2. \A d \in 1 .. n :
             stack'[d].uid = rows'[k].of => rows'[k].uid \notin Range(stack'[d].deps)
      BY <2>1, <2>2, <2>3, <2>8
    <3> QED  BY <2>2, <2>3, <2>8, <3>1, <3>2
  <2> QED  BY <2>5, <2>7, <2>8
<1>6. CASE Return
  <2>1. rows' = rows /\ uidSet' = uidSet
    BY <1>6 DEF Return
  <2> QED  BY <1>1, <1>6, <2>1, ReturnEffect DEF Once, Shows
<1> QED  BY <1>2, <1>3, <1>4, <1>5, <1>6 DEF Next, vars, SkipSeen, Finish

LEMMA AccountedNext ==
    ASSUME TypeOK, Nested, Anchored, Remaining, Accounted, [Next]_vars
    PROVE  Accounted'
<1>1. adj' = adj
  BY InputKept
<1>2. CASE UNCHANGED <<stack, rows, uidSet>>
  BY <1>1, <1>2 DEF Accounted, Shows
<1>3. CASE PrintRoot
  <2>1. rows = <<>> /\ stack = <<>> /\ stack' = stack /\ uidSet' = uidSet
    BY <1>3 DEF PrintRoot, Nested
  <2>2. \A u \in uidSet : adj[u] = {}
    BY <2>1 DEF Accounted
  <2> QED  BY <1>1, <2>1, <2>2 DEF Accounted
<1>4. CASE Enter
  <2> SUFFICES ASSUME NEW u \in uidSet', NEW v \in adj[u],
                      ~ \E k \in 2 .. Len(rows) : Shows(k, u, v)
               PROVE  \E d \in 1 .. Len(stack') : stack'[d].uid = u /\ v \in Range(stack'[d].deps)
    BY <1>1, <1>4, EnterDeps DEF Accounted, Shows
  <2>1. Len(stack') = Len(stack) + 1 /\ Len(stack) \in Nat
    BY <1>4, EnterEffect, StateTypes
  <2>2. CASE u \in uidSet
    <3>1. PICK d \in 1 .. Len(stack) : stack[d].uid = u /\ v \in Range(stack[d].deps)
      BY <2>2 DEF Accounted
    <3>2. d \in 1 .. Len(stack') /\ stack'[d] = stack[d]
      BY <1>4, <2>1, EnterEffect
    <3> QED  BY <3>1, <3>2
  <2>3. CASE u = callee.uid
    <3>1. Len(stack) + 1 \in 1 .. Len(stack')
      BY <2>1
    <3> QED  BY <1>4, <2>3, <3>1, EnterEffect, EnterDeps
  <2> QED  BY <1>4, <2>2, <2>3, EnterDeps
<1>5. CASE PrintDep
  <2> DEFINE n == Len(stack)
             m == Len(rows)
  <2>1. /\ n \in 1 .. n /\ m \in Nat /\ Len(rows') = m + 1 /\ Len(stack') = n
        /\ \A k \in 1 .. m : rows'[k] = rows[k]
        /\ \A d \in 1 .. n : stack'[d].uid = stack[d].uid /\ (d # n => stack'[d] = stack[d])
        /\ uidSet' = uidSet
    BY <1>5, NewRow, PrintDepEffect
  <2>2. PICK w \in adj[stack[n].uid] :
           /\ Range(stack'[n].deps) = Range(stack[n].deps) \ {w}
           /\ rows'[m + 1].uid = w
           /\ rows'[m + 1].of = stack[n].uid
    BY <1>5, PrintDepDeps
  <2>3. rows # <<>> => m \in 1 .. m
    BY StateTypes
  <2> SUFFICES ASSUME NEW u \in uidSet, NEW v \in adj[u]
               PROVE  \/ \E k \in 2 .. m + 1 : rows'[k].of = u /\ rows'[k].uid = v
                      \/ \E d \in 1 .. n : stack'[d].uid = u /\ v \in Range(stack'[d].deps)
    BY <1>1, <2>1 DEF Accounted, Shows
  <2>4. CASE \E k \in 2 .. m : Shows(k, u, v)
    <3>1. PICK k \in 2 .. m : Shows(k, u, v)
      BY <2>4
    <3>2. k \in 1 .. m /\ k \in 2 .. m + 1
      BY <2>1
    <3> QED  BY <2>1, <3>1, <3>2 DEF Shows
  <2>5. CASE \E d \in 1 .. n : stack[d].uid = u /\ v \in Range(stack[d].deps)
    <3>1. PICK d \in 1 .. n : stack[d].uid = u /\ v \in Range(stack[d].deps)
      BY <2>5
    <3>2. CASE d = n /\ v = w
      <4>1. m + 1 \in 2 .. m + 1
        BY <1>5, <2>1, <2>3, HasRow DEF PrintDep
      <4> QED  BY <2>2, <3>1, <3>2, <4>1
    <3>3. CASE d # n \/ v # w
      BY <2>1, <2>2, <3>1, <3>3
    <3> QED  BY <3>2, <3>3
  <2> QED  BY <2>4, <2>5 DEF Accounted
<1>6. CASE Return
  <2>1. rows' = rows /\ uidSet' = uidSet
    BY <1>6 DEF Return
  <2>2. /\ Len(stack) \in 1 .. Len(stack) /\ stack[Len(stack)].deps = <<>>
        /\ Len(stack') = Len(stack) - 1
        /\ \A d \in 1 .. Len(stack') : stack'[d] = stack[d]
    BY <1>6, ReturnEffect DEF Top
  <2>3. \A d \in 1 .. Len(stack) : d \in 1 .. Len(stack') \/ stack[d].deps = <<>>
    BY <2>2
  <2>4. Range(<<>>) = {}
    BY DEF Range
  <2> QED  BY <1>1, <2>1, <2>2, <2>3, <2>4 DEF Accounted, Shows
<1> QED  BY <1>2, <1>3, <1>4, <1>5, <1>6 DEF Next, vars, SkipSeen, Finish

LEMMA EnteredNext ==
    ASSUME TypeOK, Nested, Entered, [Next]_vars
    PROVE  Entered'
<1>1. maxDepth' = maxDepth
  BY InputKept
<1>2. CASE UNCHANGED vars
  BY <1>1, <1>2 DEF Entered, Level, vars
<1>3. CASE PrintRoot
  <2>1. Len(rows') = 1 /\ pc' = "call"
    BY <1>3, PrintRootEffect DEF PrintRoot
  <2> QED  BY <2>1 DEF Entered
<1>4. CASE SkipSeen
  <2>1. rows' = rows /\ uidSet' = uidSet /\ pc = "call" /\ rows[Len(rows)].uid \in uidSet
    BY <1>4 DEF SkipSeen, Seen, Nested
  <2> QED  BY <1>1, <2>1 DEF Entered, Level
<1>5. CASE Enter
  <2>1. rows' = rows /\ uidSet \subseteq uidSet' /\ pc = "call" /\ rows[Len(rows)].uid \in uidSet'
    BY <1>5, EnterDeps DEF Nested
  <2> QED  BY <1>1, <2>1 DEF Entered, Level
<1>6. CASE PrintDep
  <2> DEFINE m == Len(rows)
  <2>1. /\ m \in Nat /\ Len(rows') = m + 1 /\ pc = "loop" /\ uidSet' = uidSet
        /\ \A k \in 1 .. m : rows'[k] = rows[k] /\ Level(k)' = Level(k)
        /\ Len(rows'[m + 1].prefix) = Len(stack)
    BY <1>6, NewRow, PrintDepEffect DEF Level
  <2>2. pc' = "call" \/ ~Descends
    BY <1>6 DEF PrintDep
  <2>3. Depth = Len(stack)
    BY <1>6, NewRow DEF Depth, Top
  <2>4. pc' = "call" \/ (maxDepth # 0 /\ ~(Len(rows'[m + 1].prefix) < maxDepth))
    BY <2>1, <2>2, <2>3 DEF Descends
  <2>5. \A k \in 1 .. m + 1 : k \in 1 .. m \/ k = m + 1
    BY <2>1
  <2> SUFFICES ASSUME NEW k \in 1 .. m + 1, maxDepth = 0 \/ Level(k)' < maxDepth
               PROVE  rows'[k].uid \in uidSet \/ (pc' = "call" /\ k = m + 1)
    BY <1>1, <2>1 DEF Entered
  <2>6. CASE k \in 1 .. m
    BY <2>1, <2>6 DEF Entered
  <2>7. CASE k = m + 1
    BY <2>4, <2>7 DEF Level
  <2> QED  BY <2>5, <2>6, <2>7
<1>7. CASE Return \/ Finish
  <2>1. rows' = rows /\ uidSet' = uidSet /\ pc = "loop"
    BY <1>7 DEF Return, Finish
  <2> QED  BY <1>1, <2>1 DEF Entered, Level
<1> QED  BY <1>2, <1>3, <1>4, <1>5, <1>6, <1>7 DEF Next

LEMMA RootedNext ==
    ASSUME TypeOK, Nested, RecursionBounded, Anchored, Rooted, [Next]_vars
    PROVE  Rooted'
<1>1. root' = root
  BY InputKept
<1>2. CASE UNCHANGED <<stack, rows, uidSet>> /\ (pc' # "root" => pc # "root")
  BY <1>1, <1>2 DEF Rooted, Level
<1>3. CASE PrintRoot
  <2>1. Len(rows') = 1 /\ rows' # <<>> /\ rows'[1].uid = root /\ rows'[1].prefix = <<>>
    <3>1. rows'[1] = [uid |-> root, prefix |-> <<>>, of |-> root] /\ Len(rows') = 1
      BY <1>3, PrintRootEffect
    <3>2. rows' # <<>>
      BY <3>1
    <3> QED  BY <3>1, <3>2
  <2>2. stack' = <<>> /\ uidSet' = uidSet /\ rows = <<>>
    BY <1>3 DEF PrintRoot, Nested
  <2>3. uidSet = {}
    BY <2>2 DEF Rooted
  <2> QED  BY <1>1, <2>1, <2>2, <2>3 DEF Rooted, Level
<1>4. CASE Enter
  <2>1. rows' = rows /\ Len(rows) \in 1 .. Len(rows) /\ rows[Len(rows)].uid = callee.uid
        /\ uidSet' = uidSet \union {callee.uid} /\ Level(Len(rows)) = Len(stack) /\ rows # <<>>
    BY <1>4, EnterDeps, StateTypes DEF Nested, Level
  <2>2. \A u \in uidSet' : \E k \in 1 .. Len(rows) : rows[k].uid = u
    BY <2>1 DEF Rooted
  <2>3. stack'[1].uid = root
    <3>1. CASE Len(stack) = 0
      <4>1. ~(Len(rows) \in 2 .. Len(rows))
        BY <2>1, <3>1 DEF Rooted
      <4>2. Len(rows) = 1
        <5>1. \A m \in Nat : m \in 1 .. m /\ ~(m \in 2 .. m) => m = 1
          OBVIOUS
        <5>2. Len(rows) \in Nat
          BY StateTypes
        <5> QED  BY <2>1, <4>1, <5>1, <5>2
      <4>3. stack'[Len(stack) + 1].uid = root
        BY <1>4, <2>1, <4>2, EnterEffect DEF Rooted
      <4> QED  BY <3>1, <4>3
    <3>2. CASE Len(stack) # 0
      <4>1. 1 \in 1 .. Len(stack) /\ stack # <<>>
        BY <3>2, StateTypes
      <4> QED  BY <1>4, <4>1, EnterEffect DEF Rooted
    <3> QED  BY <3>1, <3>2
  <2> QED  BY <1>1, <2>1, <2>2, <2>3 DEF Rooted, Level
<1>5. CASE PrintDep
  <2> DEFINE n == Len(stack)
             m == Len(rows)
  <2>1. /\ n \in 1 .. n /\ m \in Nat /\ Len(rows') = m + 1 /\ Len(stack') = n
        /\ \A k \in 1 .. m : rows'[k] = rows[k] /\ Level(k)' = Level(k)
        /\ Len(rows'[m + 1].prefix) = n
        /\ rows'[m + 1].of = stack[n].uid
        /\ stack'[1].uid = stack[1].uid
        /\ uidSet' = uidSet
    <3>1. n \in 1 .. n
      BY <1>5, NewRow
    <3>2. 1 \in 1 .. n
      BY <3>1
    <3> QED  BY <1>5, <3>1, <3>2, NewRow, PrintDepEffect DEF Level
  <2>2. stack # <<>> /\ rows # <<>> /\ m \in 1 .. m /\ rows' # <<>> /\ 1 \in 1 .. n
    <3>1. stack # <<>>
      BY <1>5 DEF PrintDep
    <3>2. rows # <<>>
      BY <3>1, HasRow
    <3>3. m \in 1 .. m
      BY <3>2, StateTypes
    <3>4. rows' # <<>>
      BY <2>1
    <3> QED  BY <2>1, <3>1, <3>2, <3>3, <3>4
  <2>3. stack[n].uid = root => n = 1
    BY <2>1, <2>2 DEF Rooted, RecursionBounded
  <2>4. \A k \in 2 .. m + 1 : (k \in 2 .. m /\ k \in 1 .. m) \/ k = m + 1
    BY <2>1
  <2>5. \A k \in 2 .. m + 1 : Level(k)' # 0 /\ (rows'[k].of = root => Level(k)' = 1)
    <3> SUFFICES ASSUME NEW k \in 2 .. m + 1
                 PROVE  Level(k)' # 0 /\ (rows'[k].of = root => Level(k)' = 1)
      OBVIOUS
    <3>1. CASE k \in 2 .. m
      BY <2>1, <2>4, <3>1 DEF Rooted
    <3>2. CASE k = m + 1
      <4>1. Level(k)' = n /\ rows'[k].of = stack[n].uid
        BY <2>1, <3>2 DEF Level
      <4>2. n # 0
        BY <2>1
      <4> QED  BY <2>3, <4>1, <4>2
    <3> QED  BY <2>4, <3>1, <3>2
  <2>6. \A u \in uidSet : \E k \in 1 .. m + 1 : rows'[k].uid = u
    <3> SUFFICES ASSUME NEW u \in uidSet
                 PROVE  \E k \in 1 .. m + 1 : rows'[k].uid = u
      OBVIOUS
    <3>1. PICK k \in 1 .. m : rows[k].uid = u
      BY DEF Rooted
    <3>2. k \in 1 .. m + 1 /\ rows'[k] = rows[k]
      BY <2>1, <3>1
    <3> QED  BY <3>1, <3>2
  <2>7. rows'[1].uid = root /\ Level(1)' = 0
    <3>1. 1 \in 1 .. m
      BY <2>2
    <3> QED  BY <2>1, <2>2, <3>1 DEF Rooted
  <2> QED  BY <1>1, <2>1, <2>2, <2>5, <2>6, <2>7 DEF Rooted
<1>6. CASE Return
  <2>1. rows' = rows /\ uidSet' = uidSet /\ pc' = pc
    BY <1>6 DEF Return
  <2>2. stack' # <<>> => stack # <<>> /\ stack'[1] = stack[1]
    <3>1. stack' \in Seq(Frame) /\ Len(stack') = Len(stack) - 1 /\ Len(stack) \in 1 .. Len(stack)
          /\ \A d \in 1 .. Len(stack') : stack'[d] = stack[d]
      BY <1>6, ReturnEffect
    <3>2. stack' # <<>> => 1 \in 1 .. Len(stack')
      BY <3>1, EmptySeq, LenProperties
    <3>3. stack # <<>>
      BY <1>6 DEF Return
    <3> QED  BY <3>1, <3>2, <3>3
  <2> QED  BY <1>1, <2>1, <2>2 DEF Rooted, Level
<1> QED  BY <1>2, <1>3, <1>4, <1>5, <1>6 DEF Next, vars, SkipSeen, Finish

LEMMA NearNext ==
    ASSUME TypeOK, Nested, RecursionBounded, Anchored, Remaining, Near, [Next]_vars
    PROVE  Near'
<1>1. /\ \A n : Within(n)' = Within(n)
      /\ Nodes' = Nodes /\ input \in Inputs /\ adj' = adj
  BY InputKept DEF TypeOK
<1>2. CASE UNCHANGED rows
  BY <1>1, <1>2 DEF Near, Level
<1>3. CASE PrintRoot
  <2>1. Len(rows') = 1 /\ rows'[1].uid = root /\ Level(1)' = 0
    BY <1>3, PrintRootEffect DEF Level
  <2>2. Within(0) = {root} /\ Cardinality(Nodes) \in Nat
    BY <1>1, WithinSteps, StackBounded
  <2>3. \A k \in 1 .. Len(rows') : k = 1
    BY <2>1
  <2> QED  BY <1>1, <2>1, <2>2, <2>3 DEF Near
<1>4. CASE PrintDep
  <2> DEFINE n == Len(stack)
             m == Len(rows)
  <2>1. /\ n \in 1 .. n /\ n - 1 \in Nat /\ (n - 1) + 1 = n
        /\ m \in Nat /\ Len(rows') = m + 1
        /\ \A k \in 1 .. m : rows'[k] = rows[k] /\ Level(k)' = Level(k)
        /\ Len(rows'[m + 1].prefix) = n
    BY <1>4, NewRow DEF Level
  <2>2. PICK j \in 1 .. m : Anchor(n, j)
    BY <2>1 DEF Anchored
  <2>3. Level(j) = n - 1 /\ rows[j].uid = stack[n].uid
    BY <2>1, <2>2, AnchorType DEF Anchor
  <2>4. stack[n].uid \in Within(n - 1)
    BY <2>3 DEF Near
  <2>5. PICK v \in adj[stack[n].uid] : rows'[m + 1].uid = v
    BY <1>4, PrintDepDeps
  <2>6. Within(n) = Grow(Within(n - 1))
    BY <1>1, <2>1, WithinSteps
  <2>7. v \in Within(n)
    BY <2>4, <2>6 DEF Grow
  <2>8. n <= Cardinality(Nodes)
    BY StackBounded
  <2>9. \A k \in 1 .. m + 1 : k \in 1 .. m \/ k = m + 1
    BY <2>1
  <2> SUFFICES ASSUME NEW k \in 1 .. m + 1
               PROVE  rows'[k].uid \in Within(Level(k)') /\ Level(k)' <= Cardinality(Nodes)
    <3>1. \A k \in 1 .. Len(rows') :
             rows'[k].uid \in Within(Level(k)') /\ Level(k)' <= Cardinality(Nodes)
      BY <2>1
    <3>2. \A k \in 1 .. Len(rows') : (Within(Level(k)))' = Within(Level(k)')
      BY <1>1
    <3> QED  BY <1>1, <3>1, <3>2 DEF Near
  <2>10. CASE k \in 1 .. m
    BY <2>1, <2>10 DEF Near
  <2>11. CASE k = m + 1
    BY <2>1, <2>5, <2>7, <2>8, <2>11 DEF Level
  <2> QED  BY <2>9, <2>10, <2>11
<1> QED  BY <1>2, <1>3, <1>4 DEF Next, vars, SkipSeen, Enter, Return, Finish

LEMMA PrintedInvariance == Spec => []PrintedInv
<1>1. Init => PrintedInv
  <2> SUFFICES ASSUME Init PROVE PrintedInv
    OBVIOUS
  <2>1. stack = <<>> /\ rows = <<>> /\ uidSet = {} /\ pc = "root" /\ Len(stack) = 0 /\ Len(rows) = 0
    BY EmptySeq DEF Init
  <2> QED  BY <2>1, InvInit DEF PrintedInv, Remaining, Once, Accounted, Entered, Rooted, Near
<1>2. PrintedInv /\ [Next]_vars => PrintedInv'
  <2> SUFFICES ASSUME PrintedInv, [Next]_vars PROVE PrintedInv'
    OBVIOUS
  <2>1. Inv' /\ TypeOK /\ Nested /\ RecursionBounded /\ Anchored
    BY InvNext DEF PrintedInv, Inv
  <2> QED  BY <2>1, RemainingNext, OnceNext, AccountedNext, EnteredNext, RootedNext, NearNext
           DEF PrintedInv
<1> QED  BY <1>1, <1>2, PTL DEF Spec

(***************************************************************************)
(* The theorems.                                                           *)
(***************************************************************************)
(* The recursion, its table and its arguments are what the types of the    *)
(* printer's variables say.                                                *)
THEOREM TypeCorrect == Spec => []TypeOK
<1>1. Inv => TypeOK
  BY DEF Inv
<1> QED  BY <1>1, Invariance, PTL

(* However the relations of the nodes go round in cycles, the recursion of *)
(* nodeDepsToTableRows is never deeper than the number of nodes: no node   *)
(* is on the stack twice.                                                  *)
THEOREM RecursionIsBounded == Spec => []RecursionBounded
<1>1. Inv => RecursionBounded
  BY DEF Inv
<1> QED  BY <1>1, Invariance, PTL

(* With --depth n neither the table nor the recursion goes deeper than n.  *)
THEOREM DepthLimits ==
    Spec => [](maxDepth # 0 => /\ \A k \in 1 .. Len(rows) : Level(k) <= maxDepth
                               /\ Len(stack) <= maxDepth)
<1>1. Inv => (maxDepth # 0 => /\ \A k \in 1 .. Len(rows) : Level(k) <= maxDepth
                              /\ Len(stack) <= maxDepth)
  BY DEF Inv, Limited
<1> QED  BY <1>1, Invariance, PTL

(* Whatever the relations, the order of the sort and the depth, the        *)
(* indentation of the rows is a tree whose branches are the relations and  *)
(* whose last branches are drawn as such.                                  *)
THEOREM TreeIsDrawn == Spec => []DrawingIsATree
<1>1. Inv => DrawingIsATree
  <2> SUFFICES ASSUME Inv, NEW k \in 2 .. Len(rows)
               PROVE  \E j \in 1 .. k - 1 :
                          /\ ParentRow(j, k)
                          /\ rows[j].uid = rows[k].of
                          /\ SubSeq(rows[k].prefix, 1, Level(j)) = rows[j].prefix
                          /\ rows[k].prefix[Level(k)] => ~LaterSibling(j, k)
                          /\ pc = "done" /\ ~rows[k].prefix[Level(k)] => LaterSibling(j, k)
    BY DEF DrawingIsATree, LaterSibling
  <2>1. PICK j \in 1 .. k - 1 : HangsOn(k, j)
    BY DEF Inv, Drawn
  <2>2. pc = "done" => ~Open(j)
    BY DEF Inv, Nested, Open
  <2> QED  BY <2>1, <2>2 DEF HangsOn
<1> QED  BY <1>1, Invariance, PTL

(* Whatever the cycles and the shared dependencies, and in whatever order  *)
(* equal objects are sorted: the table that nodeMapToTable returns without *)
(* --depth has one row for every relation between the nodes that the root  *)
(* reaches, and the root's.                                                *)
THEOREM RelationsPrintedOnce == Spec => []EveryRelationPrintedOnce
<1>1. PrintedInv => EveryRelationPrintedOnce
  <2> SUFFICES ASSUME PrintedInv, pc = "done", maxDepth = 0
               PROVE  /\ Len(rows) =
                            1 + Cardinality({e \in Reachable \X Reachable : e[2] \in adj[e[1]]})
                      /\ \A u \in Reachable, v \in Reachable :
                            v \in adj[u] => \E k \in 2 .. Len(rows) : Shows(k, u, v)
    BY DEF EveryRelationPrintedOnce, Shows
  <2> USE DEF PrintedInv
  <2> DEFINE m == Len(rows)
             edges == {e \in Reachable \X Reachable : e[2] \in adj[e[1]]}
  <2>1. /\ TypeOK /\ input \in Inputs /\ Len(stack) = 0
        /\ m \in Nat /\ m >= 1 /\ 1 \in 1 .. m /\ rows[1].uid = root
    <3>1. TypeOK /\ Nested
      BY DEF Inv
    <3>2. input \in Inputs /\ stack = <<>> /\ rows # <<>> /\ rows[1].uid = root
      BY <3>1 DEF TypeOK, Nested, Rooted
    <3>3. m \in 1 .. m /\ m \in Nat
      BY <3>1, <3>2, StateTypes
    <3> QED  BY <3>1, <3>2, <3>3
  <2>2. \A k \in 1 .. m : rows[k].uid \in uidSet
    BY DEF Entered
  <2>3. \A u \in uidSet : \A v \in adj[u] : \E k \in 2 .. m : Shows(k, u, v)
    BY <2>1 DEF Accounted
  <2>4. \A u \in uidSet : adj[u] \subseteq uidSet
    BY <2>1, <2>2, <2>3 DEF Shows
  <2>5. Reachable \subseteq uidSet
    <3> DEFINE Good == {n \in Nat : Within(n) \subseteq uidSet}
    <3>1. 0 \in Good
      BY <2>1, <2>2, WithinSteps
    <3>2. ASSUME NEW n \in Good
          PROVE  n + 1 \in Good
      BY <2>1, <2>4, WithinSteps DEF Grow
    <3>3. Good = Nat
      <4>1. Good \subseteq Nat
        OBVIOUS
      <4> HIDE DEF Good
      <4> QED  BY <3>1, <3>2, <4>1, SetInduction
    <3>4. Cardinality(Nodes) \in Nat
      BY <2>1, InputTypes, FS_CardinalityType
    <3> QED  BY <3>3, <3>4 DEF Reachable
  <2>6. uidSet \subseteq Reachable
    <3> SUFFICES ASSUME NEW u \in uidSet PROVE u \in Reachable
      OBVIOUS
    <3>1. PICK k \in 1 .. m : rows[k].uid = u
      BY DEF Rooted
    <3>2. u \in Within(Level(k)) /\ Level(k) <= Cardinality(Nodes)
      BY <3>1 DEF Near
    <3>3. Level(k) \in Nat /\ Cardinality(Nodes) \in Nat
      BY <2>1, StateTypes, InputTypes, FS_CardinalityType
    <3> QED  BY <2>1, <3>2, <3>3, WithinGrows DEF Reachable
  <2>7. Reachable = uidSet
    BY <2>5, <2>6
  <2>8. Cardinality(edges) = Cardinality(2 .. m)
    <3> DEFINE f == [k \in 2 .. m |-> <<rows[k].of, rows[k].uid>>]
    <3>1. \A k \in 2 .. m : /\ k \in 1 .. m
                            /\ rows[k].of \in uidSet /\ rows[k].uid \in uidSet
                            /\ rows[k].uid \in adj[rows[k].of]
      BY <2>1, <2>2 DEF Once
    <3>2. f \in [2 .. m -> edges]
      BY <2>7, <3>1
    <3>3. \A j, k \in 2 .. m : f[j] = f[k] => j = k
      BY DEF Once, Shows
    <3>4. \A e \in edges : \E k \in 2 .. m : f[k] = e
      <4> SUFFICES ASSUME NEW e \in edges PROVE \E k \in 2 .. m : f[k] = e
        OBVIOUS
      <4>1. PICK k \in 2 .. m : Shows(k, e[1], e[2])
        BY <2>3, <2>7
      <4>2. e = <<e[1], e[2]>>
        OBVIOUS
      <4> QED  BY <4>1, <4>2 DEF Shows
    <3> HIDE DEF f, edges
    <3>5. f \in Bijection(2 .. m, edges)
      BY <3>2, <3>3, <3>4 DEF Bijection, Injection, Surjection, IsInjective
    <3>6. ExistsBijection(2 .. m, edges)
      BY <3>5 DEF ExistsBijection
    <3>7. IsFiniteSet(2 .. m)
      BY <2>1, FS_Interval
    <3> QED  BY <3>6, <3>7, FS_Bijection
  <2>9. Cardinality(2 .. m) = m - 1
    <3>1. Cardinality(2 .. m) = IF 2 > m THEN 0 ELSE m - 2 + 1
      <4>1. 2 \in Int /\ m \in Int
        BY <2>1
      <4> QED  BY <4>1, FS_Interval
    <3> QED  BY <2>1, <3>1
  <2>10. m = 1 + Cardinality(edges)
    BY <2>1, <2>8, <2>9
  <2> QED  BY <2>3, <2>7, <2>10
<1> QED  BY <1>1, PrintedInvariance, PTL

(* --depth of the tree: no row is deeper than asked or less deep than its  *)
(* node is far from the root, and with a depth of 1 or 2 every node within *)
(* it has a row.                                                           *)
THEOREM DepthIsHonoured == Spec => []DepthHonoured
<1>1. PrintedInv => DepthHonoured
  <2> SUFFICES ASSUME PrintedInv PROVE DepthHonoured
    OBVIOUS
  <2> USE DEF PrintedInv
  <2> DEFINE m == Len(rows)
             shown == {rows[k].uid : k \in 1 .. m}
  <2>1. TypeOK /\ Nested /\ Limited /\ input \in Inputs
    BY DEF Inv, TypeOK
  <2>2. \A k \in 1 .. m : (maxDepth # 0 => Level(k) <= maxDepth) /\ rows[k].uid \in Within(Level(k))
    BY <2>1 DEF Limited, Near
  <2>3. ASSUME pc = "done", maxDepth \in 1 .. 2
        PROVE  Within(maxDepth) = shown
    <3>1. /\ Len(stack) = 0 /\ m \in Nat /\ 1 \in 1 .. m /\ rows[1].uid = root /\ Level(1) = 0
      <4>1. stack = <<>> /\ rows # <<>> /\ rows[1].uid = root /\ Level(1) = 0
        BY <2>1, <2>3 DEF Nested, Rooted
      <4>2. m \in 1 .. m /\ m \in Nat
        BY <2>1, <4>1, StateTypes
      <4> QED  BY <4>1, <4>2
    <3>2. \A k \in 1 .. m : Level(k) < maxDepth => rows[k].uid \in uidSet
      BY <2>3 DEF Entered
    <3>3. \A u \in uidSet : \A v \in adj[u] : \E k \in 2 .. m : Shows(k, u, v)
      BY <3>1 DEF Accounted
    <3>4. root \in uidSet /\ root \in shown
      BY <2>3, <3>1, <3>2
    <3>5. \A v \in adj[root] : v \in shown /\ (maxDepth = 2 => v \in uidSet)
      <4> SUFFICES ASSUME NEW v \in adj[root]
                   PROVE  v \in shown /\ (maxDepth = 2 => v \in uidSet)
        OBVIOUS
      <4>1. PICK k \in 2 .. m : rows[k].of = root /\ rows[k].uid = v
        BY <3>3, <3>4 DEF Shows
      <4>2. Level(k) = 1 /\ k \in 1 .. m
        BY <3>1, <4>1 DEF Rooted
      <4> QED  BY <3>2, <4>1, <4>2
    <3>6. \A u \in uidSet : adj[u] \subseteq shown
      BY <3>1, <3>3 DEF Shows
    <3>7. /\ Within(0) = {root} /\ 0 + 1 = 1 /\ 1 + 1 = 2
          /\ Within(0 + 1) = Grow(Within(0)) /\ Within(1 + 1) = Grow(Within(1))
      BY <2>1, WithinSteps
    <3>8. Within(1) = {root} \union adj[root]
      BY <3>7 DEF Grow
    <3>9. Within(maxDepth) \subseteq shown
      <4> HIDE DEF shown
      <4>1. CASE maxDepth = 1
        BY <3>4, <3>5, <3>8, <4>1
      <4>2. CASE maxDepth = 2
        <5>1. Within(1) \subseteq uidSet /\ Within(1) \subseteq shown
          BY <3>4, <3>5, <3>8, <4>2
        <5>2. Grow(Within(1)) \subseteq shown
          BY <3>6, <5>1 DEF Grow
        <5> QED  BY <3>7, <4>2, <5>2
      <4> QED  BY <2>3, <4>1, <4>2
    <3>10. shown \subseteq Within(maxDepth)
      <4> SUFFICES ASSUME NEW k \in 1 .. m PROVE rows[k].uid \in Within(maxDepth)
        OBVIOUS
      <4>1. Level(k) \in Nat /\ maxDepth \in Nat /\ Level(k) <= maxDepth
        BY <2>1, <2>2, <2>3, StateTypes
      <4> QED  BY <2>1, <2>2, <4>1, WithinGrows
    <3> QED  BY <3>9, <3>10
  <2> QED  BY <2>2, <2>3 DEF DepthHonoured
<1> QED  BY <1>1, PrintedInvariance, PTL

(***************************************************************************)
(* The cells.                                                              *)
(***************************************************************************)
(* What a loop over the containers may have gathered.                      *)
Reasons == {<<s>> : s \in STRING \ {"Init"}} \union ({"Signal", "ExitCode"} \X Int)
Gathered == [reason : Reasons, ready : Nat]

LEMMA ReasonParts ==
    ASSUME NEW r \in Reasons
    PROVE  r # <<>> /\ r[1] # "Init" /\ (r[1] = "Completed" => r = <<"Completed">>)
<1>1. CASE \E s \in STRING \ {"Init"} : r = <<s>>
  BY <1>1
<1>2. CASE r \in {"Signal", "ExitCode"} \X Int
  <2>1. PICK s \in {"Signal", "ExitCode"}, n \in Int : r = <<s, n>>
    BY <1>2
  <2> QED  BY <2>1
<1> QED  BY <1>1, <1>2 DEF Reasons

LEMMA ReasonKinds ==
    /\ \A s \in STRING \ {"Init"} : <<s>> \in Reasons
    /\ \A n \in Int : <<"Signal", n>> \in Reasons /\ <<"ExitCode", n>> \in Reasons
<1>1. \A s \in STRING \ {"Init"} : <<s>> \in Reasons
  BY Zenon DEF Reasons
<1>2. \A n \in Int : <<"Signal", n>> \in Reasons /\ <<"ExitCode", n>> \in Reasons
  BY SMT DEF Reasons
<1> QED  BY <1>1, <1>2

LEMMA TroubleTypes ==
    ASSUME NEW c \in ContainerStatus
    PROVE  /\ c.state = "terminated" => Trouble(c) = Terminated(c)
           /\ c.state = "waiting" => Trouble(c) = Text(c.reason)
           /\ c.state = "running" => Trouble(c) = <<>>
           /\ Terminated(c) \in Reasons
           /\ Trouble(c) # <<>> => Trouble(c) \in Reasons
<1>1. /\ c.state \in {"waiting", "running", "terminated"} /\ c.reason \in STRING \ {"Init"}
      /\ c.code \in Int /\ c.signal \in Int
  BY DEF ContainerStatus
<1>2. Terminated(c) \in Reasons
  BY <1>1, ReasonKinds DEF Terminated
<1>3. c.state = "terminated" => Trouble(c) = Terminated(c)
  BY Zenon DEF Trouble
<1>4. c.state = "waiting" => Trouble(c) = Text(c.reason)
  BY Zenon DEF Trouble
<1>5. c.state = "running" => Trouble(c) = <<>>
  <2> SUFFICES ASSUME c.state = "running" PROVE Trouble(c) = <<>>
    OBVIOUS
  <2>1. c.state # "waiting" /\ c.state # "terminated"
    OBVIOUS
  <2> QED  BY <2>1, Zenon DEF Trouble
<1>6. Text(c.reason) # <<>> => Text(c.reason) \in Reasons
  BY <1>1, ReasonKinds DEF Text
<1> QED  BY <1>1, <1>2, <1>3, <1>4, <1>5, <1>6

(* A turn of the loop over the containers.                                 *)
LEMMA WorseFacts ==
    ASSUME NEW c \in ContainerStatus, NEW acc \in Gathered
    PROVE  /\ Worse(c, acc) \in Gathered
           /\ Trouble(c) # <<>> => Worse(c, acc).reason = Trouble(c)
           /\ Trouble(c) = <<>> => Worse(c, acc).reason = acc.reason
           /\ \/ Worse(c, acc).ready = acc.ready
              \/ Worse(c, acc).ready = acc.ready + 1 /\ Trouble(c) = <<>>
<1>1. /\ c.state \in {"waiting", "running", "terminated"} /\ c.reason \in STRING \ {"Init"}
      /\ c.ready \in BOOLEAN /\ acc.ready \in Nat /\ acc.reason \in Reasons
  BY DEF ContainerStatus, Gathered
<1>2. CASE c.state = "terminated"
  <2>1. Worse(c, acc) = [acc EXCEPT !.reason = Terminated(c)]
    BY <1>2, Zenon DEF Worse
  <2>2. Trouble(c) = Terminated(c) /\ Terminated(c) \in Reasons /\ Terminated(c) # <<>>
    BY <1>2, TroubleTypes, ReasonParts
  <2> QED  BY <2>1, <2>2 DEF Gathered
<1>3. CASE c.state = "waiting" /\ c.reason # ""
  <2>0. c.state # "terminated"
    BY <1>3
  <2>1. Worse(c, acc) = [acc EXCEPT !.reason = <<c.reason>>]
    BY <1>3, <2>0, Zenon DEF Worse
  <2>2. Trouble(c) = <<c.reason>> /\ <<c.reason>> \in Reasons /\ <<c.reason>> # <<>>
    BY <1>1, <1>3, ReasonKinds, ReasonParts, TroubleTypes DEF Text
  <2> QED  BY <2>1, <2>2 DEF Gathered
<1>4. CASE c.state = "running" /\ c.ready
  <2>0. c.state # "terminated" /\ c.state # "waiting"
    BY <1>4
  <2>1. Worse(c, acc) = [acc EXCEPT !.ready = @ + 1]
    BY <1>4, <2>0, Zenon DEF Worse
  <2>2. Trouble(c) = <<>>
    BY <1>4, TroubleTypes
  <2> QED  BY <1>1, <2>1, <2>2 DEF Gathered
<1>5. CASE /\ c.state # "terminated" /\ ~(c.state = "waiting" /\ c.reason # "")
           /\ ~(c.state = "running" /\ c.ready)
  <2>1. Worse(c, acc) = acc
    BY <1>5, Zenon DEF Worse
  <2>2. Trouble(c) = <<>>
    BY <1>1, <1>5, TroubleTypes DEF Text
  <2> QED  BY <1>1, <2>1, <2>2
<1> QED  BY <1>2, <1>3, <1>4, <1>5, Zenon

(* The loop, turn by turn.                                                 *)
LEMMA LoopedSteps ==
    ASSUME NEW p, p.statuses \in Seq(ContainerStatus), NEW reason \in Reasons
    PROVE  \E f \in [0 .. Len(p.statuses) -> Gathered] :
              /\ f[0] = [reason |-> reason, ready |-> 0]
              /\ \A k \in 1 .. Len(p.statuses) : f[k] = Worse(p.statuses[Len(p.statuses) + 1 - k], f[k - 1])
              /\ Looped(p, reason) = f[Len(p.statuses)]
<1> DEFINE s == p.statuses
           n == Len(s)
           first == [reason |-> reason, ready |-> 0]
           step == [k \in 1 .. n |-> [v \in Gathered |-> Worse(s[n + 1 - k], v)]]
<1>1. n \in Nat /\ \A k \in 1 .. n : s[n + 1 - k] \in ContainerStatus
  <2>1. n \in Nat /\ \A k \in 1 .. n : n + 1 - k \in 1 .. n
    BY LenProperties
  <2> QED  BY <2>1, ElementOfSeq
<1>2. first \in Gathered /\ StepsOn(step, Gathered, n)
  <2> HIDE DEF s
  <2> QED  BY <1>1, WorseFacts DEF StepsOn, Gathered
<1>3. PICK f : Recursive(f, first, step, Gathered, n)
  <2> HIDE DEF step, n, first
  <2> QED  BY <1>1, <1>2, RecursiveFunction
<1>4. /\ f \in [0 .. n -> Gathered] /\ f[0] = first
      /\ \A k \in 1 .. n : f[k] = step[k][f[k - 1]]
  <2> HIDE DEF step, n, first
  <2> QED  BY <1>3 DEF Recursive
<1>5. \A k \in 1 .. n : f[k] = Worse(s[n + 1 - k], f[k - 1])
  <2> HIDE DEF s, first
  <2>1. \A k \in 1 .. n : f[k - 1] \in Gathered
    BY <1>1, <1>4
  <2> QED  BY <1>4, <2>1
<1> DEFINE after[k \in 0 .. n] == IF k = 0 THEN first ELSE Worse(s[n + 1 - k], after[k - 1])
           g == [k \in 0 .. n |-> f[k]]
<1>6. \A k \in 0 .. n : g[k] = IF k = 0 THEN first ELSE Worse(s[n + 1 - k], g[k - 1])
  <2> HIDE DEF s, first
  <2>1. \A k \in 0 .. n : k # 0 => k \in 1 .. n /\ k - 1 \in 0 .. n
    BY <1>1
  <2> QED  BY <1>4, <1>5, <2>1
<1>7. g = [k \in 0 .. n |-> IF k = 0 THEN first ELSE Worse(s[n + 1 - k], g[k - 1])]
  <2> HIDE DEF n, s, first
  <2> QED  BY <1>6, Zenon
<1> HIDE DEF g
<1>8. after = [k \in 0 .. n |-> IF k = 0 THEN first ELSE Worse(s[n + 1 - k], after[k - 1])]
  <2> HIDE DEF after
  <2> QED  BY <1>7, Zenon DEF after
<1>9. Looped(p, reason) = after[n]
  BY Zenon DEF Looped
<1> HIDE DEF after
<1> DEFINE Same == {k \in Nat : k <= n => after[k] = f[k]}
<1>10. 0 \in Same
  <2> HIDE DEF first, s
  <2>1. 0 \in 0 .. n
    BY <1>1
  <2>2. after[0] = first
    BY <1>8, <2>1
  <2> QED  BY <1>4, <2>2
<1>11. \A k \in Same : k + 1 \in Same
  <2> SUFFICES ASSUME NEW k \in Nat, k <= n => after[k] = f[k], k + 1 <= n
               PROVE  after[k + 1] = f[k + 1]
    OBVIOUS
  <2>1. k + 1 \in 0 .. n /\ k + 1 # 0 /\ (k + 1) - 1 = k /\ k + 1 \in 1 .. n /\ k <= n
    BY <1>1
  <2> HIDE DEF n, s, first
  <2>2. after[k + 1] = Worse(s[n + 1 - (k + 1)], after[k])
    BY <1>8, <2>1
  <2>3. f[k + 1] = Worse(s[n + 1 - (k + 1)], f[k])
    BY <1>5, <2>1
  <2> QED  BY <2>1, <2>2, <2>3
<1>12. Same = Nat
  <2>1. Same \subseteq Nat
    OBVIOUS
  <2> HIDE DEF Same
  <2> QED  BY <1>10, <1>11, <2>1, SetInduction
<1>13. after[n] = f[n]
  BY <1>1, <1>12
<1> QED  BY <1>4, <1>5, <1>9, <1>13

(* What the loop has gathered in the end: what the first container that    *)
(* has something to say says.                                              *)
LEMMA LoopedFacts ==
    ASSUME NEW p, p.statuses \in Seq(ContainerStatus), NEW reason \in Reasons
    PROVE  /\ Looped(p, reason) \in Gathered
           /\ Looped(p, reason).ready <= Len(p.statuses)
           /\ Looped(p, reason).ready = Len(p.statuses) => Looped(p, reason).reason = reason
           /\ \A i \in 1 .. Len(p.statuses) :
                 /\ Trouble(p.statuses[i]) # <<>>
                 /\ \A j \in 1 .. i - 1 : Trouble(p.statuses[j]) = <<>>
                 => Looped(p, reason).reason = Trouble(p.statuses[i])
<1> DEFINE s == p.statuses
           n == Len(s)
<1>1. n \in Nat /\ \A i \in 1 .. n : s[i] \in ContainerStatus
  BY LenProperties, ElementOfSeq
<1>2. PICK f \in [0 .. n -> Gathered] :
         /\ f[0] = [reason |-> reason, ready |-> 0]
         /\ \A k \in 1 .. n : f[k] = Worse(s[n + 1 - k], f[k - 1])
         /\ Looped(p, reason) = f[n]
  BY LoopedSteps
<1> HIDE DEF n, s
<1> DEFINE Holds(k) ==
              /\ f[k] \in Gathered /\ f[k].ready <= k
              /\ f[k].ready = k => f[k].reason = reason
              /\ \A i \in n + 1 - k .. n :
                    /\ Trouble(s[i]) # <<>>
                    /\ \A j \in n + 1 - k .. i - 1 : Trouble(s[j]) = <<>>
                    => f[k].reason = Trouble(s[i])
           Good == {k \in Nat : k <= n => Holds(k)}
<1>3. Holds(0)
  <2>1. f[0] \in Gathered
    BY <1>1, <1>2
  <2> QED  BY <1>1, <1>2, <2>1
<1>4. ASSUME NEW k \in Nat, k + 1 <= n, Holds(k)
      PROVE  Holds(k + 1)
  <2> DEFINE c == s[n - k]
  <2>1. k + 1 \in 1 .. n /\ n - k \in 1 .. n /\ n + 1 - (k + 1) = n - k /\ (k + 1) - 1 = k
    BY <1>1, <1>4
  <2>2. f[k + 1] = Worse(c, f[k]) /\ c \in ContainerStatus /\ f[k] \in Gathered
    BY <1>1, <1>2, <1>4, <2>1
  <2> HIDE DEF c
  <2>3. /\ f[k + 1] \in Gathered
        /\ Trouble(c) # <<>> => f[k + 1].reason = Trouble(c)
        /\ Trouble(c) = <<>> => f[k + 1].reason = f[k].reason
        /\ \/ f[k + 1].ready = f[k].ready
           \/ f[k + 1].ready = f[k].ready + 1 /\ Trouble(c) = <<>>
    BY <2>2, WorseFacts
  <2>4. f[k].ready \in Nat /\ f[k].ready <= k /\ (f[k].ready = k => f[k].reason = reason)
    BY <1>4, <2>2 DEF Gathered
  <2>5. f[k + 1].ready <= k + 1 /\ (f[k + 1].ready = k + 1 => f[k + 1].reason = reason)
    BY <2>3, <2>4
  <2>6. ASSUME NEW i \in n - k .. n, Trouble(s[i]) # <<>>,
               \A j \in n - k .. i - 1 : Trouble(s[j]) = <<>>
        PROVE  f[k + 1].reason = Trouble(s[i])
    <3>1. CASE i = n - k
      BY <2>3, <2>6, <3>1 DEF c
    <3>2. CASE i # n - k
      <4>1. i \in n + 1 - k .. n /\ n - k \in n - k .. i - 1
            /\ \A j \in n + 1 - k .. i - 1 : j \in n - k .. i - 1
        BY <1>1, <2>1, <3>2
      <4>2. Trouble(c) = <<>>
        BY <2>6, <4>1 DEF c
      <4>3. f[k].reason = Trouble(s[i])
        BY <1>4, <2>6, <4>1
      <4> QED  BY <2>3, <4>2, <4>3
    <3> QED  BY <3>1, <3>2
  <2> QED  BY <2>1, <2>3, <2>5, <2>6
<1>5. Good = Nat
  <2>1. 0 \in Good /\ Good \subseteq Nat
    BY <1>3
  <2>2. \A k \in Good : k + 1 \in Good
    BY <1>1, <1>4
  <2> HIDE DEF Good
  <2> QED  BY <2>1, <2>2, SetInduction
<1>6. Holds(n)
  BY <1>1, <1>5
<1>7. n + 1 - n = 1
  BY <1>1
<1> QED  BY <1>1, <1>2, <1>6, <1>7 DEF n, s
(***************************************************************************)
(* The cells of the classes the properties speak of.                       *)
(***************************************************************************)
LEMMA ClassCells ==
    ASSUME NEW o
    PROVE  /\ o.class = "Pod" => Cells(o) = PodCells(o)
           /\ o.class = "APIService" => Cells(o) = APIServiceCells(o)
           /\ o.class = "VolumeAttachment" => Cells(o) = VolumeAttachmentCells(o)
<1>1. ASSUME o.class = "Pod" PROVE Cells(o) = PodCells(o)
  <2>1. /\ o.class \notin Replicated /\ o.class # "Event" /\ o.class # "APIService"
        /\ o.class # "PodDisruptionBudget" /\ o.class # "VolumeAttachment" /\ o.class # "Release"
    BY <1>1 DEF Replicated
  <2> QED  BY <1>1, <2>1, Zenon DEF Cells
<1>2. ASSUME o.class = "APIService" PROVE Cells(o) = APIServiceCells(o)
  <2>1. /\ o.class # "Pod" /\ o.class \notin Replicated /\ o.class # "Event"
    BY <1>2 DEF Replicated
  <2> QED  BY <1>2, <2>1, Zenon DEF Cells
<1>3. ASSUME o.class = "VolumeAttachment" PROVE Cells(o) = VolumeAttachmentCells(o)
  <2>1. /\ o.class # "Pod" /\ o.class \notin Replicated /\ o.class # "Event"
        /\ o.class # "APIService" /\ o.class # "PodDisruptionBudget"
    BY <1>3 DEF Replicated
  <2> QED  BY <1>3, <2>1, Zenon DEF Cells
<1> QED  BY <1>1, <1>2, <1>3

(* getPodReadyStatus, for a pod that is not being deleted.                 *)
LEMMA PodFacts ==
    ASSUME NEW p, WellFormed(p), p.class = "Pod", ~p.deleted
    PROVE  /\ PodCells(p).ready[1] > 0 => PodCells(p).status[1] \notin {"Completed", "Init"}
           /\ PodCells(p).ready[1] = PodCells(p).ready[2] => PodCells(p).status = PhaseOf(p)
           /\ (\A i \in DOMAIN p.inits : Succeeded(p.inits[i])) =>
                 \A i \in DOMAIN p.statuses :
                     /\ Trouble(p.statuses[i]) \notin {<<>>, <<"Completed">>}
                     /\ \A j \in 1 .. i - 1 : Trouble(p.statuses[j]) = <<>>
                     => PodCells(p).status = Trouble(p.statuses[i])
<1> DEFINE acc == Looped(p, PhaseOf(p))
           initializing == FirstInit(p) # 0
           reason == IF initializing THEN InitReason(p) ELSE NotCompleted(p, acc)
           n == Len(p.statuses)
<1>1. /\ p.statuses \in Seq(ContainerStatus) /\ p.inits \in Seq(ContainerStatus)
      /\ p.containers \in Nat \ {0} /\ n <= p.containers
      /\ {p.phase, p.reason} \subseteq STRING \ {"Init", "Completed"}
  BY DEF WellFormed
<1>2. n \in Nat /\ DOMAIN p.statuses = 1 .. n
  BY <1>1, LenProperties
<1>3. PodCells(p) = [ready |-> <<IF initializing THEN 0 ELSE acc.ready, p.containers>>, status |-> reason]
  BY Zenon DEF PodCells
<1>4. PhaseOf(p) \in Reasons /\ PhaseOf(p) # <<"Completed">>
  BY <1>1, ReasonKinds DEF PhaseOf
<1>5. /\ acc \in Gathered /\ acc.ready <= n /\ (acc.ready = n => acc.reason = PhaseOf(p))
      /\ \A i \in 1 .. n : /\ Trouble(p.statuses[i]) # <<>>
                           /\ \A j \in 1 .. i - 1 : Trouble(p.statuses[j]) = <<>>
                           => acc.reason = Trouble(p.statuses[i])
  BY <1>1, <1>4, LoopedFacts
<1> HIDE DEF acc, initializing, n
<1>6. acc.ready \in Nat /\ acc.reason \in Reasons
  BY <1>5 DEF Gathered
<1>7. ASSUME ~initializing, acc.ready > 0
      PROVE  reason[1] \notin {"Completed", "Init"}
  <2>1. reason = IF acc.reason = <<"Completed">>
                 THEN IF p.conditionReady THEN <<"Running">> ELSE <<"NotReady">> ELSE acc.reason
    BY <1>7 DEF NotCompleted
  <2>2. /\ acc.reason # <<>> /\ acc.reason[1] # "Init"
        /\ acc.reason[1] = "Completed" => acc.reason = <<"Completed">>
    BY <1>6, ReasonParts
  <2>3. CASE acc.reason = <<"Completed">>
    BY <2>1, <2>3
  <2>4. CASE acc.reason # <<"Completed">>
    BY <2>1, <2>2, <2>4
  <2> QED  BY <2>3, <2>4
<1>8. ASSUME ~initializing, acc.ready = p.containers
      PROVE  reason = PhaseOf(p)
  <2>1. acc.reason = PhaseOf(p)
    BY <1>1, <1>2, <1>5, <1>6, <1>8
  <2> QED  BY <1>4, <1>8, <2>1 DEF NotCompleted
<1>9. ASSUME \A i \in DOMAIN p.inits : Succeeded(p.inits[i])
      PROVE  ~initializing
  <2>1. {i \in 1 .. Len(p.inits) : ~Succeeded(p.inits[i])} = {}
    BY <1>1, <1>9, LenProperties
  <2> QED  BY <2>1, Zenon DEF initializing, FirstInit, SelectInSeq
<1>10. ASSUME ~initializing, NEW i \in 1 .. n, Trouble(p.statuses[i]) \notin {<<>>, <<"Completed">>},
              \A j \in 1 .. i - 1 : Trouble(p.statuses[j]) = <<>>
       PROVE  reason = Trouble(p.statuses[i])
  <2>1. acc.reason = Trouble(p.statuses[i])
    BY <1>5, <1>10
  <2> QED  BY <1>10, <2>1 DEF NotCompleted
<1> HIDE DEF reason
<1>11. /\ PodCells(p).ready[1] = IF initializing THEN 0 ELSE acc.ready
       /\ PodCells(p).ready[2] = p.containers /\ PodCells(p).status = reason
  BY <1>3
<1> QED  BY <1>1, <1>2, <1>6, <1>7, <1>8, <1>9, <1>10, <1>11

LEMMA APIServiceFacts ==
    ASSUME NEW o, WellFormed(o), o.class = "APIService"
    PROVE  APIServiceCells(o).status = <<>> <=> APIServiceCells(o).ready \in {<<>>, <<"True">>}
<1> DEFINE those == OfType(o.conditions, "Available")
           failing == {k \in those : o.conditions[k].status # "True"}
<1>1. /\ o.conditions \in Seq(StatusCondition)
      /\ \A k \in those : those = {k} /\ (o.conditions[k].status # "True" => o.conditions[k].reason # "")
  BY DEF WellFormed
<1>2. APIServiceCells(o) =
        [ready |-> IF LastOf(o.conditions, those) = <<>> THEN <<>>
                   ELSE <<LastOf(o.conditions, those)[1].status>>,
         status |-> IF LastOf(o.conditions, failing) = <<>> THEN <<>>
                    ELSE Text(LastOf(o.conditions, failing)[1].reason)]
  BY Zenon DEF APIServiceCells
<1> HIDE DEF those
<1>3. CASE those = {}
  <2>1. LastOf(o.conditions, those) = <<>> /\ LastOf(o.conditions, failing) = <<>>
    BY <1>3 DEF LastOf
  <2> QED  BY <1>2, <2>1
<1>4. CASE those # {}
  <2>1. PICK k \in those : TRUE
    BY <1>4
  <2>2. those = {k} /\ (o.conditions[k].status # "True" => o.conditions[k].reason # "")
    BY <1>1, <2>1
  <2>3. k \in Int
    <3>1. k \in DOMAIN o.conditions
      BY DEF those, OfType
    <3>2. DOMAIN o.conditions = 1 .. Len(o.conditions)
      BY <1>1, LenProperties
    <3> QED  BY <3>1, <3>2
  <2>4. Max({k}) = k
    BY <2>3 DEF Max
  <2>5. LastOf(o.conditions, those) = <<o.conditions[k]>>
    BY <2>2, <2>4 DEF LastOf
  <2>6. CASE o.conditions[k].status = "True"
    <3>1. failing = {}
      BY <2>2, <2>6
    <3>2. LastOf(o.conditions, failing) = <<>>
      BY <3>1 DEF LastOf
    <3> QED  BY <1>2, <2>5, <2>6, <3>2
  <2>7. CASE o.conditions[k].status # "True"
    <3>1. failing = {k}
      BY <2>2, <2>7
    <3> HIDE DEF failing
    <3>2. LastOf(o.conditions, failing) = <<o.conditions[k]>>
      BY <2>4, <3>1 DEF LastOf
    <3>3. APIServiceCells(o).status = <<o.conditions[k].reason>>
      <4>1. LastOf(o.conditions, failing) # <<>> /\ LastOf(o.conditions, failing)[1] = o.conditions[k]
        BY <3>2
      <4>2. APIServiceCells(o).status = Text(o.conditions[k].reason)
        BY <1>2, <4>1
      <4> QED  BY <2>2, <2>7, <4>2 DEF Text
    <3>4. APIServiceCells(o).ready = <<o.conditions[k].status>>
      BY <1>2, <2>5
    <3>5. <<o.conditions[k].status>> # <<"True">>
      BY <2>7, Zenon
    <3> QED  BY <3>3, <3>4, <3>5
  <2> QED  BY <2>6, <2>7
<1> QED  BY <1>3, <1>4

(* Sequences of one error, and of two.                                     *)
LEMMA SmallSequences ==
    /\ \A S : \A e \in Seq(S) : Len(e) = 1 => e[1] \in S /\ e = <<e[1]>>
    /\ \A x, y : <<x>> \o <<y>> = <<x, y>>
<1>1. ASSUME NEW S, NEW e \in Seq(S), Len(e) = 1
      PROVE  e[1] \in S /\ e = <<e[1]>>
  <2>1. e[1] \in S
    <3>1. 1 \in 1 .. Len(e)
      BY <1>1
    <3> QED  BY <3>1, ElementOfSeq
  <2>2. /\ <<e[1]>> \in Seq(S) /\ Len(<<e[1]>>) = Len(e)
        /\ \A i \in 1 .. Len(e) : e[i] = <<e[1]>>[i]
    BY <1>1, <2>1
  <2> QED  BY <2>1, <2>2, SeqEqual
<1>2. ASSUME NEW x, NEW y
      PROVE  <<x>> \o <<y>> = <<x, y>>
  <2>1. <<x>> \in Seq({x, y}) /\ <<y>> \in Seq({x, y}) /\ <<x, y>> \in Seq({x, y})
    OBVIOUS
  <2>2. /\ Len(<<x>>) = 1 /\ Len(<<y>>) = 1 /\ Len(<<x, y>>) = 2
        /\ <<x>>[1] = x /\ <<y>>[1] = y /\ <<x, y>>[1] = x /\ <<x, y>>[2] = y
    OBVIOUS
  <2> DEFINE both == <<x>> \o <<y>>
  <2>3. both \in Seq({x, y}) /\ Len(both) = 2 /\ both[1] = x /\ both[2] = y
    BY <2>1, <2>2, ConcatProperties
  <2> HIDE DEF both
  <2>4. \A i \in 1 .. Len(both) : both[i] = <<x, y>>[i]
    BY <2>2, <2>3
  <2>5. both = <<x, y>>
    BY <2>1, <2>2, <2>3, <2>4, SeqEqual
  <2> QED  BY <2>5 DEF both
<1> QED  BY <1>1, <1>2

LEMMA VolumeAttachmentFacts ==
    ASSUME NEW o, WellFormed(o), o.class = "VolumeAttachment",
           NEW errors, errors = o.attachError \o o.detachError
    PROVE  /\ (errors = <<>>) <=> (VolumeAttachmentCells(o).status = <<>>)
           /\ \A i, j \in DOMAIN errors :
                 errors[i].time > errors[j].time =>
                     VolumeAttachmentCells(o).status = <<errors[i].message>>
<1> DEFINE VolumeError == [time : Nat \ {0}, message : STRING]
           Known(e) == e = <<>> \/ \E x \in VolumeError : e = <<x>>
<1>1. ASSUME NEW e, e = <<>> \/ (Len(e) = 1 /\ e \in Seq(VolumeError))
      PROVE  Known(e)
  <2> HIDE DEF VolumeError
  <2> SUFFICES ASSUME Len(e) = 1, e \in Seq(VolumeError)
               PROVE  Known(e)
    BY <1>1
  <2>1. e[1] \in VolumeError /\ e = <<e[1]>>
    BY SmallSequences
  <2> QED  BY <2>1
<1>2. Known(o.attachError) /\ Known(o.detachError)
  BY <1>1, Zenon DEF WellFormed
<1> DEFINE errTime == IF o.attachError = <<>> THEN 0 ELSE o.attachError[1].time
<1>3. VolumeAttachmentCells(o).status =
        IF o.detachError # <<>> /\ o.detachError[1].time > errTime
        THEN <<o.detachError[1].message>>
        ELSE IF o.attachError # <<>> THEN <<o.attachError[1].message>>
        ELSE <<>>
  BY DEF VolumeAttachmentCells
<1>4. CASE o.attachError = <<>> /\ o.detachError = <<>>
  <2>1. errors = <<>>
    BY <1>4
  <2> QED  BY <1>3, <1>4, <2>1
<1>5. ASSUME NEW x \in VolumeError, o.attachError = <<x>>, o.detachError = <<>>
      PROVE  errors = <<x>> /\ VolumeAttachmentCells(o).status = <<x.message>>
  BY <1>3, <1>5
<1>6. ASSUME NEW x \in VolumeError, o.attachError = <<>>, o.detachError = <<x>>
      PROVE  errors = <<x>> /\ VolumeAttachmentCells(o).status = <<x.message>>
  BY <1>3, <1>6
<1>7. ASSUME NEW x \in VolumeError, NEW y \in VolumeError, o.attachError = <<x>>, o.detachError = <<y>>
      PROVE  /\ errors = <<x, y>>
             /\ VolumeAttachmentCells(o).status = IF y.time > x.time THEN <<y.message>> ELSE <<x.message>>
  <2>1. errors = <<x, y>>
    BY <1>7, SmallSequences, Zenon
  <2>2. errTime = x.time /\ x.time \in Nat /\ y.time \in Nat
    BY <1>7
  <2>3. o.detachError # <<>> /\ o.detachError[1] = y /\ o.attachError # <<>> /\ o.attachError[1] = x
    BY <1>7
  <2> QED  BY <1>3, <2>1, <2>2, <2>3
<1>8. CASE \E x \in VolumeError : errors = <<x>> /\ VolumeAttachmentCells(o).status = <<x.message>>
  <2>1. PICK x \in VolumeError : errors = <<x>> /\ VolumeAttachmentCells(o).status = <<x.message>>
    BY <1>8
  <2> QED  BY <2>1
<1>9. CASE \E x, y \in VolumeError :
              /\ errors = <<x, y>>
              /\ VolumeAttachmentCells(o).status = IF y.time > x.time THEN <<y.message>> ELSE <<x.message>>
  <2>1. PICK x \in VolumeError, y \in VolumeError :
              /\ errors = <<x, y>>
              /\ VolumeAttachmentCells(o).status = IF y.time > x.time THEN <<y.message>> ELSE <<x.message>>
    BY <1>9
  <2>2. errors # <<>> /\ VolumeAttachmentCells(o).status # <<>>
    BY <2>1
  <2>3. DOMAIN errors = 1 .. 2 /\ errors[1] = x /\ errors[2] = y /\ x.time \in Nat /\ y.time \in Nat
    BY <2>1
  <2>4. ASSUME NEW i \in 1 .. 2, NEW j \in 1 .. 2, errors[i].time > errors[j].time
        PROVE  VolumeAttachmentCells(o).status = <<errors[i].message>>
    BY <2>1, <2>3, <2>4
  <2> QED  BY <2>2, <2>3, <2>4
<1> QED  BY <1>2, <1>4, <1>5, <1>6, <1>7, <1>8, <1>9

LEMMA RowsHaveObjects ==
    ASSUME TypeOK, NEW k \in 1 .. Len(rows)
    PROVE  WellFormed(Object(k))
<1>1. rows[k].uid \in Nodes /\ input \in Inputs
  <2>1. rows[k] \in [uid : Nodes, prefix : Seq(BOOLEAN), of : Nodes]
    BY ElementOfSeq DEF TypeOK
  <2> QED  BY <2>1 DEF TypeOK
<1> QED  BY <1>1, ObjectsAssumption DEF Object, Nodes, adj

(* The READY and STATUS cells of every row agree, whatever the containers  *)
(* of a pod report and in which order: getPodReadyStatus counts and        *)
(* explains in one loop, getAPIServiceReadyStatus in one over conditions.  *)
THEOREM CellsAgree == Spec => []ReadyAgreesWithStatus
<1>1. TypeOK => ReadyAgreesWithStatus
  <2> SUFFICES ASSUME TypeOK PROVE ReadyAgreesWithStatus
    OBVIOUS
  <2>1. ASSUME NEW k \in LivePods
        PROVE  /\ CellsOf(k).ready[1] > 0 => CellsOf(k).status[1] \notin {"Completed", "Init"}
               /\ CellsOf(k).ready[1] = CellsOf(k).ready[2] => CellsOf(k).status = PhaseOf(Object(k))
    <3>1. k \in 1 .. Len(rows) /\ Object(k).class = "Pod" /\ ~Object(k).deleted
      BY DEF LivePods
    <3>2. CellsOf(k) = PodCells(Object(k)) /\ WellFormed(Object(k))
      BY <3>1, ClassCells, RowsHaveObjects DEF CellsOf
    <3> QED  BY <3>1, <3>2, PodFacts
  <2>2. ASSUME NEW k \in 1 .. Len(rows), Object(k).class = "APIService"
        PROVE  CellsOf(k).status = <<>> <=> CellsOf(k).ready \in {<<>>, <<"True">>}
    <3>1. CellsOf(k) = APIServiceCells(Object(k)) /\ WellFormed(Object(k))
      BY <2>2, ClassCells, RowsHaveObjects DEF CellsOf
    <3> QED  BY <2>2, <3>1, APIServiceFacts
  <2> QED  BY <2>1, <2>2, Zenon DEF ReadyAgreesWithStatus
<1> QED  BY <1>1, TypeCorrect, PTL

(* For every pod the trouble of the first container that has any is shown, *)
(* the loop running backwards over them, and of two errors of a            *)
(* VolumeAttachment the newer one.                                         *)
THEOREM TroubleIsShown == Spec => []TroubleShown
<1>1. TypeOK => TroubleShown
  <2> SUFFICES ASSUME TypeOK PROVE TroubleShown
    OBVIOUS
  <2>1. ASSUME NEW k \in LivePods, NEW p, p = Object(k),
               \A i \in DOMAIN p.inits : Succeeded(p.inits[i]),
               NEW i \in DOMAIN p.statuses,
               Trouble(p.statuses[i]) \notin {<<>>, <<"Completed">>},
               \A j \in 1 .. i - 1 : Trouble(p.statuses[j]) = <<>>
        PROVE  CellsOf(k).status = Trouble(p.statuses[i])
    <3>1. k \in 1 .. Len(rows) /\ p.class = "Pod" /\ ~p.deleted
      BY <2>1 DEF LivePods
    <3>2. CellsOf(k) = PodCells(p) /\ WellFormed(p)
      BY <2>1, <3>1, ClassCells, RowsHaveObjects DEF CellsOf
    <3>3. PodCells(p).status = Trouble(p.statuses[i])
      BY <2>1, <3>1, <3>2, PodFacts
    <3> QED  BY <3>2, <3>3
  <2>2. ASSUME NEW k \in 1 .. Len(rows), Object(k).class = "VolumeAttachment",
               NEW errors, errors = Object(k).attachError \o Object(k).detachError
        PROVE  /\ (errors = <<>>) <=> (CellsOf(k).status = <<>>)
               /\ \A i, j \in DOMAIN errors :
                     errors[i].time > errors[j].time => CellsOf(k).status = <<errors[i].message>>
    <3>1. CellsOf(k) = VolumeAttachmentCells(Object(k)) /\ WellFormed(Object(k))
      BY <2>2, ClassCells, RowsHaveObjects DEF CellsOf
    <3> QED  BY <2>2, <3>1, VolumeAttachmentFacts
  <2> QED  BY <2>1, <2>2, Zenon DEF TroubleShown
<1> QED  BY <1>1, TypeCorrect, PTL
=============================================================================
