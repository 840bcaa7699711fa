-------------------------- MODULE ClientListProofs --------------------------
(***************************************************************************)
(* Theorems about Client.List, for any number of resources, namespaces and *)
(* pages.                                                                  *)
(***************************************************************************)
EXTENDS ClientList, FiniteSetTheorems, TLAPS

(***************************************************************************)
(* The inductive invariant, in parts.                                      *)
(***************************************************************************)

(* TypeOK but for the mutex, of which Exclusive says more.                 *)
Types ==
    /\ request \in Requests
    /\ pc \in [Goroutine -> {"idle", "list", "lock", "append", "decide", "fallback",
                             "wait", "store", "test", "clear", "return", "done"}]
    /\ answer \in [Goroutine -> Error]
    /\ pages \in [Goroutine -> 0 .. MaxPages]
    /\ snapshot \in [Goroutine -> SUBSET (Goroutine \X (1 .. MaxPages))]
    /\ unwritten \in [Goroutine -> (SUBSET Words) \ {{}}]
    /\ items \subseteq Goroutine \X (1 .. MaxPages)
    /\ err \in Interface
    /\ groupErr \in [Api -> Interface]
    /\ listErr \in Interface
    /\ result \in {"running", "ok", "error", "crashed"}

(* A listing that goes on has a page to come.                              *)
Bounded ==
    \A g \in Goroutine : /\ pc[g] = "list" => pages[g] < MaxPages
                         /\ pc[g] = "idle" => pages[g] = 0

(* The mutex is held by the goroutine that appends, and by no other; what  *)
(* it has read is still the list.                                          *)
Exclusive ==
    /\ mutex = {g \in Goroutine : pc[g] = "append"}
    /\ \A g, h \in mutex : g = h
    /\ \A g \in mutex : snapshot[g] = items

(* Where the goroutines of a resource are, as its first one goes on.       *)
OuterAt == {"idle", "list", "lock", "append", "decide", "fallback", "wait", "done"}
InnerAt == {"idle", "list", "lock", "append", "store", "test", "clear", "return", "done"}

OuterForked(a) == pc[Outer(a)] \in OuterAt /\ (pc[Outer(a)] = "idle" <=> a \notin apis)

InnerForked(g) ==
    /\ pc[g] \in InnerAt
    /\ pc[Outer(g[1])] \notin {"wait", "done"} => pc[g] = "idle"
    /\ pc[Outer(g[1])] = "wait" => (pc[g] = "idle" <=> g[2] \notin nsSet)
    /\ pc[Outer(g[1])] = "done" => pc[g] \in {"idle", "done"}
    /\ g[2] \notin nsSet => pc[g] = "idle"

Forked ==
    /\ \A a \in Api : OuterForked(a)
    /\ \A g \in Api \X Namespace : InnerForked(g)
    /\ result \in {"ok", "error"} => \A a \in Api : pc[Outer(a)] \in {"idle", "done"}

(* The list has the pages of those goroutines that are past their append.  *)
Gathered ==
    items = {x \in Goroutine \X (1 .. MaxPages) :
                pc[x[1]] \notin Reading /\ x[2] \in 1 .. pages[x[1]]}

(* What became of the answers at the cluster scope.                        *)
OuterAccounted(a) ==
    /\ pc[Outer(a)] \in Reading \union {"decide"} => isClusterScopeRequest
    /\ ~isClusterScopeRequest => answer[Outer(a)] = "nil"
    /\ answer[Outer(a)] = "cancelled" => ~IsNil(listErr)
    /\ pc[Outer(a)] # "decide" /\ answer[Outer(a)] = "failed" => ~IsNil(listErr)
    /\ pc[Outer(a)] = "done" /\ IsNil(listErr) =>
          \/ isClusterScopeRequest /\ answer[Outer(a)] = "nil"
          \/ isClusterScopeRequest /\ a \notin Namespaced
          \/ \A ns \in nsSet : pc[<<a, ns>>] = "done"

Accounted ==
    /\ \A g \in Goroutine : pc[g] \in {"idle"} \union Reading => answer[g] = "nil"
    /\ \A a \in Api : OuterAccounted(a)
    /\ result = "ok" => IsNil(listErr)
    /\ result = "error" => ~IsNil(listErr)

(* Without namespaces only a failure becomes the error of the group.       *)
Caused ==
    nsSet = {} => /\ listErr \in {Value("nil"), Value("failed")}
                  /\ \A a \in Api : groupErr[a] = Value("nil")
                  /\ IsNil(listErr) \/ \E a \in Api : answer[Outer(a)] = "failed"

Inv == Types /\ Bounded /\ Exclusive /\ Forked /\ Gathered /\ Accounted /\ Caused

(***************************************************************************)
(* Lemmas about goroutines and errors.                                     *)
(***************************************************************************)
LEMMA Goroutines ==
    /\ \A a \in Api : Outer(a) \in Goroutine /\ Outer(a)[1] = a /\ Outer(a)[2] = AllNamespaces
    /\ \A a, b \in Api : Outer(a) = Outer(b) => a = b
    /\ \A g \in Api \X Namespace :
          /\ g \in Goroutine /\ g[1] \in Api /\ g[2] \in Namespace
          /\ g = <<g[1], g[2]>>
          /\ g[2] # AllNamespaces
          /\ \A a \in Api : g # Outer(a)
    /\ \A g \in Goroutine : g \in Api \X Namespace \/ \E a \in Api : g = Outer(a)
    /\ \A a \in Api, ns \in Namespace : <<a, ns>> \in Api \X Namespace
BY ConstantsAssumption DEF Outer, Goroutine

LEMMA RequestTypes ==
    ASSUME Types
    PROVE  apis \subseteq Api /\ nsSet \subseteq Namespace
BY ConstantsAssumption DEF Types, apis, nsSet

LEMMA Values ==
    /\ \A e \in Error : Value(e) \in Interface /\ (IsNil(Value(e)) <=> e = "nil")
    /\ \A e, f \in Error : Value(e) = Value(f) <=> e = f
    /\ \A v \in Interface : v.type \in {TypeOf(e) : e \in Error} /\ v.data \in Error
BY DEF Value, Interface, Error, IsNil, TypeOf

(* The steps of List, whichever goroutine takes them.                      *)
LEMMA Steps ==
    ASSUME Next
    PROVE  \/ \E g \in Goroutine :
                 ReadPage(g) \/ NotFound(g) \/ ListingFails(g) \/ Lock(g) \/ AppendItems(g)
           \/ \E a \in Api : Decide(a) \/ Fallback(a) \/ WaitInner(a)
           \/ \E g \in Api \X Namespace :
                 StoreAnswer(g) \/ Test(g) \/ TestCrashes(g) \/ ClearForbidden(g) \/ ReturnInner(g)
           \/ WaitAll
BY Goroutines DEF Next, OuterStep, InnerStep, Listing

(***************************************************************************)
(* Types.                                                                  *)
(***************************************************************************)
LEMMA InitTypes == Init => Types
<1> SUFFICES ASSUME Init PROVE Types
  OBVIOUS
<1>1. Value("nil") \in Interface /\ "nil" \in Error
  BY Values DEF Error
<1>2. MaxPages \in Nat
  BY ConstantsAssumption
<1> QED  BY <1>1, <1>2 DEF Init, Types, Words

LEMMA StoreTypes ==
    ASSUME Types, NEW g \in Goroutine, NEW v \in Interface,
           NEW next \in {"test", "return"}, Store(g, v, next)
    PROVE  Types'
<1>1. PICK word \in unwritten[g] :
        /\ err' = [err EXCEPT ![word] = v[word]]
        /\ IF unwritten[g] = {word}
           THEN /\ unwritten' = [unwritten EXCEPT ![g] = Words]
                /\ Goto(g, next)
           ELSE /\ unwritten' = [unwritten EXCEPT ![g] = @ \ {word}]
                /\ UNCHANGED pc
  BY DEF Store
<1>2. word \in {"type", "data"}
  BY <1>1 DEF Types, Words
<1>3. err' \in Interface
  BY <1>1, <1>2 DEF Types, Interface
<1>4. unwritten' \in [Goroutine -> (SUBSET Words) \ {{}}]
  BY <1>1 DEF Types, Words
<1>5. pc' \in [Goroutine -> {"idle", "list", "lock", "append", "decide", "fallback",
                             "wait", "store", "test", "clear", "return", "done"}]
  BY <1>1 DEF Types, Goto
<1> QED  BY <1>3, <1>4, <1>5 DEF Types, Store

LEMMA NextTypes ==
    ASSUME Types, Bounded, [Next]_vars
    PROVE  Types'
<1>1. CASE UNCHANGED vars
  BY <1>1 DEF Types, vars, locals
<1>2. ASSUME NEW g \in Goroutine, ReadPage(g) PROVE Types'
  <2>1. pages[g] \in 0 .. MaxPages /\ pages[g] < MaxPages /\ MaxPages \in Nat
    BY <1>2, ConstantsAssumption DEF Types, Bounded, ReadPage
  <2>2. pages[g] + 1 \in 0 .. MaxPages
    BY <2>1
  <2>3. pages' \in [Goroutine -> 0 .. MaxPages]
    BY <1>2, <2>2 DEF Types, ReadPage
  <2> QED  BY <1>2, <2>3 DEF Types, ReadPage, Goto
<1>3. ASSUME NEW g \in Goroutine, NotFound(g) PROVE Types'
  BY <1>3 DEF Types, NotFound, Goto
<1>4. ASSUME NEW g \in Goroutine, ListingFails(g) PROVE Types'
  BY <1>4, ConstantsAssumption DEF Types, ListingFails, Goto, AfterListing, Error
<1>5. ASSUME NEW g \in Goroutine, Lock(g) PROVE Types'
  BY <1>5 DEF Types, Lock, Goto
<1>6. ASSUME NEW g \in Goroutine, AppendItems(g) PROVE Types'
  <2>1. pages[g] \in 0 .. MaxPages /\ MaxPages \in Nat
    BY ConstantsAssumption DEF Types
  <2>2. 1 .. pages[g] \subseteq 1 .. MaxPages
    BY <2>1
  <2>3. items' \subseteq Goroutine \X (1 .. MaxPages)
    BY <1>6, <2>2 DEF Types, AppendItems
  <2> QED  BY <1>6, <2>3 DEF Types, AppendItems, Goto, AfterListing
<1>7. ASSUME NEW a \in Api, Decide(a) PROVE Types'
  <2>1. Value(Suppress(a, answer[Outer(a)])) \in Interface
    BY Goroutines, Values DEF Types, Suppress, Error
  <2> QED  BY <1>7, <2>1, Goroutines DEF Types, Decide, Return, Goto
<1>8. ASSUME NEW a \in Api, Fallback(a) PROVE Types'
  BY <1>8 DEF Types, Fallback
<1>9. ASSUME NEW a \in Api, WaitInner(a) PROVE Types'
  BY <1>9, Goroutines DEF Types, WaitInner, Return, Goto
<1>10. ASSUME NEW g \in Api \X Namespace, StoreAnswer(g) PROVE Types'
  BY <1>10, Goroutines, Values, StoreTypes DEF Types, StoreAnswer
<1>11. ASSUME NEW g \in Api \X Namespace, Test(g) PROVE Types'
  BY <1>11, Goroutines DEF Types, Test, Goto
<1>12. ASSUME NEW g \in Api \X Namespace, TestCrashes(g) PROVE Types'
  BY <1>12 DEF Types, TestCrashes, locals
<1>13. ASSUME NEW g \in Api \X Namespace, ClearForbidden(g) PROVE Types'
  BY <1>13, Goroutines, Values, StoreTypes DEF Types, ClearForbidden, Error
<1>14. ASSUME NEW g \in Api \X Namespace, ReturnInner(g) PROVE Types'
  BY <1>14, Goroutines DEF Types, ReturnInner, Goto
<1>15. CASE WaitAll
  BY <1>15 DEF Types, WaitAll, locals
<1> QED  BY <1>1, <1>2, <1>3, <1>4, <1>5, <1>6, <1>7, <1>8, <1>9, <1>10, <1>11, <1>12,
            <1>13, <1>14, <1>15, Steps

(***************************************************************************)
(* Where the goroutines are.                                               *)
(***************************************************************************)
LEMMA InitForked == Init => Bounded /\ Exclusive /\ Forked
<1> SUFFICES ASSUME Init PROVE Bounded /\ Exclusive /\ Forked
  OBVIOUS
<1>1. Types /\ MaxPages \in Nat \ {0}
  BY InitTypes, ConstantsAssumption
<1>2. \A g \in Goroutine : pages[g] = 0 /\ pc[g] \in {"idle", "list", "fallback"}
  BY DEF Init
<1>3. Bounded /\ Exclusive
  BY <1>1, <1>2 DEF Init, Bounded, Exclusive
<1>4. \A a \in Api : OuterForked(a) /\ pc[Outer(a)] \in {"idle", "list", "fallback"}
  BY Goroutines DEF Init, OuterForked, OuterAt
<1>5. \A g \in Api \X Namespace : pc[g] = "idle"
  BY Goroutines DEF Init
<1>6. result = "running"
  BY DEF Init
<1> QED  BY <1>3, <1>4, <1>5, <1>6, Goroutines DEF Forked, InnerForked, InnerAt

(* A goroutine that goes from one place to another of its own kind, before *)
(* and after which the first one of its resource is neither waiting nor    *)
(* done, disturbs no other.                                                *)
LEMMA MoveForked ==
    ASSUME Types, Forked, NEW g \in Goroutine, NEW to,
           Goto(g, to), UNCHANGED <<request, result>>, result = "running",
           \/ /\ g \in Api \X Namespace
              /\ pc[g] \notin {"idle", "done"}
              /\ to \in InnerAt \ {"idle"}
           \/ \E a \in Api :
                 /\ g = Outer(a)
                 /\ pc[g] \notin {"idle", "wait", "done"}
                 /\ to \in OuterAt \ {"idle", "wait"}
    PROVE  Forked'
<1>1. \A h \in Goroutine : pc'[h] = IF h = g THEN to ELSE pc[h]
  BY DEF Goto, Types
<1>2. UNCHANGED <<apis, nsSet>> /\ result' = "running"
  BY DEF apis, nsSet
<1>3. CASE g \in Api \X Namespace
  <2>1. /\ pc[g] \notin {"idle", "done"} /\ to \in InnerAt \ {"idle"}
        /\ \A a \in Api : pc'[Outer(a)] = pc[Outer(a)]
    BY <1>1, <1>3, Goroutines
  <2>2. pc[Outer(g[1])] = "wait" /\ g[2] \in nsSet /\ g[1] \in Api
    BY <1>3, <2>1, Goroutines DEF Forked, InnerForked
  <2>3. ASSUME NEW h \in Api \X Namespace PROVE InnerForked(h)'
    <3>1. h \in Goroutine /\ h[1] \in Api /\ InnerForked(h)
      BY Goroutines DEF Forked
    <3>2. CASE h = g
      BY <1>1, <1>2, <2>1, <2>2, <3>1, <3>2 DEF InnerForked
    <3>3. CASE h # g
      BY <1>1, <1>2, <2>1, <3>1, <3>3 DEF InnerForked
    <3> QED  BY <3>2, <3>3
  <2>4. ASSUME NEW b \in Api PROVE OuterForked(b)'
    BY <1>2, <2>1 DEF Forked, OuterForked
  <2> QED  BY <1>2, <2>3, <2>4 DEF Forked
<1>4. CASE \E a \in Api : g = Outer(a)
  <2>1. PICK a \in Api : g = Outer(a)
    BY <1>4
  <2>2. pc[g] \notin {"idle", "wait", "done"} /\ to \in OuterAt \ {"idle", "wait"}
    BY <2>1, Goroutines
  <2>3. \A b \in Api : pc'[Outer(b)] = IF b = a THEN to ELSE pc[Outer(b)]
    BY <1>1, <2>1, Goroutines
  <2>4. ASSUME NEW b \in Api PROVE OuterForked(b)'
    BY <1>2, <2>1, <2>2, <2>3 DEF Forked, OuterForked
  <2>5. ASSUME NEW h \in Api \X Namespace PROVE InnerForked(h)'
    <3>1. h \in Goroutine /\ h[1] \in Api /\ h # g /\ InnerForked(h)
      BY <2>1, Goroutines DEF Forked
    <3>2. pc'[h] = pc[h]
      BY <1>1, <3>1
    <3>3. CASE h[1] = a
      BY <1>2, <2>1, <2>2, <2>3, <3>1, <3>2, <3>3 DEF InnerForked
    <3>4. CASE h[1] # a
      BY <1>2, <2>3, <3>1, <3>2, <3>4 DEF InnerForked
    <3> QED  BY <3>3, <3>4
  <2> QED  BY <1>2, <2>4, <2>5 DEF Forked
<1> QED  BY <1>3, <1>4

LEMMA StoreForked ==
    ASSUME Types, Forked, NEW g \in Api \X Namespace, NEW v, NEW next \in {"test", "return"},
           pc[g] \in {"store", "clear"}, Store(g, v, next)
    PROVE  Forked'
<1>1. UNCHANGED <<request, result>> /\ result = "running" /\ (UNCHANGED pc \/ Goto(g, next))
  BY DEF Store, Running
<1>2. CASE UNCHANGED pc
  <2>1. UNCHANGED <<apis, nsSet>>
    BY <1>1 DEF apis, nsSet
  <2> QED  BY <1>1, <1>2, <2>1 DEF Forked, OuterForked, InnerForked
<1>3. CASE Goto(g, next)
  <2>1. g \in Goroutine
    BY Goroutines
  <2> QED  BY <1>1, <1>3, <2>1, MoveForked DEF InnerAt
<1> QED  BY <1>1, <1>2, <1>3

(* Where a goroutine that lists goes next is a place of its own kind.      *)
LEMMA ListingForked ==
    ASSUME Types, Forked, NEW g \in Goroutine, NEW to \in Reading \union {AfterListing(g)},
           pc[g] \in Reading, Goto(g, to), UNCHANGED <<request, result>>, result = "running"
    PROVE  Forked'
<1>1. CASE g \in Api \X Namespace
  <2>1. AfterListing(g) = "store"
    BY <1>1, Goroutines DEF AfterListing
  <2> QED  BY <1>1, <2>1, MoveForked DEF Reading, InnerAt
<1>2. CASE \E a \in Api : g = Outer(a)
  <2>1. AfterListing(g) = "decide"
    BY <1>2, Goroutines DEF AfterListing
  <2> QED  BY <1>2, <2>1, MoveForked DEF Reading, OuterAt
<1> QED  BY <1>1, <1>2, Goroutines

LEMMA FallbackForked ==
    ASSUME Types, Forked, NEW a \in Api, Fallback(a)
    PROVE  /\ Forked'
           /\ \A g \in {a} \X nsSet : pc[g] = "idle"
<1>1. UNCHANGED <<apis, nsSet, result>> /\ result = "running" /\ nsSet \subseteq Namespace
  BY RequestTypes DEF Fallback, Running, apis, nsSet
<1>2. \A g \in Goroutine : pc'[g] = IF g \in {a} \X nsSet THEN "list"
                                    ELSE IF g = Outer(a) THEN "wait" ELSE pc[g]
  BY DEF Fallback
<1>3. pc[Outer(a)] = "fallback"
  BY DEF Fallback
<1>4. \A g \in {a} \X nsSet : g \in Api \X Namespace /\ g[1] = a /\ g[2] \in nsSet
  BY <1>1
<1>5. \A b \in Api : pc'[Outer(b)] = IF b = a THEN "wait" ELSE pc[Outer(b)]
  BY <1>2, <1>4, Goroutines
<1>6. ASSUME NEW b \in Api PROVE OuterForked(b)'
  BY <1>1, <1>3, <1>5 DEF Forked, OuterForked, OuterAt
<1>7. ASSUME NEW h \in Api \X Namespace PROVE InnerForked(h)'
  <2>1. h \in Goroutine /\ h[1] \in Api /\ h = <<h[1], h[2]>> /\ h # Outer(a) /\ InnerForked(h)
    BY Goroutines DEF Forked
  <2>2. CASE h[1] = a /\ h[2] \in nsSet
    <3>1. pc'[h] = "list" /\ pc'[Outer(h[1])] = "wait"
      BY <1>2, <1>5, <2>1, <2>2
    <3> QED  BY <1>1, <2>2, <3>1 DEF InnerForked, InnerAt
  <2>3. CASE h[1] = a /\ h[2] \notin nsSet
    <3>1. pc'[h] = pc[h] /\ pc[h] = "idle" /\ pc'[Outer(h[1])] = "wait"
      BY <1>2, <1>3, <1>5, <2>1, <2>3 DEF InnerForked
    <3> QED  BY <1>1, <2>3, <3>1 DEF InnerForked, InnerAt
  <2>4. CASE h[1] # a
    <3>1. pc'[h] = pc[h] /\ pc'[Outer(h[1])] = pc[Outer(h[1])]
      BY <1>2, <1>5, <2>1, <2>4
    <3> QED  BY <1>1, <2>1, <3>1 DEF InnerForked
  <2> QED  BY <2>2, <2>3, <2>4
<1>8. \A g \in {a} \X nsSet : pc[g] = "idle"
  BY <1>3, <1>4 DEF Forked, InnerForked
<1> QED  BY <1>1, <1>6, <1>7, <1>8 DEF Forked

(* A first goroutine that returns its inner goroutines' error is the last. *)
LEMMA WaitInnerForked ==
    ASSUME Types, Forked, NEW a \in Api, WaitInner(a)
    PROVE  Forked'
<1>1. UNCHANGED <<apis, nsSet, result>> /\ result = "running"
  BY DEF WaitInner, Running, apis, nsSet
<1>2. \A g \in Goroutine : pc'[g] = IF g = Outer(a) THEN "done" ELSE pc[g]
  BY DEF WaitInner, Return, Goto, Types
<1>3. pc[Outer(a)] = "wait" /\ \A g \in Inner(a) : pc[g] \in {"idle", "done"}
  BY DEF WaitInner
<1>4. \A b \in Api : pc'[Outer(b)] = IF b = a THEN "done" ELSE pc[Outer(b)]
  BY <1>2, Goroutines
<1>5. ASSUME NEW b \in Api PROVE OuterForked(b)'
  BY <1>1, <1>3, <1>4 DEF Forked, OuterForked, OuterAt
<1>6. ASSUME NEW h \in Api \X Namespace PROVE InnerForked(h)'
  <2>1. h \in Goroutine /\ h[1] \in Api /\ h # Outer(a) /\ InnerForked(h) /\ pc'[h] = pc[h]
    BY <1>2, Goroutines DEF Forked
  <2>2. CASE h[1] = a
    <3>1. pc[h] \in {"idle", "done"}
      BY <1>3, <2>2, Goroutines DEF Inner
    <3> QED  BY <1>1, <1>4, <2>1, <2>2, <3>1 DEF InnerForked
  <2>3. CASE h[1] # a
    BY <1>1, <1>4, <2>1, <2>3 DEF InnerForked
  <2> QED  BY <2>2, <2>3
<1> QED  BY <1>1, <1>5, <1>6 DEF Forked

LEMMA NextForked ==
    ASSUME Types, Forked, [Next]_vars
    PROVE  Forked'
<1>1. CASE UNCHANGED vars
  BY <1>1 DEF Forked, OuterForked, InnerForked, vars, locals, apis, nsSet
<1>2. ASSUME NEW g \in Goroutine, ReadPage(g) PROVE Forked'
  BY <1>2, ListingForked DEF ReadPage, Running, Reading
<1>3. ASSUME NEW g \in Goroutine, NotFound(g) PROVE Forked'
  BY <1>3, ListingForked DEF NotFound, Running, Reading
<1>4. ASSUME NEW g \in Goroutine, ListingFails(g) PROVE Forked'
  BY <1>4, ListingForked DEF ListingFails, Running, Reading
<1>5. ASSUME NEW g \in Goroutine, Lock(g) PROVE Forked'
  BY <1>5, ListingForked DEF Lock, Running, Reading
<1>6. ASSUME NEW g \in Goroutine, AppendItems(g) PROVE Forked'
  BY <1>6, ListingForked DEF AppendItems, Running, Reading
<1>7. ASSUME NEW a \in Api, Decide(a) PROVE Forked'
  <2>1. PICK to \in {"fallback", "done"} : Goto(Outer(a), to)
    BY <1>7 DEF Decide, Return
  <2> QED  BY <1>7, <2>1, MoveForked, Goroutines DEF Decide, Running, OuterAt
<1>8. ASSUME NEW a \in Api, Fallback(a) PROVE Forked'
  BY <1>8, FallbackForked
<1>9. ASSUME NEW a \in Api, WaitInner(a) PROVE Forked'
  BY <1>9, WaitInnerForked
<1>10. ASSUME NEW g \in Api \X Namespace, StoreAnswer(g) PROVE Forked'
  BY <1>10, StoreForked DEF StoreAnswer
<1>11. ASSUME NEW g \in Api \X Namespace, Test(g) PROVE Forked'
  BY <1>11, MoveForked, Goroutines DEF Test, Running, InnerAt
<1>12. ASSUME NEW g \in Api \X Namespace, TestCrashes(g) PROVE Forked'
  BY <1>12 DEF TestCrashes, Forked, OuterForked, InnerForked, locals, apis, nsSet
<1>13. ASSUME NEW g \in Api \X Namespace, ClearForbidden(g) PROVE Forked'
  BY <1>13, StoreForked DEF ClearForbidden
<1>14. ASSUME NEW g \in Api \X Namespace, ReturnInner(g) PROVE Forked'
  BY <1>14, MoveForked, Goroutines DEF ReturnInner, Running, InnerAt
<1>15. CASE WaitAll
  <2>1. \A a \in Api : pc[Outer(a)] \in {"idle", "done"}
    BY <1>15 DEF WaitAll, Forked, OuterForked
  <2> QED  BY <1>15, <2>1 DEF WaitAll, Forked, OuterForked, InnerForked, locals, apis, nsSet
<1> QED  BY <1>1, <1>2, <1>3, <1>4, <1>5, <1>6, <1>7, <1>8, <1>9, <1>10, <1>11, <1>12,
            <1>13, <1>14, <1>15, Steps

(***************************************************************************)
(* The listings: pages, the mutex and the list.                            *)
(***************************************************************************)

(* A step that does not concern a listing, nor starts one.                 *)
Late ==
    /\ UNCHANGED <<request, answer, pages, snapshot, mutex, items>>
    /\ \A g \in Goroutine :
          \/ pc'[g] = pc[g]
          \/ /\ pc[g] \notin {"idle"} \union Reading
             /\ pc'[g] \notin {"idle"} \union Reading

LEMMA StoreIsLate ==
    ASSUME Types, NEW g \in Goroutine, NEW v, NEW next \in {"test", "return"},
           pc[g] \in {"store", "clear"}, Store(g, v, next)
    PROVE  Late
<1>1. UNCHANGED pc \/ pc' = [pc EXCEPT ![g] = next]
  BY DEF Store, Goto
<1>2. UNCHANGED <<request, answer, pages, snapshot, mutex, items>>
  BY DEF Store
<1> QED  BY <1>1, <1>2 DEF Types, Late, Reading

LEMMA LateSteps ==
    ASSUME Types, [Next]_vars
    PROVE  \/ Late
           \/ \E g \in Goroutine :
                 ReadPage(g) \/ NotFound(g) \/ ListingFails(g) \/ Lock(g) \/ AppendItems(g)
           \/ \E a \in Api : Fallback(a)
<1>1. CASE UNCHANGED vars
  BY <1>1 DEF Late, vars, locals
<1>2. ASSUME NEW a \in Api, Decide(a) PROVE Late
  BY <1>2, Goroutines DEF Decide, Return, Goto, Types, Late, Reading
<1>3. ASSUME NEW a \in Api, WaitInner(a) PROVE Late
  BY <1>3, Goroutines DEF WaitInner, Return, Goto, Types, Late, Reading
<1>4. ASSUME NEW g \in Api \X Namespace, StoreAnswer(g) PROVE Late
  BY <1>4, StoreIsLate, Goroutines DEF StoreAnswer
<1>5. ASSUME NEW g \in Api \X Namespace, Test(g) PROVE Late
  BY <1>5, Goroutines DEF Test, Goto, Types, Late, Reading
<1>6. ASSUME NEW g \in Api \X Namespace, TestCrashes(g) PROVE Late
  BY <1>6 DEF TestCrashes, Late, locals
<1>7. ASSUME NEW g \in Api \X Namespace, ClearForbidden(g) PROVE Late
  BY <1>7, StoreIsLate, Goroutines DEF ClearForbidden
<1>8. ASSUME NEW g \in Api \X Namespace, ReturnInner(g) PROVE Late
  BY <1>8, Goroutines DEF ReturnInner, Goto, Types, Late, Reading
<1>9. CASE WaitAll
  BY <1>9 DEF WaitAll, Late, locals
<1> QED  BY <1>1, <1>2, <1>3, <1>4, <1>5, <1>6, <1>7, <1>8, <1>9, Steps

LEMMA NextBounded ==
    ASSUME Types, Forked, Bounded, [Next]_vars
    PROVE  Bounded'
<1> USE DEF Bounded
<1>1. MaxPages \in Nat \ {0}
  BY ConstantsAssumption
<1>2. CASE Late
  BY <1>2 DEF Late, Reading
<1>3. ASSUME NEW g \in Goroutine, ReadPage(g) PROVE Bounded'
  BY <1>3 DEF ReadPage, Goto, Types
<1>4. ASSUME NEW g \in Goroutine, NotFound(g) PROVE Bounded'
  BY <1>4 DEF NotFound, Goto, Types
<1>5. ASSUME NEW g \in Goroutine, ListingFails(g) PROVE Bounded'
  BY <1>5 DEF ListingFails, Goto, AfterListing, Types
<1>6. ASSUME NEW g \in Goroutine, Lock(g) PROVE Bounded'
  BY <1>6 DEF Lock, Goto, Types
<1>7. ASSUME NEW g \in Goroutine, AppendItems(g) PROVE Bounded'
  BY <1>7 DEF AppendItems, Goto, AfterListing, Types
<1>8. ASSUME NEW a \in Api, Fallback(a) PROVE Bounded'
  <2>1. \A g \in {a} \X nsSet : pc[g] = "idle"
    BY <1>8, FallbackForked
  <2>2. \A g \in Goroutine : pages'[g] = pages[g] /\ pc'[g] = IF g \in {a} \X nsSet THEN "list"
                                ELSE IF g = Outer(a) THEN "wait" ELSE pc[g]
    BY <1>8 DEF Fallback
  <2> QED  BY <1>1, <2>1, <2>2
<1> QED  BY <1>2, <1>3, <1>4, <1>5, <1>6, <1>7, <1>8, LateSteps

LEMMA NextExclusive ==
    ASSUME Types, Forked, Exclusive, [Next]_vars
    PROVE  Exclusive'
<1> USE DEF Exclusive
<1>1. CASE Late
  BY <1>1 DEF Late, Reading
<1>2. ASSUME NEW g \in Goroutine, ReadPage(g) PROVE Exclusive'
  BY <1>2 DEF ReadPage, Goto, Types
<1>3. ASSUME NEW g \in Goroutine, NotFound(g) PROVE Exclusive'
  BY <1>3 DEF NotFound, Goto, Types
<1>4. ASSUME NEW g \in Goroutine, ListingFails(g) PROVE Exclusive'
  BY <1>4 DEF ListingFails, Goto, AfterListing, Types
<1>5. ASSUME NEW g \in Goroutine, Lock(g) PROVE Exclusive'
  BY <1>5 DEF Lock, Goto, Types
<1>6. ASSUME NEW g \in Goroutine, AppendItems(g) PROVE Exclusive'
  <2>1. mutex = {g}
    BY <1>6 DEF AppendItems
  <2>2. mutex' = {}
    BY <1>6, <2>1 DEF AppendItems
  <2>3. \A h \in Goroutine : pc'[h] # "append"
    BY <1>6, <2>1 DEF AppendItems, Goto, AfterListing, Types
  <2> QED  BY <2>2, <2>3
<1>7. ASSUME NEW a \in Api, Fallback(a) PROVE Exclusive'
  <2>1. \A g \in {a} \X nsSet : pc[g] = "idle"
    BY <1>7, FallbackForked
  <2>2. \A g \in Goroutine : pc'[g] = IF g \in {a} \X nsSet THEN "list"
                                ELSE IF g = Outer(a) THEN "wait" ELSE pc[g]
    BY <1>7 DEF Fallback
  <2>3. pc[Outer(a)] = "fallback" /\ UNCHANGED <<mutex, snapshot, items>>
    BY <1>7 DEF Fallback
  <2> QED  BY <2>1, <2>2, <2>3
<1> QED  BY <1>1, <1>2, <1>3, <1>4, <1>5, <1>6, <1>7, LateSteps

LEMMA NextGathered ==
    ASSUME Types, Forked, Bounded, Exclusive, Gathered, [Next]_vars
    PROVE  Gathered'
<1> DEFINE Past(x) == pc[x[1]] \notin Reading /\ x[2] \in 1 .. pages[x[1]]
           Page == Goroutine \X (1 .. MaxPages)
<1>1. items = {x \in Page : Past(x)}
  BY DEF Gathered
<1>2. SUFFICES items' = {x \in Page : Past(x)'}
  BY DEF Gathered
<1>3. \A x \in Page : x[1] \in Goroutine
  OBVIOUS
<1>4. CASE Late
  BY <1>1, <1>3, <1>4 DEF Late
<1>5. ASSUME NEW g \in Goroutine, ReadPage(g) PROVE items' = {x \in Page : Past(x)'}
  <2>1. \A h \in Goroutine \ {g} : pages'[h] = pages[h] /\ pc'[h] = pc[h]
    BY <1>5 DEF ReadPage, Goto, Types
  <2>2. pc[g] \in Reading /\ pc'[g] \in Reading /\ UNCHANGED items
    BY <1>5 DEF ReadPage, Goto, Types, Reading
  <2> QED  BY <1>1, <1>3, <2>1, <2>2
<1>6. ASSUME NEW g \in Goroutine, NotFound(g) PROVE items' = {x \in Page : Past(x)'}
  BY <1>1, <1>3, <1>6 DEF NotFound, Goto, Types, Reading
<1>7. ASSUME NEW g \in Goroutine, ListingFails(g) PROVE items' = {x \in Page : Past(x)'}
  <2>1. \A h \in Goroutine \ {g} : pages'[h] = pages[h] /\ pc'[h] = pc[h]
    BY <1>7 DEF ListingFails, Goto, Types
  <2>2. pc[g] \in Reading /\ pages'[g] = 0 /\ UNCHANGED items
    BY <1>7 DEF ListingFails, Types, Reading
  <2> QED  BY <1>1, <1>3, <2>1, <2>2
<1>8. ASSUME NEW g \in Goroutine, Lock(g) PROVE items' = {x \in Page : Past(x)'}
  BY <1>1, <1>3, <1>8 DEF Lock, Goto, Types, Reading
<1>9. ASSUME NEW g \in Goroutine, AppendItems(g) PROVE items' = {x \in Page : Past(x)'}
  <2>1. snapshot[g] = items
    BY <1>9 DEF AppendItems, Exclusive
  <2>2. items' = items \union ({g} \X (1 .. pages[g])) /\ UNCHANGED pages
    BY <1>9, <2>1 DEF AppendItems
  <2>3. \A h \in Goroutine \ {g} : pc'[h] = pc[h]
    BY <1>9 DEF AppendItems, Goto, Types
  <2>4. pc[g] \in Reading /\ pc'[g] \notin Reading
    BY <1>9 DEF AppendItems, Goto, AfterListing, Types, Reading
  <2>5. 1 .. pages[g] \subseteq 1 .. MaxPages
    BY ConstantsAssumption DEF Types
  <2> QED  BY <1>1, <1>3, <2>2, <2>3, <2>4, <2>5
<1>10. ASSUME NEW a \in Api, Fallback(a) PROVE items' = {x \in Page : Past(x)'}
  <2>1. \A g \in {a} \X nsSet : pc[g] = "idle"
    BY <1>10, FallbackForked
  <2>2. \A g \in Goroutine : pc'[g] = IF g \in {a} \X nsSet THEN "list"
                                ELSE IF g = Outer(a) THEN "wait" ELSE pc[g]
    BY <1>10 DEF Fallback
  <2>3. pc[Outer(a)] = "fallback" /\ UNCHANGED <<pages, items>>
    BY <1>10 DEF Fallback
  <2>4. \A g \in Goroutine : pc[g] = "idle" => pages[g] = 0
    BY DEF Bounded
  <2>5. ASSUME NEW x \in Page PROVE Past(x)' <=> Past(x)
    BY <1>3, <2>1, <2>2, <2>3, <2>4 DEF Reading
  <2> QED  BY <1>1, <2>3, <2>5
<1> QED  BY <1>4, <1>5, <1>6, <1>7, <1>8, <1>9, <1>10, LateSteps

(***************************************************************************)
(* The errors of the resources.                                            *)
(***************************************************************************)
LEMMA InitRest == Init => Gathered /\ Accounted /\ Caused
<1> SUFFICES ASSUME Init PROVE Gathered /\ Accounted /\ Caused
  OBVIOUS
<1>1. IsNil(listErr) /\ result = "running" /\ \A g \in Goroutine : answer[g] = "nil"
  BY DEF Init, IsNil, Value, TypeOf
<1>2. Gathered
  BY DEF Init, Gathered
<1>3. ASSUME NEW a \in Api PROVE OuterAccounted(a)
  <2>1. pc[Outer(a)] \in {"idle", "fallback"} \/ (pc[Outer(a)] = "list" /\ isClusterScopeRequest)
    BY Goroutines DEF Init
  <2> QED  BY <1>1, <2>1, Goroutines DEF OuterAccounted, Reading
<1>4. Caused
  BY <1>1 DEF Init, Caused
<1> QED  BY <1>1, <1>2, <1>3, <1>4 DEF Accounted

(* A step of a first goroutine's own listing, or of an inner goroutine.    *)
LEMMA ListingAccounted ==
    ASSUME Types, Forked, Accounted, NEW g \in Goroutine,
           pc[g] \in Reading, pc' = [pc EXCEPT ![g] = pc'[g]],
           pc'[g] \in Reading \union {"decide", "store"},
           UNCHANGED <<request, answer, listErr, result>>
    PROVE  Accounted'
<1>1. UNCHANGED <<isClusterScopeRequest, nsSet>>
  BY DEF isClusterScopeRequest, nsSet
<1>2. \A h \in Goroutine : /\ h # g => pc'[h] = pc[h]
                           /\ pc[h] = "done" => pc'[h] = "done"
  BY DEF Types, Reading
<1>3. answer[g] = "nil"
  BY DEF Accounted
<1>4. ASSUME NEW a \in Api PROVE OuterAccounted(a)'
  <2>1. OuterAccounted(a) /\ Outer(a) \in Goroutine
    BY Goroutines DEF Accounted
  <2>2. \A ns \in nsSet : <<a, ns>> \in Goroutine
    BY RequestTypes, Goroutines
  <2>3. CASE Outer(a) = g
    BY <1>1, <1>3, <2>1, <2>3 DEF OuterAccounted, IsNil, Reading
  <2>4. CASE Outer(a) # g
    BY <1>1, <1>2, <2>1, <2>2, <2>4 DEF OuterAccounted, IsNil
  <2> QED  BY <2>3, <2>4
<1> QED  BY <1>2, <1>3, <1>4 DEF Accounted, IsNil

LEMMA FailureAccounted ==
    ASSUME Types, Forked, Accounted, NEW g \in Goroutine, ListingFails(g)
    PROVE  Accounted'
<1>1. UNCHANGED <<isClusterScopeRequest, nsSet, listErr, result>>
  BY DEF ListingFails, isClusterScopeRequest, nsSet
<1>2. pc[g] = "list" /\ pc'[g] = AfterListing(g) /\ answer'[g] \in {"forbidden", "failed", "cancelled"}
  BY DEF ListingFails, Goto, Types
<1>3. \A h \in Goroutine : h # g => pc'[h] = pc[h] /\ answer'[h] = answer[h]
  BY DEF ListingFails, Goto, Types
<1>4. answer'[g] = "cancelled" => ContextCancelled(g)
  BY DEF ListingFails, Types
<1>5. ASSUME NEW a \in Api PROVE OuterAccounted(a)'
  <2>1. OuterAccounted(a) /\ Outer(a) \in Goroutine
    BY Goroutines DEF Accounted
  <2>2. CASE Outer(a) = g
    <3>1. pc'[g] = "decide"
      BY <1>2, <2>2, Goroutines DEF AfterListing
    <3>2. isClusterScopeRequest
      BY <1>2, <2>1, <2>2 DEF OuterAccounted, Reading
    <3>3. answer'[g] = "cancelled" => ~IsNil(listErr)
      BY <1>4, <2>2 DEF ContextCancelled
    <3> QED  BY <1>1, <2>2, <3>1, <3>2, <3>3 DEF OuterAccounted, IsNil
  <2>3. CASE Outer(a) # g
    <3>1. \A ns \in nsSet : <<a, ns>> \in Goroutine
      BY RequestTypes, Goroutines
    <3> QED  BY <1>1, <1>2, <1>3, <2>1, <2>3, <3>1 DEF OuterAccounted, IsNil
  <2> QED  BY <2>2, <2>3
<1>6. pc'[g] \notin {"idle"} \union Reading
  BY <1>2 DEF AfterListing, Reading
<1> QED  BY <1>1, <1>3, <1>5, <1>6 DEF Accounted, IsNil

LEMMA DecideAccounted ==
    ASSUME Types, Forked, Accounted, NEW b \in Api, Decide(b)
    PROVE  Accounted'
<1> DEFINE e == Suppress(b, answer[Outer(b)])
<1>1. UNCHANGED <<isClusterScopeRequest, nsSet, answer>> /\ result = "running" /\ result' = "running"
  BY DEF Decide, Running, isClusterScopeRequest, nsSet
<1>2. \A h \in Goroutine : h # Outer(b) => pc'[h] = pc[h]
  BY DEF Decide, Return, Goto, Types
<1>3. answer[Outer(b)] \in Error /\ e \in Error /\ pc[Outer(b)] = "decide"
  BY Goroutines DEF Types, Error, Suppress, Decide
<1>4. \/ pc'[Outer(b)] = "fallback" /\ e = "forbidden" /\ UNCHANGED listErr
      \/ /\ pc'[Outer(b)] = "done"
         /\ listErr' = IF IsNil(listErr) THEN Value(e) ELSE listErr
         /\ ~(b \in Namespaced /\ e = "forbidden")
  BY Goroutines DEF Decide, Return, Goto, Types
<1>5. IsNil(Value(e)) <=> e = "nil"
  BY <1>3, Values
<1>6. IsNil(listErr)' => IsNil(listErr)
  BY <1>4 DEF IsNil
<1>7. OuterAccounted(b)'
  <2>1. OuterAccounted(b) /\ isClusterScopeRequest
    BY <1>3 DEF Accounted, OuterAccounted
  <2>2. e = "forbidden" => answer[Outer(b)] = "forbidden"
    BY DEF Suppress
  <2>3. CASE pc'[Outer(b)] = "fallback"
    BY <1>1, <1>4, <2>1, <2>2, <2>3 DEF OuterAccounted, Reading, IsNil
  <2>4. CASE pc'[Outer(b)] = "done"
    <3>1. e = "nil" => answer[Outer(b)] = "nil" \/ b \notin Namespaced
      BY DEF Suppress
    <3>2. e # "nil" => ~IsNil(listErr)'
      BY <1>4, <1>5, <2>4 DEF IsNil
    <3>3. answer[Outer(b)] = "failed" => e = "failed"
      BY DEF Suppress
    <3>4. answer[Outer(b)] = "cancelled" => ~IsNil(listErr)
      BY <2>1 DEF OuterAccounted
    <3> QED  BY <1>1, <1>6, <2>1, <2>4, <3>1, <3>2, <3>3, <3>4 DEF OuterAccounted, Reading
  <2> QED  BY <1>4, <2>3, <2>4
<1>8. ASSUME NEW a \in Api, a # b PROVE OuterAccounted(a)'
  <2>1. OuterAccounted(a) /\ pc'[Outer(a)] = pc[Outer(a)]
    BY <1>2, <1>8, Goroutines DEF Accounted
  <2>2. \A ns \in nsSet : pc'[<<a, ns>>] = pc[<<a, ns>>]
    BY <1>2, RequestTypes, Goroutines
  <2> QED  BY <1>1, <1>6, <2>1, <2>2 DEF OuterAccounted
<1>9. pc'[Outer(b)] \notin {"idle"} \union Reading
  BY <1>4 DEF Reading
<1> QED  BY <1>1, <1>2, <1>7, <1>8, <1>9 DEF Accounted

LEMMA FallbackAccounted ==
    ASSUME Types, Forked, Accounted, NEW b \in Api, Fallback(b)
    PROVE  Accounted'
<1>1. UNCHANGED <<isClusterScopeRequest, nsSet, answer, listErr, result>>
  BY DEF Fallback, isClusterScopeRequest, nsSet
<1>2. \A g \in Goroutine : pc'[g] = IF g \in {b} \X nsSet THEN "list"
                                    ELSE IF g = Outer(b) THEN "wait" ELSE pc[g]
  BY DEF Fallback
<1>3. \A g \in {b} \X nsSet : pc[g] = "idle"
  BY FallbackForked
<1>4. \A g \in Goroutine : pc'[g] \in {"idle"} \union Reading => answer'[g] = "nil"
  BY <1>1, <1>2, <1>3 DEF Accounted, Reading
<1>5. ASSUME NEW a \in Api PROVE OuterAccounted(a)'
  <2>1. OuterAccounted(a) /\ Outer(a) \in Goroutine /\ Outer(a) \notin {b} \X nsSet
    BY RequestTypes, Goroutines DEF Accounted
  <2>2. pc[Outer(b)] = "fallback"
    BY DEF Fallback
  <2>3. CASE a = b
    BY <1>1, <1>2, <2>1, <2>2, <2>3 DEF OuterAccounted, Reading, IsNil
  <2>4. CASE a # b
    <3>1. pc'[Outer(a)] = pc[Outer(a)]
      BY <1>2, <2>1, <2>4, Goroutines
    <3>2. \A ns \in nsSet : pc'[<<a, ns>>] = pc[<<a, ns>>]
      BY <1>2, <2>4, RequestTypes, Goroutines
    <3> QED  BY <1>1, <2>1, <3>1, <3>2 DEF OuterAccounted, IsNil
  <2> QED  BY <2>3, <2>4
<1> QED  BY <1>1, <1>4, <1>5 DEF Accounted, IsNil

LEMMA WaitInnerAccounted ==
    ASSUME Types, Forked, Accounted, NEW b \in Api, WaitInner(b)
    PROVE  Accounted'
<1>1. /\ UNCHANGED <<isClusterScopeRequest, nsSet, answer>>
      /\ result = "running" /\ result' = "running"
  BY DEF WaitInner, Running, isClusterScopeRequest, nsSet
<1>2. \A g \in Goroutine : pc'[g] = IF g = Outer(b) THEN "done" ELSE pc[g]
  BY DEF WaitInner, Return, Goto, Types
<1>3. IsNil(listErr)' => IsNil(listErr)
  BY DEF WaitInner, Return, IsNil
<1>4. ASSUME NEW a \in Api PROVE OuterAccounted(a)'
  <2>1. OuterAccounted(a) /\ Outer(a) \in Goroutine
    BY Goroutines DEF Accounted
  <2>2. \A ns \in nsSet : <<a, ns>> \in Api \X Namespace /\ pc'[<<a, ns>>] = pc[<<a, ns>>]
    BY <1>2, RequestTypes, Goroutines
  <2>3. CASE a = b
    <3>1. pc[Outer(a)] = "wait"
      BY <2>3 DEF WaitInner
    <3>2. \A ns \in nsSet : pc[<<a, ns>>] = "done"
      <4>1. ASSUME NEW ns \in nsSet PROVE pc[<<a, ns>>] = "done"
        <5>1. <<a, ns>> \in Inner(a) /\ <<a, ns>>[1] = a /\ <<a, ns>>[2] = ns
          BY RequestTypes DEF Inner
        <5>2. InnerForked(<<a, ns>>)
          BY <2>2 DEF Forked
        <5>3. pc[<<a, ns>>] \in {"idle", "done"}
          BY <2>3, <5>1 DEF WaitInner
        <5> QED  BY <3>1, <5>1, <5>2, <5>3 DEF InnerForked
      <4> QED  BY <4>1
    <3> QED  BY <1>1, <1>2, <1>3, <2>1, <2>2, <2>3, <3>1, <3>2 DEF OuterAccounted, Reading
  <2>4. CASE a # b
    <3>1. pc'[Outer(a)] = pc[Outer(a)]
      BY <1>2, <2>1, <2>4, Goroutines
    <3> QED  BY <1>1, <1>3, <2>1, <2>2, <3>1 DEF OuterAccounted
  <2> QED  BY <2>3, <2>4
<1> QED  BY <1>1, <1>2, <1>4, Goroutines DEF Accounted, Reading

(* An inner goroutine is past its listing and goes on.                     *)
LEMMA InnerAccounted ==
    ASSUME Types, Forked, Accounted, NEW g \in Api \X Namespace,
           pc[g] \in {"store", "test", "clear", "return"},
           \/ UNCHANGED pc
           \/ \E to \in {"test", "clear", "return", "done"} : Goto(g, to),
           UNCHANGED <<request, answer, listErr, result>>
    PROVE  Accounted'
<1>1. UNCHANGED <<isClusterScopeRequest, nsSet>>
  BY DEF isClusterScopeRequest, nsSet
<1>2. g \in Goroutine /\ \A a \in Api : Outer(a) # g
  BY Goroutines
<1>3. \A h \in Goroutine : h # g => pc'[h] = pc[h]
  BY DEF Goto, Types
<1>4. pc'[g] \in {"store", "test", "clear", "return", "done"}
  BY <1>2 DEF Goto, Types
<1>5. ASSUME NEW a \in Api PROVE OuterAccounted(a)'
  <2>1. OuterAccounted(a) /\ pc'[Outer(a)] = pc[Outer(a)]
    BY <1>2, <1>3, Goroutines DEF Accounted
  <2>2. \A ns \in nsSet : pc[<<a, ns>>] = "done" => pc'[<<a, ns>>] = "done"
    BY <1>3, RequestTypes, Goroutines
  <2> QED  BY <1>1, <2>1, <2>2 DEF OuterAccounted, IsNil
<1>6. \A h \in Goroutine : pc'[h] \in {"idle"} \union Reading => answer'[h] = "nil"
  BY <1>3, <1>4 DEF Accounted, Reading
<1> QED  BY <1>5, <1>6 DEF Accounted, IsNil

LEMMA NextAccounted ==
    ASSUME Types, Forked, Accounted, [Next]_vars
    PROVE  Accounted'
<1>1. ASSUME UNCHANGED <<request, pc, answer, listErr>>,
             result' = result \/ result' = "crashed" \/ WaitAll
      PROVE  Accounted'
  <2>1. UNCHANGED <<isClusterScopeRequest, nsSet>>
    BY <1>1 DEF isClusterScopeRequest, nsSet
  <2>2. \A a \in Api : OuterAccounted(a)'
    BY <1>1, <2>1 DEF Accounted, OuterAccounted, IsNil
  <2> QED  BY <1>1, <2>2 DEF Accounted, WaitAll, IsNil
<1>2. CASE UNCHANGED vars
  BY <1>1, <1>2 DEF vars, locals
<1>3. ASSUME NEW g \in Goroutine, ReadPage(g) PROVE Accounted'
  BY <1>3, ListingAccounted DEF ReadPage, Goto, Types, Reading
<1>4. ASSUME NEW g \in Goroutine, NotFound(g) PROVE Accounted'
  BY <1>4, ListingAccounted DEF NotFound, Goto, Types, Reading
<1>5. ASSUME NEW g \in Goroutine, ListingFails(g) PROVE Accounted'
  BY <1>5, FailureAccounted
<1>6. ASSUME NEW g \in Goroutine, Lock(g) PROVE Accounted'
  BY <1>6, ListingAccounted DEF Lock, Goto, Types, Reading
<1>7. ASSUME NEW g \in Goroutine, AppendItems(g) PROVE Accounted'
  BY <1>7, ListingAccounted DEF AppendItems, Goto, AfterListing, Types, Reading
<1>8. ASSUME NEW a \in Api, Decide(a) PROVE Accounted'
  BY <1>8, DecideAccounted
<1>9. ASSUME NEW a \in Api, Fallback(a) PROVE Accounted'
  BY <1>9, FallbackAccounted
<1>10. ASSUME NEW a \in Api, WaitInner(a) PROVE Accounted'
  BY <1>10, WaitInnerAccounted
<1>11. ASSUME NEW g \in Api \X Namespace, StoreAnswer(g) PROVE Accounted'
  BY <1>11, InnerAccounted DEF StoreAnswer, Store
<1>12. ASSUME NEW g \in Api \X Namespace, Test(g) PROVE Accounted'
  BY <1>12, InnerAccounted DEF Test
<1>13. ASSUME NEW g \in Api \X Namespace, TestCrashes(g) PROVE Accounted'
  BY <1>1, <1>13 DEF TestCrashes, locals
<1>14. ASSUME NEW g \in Api \X Namespace, ClearForbidden(g) PROVE Accounted'
  BY <1>14, InnerAccounted DEF ClearForbidden, Store
<1>15. ASSUME NEW g \in Api \X Namespace, ReturnInner(g) PROVE Accounted'
  BY <1>15, InnerAccounted DEF ReturnInner
<1>16. CASE WaitAll
  BY <1>1, <1>16 DEF WaitAll, locals
<1> QED  BY <1>2, <1>3, <1>4, <1>5, <1>6, <1>7, <1>8, <1>9, <1>10, <1>11, <1>12,
            <1>13, <1>14, <1>15, <1>16, Steps

LEMMA NextCaused ==
    ASSUME Types, Forked, Accounted, Caused, [Next]_vars
    PROVE  Caused'
<1>1. UNCHANGED nsSet
  <2>1. UNCHANGED request
    BY LateSteps DEF Late, ReadPage, NotFound, ListingFails, Lock, AppendItems, Fallback
  <2> QED  BY <2>1 DEF nsSet
<1> DEFINE Failed == \E a \in Api : answer[Outer(a)] = "failed"
<1>2. SUFFICES ASSUME nsSet = {}
               PROVE  /\ listErr' \in {Value("nil"), Value("failed")}
                      /\ \A a \in Api : groupErr'[a] = Value("nil")
                      /\ IsNil(listErr)' \/ Failed'
  BY <1>1 DEF Caused
<1>3. /\ listErr \in {Value("nil"), Value("failed")}
      /\ \A a \in Api : groupErr[a] = Value("nil")
      /\ IsNil(listErr) \/ Failed
  BY <1>2 DEF Caused
<1>4. \A g \in Api \X Namespace : pc[g] = "idle"
  BY <1>2 DEF Forked, InnerForked
<1>5. Failed => Failed'
  <2>1. ASSUME NEW a \in Api, answer[Outer(a)] = "failed" PROVE answer'[Outer(a)] = "failed"
    <3>1. ASSUME NEW g \in Goroutine, ListingFails(g) PROVE answer'[Outer(a)] = "failed"
      <4>1. answer[g] = "nil"
        BY <3>1 DEF ListingFails, Accounted, Reading
      <4>2. \A h \in Goroutine \ {g} : answer'[h] = answer[h]
        BY <3>1 DEF ListingFails, Types
      <4> QED  BY <2>1, <4>1, <4>2, Goroutines
    <3> QED  BY <2>1, <3>1, LateSteps DEF Late, ReadPage, NotFound, Lock, AppendItems, Fallback
  <2> QED  BY <2>1
<1>6. CASE UNCHANGED <<listErr, groupErr>>
  BY <1>3, <1>5, <1>6 DEF IsNil
<1>7. ASSUME NEW a \in Api, Decide(a)
      PROVE  listErr' \in {Value("nil"), Value("failed")} /\ (IsNil(listErr)' \/ Failed')
  <2>1. answer[Outer(a)] \in Error /\ (answer[Outer(a)] = "cancelled" => ~IsNil(listErr))
    BY Goroutines DEF Types, Accounted, OuterAccounted
  <2>2. listErr' \in {listErr, Value(answer[Outer(a)]), Value("nil")}
    BY <1>7 DEF Decide, Return, Suppress
  <2>3. listErr' = listErr \/ listErr' = Value("nil") \/ (IsNil(listErr) /\ answer[Outer(a)] \in {"nil", "failed"})
    BY <1>7, <2>1, Goroutines DEF Types, Decide, Return, Suppress, Error
  <2>4. IsNil(Value("nil"))
    BY Values DEF Error
  <2>5. CASE listErr' \in {listErr, Value("nil")}
    BY <1>3, <1>5, <2>4, <2>5 DEF IsNil
  <2>6. CASE IsNil(listErr) /\ answer[Outer(a)] = "failed"
    BY <1>5, <2>2, <2>6, <1>3
  <2>7. CASE answer[Outer(a)] = "nil"
    BY <2>2, <2>5, <2>7
  <2> QED  BY <2>3, <2>5, <2>6, <2>7
<1>8. ASSUME NEW a \in Api, WaitInner(a)
      PROVE  listErr' \in {Value("nil"), Value("failed")} /\ (IsNil(listErr)' \/ Failed')
  <2>1. listErr' = listErr \/ listErr' = Value("nil")
    BY <1>3, <1>8 DEF WaitInner, Return
  <2>2. IsNil(Value("nil"))
    BY Values DEF Error
  <2> QED  BY <1>3, <1>5, <2>1, <2>2 DEF IsNil
<1>9. \/ UNCHANGED <<listErr, groupErr>>
      \/ UNCHANGED groupErr /\ \E a \in Api : Decide(a) \/ WaitInner(a)
  <2>1. ASSUME NEW g \in Api \X Namespace
        PROVE  ~(StoreAnswer(g) \/ Test(g) \/ TestCrashes(g) \/ ClearForbidden(g) \/ ReturnInner(g))
    BY <1>4 DEF StoreAnswer, Test, TestCrashes, ClearForbidden, ReturnInner
  <2>2. ASSUME NEW g \in Goroutine,
               ReadPage(g) \/ NotFound(g) \/ ListingFails(g) \/ Lock(g) \/ AppendItems(g)
        PROVE  UNCHANGED <<listErr, groupErr>>
    BY <2>2 DEF ReadPage, NotFound, ListingFails, Lock, AppendItems
  <2>3. ASSUME NEW a \in Api, Fallback(a) PROVE UNCHANGED <<listErr, groupErr>>
    BY <2>3 DEF Fallback
  <2>4. ASSUME NEW a \in Api, Decide(a) \/ WaitInner(a) PROVE UNCHANGED groupErr
    BY <2>4 DEF Decide, WaitInner
  <2>5. CASE WaitAll \/ UNCHANGED vars
    BY <2>5 DEF WaitAll, vars
  <2> QED  BY <2>1, <2>2, <2>3, <2>4, <2>5, Steps
<1> HIDE DEF Failed
<1> QED  BY <1>3, <1>6, <1>7, <1>8, <1>9

(***************************************************************************)
(* The theorems.                                                           *)
(***************************************************************************)
LEMMA Invariance == Spec => []Inv
<1>1. Init => Inv
  BY InitTypes, InitForked, InitRest DEF Inv
<1>2. Inv /\ [Next]_vars => Inv'
  BY NextTypes, NextForked, NextBounded, NextExclusive, NextGathered, NextAccounted,
     NextCaused DEF Inv
<1> QED  BY <1>1, <1>2, PTL DEF Spec

(* The values are of the right types, and mu is held by one goroutine at   *)
(* most (client.go:269): List keeps to both whatever the servers answer.   *)
THEOREM TypeCorrect == Spec => []TypeOK
<1>1. Inv => TypeOK
  <2> SUFFICES ASSUME Inv PROVE TypeOK
    OBVIOUS
  <2>1. mutex = {} \/ \E g \in Goroutine : mutex = {g}
    BY DEF Inv, Exclusive
  <2>2. Cardinality(mutex) <= 1
    BY <2>1, FS_EmptySet, FS_Singleton
  <2> QED  BY <2>2 DEF Inv, Types, Exclusive, TypeOK
<1> QED  BY <1>1, Invariance, PTL

(* The list that List returns is what the servers sent, of every listing   *)
(* that did not fail, and no goroutine is left that could change it        *)
(* (client.go:262-275, 317-322).                                           *)
THEOREM ListReturnedIsWhole == Spec => []ListIsWhole
<1>1. Inv => ListIsWhole
  <2> SUFFICES ASSUME Inv, Returned PROVE /\ \A g \in Goroutine : pc[g] \in {"idle", "done"}
                                          /\ items = UNION {{g} \X (1 .. pages[g]) : g \in Goroutine}
    BY DEF ListIsWhole
  <2> USE DEF Inv
  <2>1. \A a \in Api : pc[Outer(a)] \in {"idle", "done"}
    BY DEF Returned, Forked
  <2>2. \A g \in Api \X Namespace : pc[g] \in {"idle", "done"}
    BY <2>1, Goroutines DEF Forked, InnerForked
  <2>3. \A g \in Goroutine : pc[g] \in {"idle", "done"}
    BY <2>1, <2>2, Goroutines
  <2>4. items = {x \in Goroutine \X (1 .. MaxPages) : x[2] \in 1 .. pages[x[1]]}
    BY <2>3 DEF Gathered, Reading
  <2>5. \A g \in Goroutine : 1 .. pages[g] \subseteq 1 .. MaxPages
    BY ConstantsAssumption DEF Types
  <2> QED  BY <2>3, <2>4, <2>5
<1> QED  BY <1>1, Invariance, PTL

(* List succeeds only after every resource was listed in every scope asked *)
(* for (client.go:279-315), however many namespaces it falls back to.      *)
THEOREM EveryScopeIsTried == Spec => []EveryScopeTried
<1>1. Inv => EveryScopeTried
  <2> SUFFICES ASSUME Inv, result = "ok", NEW a \in apis
               PROVE  \/ isClusterScopeRequest /\ answer[Outer(a)] = "nil"
                      \/ isClusterScopeRequest /\ a \notin Namespaced
                      \/ \A ns \in nsSet : pc[<<a, ns>>] = "done"
    BY DEF EveryScopeTried
  <2> USE DEF Inv
  <2>1. a \in Api
    BY RequestTypes
  <2>2. pc[Outer(a)] = "done"
    BY <2>1 DEF Forked, OuterForked
  <2> QED  BY <2>1, <2>2 DEF Accounted, OuterAccounted
<1> QED  BY <1>1, Invariance, PTL

(* A failure at the cluster scope makes List fail (client.go:298-315): the *)
(* race for err reaches only those of namespaces.                          *)
THEOREM ClusterFailuresAreReported == Spec => []ClusterFailuresReported
<1>1. Inv => ClusterFailuresReported
  <2> SUFFICES ASSUME Inv, result = "ok", NEW a \in Api
               PROVE  answer[Outer(a)] \in {"nil", "forbidden"}
    BY DEF ClusterFailuresReported
  <2>1. answer[Outer(a)] \in Error /\ pc[Outer(a)] \in {"idle", "done"}
    BY Goroutines DEF Inv, Types, Forked
  <2> QED  BY <2>1 DEF Inv, Accounted, OuterAccounted, Error
<1> QED  BY <1>1, Invariance, PTL

(* Without namespaces, the error List returns is a failure, never one of   *)
(* the cancellations it caused nor a forbidden answer (client.go:276-313). *)
THEOREM CauseIsReported == Spec => []CauseReported
<1>1. Inv => CauseReported
  <2> SUFFICES ASSUME Inv, nsSet = {}, result = "error" PROVE listErr = Value("failed")
    BY DEF CauseReported
  <2>1. ~IsNil(listErr) /\ listErr \in {Value("nil"), Value("failed")}
    BY DEF Inv, Accounted, Caused
  <2> QED  BY <2>1, Values DEF Error
<1> QED  BY <1>1, Invariance, PTL

(***************************************************************************)
(* ClientList implements AbstractList.                                     *)
(***************************************************************************)
LEMMA PendingOf ==
    ASSUME Types, Forked
    PROVE  /\ \A a \in Api :
                 IsPending(Outer(a)) <=>
                    \/ pc[Outer(a)] \in Reading
                    \/ answer[Outer(a)] \in {"failed", "cancelled"}
                    \/ pc[Outer(a)] = "decide" /\ answer[Outer(a)] = "forbidden"
           /\ \A g \in Api \X Namespace :
                 IsPending(g) <=>
                    \/ pc[g] \in Reading
                    \/ g[2] \in nsSet /\ pc[Outer(g[1])] = "fallback"
<1>1. AllNamespaces \notin nsSet
  BY RequestTypes, ConstantsAssumption
<1>2. \A a \in Api : Outer(a)[2] = AllNamespaces
  BY Goroutines
<1>3. \A g \in Api \X Namespace : g[2] # AllNamespaces /\ pc[g] # "decide"
  BY Goroutines DEF Forked, InnerForked, InnerAt
<1> QED  BY <1>1, <1>2, <1>3 DEF IsPending

LEMMA InitImplements ==
    ASSUME Init
    PROVE  List!Init
<1>1. Types /\ Forked /\ AllNamespaces \notin nsSet
  BY InitTypes, InitForked, RequestTypes, ConstantsAssumption
<1>2. apis \subseteq Api /\ nsSet \subseteq Namespace
  BY <1>1, RequestTypes
<1>3. \A g \in Goroutine : answer[g] = "nil"
  BY DEF Init
<1>4. \A a \in Api : pc[Outer(a)] = IF a \notin apis THEN "idle"
                                    ELSE IF isClusterScopeRequest THEN "list" ELSE "fallback"
  BY Goroutines DEF Init
<1>5. \A g \in Api \X Namespace : pc[g] = "idle"
  BY Goroutines DEF Init
<1>6. ASSUME NEW a \in Api
      PROVE  /\ IsPending(Outer(a)) <=> a \in apis /\ isClusterScopeRequest
             /\ ~IsListed(Outer(a))
  BY <1>1, <1>3, <1>4, PendingOf, Goroutines DEF Reading, IsListed
<1>7. ASSUME NEW g \in Api \X Namespace
      PROVE  /\ IsPending(g) <=> g[1] \in apis /\ g[2] \in nsSet /\ ~isClusterScopeRequest
             /\ ~IsListed(g)
  BY <1>1, <1>4, <1>5, PendingOf, Goroutines DEF Reading, IsListed
<1>8. ListedScopes = {}
  BY <1>6, <1>7, Goroutines DEF ListedScopes
<1>9. PendingScopes = List!InitialScopes
  <2>1. List!InitialScopes = apis \X (IF isClusterScopeRequest THEN {AllNamespaces} ELSE nsSet)
    BY DEF List!InitialScopes
  <2>2. ASSUME NEW g \in Goroutine PROVE g \in PendingScopes <=> g \in List!InitialScopes
    <3>1. CASE g \in Api \X Namespace
      BY <1>7, <2>1, <3>1, Goroutines DEF PendingScopes
    <3>2. ASSUME NEW a \in Api, g = Outer(a) PROVE g \in PendingScopes <=> g \in List!InitialScopes
      BY <1>1, <1>6, <2>1, <3>2, Goroutines DEF PendingScopes, Outer
    <3> QED  BY <3>1, <3>2, Goroutines
  <2>3. List!InitialScopes \subseteq Goroutine
    BY <1>2, <2>1 DEF Goroutine
  <2> QED  BY <2>2, <2>3 DEF PendingScopes
<1>10. ~FailureDropped
  BY <1>3, Goroutines DEF FailureDropped
<1>11. Outcome = "running"
  BY DEF Init, Outcome
<1> QED  BY <1>8, <1>9, <1>10, <1>11 DEF List!Init

(* What a goroutine may do without a listing being made.                   *)
Hidden(h) ==
    \/ pc'[h] = pc[h]
    \/ pc[h] \in Reading /\ pc'[h] \in Reading
    \/ /\ pc[h] \in {"wait", "store", "test", "clear", "return"}
       /\ pc'[h] \in {"test", "clear", "return", "done"}
    \/ pc[h] = "decide" /\ answer[h] # "forbidden" /\ pc'[h] = "done"

LEMMA HiddenScopes ==
    ASSUME Types, Forked, UNCHANGED <<request, answer>>, \A h \in Goroutine : Hidden(h)
    PROVE  UNCHANGED <<apis, isClusterScopeRequest, nsSet, PendingScopes, ListedScopes, FailureDropped>>
<1>1. UNCHANGED <<apis, isClusterScopeRequest, nsSet>>
  BY DEF apis, isClusterScopeRequest, nsSet
<1>2. ASSUME NEW h \in Goroutine PROVE pc'[h] = "fallback" <=> pc[h] = "fallback"
  BY DEF Hidden, Reading
<1>3. \A h \in Goroutine : h[1] \in Api
  BY DEF Goroutine
<1>4. ASSUME NEW h \in Goroutine PROVE IsPending(h)' <=> IsPending(h)
  <2>1. pc'[Outer(h[1])] = "fallback" <=> pc[Outer(h[1])] = "fallback"
    BY <1>2, <1>3, Goroutines
  <2> QED  BY <1>1, <2>1 DEF Hidden, IsPending, Reading
<1>5. ASSUME NEW h \in Goroutine PROVE IsListed(h)' <=> IsListed(h)
  BY <1>1 DEF Hidden, IsListed, Reading
<1>6. FailureDropped' <=> FailureDropped
  BY DEF FailureDropped
<1> QED  BY <1>1, <1>4, <1>5, <1>6 DEF PendingScopes, ListedScopes

LEMMA FailureImplements ==
    ASSUME Inv, NEW g \in Goroutine, ListingFails(g)
    PROVE  [List!Next]_(List!vars)
<1> USE DEF Inv
<1>1. /\ UNCHANGED <<apis, isClusterScopeRequest, nsSet>>
      /\ Outcome = "running" /\ Outcome' = "running"
  BY DEF ListingFails, Running, Outcome, apis, isClusterScopeRequest, nsSet
<1>2. pc[g] = "list" /\ pc'[g] = AfterListing(g) /\ answer'[g] \in {"forbidden", "failed", "cancelled"}
  BY DEF ListingFails, Goto, Types
<1>3. \A h \in Goroutine \ {g} : pc'[h] = pc[h] /\ answer'[h] = answer[h]
  BY DEF ListingFails, Goto, Types
<1>4. answer[g] = "nil" /\ pc'[g] \in {"decide", "store"}
  BY <1>2 DEF Accounted, Reading, AfterListing
<1>5. \A a \in Api : pc'[Outer(a)] = "fallback" <=> pc[Outer(a)] = "fallback"
  BY <1>2, <1>3, <1>4, Goroutines
<1>6. ListedScopes' = ListedScopes
  BY <1>1, <1>2, <1>3 DEF ListedScopes, IsListed, Reading
<1>7. \A h \in Goroutine \ {g} : IsPending(h)' <=> IsPending(h)
  BY <1>1, <1>3, <1>5, Goroutines DEF IsPending, Goroutine
<1>8. IsPending(g)
  BY <1>2 DEF IsPending, Reading
<1>9. CASE g \in Api \X Namespace
  <2>1. g[2] # AllNamespaces /\ pc'[g] = "store" /\ pc'[Outer(g[1])] # "fallback"
    BY <1>2, <1>5, <1>9, Goroutines DEF AfterListing, Forked, InnerForked
  <2>2. ~IsPending(g)'
    BY <2>1 DEF IsPending, Reading
  <2>3. PendingScopes' = PendingScopes \ {g}
    BY <1>7, <2>2 DEF PendingScopes
  <2>4. g \in PendingScopes
    BY <1>8 DEF PendingScopes
  <2>5. CASE answer'[g] = "forbidden"
    <3>1. FailureDropped' = FailureDropped
      BY <1>3, <1>4, <2>5, Goroutines DEF FailureDropped
    <3>2. List!SkipForbidden(g)
      BY <1>1, <1>6, <2>1, <2>3, <2>4, <3>1 DEF List!SkipForbidden, List!Take, List!inputs
    <3> QED  BY <2>4, <3>2 DEF List!Next
  <2>6. CASE answer'[g] # "forbidden"
    <3>1. FailureDropped' = TRUE
      BY <1>2, <1>9, <2>6 DEF FailureDropped
    <3>2. List!LoseFailure(g)
      BY <1>1, <1>6, <2>1, <2>3, <2>4, <3>1 DEF List!LoseFailure, List!Take, List!inputs
    <3> QED  BY <2>4, <3>2 DEF List!Next
  <2> QED  BY <2>5, <2>6
<1>10. CASE \E a \in Api : g = Outer(a)
  <2>1. g[2] = AllNamespaces /\ pc'[g] = "decide"
    BY <1>2, <1>10, Goroutines DEF AfterListing
  <2>2. IsPending(g)'
    BY <1>2, <2>1 DEF IsPending
  <2>3. PendingScopes' = PendingScopes
    BY <1>7, <1>8, <2>2 DEF PendingScopes
  <2>4. FailureDropped' = FailureDropped
    BY <1>3, <1>10, Goroutines DEF FailureDropped
  <2> QED  BY <1>1, <1>6, <2>3, <2>4 DEF List!vars, List!inputs
<1> QED  BY <1>9, <1>10, Goroutines

LEMMA AppendImplements ==
    ASSUME Inv, NEW g \in Goroutine, AppendItems(g)
    PROVE  [List!Next]_(List!vars)
<1> USE DEF Inv
<1>1. /\ UNCHANGED <<apis, isClusterScopeRequest, nsSet>>
      /\ Outcome = "running" /\ Outcome' = "running"
  BY DEF AppendItems, Running, Outcome, apis, isClusterScopeRequest, nsSet
<1>2. pc[g] = "append" /\ pc'[g] = AfterListing(g) /\ UNCHANGED answer
  BY DEF AppendItems, Goto, Types
<1>3. \A h \in Goroutine \ {g} : pc'[h] = pc[h]
  BY DEF AppendItems, Goto, Types
<1>4. answer[g] = "nil" /\ pc'[g] \in {"decide", "store"}
  BY <1>2 DEF Accounted, Reading, AfterListing
<1>5. \A a \in Api : pc'[Outer(a)] = "fallback" <=> pc[Outer(a)] = "fallback"
  BY <1>2, <1>3, <1>4, Goroutines
<1>6. \A h \in Goroutine \ {g} : /\ IsPending(h)' <=> IsPending(h)
                                 /\ IsListed(h)' <=> IsListed(h)
  BY <1>1, <1>2, <1>3, <1>5, Goroutines DEF IsPending, IsListed, Goroutine
<1>7. IsPending(g)
  BY <1>2 DEF IsPending, Reading
<1>8. ~IsPending(g)' /\ IsListed(g)'
  <2>1. CASE g \in Api \X Namespace
    <3>1. g[2] # AllNamespaces /\ pc'[g] = "store" /\ pc'[Outer(g[1])] # "fallback"
      BY <1>2, <1>5, <2>1, Goroutines DEF AfterListing, Forked, InnerForked
    <3> QED  BY <1>2, <1>4, <3>1 DEF IsPending, IsListed, Reading
  <2>2. CASE \E a \in Api : g = Outer(a)
    <3>1. PICK a \in Api : g = Outer(a)
      BY <2>2
    <3>2. isClusterScopeRequest
      BY <1>2, <3>1 DEF Accounted, OuterAccounted, Reading
    <3>3. pc'[g] = "decide" /\ g[1] = a /\ g[2] \notin nsSet
      BY <1>2, <3>1, RequestTypes, ConstantsAssumption, Goroutines DEF AfterListing
    <3> QED  BY <1>1, <1>2, <1>4, <3>2, <3>3 DEF IsPending, IsListed, Reading
  <2> QED  BY <2>1, <2>2, Goroutines
<1>9. /\ g \in PendingScopes
      /\ PendingScopes' = PendingScopes \ {g}
      /\ ListedScopes' = ListedScopes \union {g}
  BY <1>6, <1>7, <1>8 DEF PendingScopes, ListedScopes
<1>10. FailureDropped' = FailureDropped
  BY <1>2 DEF FailureDropped
<1>11. List!ListScope(g)
  BY <1>1, <1>9, <1>10 DEF List!ListScope, List!Take, List!inputs
<1> QED  BY <1>9, <1>11 DEF List!Next

LEMMA DecideImplements ==
    ASSUME Inv, NEW a \in Api, Decide(a)
    PROVE  [List!Next]_(List!vars)
<1> USE DEF Inv
<1> DEFINE g == Outer(a)
<1>1. /\ UNCHANGED <<apis, isClusterScopeRequest, nsSet, answer>>
      /\ Outcome = "running" /\ Outcome' = "running"
  BY DEF Decide, Running, Outcome, apis, isClusterScopeRequest, nsSet
<1>2. g \in Goroutine /\ g[1] = a /\ g[2] = AllNamespaces /\ pc[g] = "decide"
  BY Goroutines DEF Decide
<1>3. \A h \in Goroutine \ {g} : pc'[h] = pc[h]
  BY DEF Decide, Return, Goto, Types
<1>4. pc'[g] = IF a \in Namespaced /\ answer[g] = "forbidden" THEN "fallback" ELSE "done"
  BY <1>2 DEF Decide, Return, Goto, Types, Suppress
<1>5. CASE answer[g] # "forbidden"
  <2>1. \A h \in Goroutine : Hidden(h)
    BY <1>2, <1>3, <1>4, <1>5 DEF Hidden
  <2>2. UNCHANGED request
    BY DEF Decide
  <2> QED  BY <1>1, <2>1, <2>2, HiddenScopes DEF List!vars, List!inputs
<1>6. CASE answer[g] = "forbidden"
  <2>1. ListedScopes' = ListedScopes
    BY <1>1, <1>2, <1>3, <1>6 DEF ListedScopes, IsListed
  <2>2. FailureDropped' = FailureDropped
    BY <1>1 DEF FailureDropped
  <2>3. g \in PendingScopes
    BY <1>2, <1>6 DEF PendingScopes, IsPending
  <2>4. ~IsPending(g)'
    BY <1>1, <1>2, <1>4, <1>6, RequestTypes, ConstantsAssumption DEF IsPending, Reading
  <2>5. ASSUME NEW h \in Goroutine \ {g}
        PROVE  IsPending(h)' <=> IsPending(h) \/ h \in List!FallBack(a)
    <3>1. CASE h \in Api \X Namespace /\ h[1] = a
      <4>1. h = <<a, h[2]>> /\ h[2] # AllNamespaces /\ pc'[h] = pc[h]
        BY <1>3, <3>1, Goroutines
      <4>2. pc[h] = "idle"
        BY <1>2, <3>1 DEF Forked, InnerForked
      <4>3. IsPending(h)' <=> h[2] \in nsSet /\ pc'[g] = "fallback"
        BY <1>1, <3>1, <4>1, <4>2 DEF IsPending, Reading
      <4>4. ~IsPending(h)
        BY <1>2, <3>1, <4>1, <4>2 DEF IsPending, Reading
      <4>5. h \in List!FallBack(a) <=> a \in Namespaced /\ h[2] \in nsSet
        BY <4>1 DEF List!FallBack
      <4> QED  BY <1>4, <1>6, <4>3, <4>4, <4>5
    <3>2. CASE ~(h \in Api \X Namespace /\ h[1] = a)
      <4>1. h[1] \in Api /\ h[1] # a
        BY <3>2, Goroutines DEF Goroutine
      <4>2. Outer(h[1]) # g /\ pc'[Outer(h[1])] = pc[Outer(h[1])]
        BY <1>3, <4>1, Goroutines
      <4>3. h \notin List!FallBack(a)
        BY <4>1 DEF List!FallBack
      <4> QED  BY <1>1, <1>3, <4>2, <4>3 DEF IsPending
    <3> QED  BY <3>1, <3>2
  <2>6. List!FallBack(a) \subseteq Goroutine /\ g \notin List!FallBack(a)
    BY <1>2, RequestTypes, ConstantsAssumption DEF List!FallBack, Goroutine
  <2>7. PendingScopes' = (PendingScopes \ {g}) \union List!FallBack(a)
    BY <1>2, <2>4, <2>5, <2>6 DEF PendingScopes
  <2>8. List!SkipForbidden(g)
    BY <1>1, <1>2, <2>1, <2>2, <2>3, <2>7 DEF List!SkipForbidden, List!Take, List!inputs
  <2> QED  BY <2>3, <2>8 DEF List!Next
<1> QED  BY <1>5, <1>6

LEMMA FallbackImplements ==
    ASSUME Inv, NEW a \in Api, Fallback(a)
    PROVE  UNCHANGED List!vars
<1> USE DEF Inv
<1>1. UNCHANGED <<apis, isClusterScopeRequest, nsSet, answer, Outcome>>
  BY DEF Fallback, Outcome, apis, isClusterScopeRequest, nsSet
<1>2. \A h \in Goroutine : pc'[h] = IF h \in {a} \X nsSet THEN "list"
                                    ELSE IF h = Outer(a) THEN "wait" ELSE pc[h]
  BY DEF Fallback
<1>3. pc[Outer(a)] = "fallback" /\ \A h \in {a} \X nsSet : pc[h] = "idle"
  BY FallbackForked DEF Fallback
<1>4. \A b \in Api : pc'[Outer(b)] = IF b = a THEN "wait" ELSE pc[Outer(b)]
  BY <1>2, RequestTypes, Goroutines
<1>5. ASSUME NEW b \in Api
      PROVE  /\ IsPending(Outer(b))' <=> IsPending(Outer(b))
             /\ IsListed(Outer(b))' <=> IsListed(Outer(b))
  <2>1. Outer(b)[1] = b /\ Outer(b)[2] = AllNamespaces /\ AllNamespaces \notin nsSet
    BY RequestTypes, ConstantsAssumption, Goroutines
  <2> QED  BY <1>1, <1>3, <1>4, <2>1 DEF IsPending, IsListed, Reading
<1>6. ASSUME NEW h \in Api \X Namespace
      PROVE  /\ IsPending(h)' <=> IsPending(h)
             /\ IsListed(h)' <=> IsListed(h)
  <2>1. h \in Goroutine /\ h[1] \in Api /\ h = <<h[1], h[2]>> /\ h # Outer(a) /\ h[2] # AllNamespaces
    BY Goroutines
  <2>2. CASE h[1] = a /\ h[2] \in nsSet
    <3>1. pc[h] = "idle" /\ pc'[h] = "list"
      BY <1>2, <1>3, <2>1, <2>2
    <3> QED  BY <1>3, <2>2, <3>1 DEF IsPending, IsListed, Reading
  <2>3. CASE ~(h[1] = a /\ h[2] \in nsSet)
    <3>1. pc'[h] = pc[h] /\ (h[1] = a => h[2] \notin nsSet)
      BY <1>2, <2>1, <2>3
    <3>2. h[1] # a => pc'[Outer(h[1])] = pc[Outer(h[1])]
      BY <1>4, <2>1
    <3> QED  BY <1>1, <2>1, <3>1, <3>2 DEF IsPending, IsListed
  <2> QED  BY <2>2, <2>3
<1>7. \A h \in Goroutine : (IsPending(h)' <=> IsPending(h)) /\ (IsListed(h)' <=> IsListed(h))
  BY <1>5, <1>6, Goroutines
<1>8. UNCHANGED <<PendingScopes, ListedScopes>>
  BY <1>7 DEF PendingScopes, ListedScopes
<1>9. FailureDropped' = FailureDropped
  BY <1>1 DEF FailureDropped
<1> QED  BY <1>1, <1>8, <1>9 DEF List!vars, List!inputs

LEMMA EndImplements ==
    ASSUME Inv, WaitAll
    PROVE  List!Next
<1> USE DEF Inv
<1>1. UNCHANGED <<request, locals>> /\ Outcome = "running" /\ UNCHANGED <<apis, isClusterScopeRequest, nsSet>>
  BY DEF WaitAll, Running, Outcome, apis, isClusterScopeRequest, nsSet
<1>2. UNCHANGED <<PendingScopes, ListedScopes, FailureDropped>>
  BY <1>1, HiddenScopes DEF Hidden, locals
<1>3. \A a \in Api : pc[Outer(a)] \in {"idle", "done"}
  BY DEF WaitAll, Forked, OuterForked
<1>4. CASE IsNil(listErr)
  <2>1. Outcome' = "ok"
    BY <1>4 DEF WaitAll, Outcome
  <2>2. ASSUME NEW a \in Api PROVE ~IsPending(Outer(a))
    BY <1>3, <1>4, PendingOf DEF Accounted, OuterAccounted, Reading
  <2>3. ASSUME NEW g \in Api \X Namespace PROVE ~IsPending(g)
    <3>1. g[1] \in Api /\ pc[g] \in {"idle", "done"} /\ pc[Outer(g[1])] # "fallback"
      BY <1>3, Goroutines DEF Forked, InnerForked
    <3> QED  BY <3>1, PendingOf DEF Reading
  <2>4. PendingScopes = {}
    BY <2>2, <2>3, Goroutines DEF PendingScopes
  <2>5. List!Succeed
    BY <1>1, <1>2, <2>1, <2>4 DEF List!Succeed, List!inputs
  <2> QED  BY <2>5 DEF List!Next
<1>5. CASE ~IsNil(listErr)
  <2>1. Outcome' = "error"
    BY <1>5 DEF WaitAll, Outcome
  <2>2. PendingScopes # {} \/ nsSet # {}
    <3>1. ASSUME nsSet = {} PROVE PendingScopes # {}
      <4>1. PICK a \in Api : answer[Outer(a)] = "failed"
        BY <1>5, <3>1 DEF Caused
      <4>2. Outer(a) \in PendingScopes
        BY <4>1, PendingOf, Goroutines DEF PendingScopes
      <4> QED  BY <4>2
    <3> QED  BY <3>1
  <2>3. List!Fail
    BY <1>1, <1>2, <2>1, <2>2 DEF List!Fail, List!inputs
  <2> QED  BY <2>3 DEF List!Next
<1> QED  BY <1>4, <1>5

LEMMA StepImplements ==
    ASSUME Inv, [Next]_vars
    PROVE  [List!Next]_(List!vars)
<1> USE DEF Inv
<1>1. ASSUME UNCHANGED <<request, answer, Outcome>>, \A h \in Goroutine : Hidden(h)
      PROVE  UNCHANGED List!vars
  BY <1>1, HiddenScopes DEF List!vars, List!inputs
<1>2. CASE UNCHANGED vars
  BY <1>1, <1>2 DEF vars, locals, Hidden, Outcome
<1>3. ASSUME NEW g \in Goroutine, ReadPage(g) \/ NotFound(g) \/ Lock(g)
      PROVE  UNCHANGED List!vars
  <2>1. UNCHANGED <<request, answer, Outcome>>
    BY <1>3 DEF ReadPage, NotFound, Lock, Outcome
  <2>2. \A h \in Goroutine : Hidden(h)
    BY <1>3 DEF ReadPage, NotFound, Lock, Goto, Types, Hidden, Reading
  <2> QED  BY <1>1, <2>1, <2>2
<1>4. ASSUME NEW g \in Goroutine, ListingFails(g) PROVE [List!Next]_(List!vars)
  BY <1>4, FailureImplements
<1>5. ASSUME NEW g \in Goroutine, AppendItems(g) PROVE [List!Next]_(List!vars)
  BY <1>5, AppendImplements
<1>6. ASSUME NEW a \in Api, Decide(a) PROVE [List!Next]_(List!vars)
  BY <1>6, DecideImplements
<1>7. ASSUME NEW a \in Api, Fallback(a) PROVE UNCHANGED List!vars
  BY <1>7, FallbackImplements
<1>8. ASSUME NEW a \in Api, WaitInner(a) PROVE UNCHANGED List!vars
  <2>1. UNCHANGED <<request, answer, Outcome>>
    BY <1>8 DEF WaitInner, Outcome
  <2>2. \A h \in Goroutine : Hidden(h)
    BY <1>8, Goroutines DEF WaitInner, Return, Goto, Types, Hidden
  <2> QED  BY <1>1, <2>1, <2>2
<1>9. ASSUME NEW g \in Api \X Namespace, StoreAnswer(g) \/ ClearForbidden(g)
      PROVE  UNCHANGED List!vars
  <2>1. PICK next \in {"test", "return"} : UNCHANGED pc \/ Goto(g, next)
    BY <1>9 DEF StoreAnswer, ClearForbidden, Store
  <2>2. pc[g] \in {"store", "clear"} /\ UNCHANGED <<request, answer, Outcome>>
    BY <1>9 DEF StoreAnswer, ClearForbidden, Store, Outcome
  <2>3. \A h \in Goroutine : Hidden(h)
    BY <2>1, <2>2 DEF Goto, Types, Hidden
  <2> QED  BY <1>1, <2>2, <2>3
<1>10. ASSUME NEW g \in Api \X Namespace, Test(g) \/ ReturnInner(g)
       PROVE  UNCHANGED List!vars
  <2>1. UNCHANGED <<request, answer, Outcome>>
    BY <1>10 DEF Test, ReturnInner, Outcome
  <2>2. \A h \in Goroutine : Hidden(h)
    BY <1>10, Goroutines DEF Test, ReturnInner, Goto, Types, Hidden
  <2> QED  BY <1>1, <2>1, <2>2
<1>11. ASSUME NEW g \in Api \X Namespace, TestCrashes(g) PROVE List!Fail
  <2>1. UNCHANGED <<request, locals>> /\ Outcome = "running" /\ Outcome' = "error"
    BY <1>11 DEF TestCrashes, Running, Outcome
  <2>2. nsSet # {}
    BY <1>11 DEF TestCrashes, Forked, InnerForked
  <2>3. UNCHANGED <<apis, isClusterScopeRequest, nsSet, PendingScopes, ListedScopes, FailureDropped>>
    BY <2>1, HiddenScopes DEF locals, Hidden
  <2> QED  BY <2>1, <2>2, <2>3 DEF List!Fail, List!inputs
<1>12. CASE WaitAll
  BY <1>12, EndImplements
<1> QED  BY <1>2, <1>3, <1>4, <1>5, <1>6, <1>7, <1>8, <1>9, <1>10, <1>11, <1>12, Steps DEF List!Next

(* Client.List implements AbstractList (client.go:220-322): whatever the   *)
(* interleaving, every listing appears to be made at once, and a scope     *)
(* that is neither listed, forbidden nor lost with its error makes List    *)
(* fail.                                                                   *)
THEOREM ListImplementsAbstractList == Spec => ImplementsAbstractList
<1>1. Init => List!Init
  BY InitImplements
<1>2. Inv /\ [Next]_vars => [List!Next]_(List!vars)
  BY StepImplements
<1> QED  BY <1>1, <1>2, Invariance, PTL DEF Spec, ImplementsAbstractList, List!Spec
=============================================================================
