---------------------------- MODULE ClientList ----------------------------
(***************************************************************************)
(* Client.List (internal/client/client.go): list the objects of every API  *)
(* resource, one goroutine per resource, and where the cluster scope is    *)
(* not requested or is forbidden, one goroutine per resource and namespace *)
(* inside it.  listByAPI reads page by page.                               *)
(*                                                                         *)
(* All goroutines append to one list under a mutex.  Those that list a     *)
(* namespace also keep their error in one variable: "err" there is List's  *)
(* own, not the one of the enclosing goroutine.  It is an interface value, *)
(* two words that a store writes one after the other and no lock protects, *)
(* so another goroutine may replace the error between its store, its test  *)
(* and its return, and may read a value of which half is written.          *)
(***************************************************************************)
EXTENDS Naturals, FiniteSets

CONSTANTS
    Api,          \* the API resources the servers offer
    Namespaced,   \* those whose objects live in a namespace
    Namespace,    \* the named namespaces
    AllNamespaces,\* the empty string, that asks for the cluster scope
    Requests,     \* what List may be asked for
    MaxPages      \* bound: the pages a listing may have

ASSUME ConstantsAssumption ==
    /\ Namespaced \subseteq Api
    /\ AllNamespaces \notin Namespace
    /\ Requests \subseteq [apis : SUBSET Api,
                           namespaces : SUBSET (Namespace \union {AllNamespaces})]
    /\ MaxPages \in Nat \ {0}

(* A goroutine is named by what it lists: <<a, AllNamespaces>> is the one  *)
(* eg.Go starts for the resource a, the others those of egInner.Go.        *)
Outer(a) == <<a, AllNamespaces>>
Inner(a) == {a} \X Namespace
Goroutine == Api \X (Namespace \union {AllNamespaces})

(* Errors: the forbidden answer is a *StatusError, any other answer and    *)
(* the cancellation of a request are wrapped by listByAPI.                 *)
Error == {"nil", "forbidden", "failed", "cancelled"}
TypeOf(e) == CASE e = "nil" -> "nil" [] e = "forbidden" -> "status" [] OTHER -> "wrapped"

(* An interface value: its type word and its data word.                    *)
Value(e) == [type |-> TypeOf(e), data |-> e]
Words == {"type", "data"}
IsNil(v) == v.type = "nil"
WellFormed(v) == IsNil(v) \/ v = Value(v.data)

VARIABLES
    request,     \* input: the resources left after filtering, and the namespaces
    pc,          \* where each goroutine is
    answer,      \* what its listByAPI returned
    pages,       \* the pages its listByAPI has read
    snapshot,    \* the items its append reads
    unwritten,   \* the words that its store of err has still to write
    mutex,       \* the goroutines that hold mu
    items,       \* the pages in the list: of which goroutine, which page
    err,         \* the variable the goroutines of all namespaces share
    groupErr,    \* the first error of egInner of each resource
    listErr,     \* the first error of eg
    result       \* "running", "ok", "error", or "crashed"

locals == <<pc, answer, pages, snapshot, unwritten>>
vars == <<request, locals, mutex, items, err, groupErr, listErr, result>>

apis == request.apis
isClusterScopeRequest == request.namespaces = {} \/ AllNamespaces \in request.namespaces
nsSet == request.namespaces \ {AllNamespaces}

Init ==
    /\ request \in Requests
    /\ pc = [g \in Goroutine |->
               IF g[1] \notin apis \/ g[2] # AllNamespaces THEN "idle"
               ELSE IF isClusterScopeRequest THEN "list" ELSE "fallback"]
    /\ answer = [g \in Goroutine |-> "nil"]
    /\ pages = [g \in Goroutine |-> 0]
    /\ snapshot = [g \in Goroutine |-> {}]
    /\ unwritten = [g \in Goroutine |-> Words]
    /\ mutex = {}
    /\ items = {}
    /\ err = Value("nil")
    /\ groupErr = [a \in Api |-> Value("nil")]
    /\ listErr = Value("nil")
    /\ result = "running"

Goto(g, label) == pc' = [pc EXCEPT ![g] = label]

-----------------------------------------------------------------------------
(* listByAPI and createListFn, the same for all goroutines.                *)

(* The first error of an errgroup cancels the context of its goroutines.   *)
ContextCancelled(g) ==
    ~IsNil(listErr) \/ (g \notin {Outer(a) : a \in Api} /\ ~IsNil(groupErr[g[1]]))

Running == result = "running"

(* Where a goroutine goes with the error its listing returned.             *)
AfterListing(g) == IF g[2] = AllNamespaces THEN "decide" ELSE "store"

(* A page arrives, with or without a token for the next one.               *)
ReadPage(g) ==
    /\ Running /\ pc[g] = "list"
    /\ pages' = [pages EXCEPT ![g] = @ + 1]
    /\ Goto(g, "lock") \/ (pages'[g] < MaxPages /\ Goto(g, "list"))
    /\ UNCHANGED <<request, answer, snapshot, unwritten, mutex, items, err, groupErr, listErr, result>>

(* The resource is gone: what was read before is all there is.             *)
NotFound(g) ==
    /\ Running /\ pc[g] = "list"
    /\ Goto(g, "lock")
    /\ UNCHANGED <<request, answer, pages, snapshot, unwritten, mutex, items, err, groupErr, listErr, result>>

(* Any other error discards the pages read before.                         *)
ListingFails(g) ==
    /\ Running /\ pc[g] = "list"
    /\ \E e \in {"forbidden", "failed", "cancelled"} :
          /\ e = "cancelled" => ContextCancelled(g)
          /\ answer' = [answer EXCEPT ![g] = e]
    /\ pages' = [pages EXCEPT ![g] = 0]
    /\ Goto(g, AfterListing(g))
    /\ UNCHANGED <<request, snapshot, unwritten, mutex, items, err, groupErr, listErr, result>>

(* Mutant of Lock: mu is not taken.                                        *)
LockNothing(g) ==
    /\ Running /\ pc[g] = "lock"
    /\ mutex' = mutex \union {g}
    /\ snapshot' = [snapshot EXCEPT ![g] = items]
    /\ Goto(g, "append")
    /\ UNCHANGED <<request, answer, pages, unwritten, items, err, groupErr, listErr, result>>

(* items = append(items, objs.Items...), under mu.                         *)
Lock(g) ==
    /\ Running /\ pc[g] = "lock"
    /\ mutex = {}
    /\ mutex' = {g}
    /\ snapshot' = [snapshot EXCEPT ![g] = items]
    /\ Goto(g, "append")
    /\ UNCHANGED <<request, answer, pages, unwritten, items, err, groupErr, listErr, result>>

(* Mutant of AppendItems: mu is not released.                              *)
AppendItemsLocked(g) ==
    /\ Running /\ pc[g] = "append"
    /\ items' = snapshot[g] \union ({g} \X (1 .. pages[g]))
    /\ snapshot' = [snapshot EXCEPT ![g] = {}]
    /\ Goto(g, AfterListing(g))
    /\ UNCHANGED <<request, answer, pages, unwritten, mutex, err, groupErr, listErr, result>>

AppendItems(g) ==
    /\ Running /\ pc[g] = "append"
    /\ items' = snapshot[g] \union ({g} \X (1 .. pages[g]))
    /\ snapshot' = [snapshot EXCEPT ![g] = {}]
    /\ mutex' = mutex \ {g}
    /\ Goto(g, AfterListing(g))
    /\ UNCHANGED <<request, answer, pages, unwritten, err, groupErr, listErr, result>>

-----------------------------------------------------------------------------
(* The goroutine of a resource.                                            *)

(* Mutant of Return: the last error is kept.                               *)
ReturnLast(a, v) == listErr' = v /\ Goto(Outer(a), "done")

(* It ends with the error v; the first error of eg is kept.                *)
Return(a, v) ==
    /\ listErr' = IF IsNil(listErr) THEN v ELSE listErr
    /\ Goto(Outer(a), "done")

(* Mutant of Suppress: it takes the resources of the other scope.          *)
SuppressNamespaced(a, e) == IF a \in Namespaced /\ e = "forbidden" THEN "nil" ELSE e

(* No permission is no error for a cluster-scoped resource.                *)
Suppress(a, e) == IF a \notin Namespaced /\ e = "forbidden" THEN "nil" ELSE e

(* After a listing at the cluster scope: return, but for a namespaced      *)
(* resource no permission is a reason to try the namespaces.               *)
Decide(a) ==
    LET e == Suppress(a, answer[Outer(a)]) IN
    /\ Running /\ pc[Outer(a)] = "decide"
    /\ IF a \in Namespaced /\ e = "forbidden"
       THEN Goto(Outer(a), "fallback") /\ UNCHANGED listErr
       ELSE Return(a, Value(e))
    /\ UNCHANGED <<request, answer, pages, snapshot, unwritten, mutex, items, err, groupErr, result>>

(* namespaceScopeListFn starts a goroutine for every namespace.            *)
Fallback(a) ==
    /\ Running /\ pc[Outer(a)] = "fallback"
    /\ pc' = [g \in Goroutine |-> IF g \in {a} \X nsSet THEN "list"
                                  ELSE IF g = Outer(a) THEN "wait" ELSE pc[g]]
    /\ UNCHANGED <<request, answer, pages, snapshot, unwritten, mutex, items, err, groupErr, listErr, result>>

(* egInner.Wait.                                                           *)
WaitInner(a) ==
    /\ Running /\ pc[Outer(a)] = "wait"
    /\ \A g \in Inner(a) : pc[g] \in {"idle", "done"}
    /\ Return(a, groupErr[a])
    /\ UNCHANGED <<request, answer, pages, snapshot, unwritten, mutex, items, err, groupErr, result>>

-----------------------------------------------------------------------------
(* The goroutine of a resource and a namespace: err = listFn(), the test   *)
(* for a forbidden answer, err = nil, and return err.                      *)

(* A goroutine stores the value v one word after the other, in either      *)
(* order, and goes on at "next".                                           *)
Store(g, v, next) ==
    /\ Running
    /\ \E word \in unwritten[g] :
          /\ err' = [err EXCEPT ![word] = v[word]]
          /\ IF unwritten[g] = {word}
             THEN /\ unwritten' = [unwritten EXCEPT ![g] = Words]
                  /\ Goto(g, next)
             ELSE /\ unwritten' = [unwritten EXCEPT ![g] = @ \ {word}]
                  /\ UNCHANGED pc
    /\ UNCHANGED <<request, answer, pages, snapshot, mutex, items, groupErr, listErr, result>>

StoreAnswer(g) == pc[g] = "store" /\ Store(g, Value(answer[g]), "test")

(* apierrors.IsForbidden(err) follows the data word as the type word says. *)
(* If the words do not match it ends the program, unless the memory it     *)
(* reads happens to pass for an error that is not "forbidden".             *)
Test(g) ==
    /\ Running /\ pc[g] = "test"
    /\ err.data = "nil" => IsNil(err)
    /\ Goto(g, IF err = Value("forbidden") THEN "clear" ELSE "return")
    /\ UNCHANGED <<request, answer, pages, snapshot, unwritten, mutex, items, err, groupErr, listErr, result>>

TestCrashes(g) ==
    /\ Running /\ pc[g] = "test"
    /\ ~WellFormed(err)
    /\ result' = "crashed"
    /\ UNCHANGED <<request, locals, mutex, items, err, groupErr, listErr>>

ClearForbidden(g) == pc[g] = "clear" /\ Store(g, Value("nil"), "return")

(* return err: the first error of egInner is kept.                         *)
ReturnInner(g) ==
    /\ Running /\ pc[g] = "return"
    /\ groupErr' = [groupErr EXCEPT ![g[1]] = IF IsNil(@) THEN err ELSE @]
    /\ Goto(g, "done")
    /\ UNCHANGED <<request, answer, pages, snapshot, unwritten, mutex, items, err, listErr, result>>

-----------------------------------------------------------------------------
(* eg.Wait and the end of List.                                            *)
WaitAll ==
    /\ Running
    /\ \A a \in apis : pc[Outer(a)] = "done"
    /\ result' = IF IsNil(listErr) THEN "ok" ELSE "error"
    /\ UNCHANGED <<request, locals, mutex, items, err, groupErr, listErr>>

Listing(g) ==
    ReadPage(g) \/ NotFound(g) \/ ListingFails(g) \/ Lock(g) \/ AppendItems(g)

OuterStep(a) == Listing(Outer(a)) \/ Decide(a) \/ Fallback(a) \/ WaitInner(a)

InnerStep(g) ==
    \/ Listing(g)
    \/ StoreAnswer(g) \/ Test(g) \/ TestCrashes(g) \/ ClearForbidden(g) \/ ReturnInner(g)

Next ==
    \/ \E a \in Api : OuterStep(a)
    \/ \E g \in Api \X Namespace : InnerStep(g)
    \/ WaitAll

Spec == Init /\ [][Next]_vars

(* Go runs every goroutine that can run, and the server answers every      *)
(* request.  mu needs no more: every goroutine takes it at most once.      *)
FairSpec ==
    /\ Spec
    /\ \A a \in Api : WF_vars(OuterStep(a))
    /\ \A g \in Api \X Namespace : WF_vars(InnerStep(g))
    /\ WF_vars(WaitAll)

-----------------------------------------------------------------------------
Interface == [type : {TypeOf(e) : e \in Error}, data : Error]

TypeOK ==
    /\ request \in Requests
    /\ pc \in [Goroutine -> {"idle", "list", "lock", "append", "decide", "fallback",
                             "wait", "store", "test", "clear", "return", "done"}]
    /\ answer \in [Goroutine -> Error]
    /\ pages \in [Goroutine -> 0 .. MaxPages]
    /\ snapshot \in [Goroutine -> SUBSET (Goroutine \X (1 .. MaxPages))]
    /\ unwritten \in [Goroutine -> (SUBSET Words) \ {{}}]
    /\ mutex \subseteq Goroutine /\ Cardinality(mutex) <= 1
    /\ items \subseteq Goroutine \X (1 .. MaxPages)
    /\ err \in Interface
    /\ groupErr \in [Api -> Interface]
    /\ listErr \in Interface
    /\ result \in {"running", "ok", "error", "crashed"}

Returned == result \in {"ok", "error"}

(* The list that is returned is what the servers sent: no append was lost  *)
(* to another goroutine's, none comes from a listing that failed half-way, *)
(* and none can still come, for no goroutine is left running.              *)
ListIsWhole ==
    Returned =>
        /\ \A g \in Goroutine : pc[g] \in {"idle", "done"}
        /\ items = UNION {{g} \X (1 .. pages[g]) : g \in Goroutine}

(* List succeeds only if every resource was listed in every scope asked    *)
(* for: at the cluster scope, or, where that was not asked for or was      *)
(* forbidden for a namespaced resource, in each of the namespaces.         *)
EveryScopeTried ==
    result = "ok" =>
        \A a \in apis :
            \/ isClusterScopeRequest /\ answer[Outer(a)] = "nil"
            \/ isClusterScopeRequest /\ a \notin Namespaced
            \/ \A ns \in nsSet : pc[<<a, ns>>] = "done"

(* A failure at the cluster scope is never dropped.                        *)
ClusterFailuresReported ==
    result = "ok" => \A a \in Api : answer[Outer(a)] \in {"nil", "forbidden"}

(* If no namespace is named, the error is the failure that came first, not *)
(* one of the cancellations it caused, and never a missing permission.     *)
CauseReported ==
    nsSet = {} /\ result = "error" => listErr = Value("failed")

(* List returns, or the program ends: no goroutine waits for mu, for       *)
(* another goroutine or for a cancelled request for ever.                  *)
ListReturns == <>(result # "running")

-----------------------------------------------------------------------------
(* What a goroutine that has not appended yet is doing.                    *)
Reading == {"list", "lock", "append"}

(* The listings to make of AbstractList.  One at the cluster scope stays   *)
(* to be made when it fails, so that List cannot succeed; that of a        *)
(* namespace does not, as its failure may be lost.                         *)
IsPending(g) ==
    \/ pc[g] \in Reading
    \/ g[2] = AllNamespaces /\ answer[g] \in {"failed", "cancelled"}
    \/ pc[g] = "decide" /\ answer[g] = "forbidden"
    \/ g[2] \in nsSet /\ pc[Outer(g[1])] = "fallback"

(* The listings that were answered and appended.                           *)
IsListed(g) ==
    /\ pc[g] \notin Reading \union {"idle"} /\ answer[g] = "nil"
    /\ g[2] = AllNamespaces => isClusterScopeRequest

PendingScopes == {g \in Goroutine : IsPending(g)}

ListedScopes == {g \in Goroutine : IsListed(g)}

FailureDropped == \E g \in Api \X Namespace : answer[g] \in {"failed", "cancelled"}

(* That the program ends is a failure, too.                                *)
Outcome == IF result = "crashed" THEN "error" ELSE result

List == INSTANCE AbstractList WITH
            pending <- PendingScopes, listed <- ListedScopes, dropped <- FailureDropped,
            result <- Outcome

(* In every interleaving List does what AbstractList says: with its pages, *)
(* its mutex, two levels of error groups and the shared error, every       *)
(* listing appears to be made at once, those that are forbidden lead to    *)
(* the namespaces, and List succeeds only when none is left.               *)
ImplementsAbstractList == List!Spec

(* "If no permissions to list the resource at the namespace scope,         *)
(* suppress the error to allow other goroutines to continue listing", and  *)
(* only that one: List fails if a listing failed for another reason, and   *)
(* only then.                                                              *)
OutcomeMatchesAnswers ==
    Returned => (result = "error" <=> \E g \in Goroutine : answer[g] = "failed")
=============================================================================
