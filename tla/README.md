# A TLA+ model of kube-lineage

kube-lineage answers two questions about a Kubernetes cluster: on which objects
does this object depend, and which objects depend on it. It lists every object of
the cluster, reads from the manifests how they refer to each other, walks the
resulting graph from the objects it was asked about, and draws what it met as a
tree. This directory holds TLA+ specifications of those steps and of the commands
that join them, the TLC configurations that check them on small instances, and
proofs for the parts where the result should hold for every cluster. Paths are
relative to `src/`.

## 1. The system

| Component | Source | State | Operations | Modelled in |
|---|---|---|---|---|
| Commands | `pkg/cmd/lineage/lineage.go`, `pkg/cmd/helm/helm.go` | flags, the objects fetched by name, the release, the namespaces to list | `Run`, `getManifestObjects`, `getStorageObject` | `Command`, `Lineage`, `Helm`, composed in `Commands` |
| Discovery, name resolution | `internal/client/client.go`, `resource.go` | none | `GetAPIResources`, `ResourcesToGroupKindSet`, the filters of `List`; of `ResolveAPIResource` that a type is known or not | `Discovery` |
| Concurrent listing | `internal/client/client.go` | the list of objects, a mutex, one shared error, two levels of error groups | `List`, `listByAPI` | `ClientList`; what it promises in `AbstractList` |
| Relationships of manifests | `internal/graph/kubernetes.go`, part of `graph.go` | none: 23 functions from a manifest to a `RelationshipMap` | `get...Relationships`, `podSecurityPolicyMatches` | `KubernetesRelationships`, `KubernetesGraph` |
| Construction of the graph | `internal/graph/graph.go:313-641` | two global maps (by UID, by key), the edges of every node in both directions, the relationship map in use | `resolveDeps`, first part | `ObjectGraph` |
| Walk of the graph | `internal/graph/graph.go:643-692` | a queue of UIDs with level marks, the set of visited UIDs, the depth of every node, the result | `resolveDeps`, second part | `Traversal`; what it promises in `Reachability` |
| Tree printer | `internal/printers/printers_humanreadable.go:501-593` | the rows, the set of expanded UIDs, the stack of calls | `nodeMapToTable`, `nodeDepsToTableRows` | `TreePrinter` |
| Ready status | `printers_humanreadable.go:121-499`, `helm.go:395-440` | none | `get...ReadyStatus`, `nodeToTableRow` | `ReadyStatus`, `TreeCells` |
| Split tables | `internal/printers/printers.go`, `client.go:146-213` | a map of maps of tables that goroutines fill | `Print`, `printTable`, `printTablesByGK`, `nodeMapToTableByGK`, `GetTable`, the functions that choose columns | `Tables` |
| Flags, client construction; completion; main, logging, version | `*/flags*.go`, `internal/completion`, `cmd`, `internal/log`, `internal/version` | declarations, or one request whose answer is printed | | not modelled: wiring and I/O |

### How they interact

A command is one thread that calls the steps in order: it fetches the objects it is
asked about, calls `List`, which returns when all its goroutines have ended, appends
those objects to the list, calls `resolveDeps`, and gives the `NodeMap` it returns to
a printer. The steps share no state but these values. There is concurrency inside two
of them, `List` and `nodeMapToTableByGK`, and around them: the cluster changes between
one request and the next. Nothing is persisted, so that there is no recovery after a
crash. All failures are answers of an API server, at any request.

### What is hard, and what makes each part correct

* **Commands.** The objects asked about are fetched before the list is read, with
  other requests, and may be listed again or be gone; types are named by either of two
  groups; scopes are forbidden and tried again elsewhere; an object of a release may
  have no namespace. Correct: the tree is what the manifests received declare, it shows
  nothing outside what was asked for, nothing visible is missing in the list, and the
  printer can follow every relationship it is given.
* **Listing.** Every resource has a goroutine; one that lists a namespaced resource
  and may not do so at the cluster scope starts one more for each namespace. They
  append to one list, and the first error cancels the others' requests. Those of
  the namespaces keep their error in a variable of `List` itself, which all of them
  share without a lock. Correct: the list is what the servers sent, every scope
  asked for was tried, missing permissions are no failure and other errors are,
  and `List` returns.
* **Graph.** Objects occur twice in the list, nodes are known by further names
  (a cluster node by its name and host name), edges are stored at both ends and
  are added in the random order of Go maps. Correct: both ends agree, every end of
  an edge is a known node, and the edges are exactly the declared ones.
* **Manifests.** A reference has a group, kind, namespace and name, which the
  functions fill in from different fields; a path from a service account to a
  policy crosses what three of them read. Correct: a path exists exactly if
  the cluster grants it, and an object's users are those that name it. The code
  falls short of both, in cases that the properties name.
* **Walk.** Graphs are cyclic; roots repeat or are unknown; one queue holds all
  levels. Correct: it returns, its result is what the roots reach, and a depth is a
  distance.
* **Tree.** The printer recurses along a cyclic graph and draws lines for rows that do
  not exist yet. Correct: it returns, prints every relation once, cuts at `--depth`
  and no earlier, and the drawing can be read as the tree it stands for. Two cells
  of a row are gathered separately from an object's status: they must not
  contradict each other, nor hide the trouble.
* **Tables.** Goroutines write one map of maps without a lock, with tables requested
  after the walk. Correct: all that was found is printed, in order, or an error is.

`PROJECT.json` lists the hazards line by line, with the properties aimed at each.

## 2. The modules

Each component is a module whose parameters are CONSTANTS with a named assumption;
an `MC...` module gives them finite instances, and `...Proofs` extends it with theorems.
`DataLemmas` holds what several of the proofs need of sequences, of induction and of
functions defined by recursion. Definitions keep the source's names
where it has one. Definitions marked "Mutant of X" are no part of a specification:
they are X with a plausible mistake, and show that a property notices it.

    Commands -- Lineage, Helm -- Command -- Discovery
                                    |------ ObjectGraph          KubernetesGraph -- ObjectGraph
                                    |------ Traversal -- Reachability    |-- KubernetesRelationships
                                    |------ AbstractList -- ClientList
    Tables     TreeCells -- TreePrinter, ReadyStatus

### Reachability and Traversal

`Reachability` is what `resolveDeps` promises: from the objects provided that are known,
follow relationships in any order until nothing is left to follow. In `Traversal`,
`adj` is `GetDeps` of every node, `queue`, `seen` and `nodeDepth` are `uidQueue`,
`uidSet` and the `Depth` fields. One action per turn of a loop: `LoadRoot` (647),
`StartWalk`, `NextLevel` when the mark is taken off, `SkipSeen` for a node met
before, `Visit` for a new one, `Stop` when one entry is left. Ranging over a map is
a choice of an order (`RangeOrders`). The refinement maps the result to `found`: loading
a root is `Begin`, a visit is `Expand`, every turn of the queue without a new node a
stutter, `Stop` is `Return`. Roots are UIDs; that a cluster node may also be given by its
name is not modelled.

### ObjectGraph

A node is its position in the list: the Go maps hold pointers, and an object that
occurs twice gives two nodes of which a map leads to the last. `Index` is one turn of
the first loop with its two stores, `IndexFails` the early return of the REST
mapper, `ResolveOwners` and `ResolveDeclared` a turn of the two loops over the
map, in any order. `rmap` is a variable because the code declares it outside the
loop. The four kinds of entries of a `RelationshipMap` (by key, UID, label
selector, selector), in both directions, are records; `Link` is the union of all
edges that one turn adds. A manifest is reduced to what its functions return.
`EdgesMutual` and `GraphIsDeclared` are about lists that identify their objects
consistently (`Consistent`): one UID, one key.

### KubernetesRelationships and KubernetesGraph

The 23 functions as operators from manifests to sets of entries; a manifest is a
record of the references in its fields, a name is a value, and a selector is the
set of labels it requires. Parsing a name is reduced to what it recognizes (`is`
and `of` of a subject). `KubernetesGraph` is the dispatch of `resolveDeps` over the
kinds, composed with `ObjectGraph` over the objects the manifests become. Its
properties are about declared relationships, not about owners (`DependsDirectly`), and
`UsersShown` leaves out Events, which concern an object without using it. Its clusters
are lists that hold every object once, of manifests that API servers let pass
(`WellFormed`): namespaced kinds have a namespace and others none, a subject of a binding
has the group its kind asks for and, in a ClusterRoleBinding only, a service account must say
its namespace (`ValidSubject`), and a field occurs only in the kinds that have it. Selectors
alone may be invalid.

Both properties are stated against what is meant, not against what the functions read,
and name what the functions miss:

* `IsSubject` is what the RBAC authorizer takes a subject for. The code overlooks three kinds of
  accounts (`OverlooksSubject`): those of a RoleBinding's subject without namespace, which means
  the binding's own (`kubernetes.go:815` asks for one); those of users and groups that say a
  namespace, which the authorizer ignores (lines 217, 235, 820, 838); and those that a group of all
  accounts has outside of a RoleBinding's namespace (822-829 narrow it).
* `SecretsNamed` and `DriversNamed` hold what a manifest names in any field: in those the
  functions read (`SecretsRead`), one by one, and in all others (`unread`). Of the volume
  sources, the functions have a case for `configMap`, `csi`, `persistentVolumeClaim`, `projected` and
  `secret` of a pod (lines 664-696) and for `csi` of a PersistentVolume (526-550) or inline in
  a VolumeAttachment. The secrets of `azureFile`, `cephfs`, `cinder`, `flexVolume`, `iscsi`,
  `rbd`, `scaleIO` and `storageOS` are unread, and so are ephemeral containers, the
  parameters of a StorageClass, the resource names of roles, the templates in
  workloads (whose pods are listed themselves), and custom resources. Names that occur in
  unread fields only are missed (`SecretsOverlooked`). Annotations are not fields.

### AbstractList and ClientList

A goroutine is a pair of a resource and a namespace, or of a resource and the empty
string. `pc` says where it is; a listing reads pages, ends, or fails at any page;
`Lock` and `AppendItems` are the two halves of `items = append(items, ...)` under
`mu`. `Decide`, `Fallback` and `WaitInner` are the goroutine of a resource, `StoreAnswer`,
`Test`, `ClearForbidden` and `ReturnInner` that of a namespace. The shared `err` is an interface
value, which Go stores in two words: a store is two steps, in either order, and a
torn value that `IsForbidden` follows ends the program or passes for another error.

`AbstractList` is what remains of this to a caller: one listing after the other, each at once
(`ListScope`), a forbidden one passed over or tried in the namespaces (`SkipForbidden`), one
in a namespace whose failure is lost (`LoseFailure`, which finding 2 allows), and an end
that is a success only if no listing is left (`Succeed`). Pages, the mutex, the error
groups and the shared error are gone. `ClientList` implements it
(`ImplementsAbstractList`): a listing at the cluster scope that failed stays to be made, so
that `List` cannot succeed any more, the append is the step of a listing that is
answered, `Decide` that of one forbidden at the cluster scope, and everything the
goroutines of namespaces do with their error is a stutter. That the program ends counts as
a failure.

### Discovery, Command, Lineage, Helm, Commands

`Discovery` is pure: which resources are offered, which of them List asks for, and that
a core Event and an Event of `events.k8s.io` are one object in two classes, as are
the two kinds of Ingress. `Command` is what both commands do: the flags are an input
that never changes, `cluster` is the cluster, which `ClusterChanges`, a step of the
environment, may replace at any time, once. Its graph and its walk are the actions of
`ObjectGraph` and `Traversal`, instantiated on variables of `Command` (`GraphStep`,
`WalkStep`), with `Leads`, the edges of the graph built, as the input of the walk. `List` takes
the steps of `AbstractList`, with the answers of the cluster as it then is; any request may
also fail (`RequestFails`). `Lineage` and `Helm` are the
steps of one command each, before and after; `Helm` puts a node for the release on top of
the walk's result, with the empty UID, and makes every other depth one larger. The
assumptions about inputs are what API servers keep to: finitely many objects,
namespaces exactly where the type is namespaced (`ClusterAssumption`), and no UID that
is also the name of a cluster node (`UidsAssumption`).

### TreePrinter, ReadyStatus, TreeCells

The recursion is a stack of frames with the sorted relations still to print; rows
are their UID, the parent they were printed for, and a prefix, one Boolean per
level, true where the branch ends. `SortDeps` chooses any order that agrees with
the sort key, so that equal keys may come in either order. `ReadyStatus` holds the functions
that make the READY and STATUS cells out of an object's status, for pods, workloads, events,
API services, disruption budgets, volume attachments and Helm releases; a cell is the sequence
of its parts. `TreeCells` puts them into the rows; its `WellFormed` says what a kubelet or
a controller writes: containers reported once at most, conditions kept by type, a
reason where one is not true, a time for every error. The pods of the run have
phases, reasons of their own and deletion times, too.

### Tables

A goroutine is named by the group and kind and the namespace it fetches. `tables` leads
from a group and kind to the goroutine that made its inner map, `inner` holds what was
stored in each, so that an inner map that is replaced keeps what it has, unseen.
Go's maps are modelled by what the language says of them: a write takes time
(`StartCreate`, `Create`; `StartInsert`, `Insert`); another access of the same map meanwhile
may be noticed, which ends the program (`Crash`), or not, and then one of two
overlapping writes may be lost. Nothing else is assumed: a corrupt map, which the language does
not exclude, is not modelled. Groups, kinds, namespaces and names are numbers in
the order of the strings.

## 3. What the runs show

Deadlock is not an error in any of them: the program returns.

| Run | Instance | Shows |
|---|---|---|
| `traversal` | all graphs of 3 objects with up to 2 roots, repeated or unknown; all of 4 objects with at most 2 successors each | the result is what the roots reach (`ExactlyReachable`), depths are distances (`DepthsAreDistances`), levels never outnumber visited nodes (`DepthBounded`), the walk ends and implements `Reachability`, its fairness included; and the inductive invariant of the proofs |
| `traversal_empty_uid` | an object without UID | **violated**: `depth` grows for ever |
| `object_graph` | lists of 3 or 4 objects in every order, all pairs of entries, a copied root, an object replaced under its name, one with two keys, an unknown kind | the maps agree, edges lead to known nodes, directions are mutual, and the edges are the declared ones |
| `kubernetes_graph` | 1118 clusters of 3 to 6 objects: accounts, bindings, roles and policies in two namespaces, with every kind of subject that is overlooked; everything that can name a secret or a driver, in fields that are read, in others, and in both; the other kinds | a path from an account to a policy exists exactly if a subject that is not overlooked lets it use the policy (`PolicyReachIsAuthorised`); the users shown of secrets and drivers are those that name them, except in unread fields (`UsersShown`) |
| `kubernetes_claim` | a volume, its claim and another of that name | **violated**: the claim is not related to the volume |
| `client_list` | a namespaced and a cluster-scoped resource, or one in up to 3 namespaces, 2 pages each, every failure at every point | `ListIsWhole`, `EveryScopeTried`, `CauseReported`, `List` returns, and it implements `AbstractList` |
| `client_list_race` | the same | **violated**: the race on `err` makes `List` succeed although a listing failed, or fail where nothing but a permission is missing |
| `commands` | both commands, with every root, filter, scope and permission of a cluster of up to 4 objects; groups that fail; a deleted, recreated or updated object; releases of 3 objects and 5 kinds of storage | the tree is the closure of the declared relationships (`ResultIsLineage`), the list is what the user may see (`ListedIsVisible`), filters and namespaces are kept (`OnlyRequestedShown`), the printer finds every node (`TreeIsPrintable`), depths are distances below the release node, too, and the command ends |
| `tree_printer` | all graphs of 3 nodes with distinct and equal sort keys, all of 4 with at most 2 relations each, several depths; 752 pods with up to 3 containers and 30 other objects | every relation is printed once, `--depth` is kept, the drawing is a tree, calls in progress are for different nodes, the printer returns; the cells agree (`ReadyAgreesWithStatus`) and show the trouble (`TroubleShown`) |
| `tree_printer_depth` | 5 nodes, one reached over a long path first | **violated**: a node nearer than the depth has no row |
| `tables` | every pair of 12 objects with and without a release, and 4 goroutines at once; with requests that fail and objects that are gone | `TablesInOrder`, a class of one namespace is whole (`LoneClassWhole`), two rows that are shown can be told apart (`RowsTellApart`), `Print` returns or the program ends |
| `tables_lost` | every pair | **violated**: the table of a namespace that was received is not printed |

**Bounds.** Three objects give every shape of cycle, shared node and repeated root;
four give a node reached over paths of three lengths, which is what the depth of
a node could get wrong. In the printer a node must be shared by branches of
different length, which takes four nodes, and five to be cut off by `--depth`.
The race of `ClientList` takes two goroutines in namespaces, three when a value
is torn while another is tested; two pages make a listing fail half-way; one of two
resources is listed at the cluster scope. In the graph an edge joins two objects and
a third is what they may be confused with. In the commands one change of the
cluster, at any time, is enough for the root to differ from its copy in the list, for a
copy to be missing and for a name to lead to another object. A table is lost by two
goroutines of one class; a third and fourth write maps that they overlap with.

**Fairness.** The walk, the construction, the printer and the commands are loops of one
thread that runs until it returns: `WF_vars(Next)`, in `Commands`
`WF_vars(CommandStep)`, nothing being assumed of the cluster. In `ClientList` every goroutine
is run when it can run and every request gets an answer or is cancelled: weak fairness
for each goroutine and for the one that waits. Strong fairness is not needed:
a goroutine takes the mutex once, so none can be overtaken for ever. In `Tables` each
goroutine has a few steps and none waits for another: weak fairness of "some goroutine
goes on" and of the one that waits.

### Findings

1. `graph.go:659` (`traversal_empty_uid`): an object with an empty UID as a root makes
   the walk endless; the empty UID is also the mark that ends a level.
2. `client.go:287` (`client_list_race`): `err` of `List` is shared by the goroutines of
   all namespaces. `List` can succeed although a listing failed, or fail because of
   a permission that the comment says is suppressed.
3. `printers.go:179` (`tables_lost`): two goroutines of one group and kind both find its
   inner map missing; the second to make one drops the table stored in the first.
4. `printers_humanreadable.go:557` (`tree_printer_depth`): with `--depth 3` a node at
   distance 3 may have no row, because nodes are expanded where they are met
   first, not where they are nearest.
5. `kubernetes.go:520` (`kubernetes_claim`): the claim a volume names is looked up in the
   namespace of the volume, which has none.

Two more are not runs of their own, for the properties of `kubernetes_graph` say exactly what is
missed. `kubernetes.go:815` and 822-829: accounts that a RoleBinding grants a role are not
shown as its subjects if the binding leaves out their namespace, or names them by a group of
all accounts and they are in another namespace (`OverlooksSubject`). `kubernetes.go:526` and 664:
secrets of most volume sources are not shown (`SecretsOverlooked`).

Noticed while reading, without a property: `printers.go:71` overrides `--show-namespace` in the
tree output, which its text (`flags_humanreadable.go:134`) does not say;
`flags_humanreadable.go:97` tests `ShowLabels` where `ShowNamespace` is meant;
`GetTable` (`client.go:146`) is given a context it does not use; `kubernetes.go:306` reads
the involved object of a core Event from `involvedobject`, a field events do not
have.

## 4. What is proved

Checked by TLAPS for every value of the constants, with no assumption but the named
ones of the modules (`InputsAssumption` and its likes), each of which TLC evaluates for the
instances of section 3. Every invariant of the passing runs is a theorem.

**`TraversalProofs`** (any finite graph, any list of roots). `TypeCorrect`, then
`WalkInvariant`: `QueueAccountsForAll` is inductive together with the types. It is
needed because the properties speak of the end of the walk, and what makes them
true there is how the queue relates to the visited nodes all along: with the one
mark at position p, every entry before p may be met at the present level, every one
behind it at the next one, and each successor of a visited node is visited, before
the mark, or behind it, at a level not too deep. One lemma per action re-establishes
it. `ResolvesExactlyReachable`, `DepthIsDistance` and `LevelsAreBounded` follow when the queue
holds nothing but the mark. `WalkImplementsReachability` is the refinement without its
fairness: every step of the walk is one of `Reachability` or changes nothing there.
All but `TypeCorrect` assume that the mark, the empty UID, is no object's UID
(`Delimiter \notin Uid`); finding 1 is what happens without it.

**`ObjectGraphProofs`** (any list of objects). `TypeCorrect`; `NodesAreShared`: the two maps lead
to the same nodes. `MapsAgree` is inductive with the types because it also says
under which UID and key a node may be found, which is what a store that replaces an
entry has to respect, and that there are no edges while nodes can still be replaced.
From it follow `EdgesHaveNodes` and `DirectionsAgree`: `Link` adds both ends of every
edge, between nodes that the map by UID leads to. `GraphAsDeclared` needs to know what each
loop has done so far: `Indexed` (an object that was indexed is found, or a later one
under its UID or key is) and `Traced` (the edges of every node are those of the
objects resolved so far, `Resolved`, in both directions). When the loops have ended, the
maps of a consistent list lead from its UIDs to the last of their copies, and
what has been resolved is what was declared.

**`KubernetesGraphProofs`** (any list of well-formed manifests). A step of the cluster is a step of
`ObjectGraph` (`ClusterIsMirrored`), so that its theorems hold; with `GraphAsDeclared` an edge is
an entry that one of two manifests declares of the other (`EdgesOfManifests`). What each
of the functions declares of a secret, a driver, an account, a binding, a role or a
policy is a lemma of its own (`...Entries`), in both directions. From them:
`PolicyReach`, where the functions of bindings and of roles and the rules
must fit together, and `UsersRelated`, where no function may look for a secret in
another namespace, find something the manifest does not name, or use a field it reads for
less than what it names. Both are exact, and so prove two things: what is shown is
right in every cluster, and what is missed is only what `OverlooksSubject` and
`SecretsOverlooked` say. They do not say that the latter is as it should be.

**`ClientListProofs`** (any number of resources, namespaces and pages). The properties
speak of the moment `List` returns; what they need is where each goroutine is before. Its
invariant has a part for each reason: `Exclusive` (who holds the mutex is the one that
appends, and what it has read is still the list), `Gathered` (the list has the pages of
those that are past their append: `append` in two halves is one step), `Forked`
(the goroutines of namespaces are idle until theirs waits, and done when it is),
`Accounted` (what became of each answer at the cluster scope) and `Caused` (without
namespaces only a failure gets into the error group). `ListReturnedIsWhole`,
`EveryScopeIsTried`, `ClusterFailuresAreReported` and `CauseIsReported` follow at the end.
`ListImplementsAbstractList` is the refinement, one lemma per action that is more than a stutter
(`...Implements`); `Forked` is what makes the listings that `Fallback` starts the ones `Decide`
left to be made. All of them hold in spite of the race of finding 2, which is part of the model: they
state what it leaves intact.

**`TreePrinterProofs`** (any node map, order of the sort and depth). `TreeIsDrawn` speaks of rows,
which outlive the calls that made them. The invariant ties the two together: every
call in progress has a row under which it prints, below which all rows are
deeper (`Anchored`); a call that has drawn a last branch has nothing left to print
(`Closed`); a row drawn as a middle branch has a later sibling or hangs on a row whose
call still has something to print (`Drawn`). A new row can only change what is said of its
own parent, and at the end no call is in progress. `RecursionIsBounded` follows from
the guard against cycles, `DepthLimits` from the depth being the position in the stack
(`Nested`). `RelationsPrintedOnce` and `DepthIsHonoured` need, besides (`PrintedInv`), that no relation
is printed twice (`Once`, with `Remaining` for those still to come) nor forgotten (`Accounted`),
that whatever the depth does not cut is expanded (`Entered`), that the first row is
the root's (`Rooted`), and that a row is no nearer than its distance (`Near`). The rows but the
first are then in bijection with the relations of what the root reaches, which gives
their number. `CellsAgree` and `TroubleIsShown` are about one row at a time: `LoopedFacts` is an
induction over the containers, from the last to the first as the loop runs, of what
has been counted and what is shown.

**`CommandsProofs`** (any cluster, change of it and request). `ObjectGraph` and `Traversal` are instances
in `Command`, and so are their proofs here (`GP`, `WP`): what has to be shown is that the commands
call them with inputs their theorems allow, which `GraphAssumption` and its like do from
`ClusterAssumption`. The invariant of the whole, `CommandInv`, says what has been
fetched and will be listed (`RequestInv`), that a part has not been touched before it is
called and keeps its own invariant from then on (`PartsInv`), what has been
listed or is still to be (`ListInv`), and how the printed tree follows from the walk (`PrintInv`).
The theorems combine these with those of the parts: `ListsTheVisible`, `ShowsOnlyRequested`,
`TreesArePrintable` from the edges leading to known nodes, `DepthIsDistance` from the walk's, with
the release node at distance 0, and `ShowsTheLineage` from `GraphAsDeclared` and
`ResolvesExactlyReachable`.

**`TablesProofs`** (any node map). `TablesInv`: who made and who filled an inner map is of its class
(`Aligned`), what a goroutine holds is what the server found (`Answered`), no write of the only
goroutine of a class is lost whatever the others do (`LoneStored`), the columns are
those of the nodes (`ColumnsChosen`), and what is printed are the stored tables, after the
last goroutine has ended (`OutputOfTables`). `RowsAreDistinct`, `RowsInOrder` and `LoneClassShown` follow. As with
`List`, they state what the race leaves intact.

`DataLemmas` replaces the induction theorems of the library, which take an operator, by ones
about sets and functions: a set of naturals that holds 0 and every successor is all of
them (`SetInduction`), and steps that keep within a set define a function on an
interval (`RecursiveFunction`). They carry the distances of the
printer, `FlattenSeq` in the tables, and the loop over containers.

**Only model-checked**: everything under fairness (`Terminates`, `ListReturns`,
`CommandReturns`, `PrintReturns` and the fairness of
`Reachability`), since the prover has no support for ENABLED; `DepthBounded` and `RecursionBounded`, the
safety halves of two terminations, are proved. `OutcomeMatchesAnswers` and the other properties of
runs that expect a violation are false.

## 5. What is left out

* `Complete` and `Validate` of both commands, flags, construction of the client, shell
  completion, main program, logging: they declare, convert, or print the answer of
  one request.
* Versions of APIs and short names of types, which are no part of a key.
* Ages in rows (a clock), the wording of messages and the widths of columns.
* Retries inside `client-go`, and how a release is decoded.
* Roots of a walk given by the name of a cluster node (see `Traversal`).
* An object that is created again between the walk and the request for its table.

## 6. Plan

What is left, most useful first.

1. The rows of the tree that `Commands` hands over, printed: `TreePrinter` instantiated on its
   `tree`, whose assumptions `TreesArePrintable` proves.
2. Properties about the names of relationships, and about the hazards that have none yet.
