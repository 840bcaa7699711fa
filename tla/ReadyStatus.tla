---------------------------- MODULE ReadyStatus ----------------------------
(***************************************************************************)
(* The READY and STATUS cells of a row                                     *)
(* (internal/printers/printers_humanreadable.go, and for a Helm release    *)
(* pkg/cmd/helm/helm.go): how they follow from an object's status.         *)
(*                                                                         *)
(* A cell is the sequence of its parts: <<2, 3>> is "2/3", <<"Init",       *)
(* "Error">> is "Init:Error", and <<>> is empty.                           *)
(***************************************************************************)
EXTENDS Naturals, Sequences, SequencesExt

(* An object has a class, as its group and kind tell, and what the cells   *)
(* of that class are made of.                                              *)
Replicated == {"ReplicationController", "DaemonSet", "Deployment", "ReplicaSet", "StatefulSet"}

Text(s) == IF s = "" THEN <<>> ELSE <<s>>

-----------------------------------------------------------------------------
(* Pods.  A container is waiting, running or terminated.                   *)
Succeeded(c) == c.state = "terminated" /\ c.code = 0

Terminated(c) ==
    IF c.reason # "" THEN <<c.reason>>
    ELSE IF c.signal # 0 THEN <<"Signal", c.signal>>
    ELSE <<"ExitCode", c.code>>

(* The first init container that has not succeeded, 0 if there is none.    *)
FirstInit(p) == SelectInSeq(p.inits, LAMBDA c : ~Succeeded(c))

InitReason(p) ==
    LET i == FirstInit(p)
        init == p.inits[i]
    IN  <<"Init">> \o
            (CASE init.state = "terminated" -> Terminated(init)
               [] init.state = "waiting" /\ init.reason \notin {"", "PodInitializing"} -> <<init.reason>>
               [] OTHER -> <<i - 1, p.initContainers>>)

(* One turn of the loop over the containers.                               *)
Worse(c, acc) ==
    CASE c.state = "terminated" -> [acc EXCEPT !.reason = Terminated(c)]
      [] c.state = "waiting" /\ c.reason # "" -> [acc EXCEPT !.reason = <<c.reason>>]
      [] c.state = "running" /\ c.ready -> [acc EXCEPT !.ready = @ + 1]
      [] OTHER -> acc

(* Mutant of Looped: forwards, as the loop over the init containers.       *)
LoopedForward(p, reason) == FoldLeft(LAMBDA acc, c : Worse(c, acc), [reason |-> reason, ready |-> 0], p.statuses)

(* The loop runs backwards: what the first container says is what remains. *)
Looped(p, reason) ==
    LET n == Len(p.statuses)
        after[k \in 0 .. n] ==
            IF k = 0 THEN [reason |-> reason, ready |-> 0] ELSE Worse(p.statuses[n + 1 - k], after[k - 1])
    IN  after[n]

(* Mutant of NotCompleted: a pod is completed when a container is.         *)
CompletedInPart(p, acc) == acc.reason

(* A pod that still runs is not completed.                                 *)
NotCompleted(p, acc) ==
    IF acc.reason = <<"Completed">> /\ acc.ready > 0
    THEN IF p.conditionReady THEN <<"Running">> ELSE <<"NotReady">>
    ELSE acc.reason

(* What is shown of a pod none of whose containers has anything to say.    *)
PhaseOf(p) == IF p.reason # "" THEN <<p.reason>> ELSE <<p.phase>>

(* getPodReadyStatus.                                                      *)
PodCells(p) ==
    LET acc == Looped(p, PhaseOf(p))
        initializing == FirstInit(p) # 0
        reason == IF initializing THEN InitReason(p) ELSE NotCompleted(p, acc)
    IN  [ready |-> <<IF initializing THEN 0 ELSE acc.ready, p.containers>>,
         status |-> IF ~p.deleted THEN reason
                    ELSE IF p.reason = "NodeLost" THEN <<"Unknown">> ELSE <<"Terminating">>]

-----------------------------------------------------------------------------
(* The other classes.                                                      *)

(* getReplicaSetReadyStatus and its four likes.                            *)
ReplicasCells(o) == [ready |-> <<o.readyReplicas, o.replicas>>, status |-> <<>>]

(* getEventCoreReadyStatus, getEventReadyStatus.                           *)
EventCells(o) ==
    [ready |-> <<>>,
     status |-> <<o.reason, o.message>> \o (IF o.count > 1 THEN <<o.count>> ELSE <<>>)]

OfType(conditions, type) == {k \in DOMAIN conditions : conditions[k].type = type}

(* The last of some conditions, <<>> if there is none.                     *)
LastOf(conditions, some) == IF some = {} THEN <<>> ELSE <<conditions[Max(some)]>>

(* getAPIServiceReadyStatus: the reason stays that of the last condition   *)
(* that is not true.                                                       *)
APIServiceCells(o) ==
    LET those == OfType(o.conditions, "Available")
        available == LastOf(o.conditions, those)
        failing == LastOf(o.conditions, {k \in those : o.conditions[k].status # "True"})
    IN  [ready |-> IF available = <<>> THEN <<>> ELSE <<available[1].status>>,
         status |-> IF failing = <<>> THEN <<>> ELSE Text(failing[1].reason)]

(* getPodDisruptionBudgetReadyStatus: what was observed of an older        *)
(* generation does not count.                                              *)
DisruptionBudgetCells(o) ==
    LET those == OfType(o.conditions, "DisruptionAllowed")
        last == LastOf(o.conditions, {k \in those : o.conditions[k].generation = o.generation})
    IN  [ready |-> <<>>, status |-> IF last = <<>> THEN <<>> ELSE Text(last[1].reason)]

(* getVolumeAttachmentReadyStatus: the error to detach if it is newer.     *)
VolumeAttachmentCells(o) ==
    LET errTime == IF o.attachError = <<>> THEN 0 ELSE o.attachError[1].time
    IN  [ready |-> <<IF o.attached THEN "True" ELSE "False">>,
         status |-> IF o.detachError # <<>> /\ o.detachError[1].time > errTime
                    THEN <<o.detachError[1].message>>
                    ELSE IF o.attachError # <<>> THEN <<o.attachError[1].message>>
                    ELSE <<>>]

(* getReleaseReadyStatus, kept as the release node's Ready condition.      *)
ReleaseCells(o) ==
    [ready |-> <<IF o.status = "Deployed" THEN "True" ELSE "False">>, status |-> <<o.status>>]

(* getObjectReadyStatus: all Ready conditions, one after the other.        *)
ObjectCells(o) ==
    LET those == SelectSeq(o.conditions, LAMBDA c : c.type = "Ready")
    IN  [ready |-> [k \in DOMAIN those |-> those[k].status],
         status |-> [k \in DOMAIN those |-> those[k].reason]]

(* nodeToTableRow: the function for the object's class.                    *)
Cells(o) ==
    CASE o.class = "Pod" -> PodCells(o)
      [] o.class \in Replicated -> ReplicasCells(o)
      [] o.class = "Event" -> EventCells(o)
      [] o.class = "APIService" -> APIServiceCells(o)
      [] o.class = "PodDisruptionBudget" -> DisruptionBudgetCells(o)
      [] o.class = "VolumeAttachment" -> VolumeAttachmentCells(o)
      [] o.class = "Release" -> ReleaseCells(o)
      [] OTHER -> ObjectCells(o)
=============================================================================
