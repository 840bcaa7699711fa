----------------------------- MODULE TreeCells -----------------------------
(***************************************************************************)
(* The tree of TreePrinter with the cells of ReadyStatus: nodeToTableRow,  *)
(* called for every row.                                                   *)
(***************************************************************************)
EXTENDS TreePrinter, ReadyStatus

(* What a kubelet reports of a container.                                  *)
ContainerStatus ==
    [state : {"waiting", "running", "terminated"}, reason : STRING \ {"Init"},
     code : Int, signal : Int, ready : BOOLEAN]

StatusCondition == [type : STRING, status : STRING, reason : STRING, generation : Nat]

(* The status of an object as those who keep it write it: a container of a *)
(* pod is reported once at most, conditions are kept by type, one that is  *)
(* not true has a reason, and an error has a time.                         *)
WellFormed(o) ==
    /\ o.class = "Pod" =>
          /\ o.statuses \in Seq(ContainerStatus) /\ o.inits \in Seq(ContainerStatus)
          /\ o.containers \in Nat \ {0} /\ Len(o.statuses) <= o.containers
          /\ {o.phase, o.reason} \subseteq STRING \ {"Init", "Completed"}
    /\ o.class = "APIService" =>
          /\ o.conditions \in Seq(StatusCondition)
          /\ \A k \in OfType(o.conditions, "Available") :
                /\ OfType(o.conditions, "Available") = {k}
                /\ o.conditions[k].status # "True" => o.conditions[k].reason # ""
    /\ o.class = "VolumeAttachment" =>
          \A errors \in {o.attachError, o.detachError} :
              \/ errors = <<>>
              \/ Len(errors) = 1 /\ errors \in Seq([time : Nat \ {0}, message : STRING])

(* What is drawn besides the tree: the object of every node.               *)
ASSUME ObjectsAssumption ==
    \A i \in Inputs : \A u \in DOMAIN i.adj : u \in DOMAIN i.objects /\ WellFormed(i.objects[u])

Object(k) == input.objects[rows[k].uid]
CellsOf(k) == Cells(Object(k))

(* The rows of pods that are not being deleted.                            *)
LivePods == {k \in 1 .. Len(rows) : Object(k).class = "Pod" /\ ~Object(k).deleted}

-----------------------------------------------------------------------------
(* The two cells do not contradict each other, though each is gathered on  *)
(* its own: a pod of which a container is ready is neither completed nor   *)
(* initializing, one whose containers are all ready shows its own phase or *)
(* reason and nothing of a container, and an API service shows a reason    *)
(* exactly if it is said not to be available.                              *)
ReadyAgreesWithStatus ==
    /\ \A k \in LivePods :
          LET cells == CellsOf(k) IN
          /\ cells.ready[1] > 0 => cells.status[1] \notin {"Completed", "Init"}
          /\ cells.ready[1] = cells.ready[2] => cells.status = PhaseOf(Object(k))
    /\ \A k \in 1 .. Len(rows) :
          Object(k).class = "APIService" =>
              (CellsOf(k).status = <<>> <=> CellsOf(k).ready \in {<<>>, <<"True">>})

(* Why a container does not run, <<>> if it does or does not say.          *)
Trouble(c) ==
    CASE c.state = "waiting" -> Text(c.reason)
      [] c.state = "terminated" -> Terminated(c)
      [] OTHER -> <<>>

(* Once the init containers have succeeded, a pod is shown with what is    *)
(* the matter with the first container, in the order of the manifest, that *)
(* has stopped, and with nothing else unless that one has completed.  Of   *)
(* the errors of a VolumeAttachment the newest is shown, so that one that  *)
(* has been overcome does not hide the other.                              *)
TroubleShown ==
    /\ \A k \in LivePods :
          LET p == Object(k) IN
          (\A i \in DOMAIN p.inits : Succeeded(p.inits[i])) =>
              \A i \in DOMAIN p.statuses :
                  /\ Trouble(p.statuses[i]) \notin {<<>>, <<"Completed">>}
                  /\ \A j \in 1 .. i - 1 : Trouble(p.statuses[j]) = <<>>
                  => CellsOf(k).status = Trouble(p.statuses[i])
    /\ \A k \in 1 .. Len(rows) :
          Object(k).class = "VolumeAttachment" =>
              LET errors == Object(k).attachError \o Object(k).detachError IN
              /\ (errors = <<>>) <=> (CellsOf(k).status = <<>>)
              /\ \A i, j \in DOMAIN errors :
                    errors[i].time > errors[j].time => CellsOf(k).status = <<errors[i].message>>
=============================================================================
