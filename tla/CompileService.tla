--------------------------- MODULE CompileService ---------------------------
(***************************************************************************)
(* What overlay_compile_worker.h promises the dispatcher, without threads,  *)
(* queue or map: a request is taken on at most once until it is finished,   *)
(* finished exactly once, and only finished requests are ever forgotten.    *)
(***************************************************************************)
CONSTANT Keys

VARIABLE status   \* [Keys -> {"idle", "pending", "finished"}]

Init == status = [k \in Keys |-> "idle"]

\* A request for k is accepted; to make room, finished ones may be forgotten.
Accept(k) ==
    /\ status[k] = "idle"
    /\ \E old \in SUBSET {j \in Keys : status[j] = "finished"} :
          status' = [j \in Keys |-> IF j = k THEN "pending"
                                    ELSE IF j \in old THEN "idle" ELSE status[j]]

Finish(k) ==
    /\ status[k] = "pending"
    /\ status' = [status EXCEPT ![k] = "finished"]

Next == \E k \in Keys : Accept(k) \/ Finish(k)

Spec == Init /\ [][Next]_status

\* With the promise that what is accepted does get finished.
LiveSpec == Spec /\ \A k \in Keys : WF_status(Finish(k))
=============================================================================
