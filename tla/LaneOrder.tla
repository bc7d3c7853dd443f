------------------------------ MODULE LaneOrder ------------------------------
(***************************************************************************)
(* The order in which the commands of one device get their turn, over the  *)
(* whole life of DeviceLanes: a history of what was waiting when each      *)
(* command came, kept apart from the heap's own tickets, is compared with  *)
(* what is handed out.                                                     *)
(***************************************************************************)
EXTENDS DeviceLanes

VARIABLE ahead
        \* history: the commands of its device in the heap when a command came

orderVars == <<laneVars, ahead>>

OrderInit == LaneInit /\ ahead = [c \in Command |-> {}]

OrderNext ==
  /\ LaneNext
  /\ ahead' = [c \in Command |->
                 IF c \in queue' \ queue THEN QueuedFor(Target[c]) ELSE ahead[c]]

OrderSpec == OrderInit /\ [][OrderNext]_orderVars

-----------------------------------------------------------------------------
(* Some task took the command out of the heap to dispatch it.               *)
Begun(c) ==
  \/ \E t \in Command : item[t] = c
  \/ answer[c] \notin {None, "shed", "discarded"}

(* Of two commands of one device that waited together, the more urgent goes *)
(* first, and the earlier of two equals, whichever task dispatches them     *)
(* (FR-072): once one of them has begun, the one with the better claim is   *)
(* not in the heap any more.  It holds although others are submitted, shed, *)
(* discarded and cancelled between, senders are cancelled while their       *)
(* commands stay queued, and the lane is dropped and created again.         *)
NeverOvertaken ==
  \A late \in Command : \A early \in ahead[late] :
    /\ Begun(late) /\ Priority[early] <= Priority[late] => early \notin queue
    /\ Begun(early) /\ Priority[late] < Priority[early] => late \notin queue
=============================================================================
