----------------------------- MODULE DeviceLanes -----------------------------
(***************************************************************************)
(* The turn-taking of the command pipeline                                 *)
(* (apps/runtime-py/src/cit_runtime/pipeline.py): CommandQueue, _DeviceLane,*)
(* submit and _drain.                                                      *)
(*                                                                         *)
(* Every submitted command enters one bounded heap; whoever submits drains *)
(* the heap for its own device, under that device's asyncio.Lock.  There is *)
(* one task per submitted command, so a task is named by its command.      *)
(* What the gates of _dispatch decide is left open here: a command is      *)
(* either denied or handed to the adapter.  CommandPipeline closes it.     *)
(*                                                                         *)
(* asyncio runs one task until it awaits.  cpu names the task that is      *)
(* between two awaits, and no other task moves until it gives the loop     *)
(* back, so the atomic sections of the code are atomic here too.           *)
(***************************************************************************)
EXTENDS Integers, FiniteSets

CONSTANTS
  Device,      \* device ids
  Command,     \* the commands submitted in one behaviour
  Target,      \* DeviceCommandIntent.deviceId of each command
  Priority,    \* classify_priority of each command; lower preempts higher
  MaxDepth,    \* CommandQueue.max_depth
  Denials,     \* the error codes the gates of _dispatch deny with
  None         \* Python's None

(* What a caller of submit can be answered: a denial, the shed and discard  *)
(* refusals (both carry SAFETY_POLICY_DENIED), what the adapter said, an    *)
(* exception of the adapter, or the cancellation of the draining task.      *)
Answers == Denials \cup {"shed", "discarded", "accepted", "refused", "error",
                         "cancelled"}

ASSUME LanesAssumption ==
  /\ Target \in [Command -> Device]
  /\ Priority \in [Command -> Nat]
  /\ MaxDepth \in Nat \ {0}
  /\ None \notin Command \cup Answers

VARIABLES
  queue,    \* the commands in CommandQueue._heap
  ticket,   \* _QueueItem.tiebreak of each queued command
  pushed,   \* the next value of CommandQueue._counter
  lanes,    \* CommandPipeline._lanes: the lane object registered for a device
  users,    \* _DeviceLane.users of a lane object, as the set of tasks counted
  holder,   \* the task holding _DeviceLane.lock of a lane object
  mine,     \* the local variable lane of _drain
  pc,       \* where each task is
  item,     \* the queue item a task is dispatching
  answer,   \* the result set on the waiter of a command
  cpu       \* the task the event loop is running, None between tasks

laneVars == <<queue, ticket, pushed, lanes, users, holder, mine, pc, item,
              answer, cpu>>

(* A lane object is named by the task that created it: a task creates at    *)
(* most one.                                                                *)
Lane == Command

Inside  == {"lock", "drain", "gate", "exec", "group"}
Holding == {"drain", "gate", "exec", "group"}
Working == {"gate", "exec", "group"}

LaneTypeOK ==
  /\ queue \in SUBSET Command
  /\ ticket \in [Command -> Nat]
  /\ pushed \in Nat
  /\ lanes \in [Device -> Lane \cup {None}]
  /\ users \in [Lane -> SUBSET Command]
  /\ holder \in [Lane -> Command \cup {None}]
  /\ mine \in [Command -> Lane \cup {None}]
  /\ pc \in [Command -> Inside \cup {"idle", "returned", "aborted"}]
  /\ item \in [Command -> Command \cup {None}]
  /\ answer \in [Command -> Answers \cup {None}]
  /\ cpu \in Command \cup {None}

LaneInit ==
  /\ queue = {} /\ ticket = [c \in Command |-> 0] /\ pushed = 0
  /\ lanes = [d \in Device |-> None]
  /\ users = [l \in Lane |-> {}]
  /\ holder = [l \in Lane |-> None]
  /\ mine = [c \in Command |-> None]
  /\ pc = [c \in Command |-> "idle"]
  /\ item = [c \in Command |-> None]
  /\ answer = [c \in Command |-> None]
  /\ cpu = None

QueuedFor(d) == {c \in queue : Target[c] = d}

(* Mutant: the tie of equal priorities is not broken. *)
BeforeByRank(a, b) == Priority[a] <= Priority[b]

(* _QueueItem orders by (priority, tiebreak). *)
Before(a, b) ==
  \/ Priority[a] < Priority[b]
  \/ Priority[a] = Priority[b] /\ ticket[a] < ticket[b]

(* Mutant: the waiter is given the command instead of a Dispatch. *)
AnsweredWithCommand(cs, a) ==
  [c \in Command |-> IF c \in cs THEN c ELSE answer[c]]

(* _QueueItem.resolve and fail: a waiter is answered once. *)
Answered(cs, a) ==
  [c \in Command |-> IF c \in cs /\ answer[c] = None THEN a ELSE answer[c]]

(* Mutant: the queue is cleared without answering anybody (clear, not take).*)
DiscardSilently(ds) ==
  /\ queue' = {c \in queue : Target[c] \notin ds}
  /\ UNCHANGED <<ticket, answer>>

(* Mutant: the senders are refused but their commands stay in the heap.     *)
DiscardAnswerOnly(ds) ==
  /\ answer' = Answered({c \in queue : Target[c] \in ds}, "discarded")
  /\ UNCHANGED <<queue, ticket>>

(* CommandQueue.take and CommandPipeline._discard: the items of the given   *)
(* devices leave the heap and their waiters are refused.                    *)
Discard(ds) ==
  LET taken == {c \in queue : Target[c] \in ds} IN
  /\ queue' = queue \ taken
  /\ ticket' = [c \in Command |-> IF c \in taken THEN 0 ELSE ticket[c]]
  /\ answer' = Answered(taken, "discarded")

-----------------------------------------------------------------------------
(* submit, with the heap at its depth: answered at once and never queued. *)
Shed(c) ==
  /\ cpu = None /\ pc[c] = "idle"
  /\ Cardinality(queue) >= MaxDepth
  /\ answer' = Answered({c}, "shed")
  /\ pc' = [pc EXCEPT ![c] = "returned"]
  /\ UNCHANGED <<queue, ticket, pushed, lanes, users, holder, mine, item, cpu>>

(* The lane _drain finds registered for the device of c, or creates. *)
LaneFor(c) == IF lanes[Target[c]] = None THEN c ELSE lanes[Target[c]]

(* asyncio.Lock.acquire returns without suspending only when the lock is    *)
(* free and nobody waits for it.                                            *)
LockFree(l) ==
  holder[l] = None /\ \A o \in Command : ~(pc[o] = "lock" /\ mine[o] = l)

(* submit and the head of _drain: push, find or create the lane, count      *)
(* oneself in users, and ask for the lock.                                  *)
Submit(c) ==
  /\ cpu = None /\ pc[c] = "idle"
  /\ Cardinality(queue) < MaxDepth
  /\ queue' = queue \cup {c}
  /\ ticket' = [ticket EXCEPT ![c] = pushed]
  /\ pushed' = pushed + 1
  /\ lanes' = [lanes EXCEPT ![Target[c]] = LaneFor(c)]
  /\ mine' = [mine EXCEPT ![c] = LaneFor(c)]
  /\ users' = [users EXCEPT ![LaneFor(c)] = @ \cup {c}]
  /\ IF LockFree(LaneFor(c))
     THEN /\ holder' = [holder EXCEPT ![LaneFor(c)] = c]
          /\ pc' = [pc EXCEPT ![c] = "drain"]
          /\ cpu' = c
     ELSE /\ pc' = [pc EXCEPT ![c] = "lock"]
          /\ UNCHANGED <<holder, cpu>>
  /\ UNCHANGED <<item, answer>>

(* The lock is handed to a waiting task.  asyncio hands it over in FIFO     *)
(* order; who gets it does not matter, since every holder drains the same   *)
(* queue in the same order.                                                 *)
Grant(c) ==
  /\ cpu = None /\ pc[c] = "lock"
  /\ holder[mine[c]] = None
  /\ holder' = [holder EXCEPT ![mine[c]] = c]
  /\ pc' = [pc EXCEPT ![c] = "drain"]
  /\ cpu' = c
  /\ UNCHANGED <<queue, ticket, pushed, lanes, users, mine, item, answer>>

(* CommandQueue.pop_for: the highest-priority queued item of one device. *)
Pop(c, i) ==
  /\ cpu = c /\ pc[c] = "drain"
  /\ i \in QueuedFor(Target[c])
  /\ \A o \in QueuedFor(Target[c]) \ {i} : Before(i, o)
  /\ queue' = queue \ {i}
  /\ ticket' = [ticket EXCEPT ![i] = 0]
  /\ item' = [item EXCEPT ![c] = i]
  /\ pc' = [pc EXCEPT ![c] = "gate"]
  /\ UNCHANGED <<pushed, lanes, users, holder, mine, answer, cpu>>

(* A gate of _dispatch denies the item, and the loop takes the next one     *)
(* without giving the event loop back.                                      *)
Deny(c, code) ==
  /\ cpu = c /\ pc[c] = "gate"
  /\ code \in Denials
  /\ answer' = Answered({item[c]}, code)
  /\ item' = [item EXCEPT ![c] = None]
  /\ pc' = [pc EXCEPT ![c] = "drain"]
  /\ UNCHANGED <<queue, ticket, pushed, lanes, users, holder, mine, cpu>>

(* Every gate passed: the task awaits adapter.execute. *)
Execute(c) ==
  /\ cpu = c /\ pc[c] = "gate"
  /\ pc' = [pc EXCEPT ![c] = "exec"]
  /\ cpu' = None
  /\ UNCHANGED <<queue, ticket, pushed, lanes, users, holder, mine, item, answer>>

(* The adapter call, or the last stop of the failure policy, returned: the  *)
(* sender is answered and the loop goes on.                                 *)
Finish(c, outcome) ==
  /\ cpu = None /\ pc[c] \in {"exec", "group"}
  /\ outcome \in {"accepted", "refused", "error"}
  /\ outcome = "accepted" => pc[c] = "exec"
  /\ answer' = Answered({item[c]}, outcome)
  /\ item' = [item EXCEPT ![c] = None]
  /\ pc' = [pc EXCEPT ![c] = "drain"]
  /\ cpu' = c
  /\ UNCHANGED <<queue, ticket, pushed, lanes, users, holder, mine>>

(* _apply_failure_policy calls stop_device for another device of the group, *)
(* which discards that device's queue and awaits its adapter.               *)
StopPeer(c, d) ==
  /\ cpu = None /\ pc[c] \in {"exec", "group"}
  /\ d # Target[c]
  /\ Discard({d})
  /\ pc' = [pc EXCEPT ![c] = "group"]
  /\ UNCHANGED <<pushed, lanes, users, holder, mine, item, cpu>>

(* Mutant: the lane is dropped although others are counted in it.           *)
UncountAll(c) ==
  /\ users' = [users EXCEPT ![mine[c]] = @ \ {c}]
  /\ lanes' = [lanes EXCEPT ![Target[c]] = None]

(* The finally of _drain: users is decremented and an unused lane dropped. *)
Uncount(c) ==
  /\ users' = [users EXCEPT ![mine[c]] = @ \ {c}]
  /\ lanes' = IF users[mine[c]] \ {c} = {}
              THEN [lanes EXCEPT ![Target[c]] = None] ELSE lanes

(* pop_for found nothing: the lock is released and the lane left.  What is  *)
(* left of submit is "await waiter".                                        *)
Leave(c) ==
  /\ cpu = c /\ pc[c] = "drain"
  /\ QueuedFor(Target[c]) = {}
  /\ holder' = [holder EXCEPT ![mine[c]] = None]
  /\ Uncount(c)
  /\ pc' = [pc EXCEPT ![c] = "returned"]
  /\ cpu' = None
  /\ UNCHANGED <<queue, ticket, pushed, mine, item, answer>>

(* The submitting task is cancelled (the server shuts down) while it waits  *)
(* for the lock: its item stays queued.                                     *)
CancelWaiting(c) ==
  /\ cpu = None /\ pc[c] = "lock"
  /\ Uncount(c)
  /\ pc' = [pc EXCEPT ![c] = "aborted"]
  /\ UNCHANGED <<queue, ticket, pushed, holder, mine, item, answer, cpu>>

(* ... or while it awaits an adapter: the except BaseException clause fails *)
(* the item it was dispatching, whoever sent it, and leaves the lane.       *)
CancelWorking(c) ==
  /\ cpu = None /\ pc[c] \in {"exec", "group"}
  /\ answer' = Answered({item[c]}, "cancelled")
  /\ item' = [item EXCEPT ![c] = None]
  /\ holder' = [holder EXCEPT ![mine[c]] = None]
  /\ Uncount(c)
  /\ pc' = [pc EXCEPT ![c] = "aborted"]
  /\ UNCHANGED <<queue, ticket, pushed, mine, cpu>>

(* clear_queue, for one device or for the room: nothing else is stopped. *)
ClearQueue(ds) ==
  /\ cpu = None
  /\ Discard(ds)
  /\ UNCHANGED <<pushed, lanes, users, holder, mine, pc, item, cpu>>

Scopes == {Device} \cup {{d} : d \in Device}

(* Every request is over: the process only waits for new ones. *)
Quiescent ==
  /\ \A c \in Command : pc[c] \in {"returned", "aborted"}
  /\ UNCHANGED laneVars

LaneStep(c) ==
  \/ Shed(c) \/ Submit(c) \/ Grant(c)
  \/ \E i \in Command : Pop(c, i)
  \/ \E code \in Denials : Deny(c, code)
  \/ Execute(c)
  \/ \E outcome \in {"accepted", "refused", "error"} : Finish(c, outcome)
  \/ \E d \in Device : StopPeer(c, d)
  \/ Leave(c)
  \/ CancelWaiting(c) \/ CancelWorking(c)

LaneNext ==
  \/ \E c \in Command : LaneStep(c)
  \/ \E ds \in Scopes : ClearQueue(ds)
  \/ Quiescent

LaneSpec == LaneInit /\ [][LaneNext]_laneVars

-----------------------------------------------------------------------------
(* No device runs two commands at once, although lanes are dropped and      *)
(* created again and requests are cancelled: two tasks dispatching for one  *)
(* device would be two commands on one robot.                               *)
OneCommandPerDevice ==
  \A a, b \in Command :
    a # b /\ Target[a] = Target[b] => ~(pc[a] \in Working /\ pc[b] \in Working)

(* "await waiter" at the end of submit never blocks: a task that has        *)
(* drained its device has its own answer, whoever dispatched or discarded   *)
(* its command.                                                             *)
AnsweredOnReturn ==
  \A c \in Command : pc[c] = "returned" => answer[c] # None

(* A command waits in the heap only while somebody is there to dispatch it: *)
(* a task counted in its device's lane, unless the sender was cancelled.    *)
QueuedIsAttended ==
  \A c \in queue : pc[c] = "aborted" \/ lanes[Target[c]] # None

(* A command is answered as discarded or shed only if no adapter got it: it *)
(* is not the item of any task.                                             *)
RefusedIsNotRunning ==
  \A c, t \in Command : item[t] = c => answer[c] = None
=============================================================================
