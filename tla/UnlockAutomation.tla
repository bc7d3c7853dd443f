-------------------------- MODULE UnlockAutomation --------------------------
(***************************************************************************)
(* The phone companion of the Control Tower gateway: pairing a primary     *)
(* phone and remote-only companions, and the signed events they send       *)
(* (unlock, toggle, remote power, remote state).                           *)
(*                                                                         *)
(* The service keeps one record in memory and rewrites one file with it    *)
(* after every change (the last result, which is only displayed, is left   *)
(* out; its write is not).  A write that fails leaves the change in        *)
(* memory, and the file may hold either the old or the new record: the     *)
(* request is answered with an error.  A restart reads the file.  The      *)
(* three event handlers that command plugs run under one FIFO lock, held   *)
(* while the command runner is awaited; the state poll takes no lock.      *)
(***************************************************************************)
EXTENDS Naturals, Sequences, FiniteSets

CONSTANTS
    Phones,          \* the device ids pairings create, one per pairing
    Desktops,        \* those of them created for a desktop
    NoPhone,
    PhoneLimit,      \* 8 in the code
    RemoteOrigin,    \* whether the gateway has a private remote address
    Deliveries,      \* HTTP requests the server handles at one time
    NoDelivery,
    NoEvent,
    PhoneEvents,     \* bound: the events phones sign; each may arrive any number
                     \* of times, in any order
    MaxSaveFailures  \* bound: writes of the state file that fail

ASSUME UnlockAssumption ==
    /\ Desktops \subseteq Phones
    /\ NoPhone \notin Phones
    /\ NoDelivery \notin Deliveries
    /\ NoEvent \notin PhoneEvents
    /\ PhoneLimit \in Nat \ {0}
    /\ RemoteOrigin \in BOOLEAN
    /\ PhoneEvents \subseteq [phone : Phones, kind : {"unlock", "toggle", "power", "state"},
                              sequence : Nat \ {0}]
    /\ MaxSaveFailures \in Nat

VARIABLES
    automation,      \* the record in memory
    savedAutomation, \* the record in the file
    installing,      \* pairings between create_pairing and commit_pairing
    unusedIds,       \* device ids no pairing has created yet
    deliveries,      \* the event each open request carries
    eventQueue,      \* requests waiting for the event lock, in order
    eventRunning,    \* the request that holds it while plugs are commanded
    lastActed,       \* history: the last sequence a phone's command ran with
    unlocksRun,      \* history: unlock commands of a phone in one cooldown
    saveFailures

unlockVars == <<automation, savedAutomation, installing, unusedIds, deliveries,
                eventQueue, eventRunning, lastActed, unlocksRun, saveFailures>>

Automation == [primary : Phones \cup {NoPhone}, remotes : SUBSET Phones,
               enabled : BOOLEAN, chosen : BOOLEAN, cooling : BOOLEAN,
               sequence : [Phones -> Nat]]

NewAutomation == [primary |-> NoPhone, remotes |-> {}, enabled |-> FALSE,
                  chosen |-> FALSE, cooling |-> FALSE,
                  sequence |-> [p \in Phones |-> 0]]

Paired(a) == a.remotes \cup ({a.primary} \ {NoPhone})

UnlockInit ==
    /\ automation = NewAutomation
    /\ savedAutomation = NewAutomation
    /\ installing = {}
    /\ unusedIds = Phones
    /\ deliveries = [d \in Deliveries |-> NoEvent]
    /\ eventQueue = <<>>
    /\ eventRunning = NoDelivery
    /\ lastActed = [p \in Phones |-> 0]
    /\ unlocksRun = [p \in Phones |-> 0]
    /\ saveFailures = 0

-----------------------------------------------------------------------------
(* The state file. *)

Saved(a) == /\ automation' = a
            /\ savedAutomation' = a
            /\ UNCHANGED saveFailures

SaveFails(a) == /\ saveFailures < MaxSaveFailures
                /\ automation' = a
                /\ savedAutomation' \in {savedAutomation, a}
                /\ saveFailures' = saveFailures + 1

Save(a) == Saved(a) \/ SaveFails(a)

-----------------------------------------------------------------------------
(* Pairing.  A USB install is awaited between create and commit, so that   *)
(* several may be under way; the capacity is checked at both ends.         *)

HasCapacity(a) == /\ a.primary # NoPhone => RemoteOrigin
                  /\ Cardinality(Paired(a)) < PhoneLimit

\* a pairing as it would be if the new phone displaced the primary one
Displacing(a, p) == [a EXCEPT !.primary = p, !.remotes = @ \cup {a.primary}]

WithPhone(a, p) ==
    IF a.primary = NoPhone
    THEN [a EXCEPT !.primary = p, !.enabled = FALSE, !.cooling = FALSE,
                   !.sequence[p] = 0]
    ELSE [a EXCEPT !.remotes = @ \cup {p}, !.sequence[p] = 0]

BeginPairing(p) ==
    /\ p \in unusedIds \ Desktops
    /\ HasCapacity(automation)
    /\ unusedIds' = unusedIds \ {p}
    /\ installing' = installing \cup {p}
    /\ UNCHANGED <<automation, savedAutomation, deliveries, eventQueue,
                   eventRunning, lastActed, unlocksRun, saveFailures>>

\* commit_pairing as it would be if it relied on create_pairing's check
StillUnpaired(p) == p \notin Paired(automation)

MayCommit(p) == HasCapacity(automation) /\ p \notin Paired(automation)

CommitPairing(p) ==
    /\ p \in installing
    /\ MayCommit(p)
    /\ installing' = installing \ {p}
    /\ Save(WithPhone(automation, p))
    /\ UNCHANGED <<unusedIds, deliveries, eventQueue, eventRunning, lastActed,
                   unlocksRun>>

\* The install failed, or the capacity was used up while it ran.
AbandonPairing(p) ==
    /\ p \in installing
    /\ installing' = installing \ {p}
    /\ UNCHANGED <<automation, savedAutomation, unusedIds, deliveries, eventQueue,
                   eventRunning, lastActed, unlocksRun, saveFailures>>

\* A desktop is created and committed in one request.
PairDesktop(p) ==
    /\ p \in unusedIds \cap Desktops
    /\ RemoteOrigin
    /\ HasCapacity(automation)
    /\ unusedIds' = unusedIds \ {p}
    /\ Save(WithPhone(automation, p))
    /\ UNCHANGED <<installing, deliveries, eventQueue, eventRunning, lastActed,
                   unlocksRun>>

RemoveCompanions ==
    /\ Save([automation EXCEPT !.enabled = FALSE, !.primary = NoPhone, !.remotes = {},
                               !.cooling = FALSE,
                               !.sequence = [p \in Phones |-> 0]])
    /\ UNCHANGED <<installing, unusedIds, deliveries, eventQueue, eventRunning,
                   lastActed, unlocksRun>>

Configure(enabled, chosen) ==
    /\ enabled => automation.primary # NoPhone /\ chosen
    /\ Save([automation EXCEPT !.enabled = enabled, !.chosen = chosen])
    /\ UNCHANGED <<installing, unusedIds, deliveries, eventQueue, eventRunning,
                   lastActed, unlocksRun>>

-----------------------------------------------------------------------------
(* Events.  The checks, the new sequence number and its write are one step *)
(* (no await), from the moment the lock is obtained.                       *)

Authentic(e) ==
    /\ IF e.kind \in {"unlock", "toggle"}
       THEN e.phone \notin Desktops /\ automation.primary = e.phone
       ELSE e.phone \in Paired(automation)
    /\ e.sequence > automation.sequence[e.phone]

\* the record as it would be if the sequence number were not kept
Unrecorded(e) == automation

Recorded(e) == [automation EXCEPT !.sequence[e.phone] = e.sequence]

Answer(d) == deliveries' = [deliveries EXCEPT ![d] = NoEvent]

ReceiveEvent(d, e) ==
    /\ deliveries[d] = NoEvent
    /\ e.kind # "state"
    /\ e.phone \notin unusedIds
    /\ deliveries' = [deliveries EXCEPT ![d] = e]
    /\ eventQueue' = Append(eventQueue, d)
    /\ UNCHANGED <<automation, savedAutomation, installing, unusedIds, eventRunning,
                   lastActed, unlocksRun, saveFailures>>

\* A state poll is answered at once: it takes no lock and overtakes the queue.
AnswerStatePoll(e) ==
    /\ e.kind = "state"
    /\ Authentic(e)
    /\ Save(Recorded(e))
    /\ UNCHANGED <<installing, unusedIds, deliveries, eventQueue, eventRunning,
                   lastActed, unlocksRun>>

\* d has obtained the event lock.
HasLock(d) == /\ eventRunning = NoDelivery
              /\ eventQueue # <<>>
              /\ d = Head(eventQueue)

AnswerWithout(d) == /\ HasLock(d)
                    /\ eventQueue' = Tail(eventQueue)
                    /\ Answer(d)
                    /\ UNCHANGED <<installing, unusedIds, eventRunning, lastActed,
                                   unlocksRun>>

\* Refused: unknown phone, stale time stamp or an old sequence number.
RefuseEvent(d) ==
    /\ AnswerWithout(d)
    /\ UNCHANGED <<automation, savedAutomation, saveFailures>>

\* The sequence number could not be written: answered with an error.
RecordFails(d) ==
    /\ AnswerWithout(d)
    /\ Authentic(deliveries[d])
    /\ SaveFails(Recorded(deliveries[d]))

\* Recorded, and no command: disabled or cooling (unlock; the outcome is
\* written as the last result), or no saved plug or a plug that is not saved.
AnswerWithoutCommand(d) ==
    LET e == deliveries[d] IN
    /\ AnswerWithout(d)
    /\ Authentic(e)
    /\ IF e.kind = "unlock"
       THEN /\ ~automation.enabled \/ automation.cooling
            /\ Save(Recorded(e))
       ELSE /\ e.kind = "power" \/ ~automation.chosen
            /\ Saved(Recorded(e))

Runnable(e) == IF e.kind = "unlock" THEN automation.enabled /\ ~automation.cooling
                                    ELSE automation.chosen

\* the record as it would be if the time were written after the command
CooledLater(e) == Recorded(e)

\* An unlock writes its time before the command: if that fails it does not run.
Cooled(e) == IF e.kind = "unlock" THEN [Recorded(e) EXCEPT !.cooling = TRUE]
                                  ELSE Recorded(e)

CooldownSaveFails(d) ==
    LET e == deliveries[d] IN
    /\ AnswerWithout(d)
    /\ Authentic(e)
    /\ e.kind = "unlock" /\ Runnable(e)
    /\ saveFailures < MaxSaveFailures
    /\ automation' = Cooled(e)
    /\ savedAutomation' \in {Recorded(e), Cooled(e)}
    /\ saveFailures' = saveFailures + 1

RunCommand(d) ==
    LET e == deliveries[d] IN
    /\ HasLock(d)
    /\ Authentic(e)
    /\ Runnable(e)
    /\ Saved(Cooled(e))
    /\ eventQueue' = Tail(eventQueue)
    /\ eventRunning' = d
    /\ lastActed' = [lastActed EXCEPT ![e.phone] = e.sequence]
    /\ unlocksRun' = IF e.kind = "unlock" THEN [unlocksRun EXCEPT ![e.phone] = @ + 1]
                                          ELSE unlocksRun
    /\ UNCHANGED <<installing, unusedIds, deliveries>>

\* The runner returned or raised; the outcome of an unlock is written.
FinishEvent ==
    /\ eventRunning # NoDelivery
    /\ IF deliveries[eventRunning].kind = "unlock"
       THEN Save(automation)
       ELSE UNCHANGED <<automation, savedAutomation, saveFailures>>
    /\ Answer(eventRunning)
    /\ eventRunning' = NoDelivery
    /\ UNCHANGED <<installing, unusedIds, eventQueue, lastActed, unlocksRun>>

\* the handlers as they would be if a refusal kept the lock
ServeAuthentic == \E d \in Deliveries : \/ RecordFails(d) \/ AnswerWithoutCommand(d)
                                        \/ CooldownSaveFails(d) \/ RunCommand(d)

Serve == \E d \in Deliveries : \/ RefuseEvent(d) \/ RecordFails(d)
                               \/ AnswerWithoutCommand(d)
                               \/ CooldownSaveFails(d) \/ RunCommand(d)

\* cooldownSeconds after the last unlock that ran, for memory and file alike.
CooldownLapses ==
    /\ automation.cooling \/ savedAutomation.cooling
    /\ automation' = [automation EXCEPT !.cooling = FALSE]
    /\ savedAutomation' = [savedAutomation EXCEPT !.cooling = FALSE]
    /\ unlocksRun' = [p \in Phones |-> 0]
    /\ UNCHANGED <<installing, unusedIds, deliveries, eventQueue, eventRunning,
                   lastActed, saveFailures>>

\* The gateway stops, with every request in it, and reads the file again.
UnlockRestart ==
    /\ automation' = savedAutomation
    /\ installing' = {}
    /\ deliveries' = [d \in Deliveries |-> NoEvent]
    /\ eventQueue' = <<>>
    /\ eventRunning' = NoDelivery
    /\ UNCHANGED <<savedAutomation, unusedIds, lastActed, unlocksRun, saveFailures>>

UnlockNext ==
    \/ \E p \in Phones : \/ BeginPairing(p) \/ CommitPairing(p)
                         \/ AbandonPairing(p) \/ PairDesktop(p)
    \/ RemoveCompanions
    \/ \E enabled, chosen \in BOOLEAN : Configure(enabled, chosen)
    \/ \E d \in Deliveries, e \in PhoneEvents : ReceiveEvent(d, e)
    \/ \E e \in PhoneEvents : AnswerStatePoll(e)
    \/ Serve
    \/ FinishEvent
    \/ CooldownLapses
    \/ UnlockRestart

UnlockSpec == UnlockInit /\ [][UnlockNext]_unlockVars
              /\ WF_unlockVars(Serve) /\ WF_unlockVars(FinishEvent)

-----------------------------------------------------------------------------
(* Memory and file hold an automation of the shape that is loaded, and what *)
(* waits for the lock or holds it is a delivery.                            *)
UnlockTypeOK ==
    /\ automation \in Automation
    /\ savedAutomation \in Automation
    /\ installing \subseteq Phones
    /\ unusedIds \subseteq Phones
    /\ deliveries \in [Deliveries -> PhoneEvents \cup {NoEvent}]
    /\ eventQueue \in Seq(Deliveries)
    /\ eventRunning \in Deliveries \cup {NoDelivery}
    /\ lastActed \in [Phones -> Nat]
    /\ unlocksRun \in [Phones -> Nat]
    /\ saveFailures \in 0 .. MaxSaveFailures

(* However many installs are under way, whatever fails and whenever the    *)
(* gateway restarts, neither memory nor the file holds more phones than    *)
(* the limit, or a second phone on a gateway without a remote address, or  *)
(* an enabled automation without a phone and saved plugs.                  *)
PairingsAreBounded ==
    \A a \in {automation, savedAutomation} :
        /\ Cardinality(Paired(a)) <= PhoneLimit
        /\ ~RemoteOrigin => Cardinality(Paired(a)) <= 1
        /\ a.primary \notin a.remotes
        /\ a.enabled => a.primary # NoPhone /\ a.chosen

(* A phone's unlock commands the plugs at most once in a cooldown, failed  *)
(* writes and restarts included.                                           *)
UnlockCoolsDown == \A p \in Phones : unlocksRun[p] <= 1

(* A phone's commands run in the order of their sequence numbers and never *)
(* twice: a delivery that is repeated, late or reordered, a write that     *)
(* fails and a restart cannot make an old event act.                       *)
PhoneEventsInOrder ==
    [][eventRunning' \notin {eventRunning, NoDelivery}
         => LET e == deliveries[eventRunning'] IN e.sequence > lastActed[e.phone]]_unlockVars

(* Every event the gateway received is answered (or lost with the          *)
(* process): no refusal, failed write or exception keeps the lock.         *)
EventsAnswered == \A d \in Deliveries : []<>(deliveries[d] = NoEvent)

(* What the gateway keeps of its phones obeys its rules at every moment.    *)
PhonesAreKept == UnlockTypeOK /\ PairingsAreBounded /\ UnlockCoolsDown

(* What a phone reports is acted on in order, and always answered.         *)
PhoneEventsAreHandled == PhoneEventsInOrder /\ EventsAnswered
=============================================================================
