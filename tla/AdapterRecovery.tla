--------------------------- MODULE AdapterRecovery ---------------------------
(***************************************************************************)
(* Connecting adapters from the console and bringing remembered ones back. *)
(* A profile is an allowlisted connection action; its adapter owns several *)
(* nodes, and launching it anew interrupts those that work.  One lock      *)
(* serializes everything that launches.  The maintenance loop first sweeps *)
(* expired node leases, then retries the profiles that opted in and whose  *)
(* backoff is over; a tutor connects one profile, or all the remembered.   *)
(***************************************************************************)
EXTENDS Naturals, FiniteSets

CONSTANTS
    Profiles,        \* connection actions that can be remembered
    Endpoints,       \* the nodes of their adapters
    ProfileOf,       \* which adapter owns each node
    Unattended,      \* profiles the maintenance loop may retry
    Aircraft,        \* profiles that need the grounded confirmation
    MaxStreak        \* failures of a streak that are told apart

Nothing == "nothing"

\* Every adapter has nodes: one that registered none could never be found connected.
ASSUME RecoveryAssumption ==
    /\ ProfileOf \in [Endpoints -> Profiles] /\ Nothing \notin Profiles
    /\ \A p \in Profiles : \E e \in Endpoints : ProfileOf[e] = p
    /\ Unattended \subseteq Profiles /\ Aircraft \subseteq Profiles \ Unattended
    /\ MaxStreak \in Nat

VARIABLES
    endpoint,        \* unknown, up, dropped a short while ago, or long ago
    remembered,      \* profiles stored for this host
    streak,          \* failures in a row of each profile's unattended retries
    backoff,         \* profiles whose next retry is not due yet
    launchLock,      \* who holds the connection lock
    launching,       \* the profile whose launcher runs
    pass,            \* the maintenance loop: where it is and what is left
    tutorAsk,        \* a tutor's request: where it is and what is left
    leaseOver,       \* a node lease has expired and was not swept yet
    confirmed        \* history: the launcher runs under a confirmation

recoveryVars == <<endpoint, remembered, streak, backoff, launchLock, launching, pass, tutorAsk,
                  leaseOver, confirmed>>

Asleep == [step |-> "asleep", todo |-> {}, failed |-> {}, done |-> {}]
NoRequest == [step |-> "none", todo |-> {}, ask |-> "connect", confirm |-> FALSE]

Owned(p) == {e \in Endpoints : ProfileOf[e] = p}
Up(p) == {e \in Owned(p) : endpoint[e] = "up"}

RecoveryInit ==
    /\ endpoint = [e \in Endpoints |-> "unknown"]
    /\ remembered = {}
    /\ streak = [p \in Profiles |-> 0]
    /\ backoff = {}
    /\ launchLock = "free" /\ launching = Nothing /\ confirmed = FALSE
    /\ pass = Asleep
    /\ tutorAsk = NoRequest
    /\ leaseOver = FALSE

retryVars == <<streak, backoff>>
lockVars == <<launchLock, launching, confirmed>>

-----------------------------------------------------------------------------
(* Nodes and time. *)

\* A node's link drops, its adapter takes it up again, or half an hour passes.
EndpointChanges(e) ==
    /\ endpoint' = [endpoint EXCEPT ![e] =
           CASE @ = "up" -> "dropped" [] @ = "dropped" -> "stale" [] OTHER -> "up"]
    /\ endpoint[e] # "unknown"
    /\ leaseOver' = (leaseOver \/ endpoint[e] = "up")
    /\ UNCHANGED <<remembered, retryVars, lockVars, pass, tutorAsk>>

EndpointReturns(e) ==
    /\ endpoint[e] = "dropped"
    /\ endpoint' = [endpoint EXCEPT ![e] = "up"]
    /\ UNCHANGED <<remembered, retryVars, lockVars, pass, tutorAsk, leaseOver>>

BackoffEnds(p) ==
    /\ p \in backoff
    /\ backoff' = backoff \ {p}
    /\ UNCHANGED <<endpoint, remembered, streak, lockVars, pass, tutorAsk, leaseOver>>

-----------------------------------------------------------------------------
(* Launching. *)

\* A profile has work to recover when none of its nodes is up, or one dropped
\* only recently.
NeedsReconnect(p) ==
    \/ Up(p) = {}
    \/ \E e \in Owned(p) : endpoint[e] = "dropped"

\* What a remembered connection does, decided while the lock is held.
Verdict(p, confirm) ==
    CASE ~NeedsReconnect(p) -> "already"
      [] NeedsReconnect(p) /\ p \in Aircraft /\ ~confirm -> "skipped"
      [] OTHER -> "launch"

VerdictOfDue(p, confirm) == IF p \in Aircraft /\ ~confirm THEN "skipped" ELSE "launch"

VerdictUnconfirmed(p, confirm) == IF NeedsReconnect(p) THEN "launch" ELSE "already"

Choice(p, confirm) == Verdict(p, confirm)

\* A launcher starts: any of the adapter's nodes may be interrupted by it.
Launch(p, confirm) ==
    /\ launching' = p
    /\ confirmed' = confirm
    /\ \E lost \in SUBSET Up(p) :
           endpoint' = [e \in Endpoints |-> IF e \in lost THEN "dropped" ELSE endpoint[e]]

\* It ends well when nodes of the adapter are registered; killed at its timeout
\* or failed, it leaves what registered by then.
Registers(p, well) ==
    \E back \in SUBSET Owned(p) :
        /\ well => Up(p) \cup back # {}
        /\ endpoint' = [e \in Endpoints |-> IF e \in back THEN "up" ELSE endpoint[e]]

-----------------------------------------------------------------------------
(* The maintenance loop. *)

IdleSweep == leaseOver /\ remembered # {}

Swept == FALSE

\* The interval is over: leases are swept before anything is retried.
Sweep ==
    /\ pass = Asleep
    /\ leaseOver' = Swept
    /\ LET due == (remembered \cap Unattended) \ backoff IN
       pass' = IF remembered = {} THEN [Asleep EXCEPT !.step = "swept"]
               ELSE [Asleep EXCEPT !.step = "waiting", !.todo = due]
    /\ UNCHANGED <<endpoint, remembered, retryVars, lockVars, tutorAsk>>

NothingToRetry ==
    /\ pass.step = "swept"
    /\ pass' = Asleep
    /\ UNCHANGED <<endpoint, remembered, retryVars, lockVars, tutorAsk, leaseOver>>

PassTakesLock ==
    /\ pass.step = "waiting" /\ launchLock = "free"
    /\ launchLock' = "pass"
    /\ pass' = [pass EXCEPT !.step = "retrying"]
    /\ UNCHANGED <<endpoint, remembered, retryVars, launching, confirmed, tutorAsk, leaseOver>>

PassRetries(p) ==
    /\ pass.step = "retrying" /\ launching = Nothing /\ p \in pass.todo
    /\ LET choice == Choice(p, FALSE) IN
       IF choice = "launch"
       THEN Launch(p, FALSE) /\ pass' = [pass EXCEPT !.todo = @ \ {p}]
       ELSE /\ pass' = [pass EXCEPT !.todo = @ \ {p},
                                    !.done = IF choice = "already" THEN @ \cup {p} ELSE @,
                                    !.failed = IF choice = "skipped" THEN @ \cup {p} ELSE @]
            /\ UNCHANGED <<endpoint, launching, confirmed>>
    /\ UNCHANGED <<remembered, retryVars, launchLock, tutorAsk, leaseOver>>

PassLaunchEnds(well) ==
    /\ launchLock = "pass" /\ launching # Nothing
    /\ Registers(launching, well)
    /\ pass' = IF well THEN [pass EXCEPT !.done = @ \cup {launching}]
               ELSE [pass EXCEPT !.failed = @ \cup {launching}]
    /\ launching' = Nothing /\ confirmed' = FALSE
    /\ UNCHANGED <<remembered, retryVars, launchLock, tutorAsk, leaseOver>>

\* Another exception ends the pass, and what it had tried is not recorded.
PassAborts ==
    /\ launchLock = "pass" /\ launching # Nothing
    /\ launchLock' = "free" /\ launching' = Nothing /\ confirmed' = FALSE
    /\ pass' = Asleep
    /\ UNCHANGED <<endpoint, remembered, retryVars, tutorAsk, leaseOver>>

Uncapped(n) == n + 1

Longer(n) == IF n < MaxStreak THEN n + 1 ELSE n

\* Every outcome but a failure ends a streak, and with it the backoff.
PassEnds ==
    /\ pass.step = "retrying" /\ launching = Nothing /\ pass.todo = {}
    /\ streak' = [p \in Profiles |->
           CASE p \in pass.failed -> Longer(streak[p])
             [] p \in pass.done -> 0
             [] OTHER -> streak[p]]
    /\ backoff' = (backoff \ pass.done) \cup pass.failed
    /\ launchLock' = "free"
    /\ pass' = Asleep
    /\ UNCHANGED <<endpoint, remembered, launching, confirmed, tutorAsk, leaseOver>>

-----------------------------------------------------------------------------
(* A tutor. *)

\* Listing remembered connections also stores those known nodes stand for.
FromHistory == {ProfileOf[e] : e \in {e \in Endpoints : endpoint[e] # "unknown"}}

AskRemembered(confirm) ==
    /\ tutorAsk = NoRequest
    /\ remembered' = remembered \cup FromHistory
    /\ tutorAsk' = [step |-> "waiting", todo |-> remembered', ask |-> "remembered",
                 confirm |-> confirm]
    /\ UNCHANGED <<endpoint, retryVars, lockVars, pass, leaseOver>>

AskConnect(p, confirm) ==
    /\ tutorAsk = NoRequest
    /\ p \in Aircraft => confirm
    /\ tutorAsk' = [step |-> "waiting", todo |-> {p}, ask |-> "connect", confirm |-> confirm]
    /\ UNCHANGED <<endpoint, remembered, retryVars, lockVars, pass, leaseOver>>

TutorTakesLock ==
    /\ tutorAsk.step = "waiting" /\ launchLock = "free"
    /\ launchLock' = "tutor"
    /\ tutorAsk' = [tutorAsk EXCEPT !.step = "connecting"]
    /\ UNCHANGED <<endpoint, remembered, retryVars, launching, confirmed, pass, leaseOver>>

\* A profile asked for by name is launched whatever its nodes are.
TutorConnects(p) ==
    /\ tutorAsk.step = "connecting" /\ launching = Nothing /\ p \in tutorAsk.todo
    /\ IF tutorAsk.ask = "connect" \/ Choice(p, tutorAsk.confirm) = "launch"
       THEN Launch(p, tutorAsk.confirm) ELSE UNCHANGED <<endpoint, launching, confirmed>>
    /\ tutorAsk' = [tutorAsk EXCEPT !.todo = @ \ {p}]
    /\ UNCHANGED <<remembered, retryVars, launchLock, pass, leaseOver>>

\* A profile that was connected by name is remembered for the next start.
TutorLaunchEnds(well) ==
    /\ launchLock = "tutor" /\ launching # Nothing
    /\ Registers(launching, well)
    /\ remembered' = IF well /\ tutorAsk.ask = "connect" THEN remembered \cup {launching}
                     ELSE remembered
    /\ launching' = Nothing /\ confirmed' = FALSE
    /\ UNCHANGED <<retryVars, launchLock, pass, tutorAsk, leaseOver>>

TutorIsAnswered ==
    /\ tutorAsk.step = "connecting" /\ launching = Nothing /\ tutorAsk.todo = {}
    /\ launchLock' = "free"
    /\ tutorAsk' = NoRequest
    /\ UNCHANGED <<endpoint, remembered, retryVars, launching, confirmed, pass, leaseOver>>

\* Only the remembered connections and the nodes' last records are stored.
ServiceRestart ==
    /\ endpoint' = [e \in Endpoints |-> IF endpoint[e] = "up" THEN "dropped" ELSE endpoint[e]]
    /\ streak' = [p \in Profiles |-> 0] /\ backoff' = {}
    /\ launchLock' = "free" /\ launching' = Nothing /\ confirmed' = FALSE
    /\ pass' = Asleep /\ tutorAsk' = NoRequest
    /\ UNCHANGED <<remembered, leaseOver>>

\* The loop and the tutor's request go on but when they wait for the lock, which
\* is handed on in turn.
MaintenanceGoesOn ==
    \/ Sweep \/ NothingToRetry \/ PassAborts \/ PassEnds
    \/ \E p \in Profiles : PassRetries(p)
    \/ \E well \in BOOLEAN : PassLaunchEnds(well)

TutorGoesOn ==
    \/ TutorIsAnswered
    \/ \E p \in Profiles : TutorConnects(p)
    \/ \E well \in BOOLEAN : TutorLaunchEnds(well)

RecoveryNext ==
    \/ MaintenanceGoesOn \/ TutorGoesOn \/ PassTakesLock \/ TutorTakesLock \/ ServiceRestart
    \/ \E e \in Endpoints : EndpointChanges(e) \/ EndpointReturns(e)
    \/ \E p \in Profiles : BackoffEnds(p)
    \/ \E confirm \in BOOLEAN : \/ AskRemembered(confirm)
                                \/ \E p \in Profiles : AskConnect(p, confirm)

RecoveryFairness ==
    /\ WF_recoveryVars(MaintenanceGoesOn) /\ WF_recoveryVars(TutorGoesOn)
    /\ SF_recoveryVars(PassTakesLock)

RecoverySpec == RecoveryInit /\ [][RecoveryNext]_recoveryVars /\ RecoveryFairness

-----------------------------------------------------------------------------
(* A launcher runs only under the connection lock.                          *)
RecoveryTypeOK ==
    /\ endpoint \in [Endpoints -> {"unknown", "up", "dropped", "stale"}]
    /\ remembered \subseteq Profiles /\ backoff \subseteq Profiles
    /\ streak \in [Profiles -> 0..MaxStreak]
    /\ launchLock \in {"free", "pass", "tutor"}
    /\ launching \in Profiles \cup {Nothing} /\ (launching # Nothing => launchLock # "free")
    /\ pass \in [step : {"asleep", "swept", "waiting", "retrying"}, todo : SUBSET Profiles,
                 failed : SUBSET Profiles, done : SUBSET Profiles]
    /\ tutorAsk \in [step : {"none", "waiting", "connecting"}, todo : SUBSET Profiles,
                  ask : {"connect", "remembered"}, confirm : BOOLEAN]
    /\ leaseOver \in BOOLEAN /\ confirmed \in BOOLEAN

(* No aircraft's launcher ever runs but under a confirmation given with the *)
(* very request that launches it: not in an unattended retry, and not in a  *)
(* tutor's reconnect of everything remembered that did not confirm.         *)
AircraftAreConfirmed == launching \in Aircraft => confirmed

(* A retry never interrupts an adapter whose nodes all work, though it was  *)
(* due when the pass began and the pass then waited for a tutor who has     *)
(* connected it meanwhile.                                                  *)
WorkingAdaptersAreLeft ==
    [][\A p \in Profiles :
          launching = Nothing /\ launching' = p /\ (launchLock = "pass" \/ tutorAsk.ask = "remembered")
              => \E e \in Owned(p) : endpoint[e] # "up"]_recoveryVars

(* docs/operations/device-discovery.md:42: "Already-live adapter groups are *)
(* left running."                                                           *)
LiveGroupsLeftRunning ==
    [][\A p \in Profiles :
          launching = Nothing /\ launching' = p /\ launchLock = "pass"
              => Up(p) = {}]_recoveryVars

(* An expired lease is swept in the end, though the sweep shares its loop   *)
(* with retries that wait for the tutor's lock and for their launchers.     *)
LeasesAreSwept == []<>~leaseOver

(* Unattended recovery: what it may launch, what it leaves alone, and that   *)
(* the loop it shares goes on.                                              *)
RecoveryIsSound ==
    [](RecoveryTypeOK /\ AircraftAreConfirmed) /\ WorkingAdaptersAreLeft /\ LeasesAreSwept
=============================================================================
