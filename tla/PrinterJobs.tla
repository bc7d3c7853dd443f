----------------------------- MODULE PrinterJobs -----------------------------
(***************************************************************************)
(* The 3D printer service: staging and slicing a model, uploading the      *)
(* G-code, and starting a print with a confirmation.  All its records are  *)
(* in memory.  Slicing, upload and start run under one lock that they hold *)
(* across their awaits; checking the printer, preparing a start and        *)
(* staging do not take it.  The printer is a machine of its own, which     *)
(* people also use at its panel; a request to it may be lost, or arrive    *)
(* after the service has stopped waiting for the answer.                   *)
(***************************************************************************)
EXTENDS Naturals, FiniteSets

CONSTANTS
    Artifacts,       \* G-code artifacts a process creates
    Tutors,          \* the identities that use the printer
    Tokens,          \* confirmation tokens ever issued
    Jobs,            \* HTTP requests handled at one time
    NoJob

ASSUME PrinterAssumption == NoJob \notin Jobs

VARIABLES
    printer,         \* what the machine does: standby, printing, complete
    printLocked,     \* the lock that protects the print found at start-up
    staged,          \* whether a source model is staged
    artifact,        \* how far each artifact is: none, sliced, uploaded
    intents,         \* confirmations issued and not used
    usedTokens,      \* tokens that have been issued
    jobs,            \* the requests in progress
    jobLock,         \* the request that holds the operation lock
    wire,            \* start requests that have not reached the printer
    startsSent,      \* history: start requests sent with each token
    quiet            \* history: standby was observed after the last start

printerVars == <<printer, printLocked, staged, artifact, intents, usedTokens,
                 jobs, jobLock, wire, startsSent, quiet>>

Intent == [token : Tokens, artifact : Artifacts, tutor : Tutors]
Idle == [kind |-> "idle"]
Job == [kind : {"slice", "upload", "prepare", "start"}, artifact : Artifacts,
        tutor : Tutors, token : Tokens,
        step : {"waiting", "checking", "observed", "working"}]

PrinterInit ==
    /\ printer \in {"standby", "printing"}
    /\ printLocked = TRUE
    /\ staged = FALSE
    /\ artifact = [a \in Artifacts |-> "none"]
    /\ intents = {}
    /\ usedTokens = {}
    /\ jobs = [j \in Jobs |-> Idle]
    /\ jobLock = NoJob
    /\ wire = {}
    /\ startsSent = [t \in Tokens |-> 0]
    /\ quiet = FALSE

sliceVars == <<staged, artifact>>
startVars == <<intents, usedTokens, wire, startsSent>>

-----------------------------------------------------------------------------
(* The machine. *)

UsePanel ==
    /\ printer' = CASE printer = "standby" -> "printing"
                    [] printer = "printing" -> "complete"
                    [] OTHER -> "standby"
    /\ UNCHANGED <<printLocked, sliceVars, startVars, jobs, jobLock, quiet>>

\* A start request reaches the printer, which refuses it unless it is idle.
StartArrives(t) ==
    /\ t \in wire
    /\ wire' = wire \ {t}
    /\ printer' = IF printer = "standby" THEN "printing" ELSE printer
    /\ UNCHANGED <<printLocked, sliceVars, intents, usedTokens, startsSent, jobs, jobLock, quiet>>

StartIsLost(t) ==
    /\ t \in wire
    /\ wire' = wire \ {t}
    /\ UNCHANGED <<printer, printLocked, sliceVars, intents, usedTokens, startsSent, jobs,
                   jobLock, quiet>>

-----------------------------------------------------------------------------
(* Requests. *)

\* verify_idle: the only way to give up the protection of the current print.
VerifyIdle ==
    /\ printer = "standby"
    /\ printLocked' = FALSE
    /\ UNCHANGED <<printer, sliceVars, startVars, jobs, jobLock, quiet>>

StageSource ==
    /\ staged' = TRUE
    /\ UNCHANGED <<printer, printLocked, artifact, startVars, jobs, jobLock, quiet>>

\* The checks made before the lock is asked for.
Admitted(kind, a, tutor, t) ==
    /\ ~printLocked
    /\ CASE kind = "slice" -> staged /\ artifact[a] = "none"
         [] kind = "upload" -> artifact[a] # "none"
         [] kind = "prepare" -> artifact[a] = "uploaded"
         [] kind = "start" -> /\ artifact[a] = "uploaded"
                              /\ [token |-> t, artifact |-> a, tutor |-> tutor] \in intents

\* the confirmations as they would be if a start did not use its own up
Unconsumed(kind, t) == intents

\* A start consumes its confirmation whether or not it is valid.
Consumed(kind, t) == IF kind = "start" THEN {i \in intents : i.token # t} ELSE intents

\* A slice creates its artifact, and a prepare its token: none is named twice.
FreshName(kind, a, t) ==
    CASE kind = "slice" -> \A j \in Jobs : jobs[j] # Idle => jobs[j].kind # "slice"
      [] kind = "prepare" -> /\ t \notin usedTokens
                             /\ \A j \in Jobs : jobs[j] # Idle => jobs[j].token # t
      [] OTHER -> TRUE

Request(j, kind, a, tutor, t) ==
    /\ jobs[j] = Idle
    /\ Admitted(kind, a, tutor, t)
    /\ FreshName(kind, a, t)
    /\ jobs' = [jobs EXCEPT ![j] =
           [kind |-> kind, artifact |-> a, tutor |-> tutor, token |-> t,
            step |-> IF kind = "prepare" THEN "checking" ELSE "waiting"]]
    /\ intents' = Consumed(kind, t)
    /\ UNCHANGED <<printer, printLocked, sliceVars, usedTokens, wire, startsSent, jobLock, quiet>>

\* A start with a token that is unknown, expired, or another tutor's.
RefuseStart(t) ==
    /\ ~printLocked
    /\ \E i \in intents : i.token = t
    /\ intents' = Consumed("start", t)
    /\ UNCHANGED <<printer, printLocked, sliceVars, usedTokens, wire, startsSent, jobs, jobLock,
                   quiet>>

\* a start as it would go on if the check made for its confirmation still counted
CheckedBefore(kind) == IF kind = "slice" THEN "working" ELSE "observed"

\* All but slicing ask the printer again once they hold the lock.
FirstStep(kind) == IF kind = "slice" THEN "working" ELSE "checking"

TakeLock(j) ==
    /\ jobLock = NoJob
    /\ jobs[j] # Idle /\ jobs[j].step = "waiting"
    /\ jobLock' = j
    /\ jobs' = [jobs EXCEPT ![j].step = FirstStep(jobs[j].kind)]
    /\ UNCHANGED <<printer, printLocked, sliceVars, startVars, quiet>>

\* the end of a request as it would be without the release of its lock
LeaveLocked(j) == jobs' = [jobs EXCEPT ![j] = Idle] /\ UNCHANGED jobLock

JobReturns(j) == /\ jobs' = [jobs EXCEPT ![j] = Idle]
            /\ jobLock' = IF jobLock = j THEN NoJob ELSE jobLock

\* _require_standby: the printer answers, and the answer is acted on later.
SeesStandby(j) ==
    /\ jobs[j] # Idle /\ jobs[j].step = "checking"
    /\ printer = "standby"
    /\ jobs' = [jobs EXCEPT ![j].step = "observed"]
    /\ quiet' = (quiet \/ jobs[j].kind = "start")
    /\ UNCHANGED <<printer, printLocked, sliceVars, startVars, jobLock>>

\* It was not idle or did not answer, or the slicer failed or was killed.
JobFails(j) ==
    /\ jobs[j] # Idle /\ jobs[j].step # "waiting"
    /\ JobReturns(j)
    /\ UNCHANGED <<printer, printLocked, sliceVars, startVars, quiet>>

IssueIntent(j) ==
    LET job == jobs[j] IN
    /\ job # Idle /\ job.kind = "prepare" /\ job.step = "observed"
    /\ intents' = intents \cup {[token |-> job.token, artifact |-> job.artifact,
                                 tutor |-> job.tutor]}
    /\ usedTokens' = usedTokens \cup {job.token}
    /\ JobReturns(j)
    /\ UNCHANGED <<printer, printLocked, sliceVars, wire, startsSent, quiet>>

SendUpload(j) ==
    /\ jobs[j] # Idle /\ jobs[j].kind = "upload" /\ jobs[j].step = "observed"
    /\ jobs' = [jobs EXCEPT ![j].step = "working"]
    /\ UNCHANGED <<printer, printLocked, sliceVars, startVars, jobLock, quiet>>

SendStart(j) ==
    LET job == jobs[j] IN
    /\ job # Idle /\ job.kind = "start" /\ job.step = "observed"
    /\ wire' = wire \cup {job.token}
    /\ startsSent' = [startsSent EXCEPT ![job.token] = @ + 1]
    /\ quiet' = FALSE
    /\ jobs' = [jobs EXCEPT ![j].step = "working"]
    /\ UNCHANGED <<printer, printLocked, sliceVars, intents, usedTokens, jobLock>>

\* The slice is validated and filed, the upload confirmed, or the start
\* answered; a start whose answer is lost fails, its request still on the wire.
JobEnds(j) ==
    LET job == jobs[j] IN
    /\ job # Idle /\ job.step = "working"
    /\ artifact' = IF job.kind = "start" THEN artifact
                   ELSE [artifact EXCEPT ![job.artifact] =
                            IF job.kind = "slice" THEN "sliced" ELSE "uploaded"]
    /\ job.kind = "start" => job.token \notin wire
    /\ JobReturns(j)
    /\ UNCHANGED <<printer, printLocked, staged, startVars, quiet>>

\* Two minutes have passed.
IntentExpires ==
    /\ \E i \in intents : intents' = intents \ {i}
    /\ UNCHANGED <<printer, printLocked, sliceVars, usedTokens, wire, startsSent, jobs, jobLock,
                   quiet>>

\* A new process knows no artifact, no token and no lock.
PrinterRestart ==
    /\ printLocked' = TRUE
    /\ staged' = FALSE
    /\ artifact' = [a \in Artifacts |-> "none"]
    /\ intents' = {}
    /\ jobs' = [j \in Jobs |-> Idle]
    /\ jobLock' = NoJob
    /\ quiet' = FALSE
    /\ UNCHANGED <<printer, usedTokens, wire, startsSent>>

PrinterNext ==
    \/ UsePanel \/ VerifyIdle \/ StageSource \/ IntentExpires \/ PrinterRestart
    \/ \E t \in Tokens : StartArrives(t) \/ StartIsLost(t) \/ RefuseStart(t)
    \/ \E j \in Jobs : \/ TakeLock(j) \/ SeesStandby(j) \/ IssueIntent(j) \/ SendUpload(j)
                       \/ SendStart(j) \/ JobEnds(j) \/ JobFails(j)
                       \/ \E kind \in {"slice", "upload", "prepare", "start"},
                             a \in Artifacts, tutor \in Tutors, t \in Tokens :
                                Request(j, kind, a, tutor, t)

PrinterSpec == PrinterInit /\ [][PrinterNext]_printerVars

-----------------------------------------------------------------------------
(* The state holds values of its types, and the lock is held by a request  *)
(* that is being handled.                                                  *)
PrinterTypeOK ==
    /\ printer \in {"standby", "printing", "complete"}
    /\ printLocked \in BOOLEAN /\ staged \in BOOLEAN /\ quiet \in BOOLEAN
    /\ artifact \in [Artifacts -> {"none", "sliced", "uploaded"}]
    /\ intents \subseteq Intent
    /\ usedTokens \subseteq Tokens /\ wire \subseteq Tokens
    /\ jobs \in [Jobs -> Job \cup {Idle}]
    /\ jobLock \in {j \in Jobs : jobs[j] # Idle} \cup {NoJob}
    /\ startsSent \in [Tokens -> Nat]

(* A confirmation sends at most one start request, however many requests   *)
(* carry it, at once or after a lost answer; and only the tutor it was     *)
(* issued to, for the artifact it was issued for, can have sent it.        *)
OneStartPerConfirmation ==
    \A t \in Tokens : /\ startsSent[t] <= 1
                      /\ \A i \in intents : i.token = t => startsSent[t] = 0

(* Between any two starts the printer has been seen standing by: a start   *)
(* never relies on a status read before another start was sent, and none   *)
(* is sent while the print found at start-up is protected.                 *)
StartsFollowStandby ==
    [][\A t \in Tokens : startsSent'[t] # startsSent[t] => quiet /\ ~printLocked]_printerVars

-----------------------------------------------------------------------------
(* A token is issued while an intent of it is kept, accepted while a start  *)
(* request that took it has not sent its own start, and spent afterwards.   *)
Offered(t) == \E i \in intents : i.token = t

Carries(j, t) ==
    /\ jobs[j] # Idle
    /\ jobs[j].kind = "start" /\ jobs[j].token = t /\ jobs[j].step # "working"

StateOf(t) ==
    CASE Offered(t) -> "issued"
      [] ~Offered(t) /\ (\E j \in Jobs : Carries(j, t)) -> "accepted"
      [] ~Offered(t) /\ ~(\E j \in Jobs : Carries(j, t)) /\ t \in usedTokens -> "spent"
      [] OTHER -> "unissued"

Confirm == INSTANCE ConfirmedStarts
    WITH confirmation <- [t \in Tokens |-> StateOf(t)], starts <- startsSent, seen <- quiet

(* The service implements its promise, whatever requests were under way     *)
(* when it was made: every step of theirs is one of ConfirmedStarts or      *)
(* changes nothing there, also a restart with starts still on the wire.     *)
PrinterImplementsConfirmations == Confirm!ConfirmSpec
=============================================================================
