---------------------------- MODULE PrinterProofs ----------------------------
(***************************************************************************)
(* What three services beside the commands promise for every instance: the *)
(* printer for every set of artifacts, tutors, tokens and requests handled *)
(* at one time, the recovery of adapters for every set of profiles and of  *)
(* nodes, the media wall for every set of cameras and of identities.       *)
(***************************************************************************)
EXTENDS PrinterJobs, AdapterRecovery, MediaWall, FiniteSetTheorems, TLAPS

Active(j) == jobs[j] # Idle
IsStart(j) == Active(j) /\ jobs[j].kind = "start"
IsPrepare(j) == Active(j) /\ jobs[j].kind = "prepare"

(* A request past its wait holds the operation lock, but for a prepare.     *)
LockHeld ==
  \A j \in Jobs : Active(j) /\ ~IsPrepare(j) /\ jobs[j].step # "waiting" => jobLock = j

(* No request goes on under the protection of the print found at start-up.  *)
Unprotected == \A j \in Jobs : Active(j) => ~printLocked

(* A start acts on an observation made after the last start.                *)
ObservedQuiet == \A j \in Jobs : IsStart(j) /\ jobs[j].step = "observed" => quiet

(* Who a token belongs to: an intent, one start that took it, or a prepare   *)
(* that has not issued it.                                                  *)
OfferedOnce ==
  /\ \A i \in intents : i.token \in usedTokens
  /\ \A i, k \in intents : i.token = k.token => i = k

TakenOnce ==
  /\ \A j \in Jobs : IsStart(j) => jobs[j].token \in usedTokens /\ ~Offered(jobs[j].token)
  /\ \A j, k \in Jobs : IsStart(j) /\ IsStart(k) /\ jobs[j].token = jobs[k].token => j = k

FreshForPrepare ==
  /\ \A j \in Jobs : IsPrepare(j) => jobs[j].token \notin usedTokens
  /\ \A j, k \in Jobs : IsPrepare(j) /\ IsPrepare(k) /\ jobs[j].token = jobs[k].token => j = k

SentOnce ==
  \A t \in Tokens :
    /\ startsSent[t] <= 1
    /\ startsSent[t] # 0 => /\ t \in usedTokens /\ ~Offered(t)
                            /\ \A j \in Jobs : ~Carries(j, t)

TokenInv == OfferedOnce /\ TakenOnce /\ FreshForPrepare /\ SentOnce
TurnInv == LockHeld /\ Unprotected /\ ObservedQuiet
PrinterInv == PrinterTypeOK /\ TurnInv /\ TokenInv

-----------------------------------------------------------------------------
(* The type invariant: what a request writes has its type, and the lock is  *)
(* held by a request that is being handled.                                 *)
LEMMA IdleIsNoJob == Idle \notin Job
<1>1. \A x \in Job : x.kind # "idle" BY DEF Job
<1>2. Idle.kind = "idle" BY DEF Idle
<1> QED BY <1>1, <1>2

LEMMA PrinterTypeInit == PrinterInit => PrinterTypeOK
<1> SUFFICES ASSUME PrinterInit PROVE PrinterTypeOK
  OBVIOUS
<1>1. artifact \in [Artifacts -> {"none", "sliced", "uploaded"}] BY DEF PrinterInit
<1>2. jobs \in [Jobs -> Job \cup {Idle}] BY DEF PrinterInit
<1>3. startsSent \in [Tokens -> Nat] BY DEF PrinterInit
<1> QED BY <1>1, <1>2, <1>3 DEF PrinterInit, PrinterTypeOK

LEMMA PrinterTypeStep == PrinterTypeOK /\ [PrinterNext]_printerVars => PrinterTypeOK'
<1> SUFFICES ASSUME PrinterTypeOK, [PrinterNext]_printerVars PROVE PrinterTypeOK'
  OBVIOUS
<1> USE PrinterAssumption, IdleIsNoJob DEF PrinterTypeOK
<1>1. CASE UsePanel
  BY <1>1 DEF UsePanel, sliceVars, startVars
<1>2. CASE VerifyIdle
  BY <1>2 DEF VerifyIdle, sliceVars, startVars
<1>3. CASE StageSource
  BY <1>3 DEF StageSource, startVars
<1>4. CASE IntentExpires
  BY <1>4 DEF IntentExpires, sliceVars
<1>5. CASE PrinterRestart
  BY <1>5 DEF PrinterRestart
<1>6. ASSUME NEW t \in Tokens, StartArrives(t) PROVE PrinterTypeOK'
  BY <1>6 DEF StartArrives, sliceVars
<1>7. ASSUME NEW t \in Tokens, StartIsLost(t) PROVE PrinterTypeOK'
  BY <1>7 DEF StartIsLost, sliceVars
<1>8. ASSUME NEW t \in Tokens, RefuseStart(t) PROVE PrinterTypeOK'
  BY <1>8 DEF RefuseStart, Consumed, sliceVars
<1>9. ASSUME NEW j \in Jobs, TakeLock(j) PROVE PrinterTypeOK'
  <2>1. jobs[j] \in Job /\ FirstStep(jobs[j].kind) \in {"working", "checking"}
    BY <1>9 DEF TakeLock, FirstStep
  <2>2. [jobs[j] EXCEPT !.step = FirstStep(jobs[j].kind)] \in Job
    BY <2>1 DEF Job
  <2> QED BY <1>9, <2>2 DEF TakeLock, sliceVars, startVars
<1>10. ASSUME NEW j \in Jobs, SeesStandby(j) PROVE PrinterTypeOK'
  <2>1. jobs[j] \in Job /\ [jobs[j] EXCEPT !.step = "observed"] \in Job
    BY <1>10 DEF SeesStandby, Job
  <2> QED BY <1>10, <2>1 DEF SeesStandby, sliceVars, startVars
<1>11. ASSUME NEW j \in Jobs, IssueIntent(j) PROVE PrinterTypeOK'
  <2>1. jobs[j] \in Job BY <1>11 DEF IssueIntent
  <2>2. intents' \subseteq Intent /\ usedTokens' \subseteq Tokens
    BY <1>11, <2>1 DEF IssueIntent, Job, Intent
  <2> QED BY <1>11, <2>2 DEF IssueIntent, JobReturns, sliceVars
<1>12. ASSUME NEW j \in Jobs, SendUpload(j) PROVE PrinterTypeOK'
  <2>1. jobs[j] \in Job /\ [jobs[j] EXCEPT !.step = "working"] \in Job
    BY <1>12 DEF SendUpload, Job
  <2> QED BY <1>12, <2>1 DEF SendUpload, sliceVars, startVars
<1>13. ASSUME NEW j \in Jobs, SendStart(j) PROVE PrinterTypeOK'
  <2>1. /\ jobs[j] \in Job /\ [jobs[j] EXCEPT !.step = "working"] \in Job
        /\ jobs[j].token \in Tokens
    BY <1>13 DEF SendStart, Job
  <2>2. jobs' \in [Jobs -> Job \cup {Idle}] /\ jobLock' \in {k \in Jobs : jobs'[k] # Idle} \cup {NoJob}
    BY <1>13, <2>1 DEF SendStart
  <2>3. wire' \subseteq Tokens /\ startsSent' \in [Tokens -> Nat]
    BY <1>13, <2>1 DEF SendStart
  <2> QED BY <1>13, <2>2, <2>3 DEF SendStart, sliceVars
<1>14. ASSUME NEW j \in Jobs, JobEnds(j) PROVE PrinterTypeOK'
  BY <1>14 DEF JobEnds, JobReturns, startVars
<1>15. ASSUME NEW j \in Jobs, JobFails(j) PROVE PrinterTypeOK'
  BY <1>15 DEF JobFails, JobReturns, sliceVars, startVars
<1>16. ASSUME NEW j \in Jobs, NEW kind \in {"slice", "upload", "prepare", "start"},
              NEW a \in Artifacts, NEW tutor \in Tutors, NEW t \in Tokens,
              Request(j, kind, a, tutor, t)
       PROVE PrinterTypeOK'
  <2>1. [kind |-> kind, artifact |-> a, tutor |-> tutor, token |-> t,
         step |-> IF kind = "prepare" THEN "checking" ELSE "waiting"] \in Job
    BY DEF Job
  <2> QED BY <1>16, <2>1 DEF Request, Consumed, sliceVars
<1>17. CASE UNCHANGED printerVars
  BY <1>17 DEF printerVars
<1> QED
  BY <1>1, <1>2, <1>3, <1>4, <1>5, <1>6, <1>7, <1>8, <1>9, <1>10, <1>11, <1>12, <1>13,
     <1>14, <1>15, <1>16, <1>17 DEF PrinterNext

(* The state of the printer service always has its types.                   *)
THEOREM PrinterTypeCorrect == PrinterSpec => []PrinterTypeOK
<1> QED BY PrinterTypeInit, PrinterTypeStep, PTL DEF PrinterSpec
-----------------------------------------------------------------------------
(* Requests take their turns: the conjuncts about the lock and about what   *)
(* was observed.                                                            *)
LEMMA TurnStep == PrinterTypeOK /\ TurnInv /\ [PrinterNext]_printerVars => TurnInv'
<1> SUFFICES ASSUME PrinterTypeOK, TurnInv, [PrinterNext]_printerVars PROVE TurnInv'
  OBVIOUS
<1> USE PrinterAssumption, IdleIsNoJob
    DEF TurnInv, LockHeld, Unprotected, ObservedQuiet, IsStart, IsPrepare, Active
<1>0. jobs \in [Jobs -> Job \cup {Idle}] BY DEF PrinterTypeOK
<1>1. CASE UNCHANGED <<jobs, jobLock, printLocked, quiet>>
  BY <1>1
<1>2. CASE VerifyIdle
  BY <1>2 DEF VerifyIdle
<1>3. CASE PrinterRestart
  BY <1>3 DEF PrinterRestart
<1>4. ASSUME NEW j \in Jobs, TakeLock(j) PROVE TurnInv'
  BY <1>0, <1>4 DEF TakeLock, FirstStep, Job
<1>5. ASSUME NEW j \in Jobs, SeesStandby(j) PROVE TurnInv'
  BY <1>0, <1>5 DEF SeesStandby, Job
<1>6. ASSUME NEW j \in Jobs, SendUpload(j) PROVE TurnInv'
  BY <1>0, <1>6 DEF SendUpload, Job
<1>7. ASSUME NEW j \in Jobs, SendStart(j) PROVE TurnInv'
  <2>1. ASSUME NEW k \in Jobs, k # j PROVE ~(IsStart(k) /\ jobs[k].step = "observed")
    BY <1>0, <1>7, <2>1 DEF SendStart, Job
  <2> QED BY <1>0, <1>7, <2>1 DEF SendStart, Job
<1>8. ASSUME NEW j \in Jobs, JobReturns(j), UNCHANGED <<printLocked, quiet>> PROVE TurnInv'
  BY <1>0, <1>8 DEF JobReturns
<1>9. ASSUME NEW j \in Jobs, NEW kind \in {"slice", "upload", "prepare", "start"},
             NEW a \in Artifacts, NEW tutor \in Tutors, NEW t \in Tokens,
             Request(j, kind, a, tutor, t)
      PROVE TurnInv'
  BY <1>0, <1>9 DEF Request, Admitted
<1> QED
  <2>1. CASE UsePanel \/ StageSource \/ IntentExpires
    BY <2>1, <1>1 DEF UsePanel, StageSource, IntentExpires
  <2>2. ASSUME NEW t \in Tokens, StartArrives(t) \/ StartIsLost(t) \/ RefuseStart(t)
        PROVE TurnInv'
    BY <2>2, <1>1 DEF StartArrives, StartIsLost, RefuseStart
  <2>3. ASSUME NEW j \in Jobs, IssueIntent(j) \/ JobEnds(j) \/ JobFails(j) PROVE TurnInv'
    BY <2>3, <1>8 DEF IssueIntent, JobEnds, JobFails
  <2>4. CASE UNCHANGED printerVars
    BY <2>4, <1>1 DEF printerVars
  <2> QED BY <2>1, <2>2, <2>3, <2>4, <1>2, <1>3, <1>4, <1>5, <1>6, <1>7, <1>9 DEF PrinterNext
-----------------------------------------------------------------------------
(* What becomes of a token.                                                 *)
LEMMA TokenStep == PrinterTypeOK /\ TokenInv /\ [PrinterNext]_printerVars => TokenInv'
<1> SUFFICES ASSUME PrinterTypeOK, TokenInv, [PrinterNext]_printerVars PROVE TokenInv'
  OBVIOUS
<1> USE IdleIsNoJob
    DEF TokenInv, OfferedOnce, TakenOnce, FreshForPrepare, SentOnce, Offered, Carries,
        IsStart, IsPrepare, Active
<1>0. /\ jobs \in [Jobs -> Job \cup {Idle}] /\ startsSent \in [Tokens -> Nat]
      /\ intents \subseteq Intent
  BY DEF PrinterTypeOK
<1>1. CASE UNCHANGED <<jobs, intents, usedTokens, startsSent>>
  BY <1>1
<1>2. ASSUME intents' \subseteq intents, UNCHANGED <<jobs, usedTokens, startsSent>>
      PROVE TokenInv'
  BY <1>2
<1>3. CASE PrinterRestart
  BY <1>3 DEF PrinterRestart
<1>4. ASSUME NEW j \in Jobs, TakeLock(j) PROVE TokenInv'
  BY <1>0, <1>4 DEF TakeLock, FirstStep, Job, startVars
<1>5. ASSUME NEW j \in Jobs, SeesStandby(j) PROVE TokenInv'
  BY <1>0, <1>5 DEF SeesStandby, Job, startVars
<1>6. ASSUME NEW j \in Jobs, SendUpload(j) PROVE TokenInv'
  BY <1>0, <1>6 DEF SendUpload, Job, startVars
<1>7. ASSUME NEW j \in Jobs, JobReturns(j), UNCHANGED <<intents, usedTokens, startsSent>>
      PROVE TokenInv'
  BY <1>0, <1>7 DEF JobReturns
<1>8. ASSUME NEW j \in Jobs, IssueIntent(j) PROVE TokenInv'
  <2> DEFINE t == jobs[j].token
  <2>1. /\ IsPrepare(j) /\ t \notin usedTokens /\ usedTokens' = usedTokens \cup {t}
        /\ UNCHANGED startsSent
    BY <1>8 DEF IssueIntent
  <2>2. \E i : i.token = t /\ intents' = intents \cup {i}
    BY <1>8 DEF IssueIntent
  <2>3. jobs' = [jobs EXCEPT ![j] = Idle]
    BY <1>8 DEF IssueIntent, JobReturns
  <2>4. OfferedOnce'
    BY <2>1, <2>2
  <2>5. TakenOnce'
    BY <1>0, <2>1, <2>2, <2>3
  <2>6. FreshForPrepare'
    BY <1>0, <2>1, <2>3
  <2>7. SentOnce'
    BY <1>0, <2>1, <2>2, <2>3
  <2> QED BY <2>4, <2>5, <2>6, <2>7
<1>9. ASSUME NEW j \in Jobs, SendStart(j) PROVE TokenInv'
  <2> DEFINE t == jobs[j].token
  <2>1. /\ IsStart(j) /\ jobs[j].step = "observed" /\ Carries(j, t) /\ t \in Tokens
        /\ UNCHANGED <<intents, usedTokens>>
    BY <1>0, <1>9 DEF SendStart, Job
  <2>2. /\ jobs' = [jobs EXCEPT ![j].step = "working"]
        /\ startsSent' = [startsSent EXCEPT ![t] = @ + 1]
    BY <1>9 DEF SendStart
  <2>3. jobs[j] \in Job BY <1>0, <2>1
  <2>4. /\ jobs'[j] # Idle /\ jobs'[j].kind = jobs[j].kind /\ jobs'[j].token = t
        /\ jobs'[j].step = "working" /\ \A k \in Jobs : k # j => jobs'[k] = jobs[k]
    BY <1>0, <2>2, <2>3 DEF Job
  <2>5. OfferedOnce' /\ TakenOnce' /\ FreshForPrepare'
    BY <2>1, <2>4
  <2>6. startsSent[t] = 0 /\ startsSent'[t] = 1 /\ \A u \in Tokens : u # t => startsSent'[u] = startsSent[u]
    BY <1>0, <2>1, <2>2
  <2>7. \A u \in Tokens, k \in Jobs : Carries(k, u)' => Carries(k, u) /\ u # t
    BY <2>1, <2>4
  <2>8. SentOnce'
    BY <2>1, <2>6, <2>7
  <2> QED BY <2>5, <2>8
<1>10. ASSUME NEW j \in Jobs, NEW kind \in {"slice", "upload", "prepare", "start"},
              NEW a \in Artifacts, NEW tutor \in Tutors, NEW t \in Tokens,
              Request(j, kind, a, tutor, t)
       PROVE TokenInv'
  <2>1. /\ jobs[j] = Idle /\ jobs'[j] # Idle /\ jobs'[j].kind = kind /\ jobs'[j].token = t
        /\ \A k \in Jobs : k # j => jobs'[k] = jobs[k]
        /\ UNCHANGED <<usedTokens, startsSent>>
        /\ intents' \subseteq intents
    BY <1>0, <1>10 DEF Request, Consumed, Idle
  <2>2. kind = "start" => /\ \E i \in intents : i.token = t
                          /\ \A i \in intents' : i.token # t
    BY <1>10 DEF Request, Admitted, Consumed
  <2>3. kind = "prepare" => /\ t \notin usedTokens
                            /\ \A k \in Jobs : jobs[k] # Idle => jobs[k].token # t
    BY <1>10 DEF Request, FreshName
  <2>4. OfferedOnce'
    BY <2>1
  <2>5. TakenOnce'
    BY <2>1, <2>2
  <2>6. FreshForPrepare'
    BY <2>1, <2>3
  <2>7. SentOnce'
    BY <1>0, <2>1, <2>2
  <2> QED BY <2>4, <2>5, <2>6, <2>7
<1> QED
  <2>1. CASE UsePanel \/ VerifyIdle \/ StageSource
    BY <2>1, <1>1 DEF UsePanel, VerifyIdle, StageSource, startVars
  <2>2. CASE IntentExpires
    BY <2>2, <1>2 DEF IntentExpires
  <2>3. ASSUME NEW t \in Tokens, StartArrives(t) \/ StartIsLost(t) \/ RefuseStart(t)
        PROVE TokenInv'
    BY <2>3, <1>1, <1>2 DEF StartArrives, StartIsLost, RefuseStart, Consumed
  <2>4. ASSUME NEW j \in Jobs, JobEnds(j) \/ JobFails(j) PROVE TokenInv'
    BY <2>4, <1>7 DEF JobEnds, JobFails, startVars
  <2>5. CASE UNCHANGED printerVars
    BY <2>5, <1>1 DEF printerVars
  <2> QED BY <2>1, <2>2, <2>3, <2>4, <2>5, <1>3, <1>4, <1>5, <1>6, <1>8, <1>9, <1>10
          DEF PrinterNext

-----------------------------------------------------------------------------
LEMMA PrinterInvInit == PrinterInit => PrinterInv
<1> SUFFICES ASSUME PrinterInit PROVE PrinterInv
  OBVIOUS
<1>1. PrinterTypeOK BY PrinterTypeInit
<1>2. \A j \in Jobs : jobs[j] = Idle BY DEF PrinterInit
<1>3. TurnInv
  BY <1>2 DEF TurnInv, LockHeld, Unprotected, ObservedQuiet, IsStart, Active
<1>4. TokenInv
  BY <1>2 DEF PrinterInit, TokenInv, OfferedOnce, TakenOnce, FreshForPrepare, SentOnce, Offered,
              Carries, IsStart, IsPrepare, Active
<1> QED BY <1>1, <1>3, <1>4 DEF PrinterInv

THEOREM PrinterInvariant == PrinterSpec => []PrinterInv
<1>1. PrinterInv /\ [PrinterNext]_printerVars => PrinterInv'
  BY PrinterTypeStep, TurnStep, TokenStep DEF PrinterInv
<1> QED BY <1>1, PrinterInvInit, PTL DEF PrinterSpec

(* A confirmation sends at most one start request, and none while it is     *)
(* still on offer: for any number of tutors, tokens and requests.           *)
THEOREM OneStartCorrect == PrinterSpec => []OneStartPerConfirmation
<1>1. PrinterInv => OneStartPerConfirmation
  <2> SUFFICES ASSUME PrinterInv, NEW t \in Tokens
      PROVE startsSent[t] <= 1 /\ \A i \in intents : i.token = t => startsSent[t] = 0
    BY DEF OneStartPerConfirmation
  <2> QED BY DEF PrinterInv, TokenInv, SentOnce, Offered
<1> QED BY <1>1, PrinterInvariant, PTL

(* Only a start that holds the lock and saw the printer standing by after   *)
(* the last start is sent, and none under the protection of the print found *)
(* at start-up.                                                             *)
LEMMA OnlySendStarts ==
  ASSUME PrinterTypeOK, [PrinterNext]_printerVars
  PROVE  startsSent' = startsSent \/ \E j \in Jobs : SendStart(j)
BY DEF PrinterNext, UsePanel, VerifyIdle, StageSource, IntentExpires, PrinterRestart, StartArrives,
       StartIsLost, RefuseStart, TakeLock, SeesStandby, IssueIntent, SendUpload, JobEnds, JobFails,
       Request, startVars, printerVars

THEOREM StandbyCorrect == PrinterSpec => StartsFollowStandby
<1>1. PrinterInv /\ [PrinterNext]_printerVars
      => [\A t \in Tokens : startsSent'[t] # startsSent[t] => quiet /\ ~printLocked]_printerVars
  <2> SUFFICES ASSUME PrinterInv, [PrinterNext]_printerVars, NEW t \in Tokens,
                      startsSent'[t] # startsSent[t]
               PROVE  quiet /\ ~printLocked
    OBVIOUS
  <2>1. PICK j \in Jobs : SendStart(j)
    BY OnlySendStarts DEF PrinterInv
  <2> QED BY <2>1 DEF SendStart, PrinterInv, TurnInv, Unprotected, ObservedQuiet, IsStart, Active
<1> QED BY <1>1, PrinterInvariant, PTL DEF PrinterSpec, StartsFollowStandby
-----------------------------------------------------------------------------
(* The service implements ConfirmedStarts.                                  *)
Held(t) == \E j \in Jobs : Carries(j, t)

Standing(t) ==
  IF Offered(t) THEN "issued"
  ELSE IF Held(t) THEN "accepted"
  ELSE IF t \in usedTokens THEN "spent" ELSE "unissued"

LEMMA StandingIs ==
  /\ \A t \in Tokens : StateOf(t) = Standing(t)
  /\ (\A t \in Tokens : StateOf(t) = Standing(t))'
<1>1. \A t \in Tokens : StateOf(t) = Standing(t)
  BY DEF StateOf, Standing, Held
<1>2. (\A t \in Tokens : StateOf(t) = Standing(t))'
  BY DEF StateOf, Standing, Held
<1> QED BY <1>1, <1>2

(* What has to be shown of a step, for the standing of each token.          *)
LEMMA SameStanding ==
  ASSUME \A t \in Tokens : Standing(t)' = Standing(t), UNCHANGED <<startsSent, quiet>>
  PROVE  UNCHANGED Confirm!confirmVars
BY StandingIs DEF Confirm!confirmVars

LEMMA OneMoves ==
  ASSUME NEW t \in Tokens, NEW s, Standing(t)' = s,
         \A u \in Tokens : u # t => Standing(u)' = Standing(u)
  PROVE  Confirm!Becomes(t, s)
BY StandingIs DEF Confirm!Becomes

LEMMA ConfirmStart == PrinterInit => Confirm!ConfirmInit
<1> SUFFICES ASSUME PrinterInit PROVE Confirm!ConfirmInit
  OBVIOUS
<1>1. \A t \in Tokens : Standing(t) = "unissued"
  BY DEF PrinterInit, Standing, Offered, Held, Carries
<1> QED BY <1>1, StandingIs DEF PrinterInit, Confirm!ConfirmInit

LEMMA ConfirmStep ==
  ASSUME PrinterInv, [PrinterNext]_printerVars
  PROVE  [Confirm!ConfirmNext]_(Confirm!confirmVars)
<1> DEFINE Steps == Confirm!ConfirmNext \/ UNCHANGED Confirm!confirmVars
<1> SUFFICES Steps
  OBVIOUS
<1> HIDE DEF Steps
<1> USE IdleIsNoJob
<1>0. /\ jobs \in [Jobs -> Job \cup {Idle}] /\ startsSent \in [Tokens -> Nat]
      /\ intents \subseteq Intent /\ TokenInv /\ quiet \in BOOLEAN
  BY DEF PrinterInv, PrinterTypeOK
<1>1. ASSUME UNCHANGED <<jobs, intents, usedTokens, startsSent, quiet>> PROVE Steps
  BY <1>1, SameStanding DEF Steps, Standing, Offered, Held, Carries
<1>2. ASSUME NEW t \in Tokens, Offered(t), intents' \subseteq intents, ~Offered(t)',
             \A i \in intents : i.token # t => i \in intents',
             UNCHANGED <<jobs, usedTokens, startsSent, quiet>>
      PROVE  Steps
  <2>1. Standing(t) = "issued" BY <1>2 DEF Standing
  <2>2. ~Held(t)' /\ t \in usedTokens'
    BY <1>0, <1>2 DEF TokenInv, TakenOnce, OfferedOnce, Offered, Held, Carries, IsStart, Active
  <2>3. Standing(t)' = "spent" BY <1>2, <2>2 DEF Standing
  <2>4. \A u \in Tokens : u # t => Standing(u)' = Standing(u)
    BY <1>2 DEF Standing, Offered, Held, Carries
  <2>5. Confirm!Withdraw(t)
    BY <2>1, <2>3, <2>4, <1>2, OneMoves, StandingIs DEF Confirm!Withdraw
  <2> QED BY <2>5 DEF Steps, Confirm!ConfirmNext
<1>3. CASE PrinterRestart
  <2>1. \A t \in Tokens : ~Offered(t)' /\ ~Held(t)'
    BY <1>3 DEF PrinterRestart, Offered, Held, Carries
  <2>2. \A t \in Tokens : Offered(t) \/ Held(t) => t \in usedTokens
    BY <1>0 DEF TokenInv, OfferedOnce, TakenOnce, Offered, Held, Carries, IsStart, Active
  <2>3. \A t \in Tokens : Standing(t)' = IF Standing(t) = "unissued" THEN "unissued" ELSE "spent"
    BY <1>3, <2>1, <2>2 DEF Standing, PrinterRestart
  <2>4. Confirm!Forget
    BY <1>3, <2>3, StandingIs DEF Confirm!Forget, PrinterRestart
  <2> QED BY <2>4 DEF Steps, Confirm!ConfirmNext
<1>4. ASSUME NEW j \in Jobs, TakeLock(j) \/ SeesStandby(j) \/ SendUpload(j) PROVE Steps
  <2>1. /\ jobs'[j] # Idle /\ jobs'[j].kind = jobs[j].kind /\ jobs'[j].token = jobs[j].token
        /\ jobs[j].kind = "start" => jobs[j].step # "working" /\ jobs'[j].step # "working"
        /\ jobs[j] # Idle /\ \A k \in Jobs : k # j => jobs'[k] = jobs[k]
        /\ UNCHANGED <<intents, usedTokens, startsSent>>
    BY <1>0, <1>4 DEF TakeLock, FirstStep, SeesStandby, SendUpload, startVars, Job
  <2>2. \A t \in Tokens, k \in Jobs : Carries(k, t)' <=> Carries(k, t)
    BY <2>1 DEF Carries
  <2>3. \A t \in Tokens : Standing(t)' = Standing(t)
    BY <2>1, <2>2 DEF Standing, Held, Offered
  <2>4. quiet' = quiet \/ quiet' = TRUE
    BY <1>0, <1>4 DEF TakeLock, SeesStandby, SendUpload
  <2>5. CASE quiet' = quiet
    BY <2>1, <2>3, <2>5, SameStanding DEF Steps
  <2>6. CASE quiet' = TRUE
    BY <2>1, <2>3, <2>6, StandingIs DEF Steps, Confirm!ConfirmNext, Confirm!SeeStandby
  <2> QED BY <2>4, <2>5, <2>6
<1>5. ASSUME NEW j \in Jobs, JobReturns(j), UNCHANGED <<intents, usedTokens, startsSent, quiet>>
      PROVE Steps
  <2>1. jobs' = [jobs EXCEPT ![j] = Idle] BY <1>5 DEF JobReturns
  <2>2. \A t \in Tokens, k \in Jobs : Carries(k, t)' <=> k # j /\ Carries(k, t)
    BY <1>0, <2>1 DEF Carries
  <2>3. CASE \E t \in Tokens : Carries(j, t)
    <3>1. PICK t \in Tokens : Carries(j, t) BY <2>3
    <3>2. ~Offered(t) /\ t \in usedTokens /\ \A k \in Jobs : Carries(k, t) => k = j
      BY <1>0, <3>1 DEF TokenInv, TakenOnce, Carries, IsStart, Active
    <3>3. Standing(t) = "accepted" /\ Standing(t)' = "spent"
      BY <1>5, <2>2, <3>1, <3>2 DEF Standing, Held, Offered
    <3>4. \A u \in Tokens : u # t => ~Carries(j, u)
      BY <3>1 DEF Carries
    <3>5. \A u \in Tokens : u # t => Standing(u)' = Standing(u)
      BY <1>5, <2>2, <3>4 DEF Standing, Held, Offered
    <3>6. Confirm!Withdraw(t)
      BY <1>5, <3>3, <3>5, OneMoves, StandingIs DEF Confirm!Withdraw
    <3> QED BY <3>6 DEF Steps, Confirm!ConfirmNext
  <2>4. CASE ~\E t \in Tokens : Carries(j, t)
    <3>1. \A t \in Tokens : Standing(t)' = Standing(t)
      BY <1>5, <2>2, <2>4 DEF Standing, Held, Offered
    <3> QED BY <1>5, <3>1, SameStanding DEF Steps
  <2> QED BY <2>3, <2>4
<1>6. ASSUME NEW j \in Jobs, IssueIntent(j) PROVE Steps
  <2>0. PICK t \in Tokens : t = jobs[j].token
    BY <1>0, <1>6 DEF IssueIntent, Job
  <2>1. /\ IsPrepare(j) /\ t \in Tokens /\ t \notin usedTokens
        /\ usedTokens' = usedTokens \cup {t} /\ UNCHANGED <<startsSent, quiet>>
    BY <1>0, <1>6, <2>0 DEF IssueIntent, IsPrepare, Active, TokenInv, FreshForPrepare, Job
  <2>2. \E i : i.token = t /\ intents' = intents \cup {i}
    BY <1>6, <2>0 DEF IssueIntent
  <2>3. jobs' = [jobs EXCEPT ![j] = Idle]
    BY <1>6 DEF IssueIntent, JobReturns
  <2>4. \A u \in Tokens, k \in Jobs : Carries(k, u)' <=> Carries(k, u)
    BY <1>0, <2>1, <2>3 DEF Carries, IsPrepare, Active
  <2>5. ~Offered(t) /\ ~Held(t)
    BY <1>0, <2>1 DEF TokenInv, OfferedOnce, TakenOnce, Offered, Held, Carries, IsStart, Active
  <2>6. Standing(t) = "unissued" /\ Standing(t)' = "issued"
    BY <2>1, <2>2, <2>5 DEF Standing, Offered
  <2>7. \A u \in Tokens : u # t => Standing(u)' = Standing(u)
    BY <2>1, <2>2, <2>4 DEF Standing, Offered, Held
  <2>8. Confirm!Issue(t)
    BY <2>1, <2>6, <2>7, OneMoves, StandingIs DEF Confirm!Issue
  <2> QED BY <2>1, <2>8 DEF Steps, Confirm!ConfirmNext
<1>7. ASSUME NEW j \in Jobs, SendStart(j) PROVE Steps
  <2>0. PICK t \in Tokens : t = jobs[j].token
    BY <1>0, <1>7 DEF SendStart, Job
  <2>1. /\ Carries(j, t) /\ t \in Tokens /\ jobs[j] \in Job
        /\ UNCHANGED <<intents, usedTokens>>
    BY <1>0, <1>7, <2>0 DEF SendStart, Job, Carries
  <2>2. /\ jobs' = [jobs EXCEPT ![j].step = "working"]
        /\ startsSent' = [startsSent EXCEPT ![t] = @ + 1] /\ quiet' = FALSE
    BY <1>7, <2>0 DEF SendStart
  <2>3. quiet
    BY <1>7 DEF SendStart, PrinterInv, TurnInv, ObservedQuiet, IsStart, Active
  <2>4. \A u \in Tokens, k \in Jobs : Carries(k, u)' <=> k # j /\ Carries(k, u)
    BY <1>0, <2>1, <2>2 DEF Carries, Job
  <2>5. ~Offered(t) /\ t \in usedTokens /\ \A k \in Jobs : Carries(k, t) => k = j
    BY <1>0, <2>1 DEF TokenInv, TakenOnce, Carries, IsStart, Active
  <2>6. Standing(t) = "accepted" /\ Standing(t)' = "spent"
    BY <2>1, <2>4, <2>5 DEF Standing, Held, Offered
  <2>7. \A u \in Tokens : u # t => ~Carries(j, u)
    BY <2>0 DEF Carries
  <2>8. \A u \in Tokens : u # t => Standing(u)' = Standing(u)
    BY <2>1, <2>4, <2>7 DEF Standing, Held, Offered
  <2>9. Confirm!Send(t)
    BY <2>1, <2>2, <2>3, <2>6, <2>8, OneMoves, StandingIs DEF Confirm!Send
  <2> QED BY <2>1, <2>9 DEF Steps, Confirm!ConfirmNext
<1>8. ASSUME NEW j \in Jobs, NEW kind \in {"slice", "upload", "prepare", "start"},
             NEW a \in Artifacts, NEW tutor \in Tutors, NEW t \in Tokens,
             Request(j, kind, a, tutor, t)
      PROVE Steps
  <2>1. /\ jobs[j] = Idle /\ jobs'[j] # Idle /\ jobs'[j].kind = kind /\ jobs'[j].token = t
        /\ kind = "start" => jobs'[j].step = "waiting"
        /\ \A k \in Jobs : k # j => jobs'[k] = jobs[k]
        /\ UNCHANGED <<usedTokens, startsSent, quiet>>
    BY <1>0, <1>8 DEF Request, Idle
  <2>2. \A u \in Tokens, k \in Jobs :
           Carries(k, u)' <=> Carries(k, u) \/ (k = j /\ kind = "start" /\ u = t)
    BY <2>1 DEF Carries
  <2>3. CASE kind = "start"
    <3>1. intents' = {i \in intents : i.token # t} /\ Offered(t)
      BY <1>8, <2>3 DEF Request, Consumed, Admitted, Offered
    <3>2. Standing(t) = "issued" /\ Standing(t)' = "accepted"
      BY <2>2, <2>3, <3>1 DEF Standing, Held, Offered
    <3>3. \A u \in Tokens : u # t => Standing(u)' = Standing(u)
      BY <2>1, <2>2, <3>1 DEF Standing, Held, Offered
    <3>4. Confirm!Accept(t)
      BY <2>1, <3>2, <3>3, OneMoves, StandingIs DEF Confirm!Accept
    <3> QED BY <3>4 DEF Steps, Confirm!ConfirmNext
  <2>4. CASE kind # "start"
    <3>1. intents' = intents
      BY <1>8, <2>4 DEF Request, Consumed
    <3>2. \A u \in Tokens : Standing(u)' = Standing(u)
      BY <2>1, <2>2, <2>4, <3>1 DEF Standing, Held, Offered
    <3> QED BY <2>1, <3>2, SameStanding DEF Steps
  <2> QED BY <2>3, <2>4
<1>9. CASE IntentExpires
  <2>1. PICK i \in intents : intents' = intents \ {i}
    BY <1>9 DEF IntentExpires
  <2>2. /\ i.token \in Tokens /\ Offered(i.token) /\ ~Offered(i.token)'
        /\ intents' \subseteq intents
        /\ \A k \in intents : k.token # i.token => k \in intents'
    BY <1>0, <2>1 DEF Intent, Offered, TokenInv, OfferedOnce
  <2> QED BY <1>2, <1>9, <2>2 DEF IntentExpires
<1>10. ASSUME NEW t \in Tokens, RefuseStart(t) PROVE Steps
  <2>1. /\ Offered(t) /\ ~Offered(t)' /\ intents' \subseteq intents
        /\ \A k \in intents : k.token # t => k \in intents'
    BY <1>10 DEF RefuseStart, Consumed, Offered
  <2> QED BY <1>2, <1>10, <2>1 DEF RefuseStart
<1> QED
  <2>1. CASE UsePanel \/ VerifyIdle \/ StageSource
    BY <2>1, <1>1 DEF UsePanel, VerifyIdle, StageSource, startVars
  <2>2. ASSUME NEW t \in Tokens, StartArrives(t) \/ StartIsLost(t) PROVE Steps
    BY <2>2, <1>1 DEF StartArrives, StartIsLost
  <2>3. ASSUME NEW j \in Jobs, JobEnds(j) \/ JobFails(j) PROVE Steps
    BY <2>3, <1>5 DEF JobEnds, JobFails, startVars
  <2>4. CASE UNCHANGED printerVars
    BY <2>4, <1>1 DEF printerVars
  <2> QED BY <2>1, <2>2, <2>3, <2>4, <1>3, <1>4, <1>6, <1>7, <1>8, <1>9, <1>10 DEF PrinterNext

(* Every behaviour of the service, whatever its requests do at one time, is *)
(* one of ConfirmedStarts.                                                  *)
THEOREM ConfirmationsCorrect == PrinterSpec => PrinterImplementsConfirmations
<1>1. PrinterInv /\ [PrinterNext]_printerVars => [Confirm!ConfirmNext]_(Confirm!confirmVars)
  BY ConfirmStep
<1> QED
  BY <1>1, ConfirmStart, PrinterInvariant, PTL
     DEF PrinterSpec, PrinterImplementsConfirmations, Confirm!ConfirmSpec

-----------------------------------------------------------------------------
(* The recovery of adapters.  Who launches holds the connection lock, and a  *)
(* profile asked for by name was asked for under the confirmation it needs.  *)
LockHolder ==
  /\ pass.step = "retrying" <=> launchLock = "pass"
  /\ tutorAsk.step = "connecting" <=> launchLock = "tutor"

AskedConfirmed ==
  \A p \in Aircraft : tutorAsk.ask = "connect" /\ p \in tutorAsk.todo => tutorAsk.confirm

RecoveryInv == RecoveryTypeOK /\ LockHolder /\ AskedConfirmed /\ AircraftAreConfirmed

Passes == [step : {"asleep", "swept", "waiting", "retrying"}, todo : SUBSET Profiles,
           failed : SUBSET Profiles, done : SUBSET Profiles]
Requests == [step : {"none", "waiting", "connecting"}, todo : SUBSET Profiles,
             ask : {"connect", "remembered"}, confirm : BOOLEAN]

LEMMA IdleTyped == Asleep \in Passes /\ NoRequest \in Requests
BY DEF Asleep, Passes, NoRequest, Requests

LEMMA RecoveryInitInv == RecoveryInit => RecoveryInv
<1> SUFFICES ASSUME RecoveryInit PROVE RecoveryInv
  OBVIOUS
<1> USE RecoveryAssumption
<1>1. RecoveryTypeOK
  <2>1. pass \in Passes /\ tutorAsk \in Requests BY IdleTyped DEF RecoveryInit
  <2>2. /\ endpoint \in [Endpoints -> {"unknown", "up", "dropped", "stale"}]
        /\ remembered \subseteq Profiles /\ backoff \subseteq Profiles
        /\ streak \in [Profiles -> 0..MaxStreak]
    BY DEF RecoveryInit
  <2>3. /\ launchLock \in {"free", "pass", "tutor"} /\ launching = Nothing
        /\ leaseOver \in BOOLEAN /\ confirmed \in BOOLEAN
    BY DEF RecoveryInit
  <2> QED BY <2>1, <2>2, <2>3 DEF RecoveryTypeOK, Passes, Requests
<1>2. LockHolder BY DEF RecoveryInit, LockHolder, Asleep, NoRequest
<1>3. AskedConfirmed BY DEF RecoveryInit, AskedConfirmed, NoRequest
<1>4. AircraftAreConfirmed BY DEF RecoveryInit, AircraftAreConfirmed
<1> QED BY <1>1, <1>2, <1>3, <1>4 DEF RecoveryInv

LEMMA RecoveryTypes ==
  ASSUME RecoveryInv
  PROVE  /\ endpoint \in [Endpoints -> {"unknown", "up", "dropped", "stale"}]
         /\ remembered \subseteq Profiles /\ backoff \subseteq Profiles
         /\ streak \in [Profiles -> 0..MaxStreak]
         /\ launchLock \in {"free", "pass", "tutor"}
         /\ launching \in Profiles \cup {Nothing}
         /\ launching # Nothing => launchLock # "free"
         /\ pass \in Passes /\ tutorAsk \in Requests
         /\ leaseOver \in BOOLEAN /\ confirmed \in BOOLEAN
         /\ LockHolder /\ AskedConfirmed /\ AircraftAreConfirmed
BY DEF RecoveryInv, RecoveryTypeOK, Passes, Requests

(* The part of the invariant about the launcher and about those who ask, from *)
(* the part about nodes and what is remembered of them.                     *)
NodesOK ==
  /\ endpoint \in [Endpoints -> {"unknown", "up", "dropped", "stale"}]
  /\ remembered \subseteq Profiles /\ backoff \subseteq Profiles
  /\ streak \in [Profiles -> 0..MaxStreak]
  /\ leaseOver \in BOOLEAN

LaunchOK ==
  /\ launchLock \in {"free", "pass", "tutor"} /\ confirmed \in BOOLEAN
  /\ launching \in Profiles \cup {Nothing}
  /\ launching # Nothing => launchLock # "free"
  /\ AircraftAreConfirmed

AsksOK == pass \in Passes /\ tutorAsk \in Requests /\ LockHolder /\ AskedConfirmed

LEMMA RecoveryParts == RecoveryInv <=> NodesOK /\ LaunchOK /\ AsksOK
BY DEF RecoveryInv, RecoveryTypeOK, NodesOK, LaunchOK, AsksOK, Passes, Requests

LEMMA PartsTogether ==
  ASSUME NodesOK', LaunchOK', AsksOK'
  PROVE  RecoveryInv'
BY DEF RecoveryInv, RecoveryTypeOK, NodesOK, LaunchOK, AsksOK, Passes, Requests

LEMMA PartsKept ==
  ASSUME RecoveryInv
  PROVE  /\ UNCHANGED <<endpoint, remembered, retryVars, leaseOver>> => NodesOK'
         /\ UNCHANGED lockVars => LaunchOK'
         /\ UNCHANGED <<launchLock, pass, tutorAsk>> => AsksOK'
<1>1. NodesOK /\ LaunchOK /\ AsksOK BY RecoveryParts
<1>2. UNCHANGED <<endpoint, remembered, retryVars, leaseOver>> => NodesOK'
  BY <1>1 DEF NodesOK, retryVars
<1>3. UNCHANGED lockVars => LaunchOK'
  BY <1>1 DEF LaunchOK, lockVars, AircraftAreConfirmed
<1>4. UNCHANGED <<launchLock, pass, tutorAsk>> => AsksOK'
  BY <1>1 DEF AsksOK, LockHolder, AskedConfirmed
<1> QED BY <1>2, <1>3, <1>4

(* What launching does to the nodes and to the launcher's record.           *)
LEMMA LaunchEffect ==
  ASSUME RecoveryInv, NEW p \in Profiles, NEW confirm \in BOOLEAN, Launch(p, confirm),
         p \in Aircraft => confirm, launchLock # "free",
         UNCHANGED <<remembered, retryVars, leaseOver, launchLock>>
  PROVE  NodesOK' /\ LaunchOK'
<1>1. PICK lost \in SUBSET Up(p) :
        endpoint' = [e \in Endpoints |-> IF e \in lost THEN "dropped" ELSE endpoint[e]]
  BY DEF Launch
<1>2. endpoint' \in [Endpoints -> {"unknown", "up", "dropped", "stale"}]
  BY <1>1, RecoveryTypes
<1>3. NodesOK' BY <1>2, RecoveryTypes DEF NodesOK, retryVars
<1>4. LaunchOK' BY RecoveryTypes DEF LaunchOK, Launch, AircraftAreConfirmed
<1> QED BY <1>3, <1>4

LEMMA RegistersEffect ==
  ASSUME RecoveryInv, NEW p, NEW well \in BOOLEAN, Registers(p, well)
  PROVE  endpoint' \in [Endpoints -> {"unknown", "up", "dropped", "stale"}]
<1>1. PICK back \in SUBSET Owned(p) :
        endpoint' = [e \in Endpoints |-> IF e \in back THEN "up" ELSE endpoint[e]]
  BY DEF Registers
<1> QED BY <1>1, RecoveryTypes

(* With nothing launching, there is no aircraft to confirm.                 *)
LEMMA NoLauncher ==
  ASSUME launching' = Nothing, confirmed' \in BOOLEAN, launchLock' \in {"free", "pass", "tutor"}
  PROVE  LaunchOK'
BY RecoveryAssumption DEF LaunchOK, AircraftAreConfirmed

-----------------------------------------------------------------------------
(* The steps of the maintenance loop.                                       *)
LEMMA MaintenanceInv ==
  ASSUME RecoveryInv, MaintenanceGoesOn \/ PassTakesLock
  PROVE  RecoveryInv'
<1> USE RecoveryAssumption
<1>1. CASE Sweep
  <2>1. NodesOK'
    <3>1. leaseOver' \in BOOLEAN BY <1>1 DEF Sweep, Swept
    <3> QED BY <1>1, <3>1, RecoveryTypes DEF NodesOK, Sweep, retryVars
  <2>2. LaunchOK' BY <1>1, PartsKept DEF Sweep
  <2>3. /\ pass = Asleep /\ UNCHANGED <<launchLock, tutorAsk>>
        /\ pass' \in Passes /\ pass'.step \in {"swept", "waiting"}
    <3>1. CASE pass' = [Asleep EXCEPT !.step = "swept"]
      BY <1>1, <3>1 DEF Sweep, lockVars, Asleep, Passes
    <3>2. CASE pass' = [Asleep EXCEPT !.step = "waiting",
                                      !.todo = (remembered \cap Unattended) \ backoff]
      <4>1. PICK due \in SUBSET Profiles : due = (remembered \cap Unattended) \ backoff
        BY RecoveryTypes
      <4>2. pass' = [step |-> "waiting", todo |-> due, failed |-> {}, done |-> {}]
        BY <3>2, <4>1 DEF Asleep
      <4>3. pass' \in Passes /\ pass'.step = "waiting" BY <4>1, <4>2 DEF Passes
      <4> QED BY <1>1, <4>3 DEF Sweep, lockVars
    <3> QED BY <1>1, <3>1, <3>2 DEF Sweep
  <2>4. AsksOK' BY <2>3, RecoveryTypes DEF AsksOK, LockHolder, AskedConfirmed, Asleep
  <2> QED BY <2>1, <2>2, <2>4, PartsTogether
<1>2. CASE NothingToRetry
  <2>1. NodesOK' /\ LaunchOK' BY <1>2, PartsKept DEF NothingToRetry
  <2>2. AsksOK'
    BY <1>2, RecoveryTypes, IdleTyped
    DEF NothingToRetry, lockVars, AsksOK, LockHolder, AskedConfirmed, Asleep
  <2> QED BY <2>1, <2>2, PartsTogether
<1>3. CASE PassTakesLock
  <2>1. NodesOK' BY <1>3, PartsKept DEF PassTakesLock
  <2>2. LaunchOK'
    BY <1>3, RecoveryTypes DEF PassTakesLock, LaunchOK, AircraftAreConfirmed
  <2>3. pass' \in Passes /\ pass'.step = "retrying"
    BY <1>3, RecoveryTypes DEF PassTakesLock, Passes
  <2>4. AsksOK'
    BY <1>3, <2>3, RecoveryTypes DEF PassTakesLock, AsksOK, LockHolder, AskedConfirmed
  <2> QED BY <2>1, <2>2, <2>4, PartsTogether
<1>4. ASSUME NEW p \in Profiles, PassRetries(p) PROVE RecoveryInv'
  <2>1. /\ pass.step = "retrying" /\ launching = Nothing
        /\ UNCHANGED <<remembered, retryVars, launchLock, tutorAsk, leaseOver>>
    BY <1>4 DEF PassRetries
  <2>2. launchLock = "pass" BY <2>1, RecoveryTypes DEF LockHolder
  <2>3. CASE /\ Choice(p, FALSE) = "launch" /\ Launch(p, FALSE)
             /\ pass' = [pass EXCEPT !.todo = @ \ {p}]
    <3>1. p \notin Aircraft BY <2>3 DEF Choice, Verdict
    <3>2. NodesOK' /\ LaunchOK' BY <2>1, <2>2, <2>3, <3>1, LaunchEffect
    <3>3. pass' \in Passes /\ pass'.step = pass.step BY <2>3, RecoveryTypes DEF Passes
    <3>4. AsksOK' BY <2>1, <3>3, RecoveryTypes DEF AsksOK, LockHolder, AskedConfirmed
    <3> QED BY <3>2, <3>4, PartsTogether
  <2>4. CASE /\ pass' = [pass EXCEPT !.todo = @ \ {p},
                           !.done = IF Choice(p, FALSE) = "already" THEN @ \cup {p} ELSE @,
                           !.failed = IF Choice(p, FALSE) = "skipped" THEN @ \cup {p} ELSE @]
             /\ UNCHANGED <<endpoint, launching, confirmed>>
    <3>1. NodesOK' /\ LaunchOK' BY <2>1, <2>4, PartsKept DEF lockVars
    <3>2. pass' \in Passes /\ pass'.step = pass.step
      <4>1. PICK did \in SUBSET Profiles, bad \in SUBSET Profiles :
              pass' = [pass EXCEPT !.todo = @ \ {p}, !.done = did, !.failed = bad]
        <5>1. pass.done \in SUBSET Profiles /\ pass.failed \in SUBSET Profiles
          BY RecoveryTypes DEF Passes
        <5>2. /\ (IF Choice(p, FALSE) = "already" THEN pass.done \cup {p} ELSE pass.done)
                   \in SUBSET Profiles
              /\ (IF Choice(p, FALSE) = "skipped" THEN pass.failed \cup {p} ELSE pass.failed)
                   \in SUBSET Profiles
          BY <5>1
        <5> QED BY <2>4, <5>2
      <4> QED BY <4>1, RecoveryTypes DEF Passes
    <3>3. AsksOK' BY <2>1, <3>2, RecoveryTypes DEF AsksOK, LockHolder, AskedConfirmed
    <3> QED BY <3>1, <3>3, PartsTogether
  <2> QED BY <1>4, <2>3, <2>4 DEF PassRetries
<1>5. ASSUME NEW well \in BOOLEAN, PassLaunchEnds(well) PROVE RecoveryInv'
  <2>1. /\ launchLock = "pass" /\ launching # Nothing /\ Registers(launching, well)
        /\ launching' = Nothing /\ confirmed' = FALSE
        /\ UNCHANGED <<remembered, retryVars, launchLock, tutorAsk, leaseOver>>
    BY <1>5 DEF PassLaunchEnds
  <2>2. NodesOK' BY <2>1, RegistersEffect, RecoveryTypes DEF NodesOK, retryVars
  <2>3. LaunchOK' BY <2>1, NoLauncher, RecoveryTypes
  <2>4. pass' \in Passes /\ pass'.step = pass.step
    <3>1. launching \in Profiles BY <2>1, RecoveryTypes
    <3>2. CASE pass' = [pass EXCEPT !.done = @ \cup {launching}]
      BY <3>1, <3>2, RecoveryTypes DEF Passes
    <3>3. CASE pass' = [pass EXCEPT !.failed = @ \cup {launching}]
      BY <3>1, <3>3, RecoveryTypes DEF Passes
    <3> QED BY <1>5, <3>2, <3>3 DEF PassLaunchEnds
  <2>5. AsksOK' BY <2>1, <2>4, RecoveryTypes DEF AsksOK, LockHolder, AskedConfirmed
  <2> QED BY <2>2, <2>3, <2>5, PartsTogether
<1>6. CASE PassAborts
  <2>1. /\ launchLock = "pass" /\ launchLock' = "free" /\ launching' = Nothing
        /\ confirmed' = FALSE /\ pass' = Asleep
        /\ UNCHANGED <<endpoint, remembered, retryVars, tutorAsk, leaseOver>>
    BY <1>6 DEF PassAborts
  <2>2. NodesOK' BY <2>1, PartsKept
  <2>3. LaunchOK' BY <2>1, NoLauncher
  <2>4. AsksOK'
    BY <2>1, RecoveryTypes, IdleTyped DEF AsksOK, LockHolder, AskedConfirmed, Asleep
  <2> QED BY <2>2, <2>3, <2>4, PartsTogether
<1>7. CASE PassEnds
  <2>1. /\ pass.step = "retrying" /\ launching = Nothing
        /\ launchLock' = "free" /\ pass' = Asleep
        /\ backoff' = (backoff \ pass.done) \cup pass.failed
        /\ UNCHANGED <<endpoint, remembered, launching, confirmed, tutorAsk, leaseOver>>
    BY <1>7 DEF PassEnds
  <2>2. streak' \in [Profiles -> 0..MaxStreak]
    <3>1. \A n \in 0..MaxStreak : Longer(n) \in 0..MaxStreak BY DEF Longer
    <3>2. \A p \in Profiles :
             (CASE p \in pass.failed -> Longer(streak[p])
                [] p \in pass.done -> 0
                [] OTHER -> streak[p]) \in 0..MaxStreak
      <4> TAKE p \in Profiles
      <4>1. streak[p] \in 0..MaxStreak /\ Longer(streak[p]) \in 0..MaxStreak
        BY <3>1, RecoveryTypes
      <4>2. 0 \in 0..MaxStreak OBVIOUS
      <4> QED
        <5>1. CASE p \in pass.failed /\ p \in pass.done
          BY <4>1, <4>2, <5>1
        <5>2. CASE p \in pass.failed /\ p \notin pass.done BY <4>1, <5>2
        <5>3. CASE p \notin pass.failed /\ p \in pass.done BY <4>2, <5>3
        <5>4. CASE p \notin pass.failed /\ p \notin pass.done BY <4>1, <5>4
        <5> QED BY <5>1, <5>2, <5>3, <5>4
    <3> QED BY <1>7, <3>2 DEF PassEnds
  <2>3. backoff' \subseteq Profiles BY <2>1, RecoveryTypes DEF Passes
  <2>4. NodesOK' BY <2>1, <2>2, <2>3, RecoveryTypes DEF NodesOK
  <2>5. LaunchOK' BY <2>1, NoLauncher, RecoveryTypes
  <2>6. launchLock = "pass" BY <2>1, RecoveryTypes DEF LockHolder
  <2>7. AsksOK'
    BY <2>1, <2>6, RecoveryTypes, IdleTyped DEF AsksOK, LockHolder, AskedConfirmed, Asleep
  <2> QED BY <2>4, <2>5, <2>7, PartsTogether
<1> QED BY <1>1, <1>2, <1>3, <1>4, <1>5, <1>6, <1>7 DEF MaintenanceGoesOn

(* The steps of a tutor's request.                                          *)
LEMMA TutorInv ==
  ASSUME RecoveryInv, TutorGoesOn \/ TutorTakesLock
  PROVE  RecoveryInv'
<1> USE RecoveryAssumption
<1>1. CASE TutorTakesLock
  <2>1. NodesOK' BY <1>1, PartsKept DEF TutorTakesLock
  <2>2. LaunchOK'
    BY <1>1, RecoveryTypes DEF TutorTakesLock, LaunchOK, AircraftAreConfirmed
  <2>3. /\ tutorAsk' \in Requests /\ tutorAsk'.step = "connecting"
        /\ tutorAsk'.todo = tutorAsk.todo /\ tutorAsk'.ask = tutorAsk.ask
        /\ tutorAsk'.confirm = tutorAsk.confirm
    BY <1>1, RecoveryTypes DEF TutorTakesLock, Requests
  <2>4. AsksOK'
    BY <1>1, <2>3, RecoveryTypes DEF TutorTakesLock, AsksOK, LockHolder, AskedConfirmed
  <2> QED BY <2>1, <2>2, <2>4, PartsTogether
<1>2. CASE TutorIsAnswered
  <2>1. NodesOK' BY <1>2, PartsKept DEF TutorIsAnswered
  <2>2. /\ tutorAsk.step = "connecting" /\ launching' = Nothing /\ launchLock' = "free"
        /\ tutorAsk' = NoRequest /\ UNCHANGED <<confirmed, pass>>
    BY <1>2 DEF TutorIsAnswered
  <2>3. LaunchOK' BY <2>2, NoLauncher, RecoveryTypes
  <2>4. launchLock = "tutor" BY <2>2, RecoveryTypes DEF LockHolder
  <2>5. AsksOK'
    BY <2>2, <2>4, RecoveryTypes, IdleTyped DEF AsksOK, LockHolder, AskedConfirmed, NoRequest
  <2> QED BY <2>1, <2>3, <2>5, PartsTogether
<1>3. ASSUME NEW p \in Profiles, TutorConnects(p) PROVE RecoveryInv'
  <2>1. /\ tutorAsk.step = "connecting" /\ launching = Nothing /\ p \in tutorAsk.todo
        /\ tutorAsk' = [tutorAsk EXCEPT !.todo = @ \ {p}]
        /\ UNCHANGED <<remembered, retryVars, launchLock, pass, leaseOver>>
    BY <1>3 DEF TutorConnects
  <2>2. launchLock = "tutor" BY <2>1, RecoveryTypes DEF LockHolder
  <2>3. NodesOK' /\ LaunchOK'
    <3>1. CASE /\ tutorAsk.ask = "connect" \/ Choice(p, tutorAsk.confirm) = "launch"
               /\ Launch(p, tutorAsk.confirm)
      <4>1. tutorAsk.confirm \in BOOLEAN BY RecoveryTypes DEF Requests
      <4>2. p \in Aircraft => tutorAsk.confirm
        <5>1. CASE tutorAsk.ask = "connect"
          BY <2>1, <5>1, RecoveryTypes DEF AskedConfirmed
        <5>2. CASE Choice(p, tutorAsk.confirm) = "launch"
          BY <5>2 DEF Choice, Verdict
        <5> QED BY <3>1, <5>1, <5>2
      <4> QED BY <2>1, <2>2, <3>1, <4>1, <4>2, LaunchEffect
    <3>2. CASE UNCHANGED <<endpoint, launching, confirmed>>
      BY <2>1, <3>2, PartsKept DEF lockVars
    <3> QED BY <1>3, <3>1, <3>2 DEF TutorConnects
  <2>4. /\ tutorAsk' \in Requests /\ tutorAsk'.step = tutorAsk.step
        /\ tutorAsk'.todo \subseteq tutorAsk.todo /\ tutorAsk'.ask = tutorAsk.ask
        /\ tutorAsk'.confirm = tutorAsk.confirm
    BY <2>1, RecoveryTypes DEF Requests
  <2>5. AsksOK' BY <2>1, <2>4, RecoveryTypes DEF AsksOK, LockHolder, AskedConfirmed
  <2> QED BY <2>3, <2>5, PartsTogether
<1>4. ASSUME NEW well \in BOOLEAN, TutorLaunchEnds(well) PROVE RecoveryInv'
  <2>1. /\ launching # Nothing /\ Registers(launching, well)
        /\ remembered' = IF well /\ tutorAsk.ask = "connect" THEN remembered \cup {launching}
                         ELSE remembered
        /\ launching' = Nothing /\ confirmed' = FALSE
        /\ UNCHANGED <<retryVars, launchLock, pass, tutorAsk, leaseOver>>
    BY <1>4 DEF TutorLaunchEnds
  <2>2. remembered' \subseteq Profiles BY <2>1, RecoveryTypes
  <2>3. NodesOK' BY <2>1, <2>2, RegistersEffect, RecoveryTypes DEF NodesOK, retryVars
  <2>4. LaunchOK' BY <2>1, NoLauncher, RecoveryTypes
  <2>5. AsksOK' BY <2>1, PartsKept
  <2> QED BY <2>3, <2>4, <2>5, PartsTogether
<1> QED BY <1>1, <1>2, <1>3, <1>4 DEF TutorGoesOn

(* The requests themselves, the nodes, and a restart of the service.        *)
LEMMA AsksInv ==
  ASSUME RecoveryInv, NEW confirm \in BOOLEAN,
         AskRemembered(confirm) \/ \E p \in Profiles : AskConnect(p, confirm)
  PROVE  RecoveryInv'
<1> USE RecoveryAssumption
<1>1. CASE AskRemembered(confirm)
  <2>1. /\ tutorAsk = NoRequest /\ remembered' = remembered \cup FromHistory
        /\ tutorAsk' = [step |-> "waiting", todo |-> remembered', ask |-> "remembered",
                        confirm |-> confirm]
        /\ UNCHANGED <<endpoint, retryVars, lockVars, pass, leaseOver>>
    BY <1>1 DEF AskRemembered
  <2>2. remembered' \in SUBSET Profiles BY <2>1, RecoveryTypes DEF FromHistory
  <2>3. NodesOK' BY <2>1, <2>2, RecoveryTypes DEF NodesOK, retryVars
  <2>4. LaunchOK' BY <2>1, PartsKept
  <2>5. tutorAsk' \in Requests BY <2>1, <2>2 DEF Requests
  <2>6. AsksOK'
    BY <2>1, <2>5, RecoveryTypes DEF lockVars, AsksOK, LockHolder, AskedConfirmed, NoRequest
  <2> QED BY <2>3, <2>4, <2>6, PartsTogether
<1>2. ASSUME NEW p \in Profiles, AskConnect(p, confirm) PROVE RecoveryInv'
  <2>1. /\ tutorAsk = NoRequest
        /\ p \in Aircraft => confirm
        /\ tutorAsk' = [step |-> "waiting", todo |-> {p}, ask |-> "connect",
                        confirm |-> confirm]
        /\ UNCHANGED <<endpoint, remembered, retryVars, lockVars, pass, leaseOver>>
    BY <1>2 DEF AskConnect
  <2>2. NodesOK' /\ LaunchOK' BY <2>1, PartsKept
  <2>3. tutorAsk' \in Requests BY <2>1 DEF Requests
  <2>4. /\ tutorAsk'.step = "waiting" /\ tutorAsk'.confirm = confirm
        /\ tutorAsk'.todo = {p}
    BY <2>1
  <2>5. LockHolder' BY <2>1, <2>4, RecoveryTypes DEF lockVars, LockHolder, NoRequest
  <2>6. AskedConfirmed' BY <2>1, <2>4 DEF AskedConfirmed
  <2>7. AsksOK' BY <2>1, <2>3, <2>5, <2>6, RecoveryTypes DEF AsksOK
  <2> QED BY <2>2, <2>7, PartsTogether
<1> QED BY <1>1, <1>2

LEMMA NodesInv ==
  ASSUME RecoveryInv, NEW e \in Endpoints, EndpointChanges(e) \/ EndpointReturns(e)
  PROVE  RecoveryInv'
<1>1. UNCHANGED <<remembered, retryVars, lockVars, pass, tutorAsk>>
  BY DEF EndpointChanges, EndpointReturns
<1>2. leaseOver' \in BOOLEAN BY RecoveryTypes DEF EndpointChanges, EndpointReturns
<1>3. endpoint' \in [Endpoints -> {"unknown", "up", "dropped", "stale"}]
  <2>1. CASE EndpointChanges(e)
    <3>1. (CASE endpoint[e] = "up" -> "dropped"
             [] endpoint[e] = "dropped" -> "stale"
             [] OTHER -> "up") \in {"unknown", "up", "dropped", "stale"}
      <4>1. CASE endpoint[e] = "up" BY <4>1
      <4>2. CASE endpoint[e] = "dropped" BY <4>2
      <4>3. CASE endpoint[e] \notin {"up", "dropped"} BY <4>3
      <4> QED BY <4>1, <4>2, <4>3
    <3> QED BY <2>1, <3>1, RecoveryTypes DEF EndpointChanges
  <2>2. CASE EndpointReturns(e) BY <2>2, RecoveryTypes DEF EndpointReturns
  <2> QED BY <2>1, <2>2
<1>4. NodesOK' BY <1>1, <1>2, <1>3, RecoveryTypes DEF NodesOK, retryVars
<1>5. LaunchOK' /\ AsksOK' BY <1>1, PartsKept DEF lockVars
<1> QED BY <1>4, <1>5, PartsTogether

LEMMA RestartInv ==
  ASSUME RecoveryInv, ServiceRestart
  PROVE  RecoveryInv'
<1>1. /\ endpoint' = [e \in Endpoints |-> IF endpoint[e] = "up" THEN "dropped" ELSE endpoint[e]]
      /\ streak' = [p \in Profiles |-> 0] /\ backoff' = {}
      /\ launchLock' = "free" /\ launching' = Nothing /\ confirmed' = FALSE
      /\ pass' = Asleep /\ tutorAsk' = NoRequest
      /\ UNCHANGED <<remembered, leaseOver>>
  BY DEF ServiceRestart
<1>2. NodesOK' BY <1>1, RecoveryTypes, RecoveryAssumption DEF NodesOK
<1>3. LaunchOK' BY <1>1, NoLauncher
<1>4. AsksOK'
  BY <1>1, IdleTyped DEF AsksOK, LockHolder, AskedConfirmed, Asleep, NoRequest
<1> QED BY <1>2, <1>3, <1>4, PartsTogether

LEMMA RecoveryStep == RecoveryInv /\ [RecoveryNext]_recoveryVars => RecoveryInv'
<1> SUFFICES ASSUME RecoveryInv, [RecoveryNext]_recoveryVars PROVE RecoveryInv'
  OBVIOUS
<1>1. CASE MaintenanceGoesOn \/ PassTakesLock BY <1>1, MaintenanceInv
<1>2. CASE TutorGoesOn \/ TutorTakesLock BY <1>2, TutorInv
<1>3. CASE ServiceRestart BY <1>3, RestartInv
<1>4. ASSUME NEW e \in Endpoints, EndpointChanges(e) \/ EndpointReturns(e)
      PROVE  RecoveryInv'
  BY <1>4, NodesInv
<1>5. ASSUME NEW p \in Profiles, BackoffEnds(p) PROVE RecoveryInv'
  <2>1. /\ backoff' = backoff \ {p}
        /\ UNCHANGED <<endpoint, remembered, streak, lockVars, pass, tutorAsk, leaseOver>>
    BY <1>5 DEF BackoffEnds
  <2>2. NodesOK' BY <2>1, RecoveryTypes DEF NodesOK
  <2>3. LaunchOK' /\ AsksOK' BY <2>1, PartsKept DEF lockVars
  <2> QED BY <2>2, <2>3, PartsTogether
<1>6. ASSUME NEW confirm \in BOOLEAN,
             AskRemembered(confirm) \/ \E p \in Profiles : AskConnect(p, confirm)
      PROVE  RecoveryInv'
  BY <1>6, AsksInv
<1>7. CASE UNCHANGED recoveryVars
  <2>1. /\ UNCHANGED <<endpoint, remembered, retryVars, leaseOver>>
        /\ UNCHANGED lockVars /\ UNCHANGED <<launchLock, pass, tutorAsk>>
    BY <1>7 DEF recoveryVars, retryVars, lockVars
  <2> QED BY <2>1, PartsKept, PartsTogether
<1> QED BY <1>1, <1>2, <1>3, <1>4, <1>5, <1>6, <1>7 DEF RecoveryNext

(* For every set of profiles and of nodes: an aircraft's launcher runs only  *)
(* under the confirmation of the request that launched it.                  *)
THEOREM RecoverySafety == RecoverySpec => [](RecoveryTypeOK /\ AircraftAreConfirmed)
<1>1. RecoveryInv => RecoveryTypeOK /\ AircraftAreConfirmed BY DEF RecoveryInv
<1> QED BY <1>1, RecoveryInitInv, RecoveryStep, PTL DEF RecoverySpec

(* A profile that needs reconnecting has a node that is not up.             *)
LEMMA SomeNodeIsDown ==
  ASSUME NEW p \in Profiles, NeedsReconnect(p)
  PROVE  \E e \in Owned(p) : endpoint[e] # "up"
<1>1. CASE Up(p) = {} BY <1>1, RecoveryAssumption DEF Up, Owned
<1>2. CASE \E e \in Owned(p) : endpoint[e] = "dropped" BY <1>2
<1> QED BY <1>1, <1>2 DEF NeedsReconnect

LEMMA RetryFindsNodeDown ==
  ASSUME RecoveryInv, [RecoveryNext]_recoveryVars, NEW p \in Profiles,
         launching = Nothing, launching' = p, launchLock = "pass" \/ tutorAsk.ask = "remembered"
  PROVE  \E e \in Owned(p) : endpoint[e] # "up"
<1> USE RecoveryAssumption
<1>1. launching' # launching /\ launching' # Nothing OBVIOUS
<1>2. ASSUME NEW q \in Profiles, PassRetries(q) PROVE \E e \in Owned(p) : endpoint[e] # "up"
  <2>1. Choice(q, FALSE) = "launch" /\ Launch(q, FALSE) BY <1>1, <1>2 DEF PassRetries
  <2>2. q = p BY <2>1 DEF Launch
  <2>3. NeedsReconnect(p) BY <2>1, <2>2 DEF Choice, Verdict
  <2> QED BY <2>3, SomeNodeIsDown
<1>3. ASSUME NEW q \in Profiles, TutorConnects(q) PROVE \E e \in Owned(p) : endpoint[e] # "up"
  <2>1. /\ tutorAsk.step = "connecting"
        /\ tutorAsk.ask = "connect" \/ Choice(q, tutorAsk.confirm) = "launch"
        /\ Launch(q, tutorAsk.confirm)
    BY <1>1, <1>3 DEF TutorConnects
  <2>2. tutorAsk.ask = "remembered" BY <2>1, RecoveryTypes DEF LockHolder
  <2>3. q = p BY <2>1 DEF Launch
  <2>4. NeedsReconnect(p) BY <2>1, <2>2, <2>3 DEF Choice, Verdict
  <2> QED BY <2>4, SomeNodeIsDown
<1>4. ~(PassTakesLock \/ TutorTakesLock \/ ServiceRestart)
  BY <1>1 DEF PassTakesLock, TutorTakesLock, ServiceRestart
<1>5. ~(Sweep \/ NothingToRetry \/ PassAborts \/ PassEnds)
  BY <1>1 DEF Sweep, NothingToRetry, PassAborts, PassEnds, lockVars
<1>6. \A well \in BOOLEAN : ~PassLaunchEnds(well) /\ ~TutorLaunchEnds(well)
  BY <1>1 DEF PassLaunchEnds, TutorLaunchEnds
<1>7. ~TutorIsAnswered BY <1>1 DEF TutorIsAnswered
<1>8. /\ \A e \in Endpoints : ~EndpointChanges(e) /\ ~EndpointReturns(e)
      /\ \A q \in Profiles : ~BackoffEnds(q)
      /\ \A confirm \in BOOLEAN : ~AskRemembered(confirm)
      /\ \A confirm \in BOOLEAN : \A q \in Profiles : ~AskConnect(q, confirm)
  BY <1>1 DEF EndpointChanges, EndpointReturns, BackoffEnds, AskRemembered, AskConnect, lockVars
<1>9. ~UNCHANGED recoveryVars BY <1>1 DEF recoveryVars
<1> QED
  BY <1>2, <1>3, <1>4, <1>5, <1>6, <1>7, <1>8, <1>9
  DEF RecoveryNext, MaintenanceGoesOn, TutorGoesOn

(* And nothing but a tutor who asks for it by name launches an adapter whose *)
(* nodes all work.                                                          *)
THEOREM WorkingAdaptersAreLeftHolds == RecoverySpec => WorkingAdaptersAreLeft
<1> DEFINE Left ==
      \A p \in Profiles :
         launching = Nothing /\ launching' = p /\ (launchLock = "pass" \/ tutorAsk.ask = "remembered")
            => \E e \in Owned(p) : endpoint[e] # "up"
<1>1. RecoveryInv /\ [RecoveryNext]_recoveryVars => [Left]_recoveryVars
  BY RetryFindsNodeDown
<1>2. RecoverySpec => []RecoveryInv
  BY RecoveryInitInv, RecoveryStep, PTL DEF RecoverySpec
<1>3. RecoverySpec => [][Left]_recoveryVars
  BY <1>1, <1>2, PTL DEF RecoverySpec
<1> QED BY <1>3 DEF WorkingAdaptersAreLeft

-----------------------------------------------------------------------------
(* The media wall.  The registry and the publishers' tasks are typed apart,  *)
(* so that what a call does to the registry is proved once for every caller. *)
Walls == [Cameras -> [owner : Publishers \cup {"nobody"}, life : Nat,
                      seq : 0..MaxFrames, analysis : Shots]]

(* The registry's part of the invariant: no life of a source is ahead of the *)
(* registrations counted.                                                   *)
WallOK ==
  /\ wall \in Walls /\ lives \in [Cameras -> Nat]
  /\ Cardinality(Present) <= MediaLimit
  /\ \A c \in Cameras : wall[c].life <= lives[c]
  /\ AnalysisIsOfFrame

Task == [at : {"off", "rest", "register", "picture", "publish", "remove"},
         ident : Publishers \cup {"nobody"}, registered : BOOLEAN, started : BOOLEAN,
         read : BOOLEAN, behind : BOOLEAN]
Tasks == [Cameras -> Task]

(* The publishers' part: one that runs has the identity it was launched with. *)
TasksOK ==
  /\ publisher \in Tasks
  /\ \A c \in Cameras : publisher[c].at # "off" => publisher[c].ident \in Publishers
  /\ cutCalls \in [Cameras -> SUBSET ({"register", "publish"} \X Publishers)]
  /\ cut \subseteq Cameras
  /\ mediaFaults \in 0..MaxMediaFaults

PumpOK == pump \in [Robots -> [on : BOOLEAN, fresh : BOOLEAN, debt : 0..MaxDebt]]

EyesOK == detection \in [Cameras -> Shots] /\ lesson \in BOOLEAN

Here(c) == IF c \in Present THEN 1 ELSE 0
Leaving(c) == IF publisher[c].at = "remove" THEN 1 ELSE 0

(* A registration needs a fault that took the one before off the wall, and a *)
(* publisher on its way out is one that a fault has stopped.                 *)
LivesCounted(c) == lives[c] + Leaving(c) <= mediaFaults + Here(c)

(* The publisher that will take its source off the wall when it ends.        *)
Answers(c) ==
  publisher[c].registered /\ publisher[c].at # "off" /\ publisher[c].ident = wall[c].owner

(* A source nobody answers for, and one a call on its way may yet bring back. *)
Excused(c) ==
  /\ c \in Present /\ ~Answers(c) => c \in cut
  /\ \A i \in Publishers : <<"register", i>> \in cutCalls[c] => c \in cut

Tidy == \A c \in Cameras : LivesCounted(c) /\ Excused(c)

MediaInv == WallOK /\ TasksOK /\ PumpOK /\ EyesOK /\ Tidy

LEMMA MediaInvImplies == MediaInv => MediaTypeOK /\ AnalysisIsOfFrame /\ LeftOnlyIfCut
<1> SUFFICES ASSUME MediaInv PROVE MediaTypeOK /\ AnalysisIsOfFrame /\ LeftOnlyIfCut
  OBVIOUS
<1>1. MediaTypeOK
  BY DEF MediaInv, WallOK, Walls, Task, Tasks, TasksOK, PumpOK, EyesOK, MediaTypeOK
<1>2. LeftOnlyIfCut
  BY DEF MediaInv, Tidy, Excused, Answers, LeftOnlyIfCut, Present
<1> QED BY <1>1, <1>2 DEF MediaInv, WallOK

LEMMA NoShotIsShot == NoShot \in Shots
BY MediaAssumption DEF NoShot, Shots

LEMMA MediaInitInv == MediaInit => MediaInv
<1> SUFFICES ASSUME MediaInit PROVE MediaInv
  OBVIOUS
<1> USE MediaAssumption
<1>1. Present = {} BY DEF MediaInit, Present
<1>2. WallOK
  <2>1. NoSource \in [owner : Publishers \cup {"nobody"}, life : Nat,
                      seq : 0..MaxFrames, analysis : Shots]
    BY NoShotIsShot DEF NoSource
  <2>2. wall \in Walls /\ lives \in [Cameras -> Nat] BY <2>1 DEF MediaInit, Walls
  <2>3. Cardinality(Present) <= MediaLimit BY <1>1, FS_EmptySet
  <2>4. AnalysisIsOfFrame BY <1>1 DEF AnalysisIsOfFrame
  <2>5. \A c \in Cameras : wall[c].life <= lives[c] BY DEF MediaInit, NoSource
  <2> QED BY <2>2, <2>3, <2>4, <2>5 DEF WallOK
<1>3. TasksOK BY DEF MediaInit, Task, Tasks, TasksOK, Off
<1>4. PumpOK BY DEF MediaInit, PumpOK, NoPump
<1>5. EyesOK BY NoShotIsShot DEF MediaInit, EyesOK
<1>6. Tidy
  BY <1>1 DEF MediaInit, Tidy, LivesCounted, Excused, Answers, Here, Leaving, Off
<1> QED BY <1>2, <1>3, <1>4, <1>5, <1>6 DEF MediaInv

-----------------------------------------------------------------------------
(* What each call does to the registry.                                     *)
OnlyWall(c) ==
  \A d \in Cameras \ {c} : wall'[d] = wall[d] /\ lives'[d] = lives[d]

LEMMA PresentFinite == IsFiniteSet(Present) /\ Cardinality(Present) \in Nat
BY MediaAssumption, FS_Subset, FS_CardinalityType DEF Present

(* A registration the runtime does not refuse: it keeps a source that is     *)
(* there, and starts a new life of one that is not.                          *)
LEMMA RegisterEffect ==
  ASSUME WallOK, NEW c \in Cameras, NEW i \in Publishers,
         ~RegisterRefused(c, i), Registered(c, i)
  PROVE  /\ WallOK' /\ OnlyWall(c)
         /\ c \in Present' /\ wall'[c].owner = i
         /\ lives'[c] = lives[c] + 1 - Here(c)
<1> USE MediaAssumption
<1>1. CASE c \in Present
  <2>1. UNCHANGED wallVars BY <1>1 DEF Registered
  <2>2. wall[c].owner = i BY <1>1 DEF RegisterRefused
  <2>3. Present' = Present BY <2>1 DEF wallVars, Present
  <2>4. WallOK' BY <2>1, <2>3 DEF WallOK, wallVars, AnalysisIsOfFrame, Shot
  <2>5. lives'[c] = lives[c] /\ lives[c] \in Nat BY <2>1 DEF wallVars, WallOK
  <2> QED BY <1>1, <2>1, <2>2, <2>3, <2>4, <2>5 DEF OnlyWall, wallVars, Here
<1>2. CASE c \notin Present
  <2> DEFINE new == [owner |-> i, life |-> lives[c] + 1, seq |-> 0, analysis |-> NoShot]
  <2>1. /\ wall' = [wall EXCEPT ![c] = new]
        /\ lives' = [lives EXCEPT ![c] = @ + 1]
    BY <1>2 DEF Registered
  <2>2. wall \in Walls /\ lives \in [Cameras -> Nat] BY DEF WallOK
  <2>3. /\ new \in [owner : Publishers \cup {"nobody"}, life : Nat,
                    seq : 0..MaxFrames, analysis : Shots]
        /\ new # NoSource
    BY <2>2, NoShotIsShot DEF NoSource
  <2>4. /\ wall'[c] = new /\ lives'[c] = lives[c] + 1
        /\ OnlyWall(c)
        /\ wall' \in Walls /\ lives' \in [Cameras -> Nat]
    BY <2>1, <2>2, <2>3 DEF Walls, OnlyWall
  <2>5. new.life = lives[c] + 1 /\ new.analysis = NoShot /\ new.owner = i
    OBVIOUS
  <2> HIDE DEF new
  <2>6. Present' = Present \cup {c}
    BY <2>3, <2>4 DEF Present, OnlyWall
  <2>7. Cardinality(Present') <= MediaLimit
    <3>1. Cardinality(Present) < MediaLimit
      BY <1>2, PresentFinite DEF RegisterRefused
    <3>2. Cardinality(Present') = Cardinality(Present) + 1
      BY <1>2, <2>6, PresentFinite, FS_AddElement
    <3> QED BY <3>1, <3>2, PresentFinite
  <2>8. \A d \in Cameras : wall'[d].life <= lives'[d]
    <3> TAKE d \in Cameras
    <3>1. CASE d = c
      <4>1. lives[c] + 1 \in Nat BY <2>2
      <4> QED BY <3>1, <4>1, <2>4, <2>5
    <3>2. CASE d # c BY <3>2, <2>4 DEF OnlyWall, WallOK
    <3> QED BY <3>1, <3>2
  <2>9. AnalysisIsOfFrame'
    <3> SUFFICES ASSUME NEW d \in Present'
                 PROVE  LET a == wall'[d].analysis IN
                        a # NoShot /\ a.life = wall'[d].life => a = Shot(d)'
      BY DEF AnalysisIsOfFrame
    <3>1. CASE d = c BY <3>1, <2>4, <2>5
    <3>2. CASE d # c
      <4>1. d \in Present /\ d \in Cameras BY <3>2, <2>6 DEF Present
      <4>2. wall'[d] = wall[d] BY <3>2, <4>1, <2>4 DEF OnlyWall
      <4> QED BY <4>1, <4>2 DEF WallOK, AnalysisIsOfFrame, Shot
    <3> QED BY <3>1, <3>2
  <2>10. WallOK' BY <2>4, <2>7, <2>8, <2>9 DEF WallOK, Walls
  <2>11. lives'[c] = lives[c] + 1 - Here(c) BY <1>2, <2>2, <2>4 DEF Here
  <2> QED BY <2>4, <2>5, <2>6, <2>10, <2>11
<1> QED BY <1>1, <1>2

(* A frame of a source that is there.                                       *)
LEMMA PublishEffect ==
  ASSUME WallOK, NEW c \in Cameras, c \in Present, Published(c)
  PROVE  /\ WallOK' /\ OnlyWall(c) /\ Present' = Present /\ lives' = lives
         /\ wall'[c].owner = wall[c].owner
<1> USE MediaAssumption
<1>1. /\ wall' = [wall EXCEPT ![c].seq = @ + 1, ![c].analysis = NoShot]
      /\ lives' = lives /\ wall[c].seq < MaxFrames
  BY DEF Published
<1>2. wall \in Walls /\ lives \in [Cameras -> Nat] BY DEF WallOK
<1>3. wall[c] \in [owner : Publishers \cup {"nobody"}, life : Nat,
                   seq : 0..MaxFrames, analysis : Shots]
  BY <1>2 DEF Walls
<1>4. /\ wall'[c].owner = wall[c].owner /\ wall'[c].life = wall[c].life
      /\ wall'[c].seq = wall[c].seq + 1 /\ wall'[c].analysis = NoShot
      /\ OnlyWall(c)
  BY <1>1, <1>2 DEF Walls, OnlyWall
<1>5. wall' \in Walls
  <2>1. wall[c].seq + 1 \in 0..MaxFrames BY <1>1, <1>3
  <2> QED BY <1>1, <1>2, <1>3, <2>1, NoShotIsShot DEF Walls
<1>6. wall'[c] # NoSource
  <2>1. wall[c].seq + 1 # 0 BY <1>3
  <2>2. NoSource.seq = 0 BY DEF NoSource
  <2> QED BY <1>4, <2>1, <2>2
<1>7. Present' = Present BY <1>4, <1>6 DEF Present, OnlyWall
<1>8. \A d \in Cameras : wall'[d].life <= lives'[d]
  <2> TAKE d \in Cameras
  <2>1. CASE d = c BY <2>1, <1>1, <1>4 DEF WallOK
  <2>2. CASE d # c BY <2>2, <1>1, <1>4 DEF WallOK, OnlyWall
  <2> QED BY <2>1, <2>2
<1>9. AnalysisIsOfFrame'
  <2> SUFFICES ASSUME NEW d \in Present'
               PROVE  LET a == wall'[d].analysis IN
                      a # NoShot /\ a.life = wall'[d].life => a = Shot(d)'
    BY DEF AnalysisIsOfFrame
  <2>1. CASE d = c BY <2>1, <1>4
  <2>2. CASE d # c
    <3>1. d \in Present /\ d \in Cameras BY <1>7 DEF Present
    <3>2. wall'[d] = wall[d] BY <2>2, <3>1, <1>4 DEF OnlyWall
    <3> QED BY <3>1, <3>2 DEF WallOK, AnalysisIsOfFrame, Shot
  <2> QED BY <2>1, <2>2
<1>10. WallOK' BY <1>1, <1>2, <1>5, <1>7, <1>8, <1>9 DEF WallOK
<1> QED BY <1>1, <1>4, <1>7, <1>10

(* Any part of the registry taken down, as a removal or a restart does.      *)
LEMMA TakenDownEffect ==
  ASSUME WallOK, lives' = lives, NEW Gone \in SUBSET Cameras,
         wall' = [d \in Cameras |-> IF d \in Gone THEN NoSource ELSE wall[d]]
  PROVE  WallOK' /\ Present' = Present \ Gone
<1> USE MediaAssumption
<1>1. wall \in Walls /\ lives \in [Cameras -> Nat] BY DEF WallOK
<1>2. NoSource \in [owner : Publishers \cup {"nobody"}, life : Nat,
                    seq : 0..MaxFrames, analysis : Shots]
  BY NoShotIsShot DEF NoSource
<1>3. wall' \in Walls BY <1>1, <1>2 DEF Walls
<1>4. Present' = Present \ Gone BY DEF Present
<1>5. Cardinality(Present') <= MediaLimit
  <2>1. Cardinality(Present') <= Cardinality(Present)
    BY <1>4, PresentFinite, FS_Subset
  <2>2. Cardinality(Present') \in Nat
    BY <1>4, PresentFinite, FS_Subset, FS_CardinalityType
  <2> QED BY <2>1, <2>2, PresentFinite DEF WallOK
<1>6. \A d \in Cameras : wall'[d].life <= lives'[d]
  BY <1>1 DEF WallOK, NoSource
<1>7. AnalysisIsOfFrame'
  <2> SUFFICES ASSUME NEW d \in Present'
               PROVE  LET a == wall'[d].analysis IN
                      a # NoShot /\ a.life = wall'[d].life => a = Shot(d)'
    BY DEF AnalysisIsOfFrame
  <2>1. d \in Present /\ d \in Cameras /\ d \notin Gone BY <1>4 DEF Present
  <2>2. wall'[d] = wall[d] BY <2>1
  <2> QED BY <2>1, <2>2 DEF WallOK, AnalysisIsOfFrame, Shot
<1>8. WallOK' BY <1>1, <1>3, <1>5, <1>6, <1>7 DEF WallOK
<1> QED BY <1>4, <1>8

LEMMA RemoveEffect ==
  ASSUME WallOK, NEW c \in Cameras, Removed(c)
  PROVE  WallOK' /\ OnlyWall(c) /\ c \notin Present' /\ lives' = lives
<1>1. lives' = lives /\ wall' = [wall EXCEPT ![c] = NoSource] BY DEF Removed
<1>2. wall' = [d \in Cameras |-> IF d \in {c} THEN NoSource ELSE wall[d]]
  BY <1>1 DEF WallOK, Walls
<1>3. WallOK' /\ Present' = Present \ {c} BY <1>1, <1>2, TakenDownEffect
<1>4. OnlyWall(c) BY <1>1, <1>2 DEF OnlyWall
<1> QED BY <1>1, <1>3, <1>4

LEMMA WallKept ==
  ASSUME WallOK, UNCHANGED wallVars
  PROVE  WallOK' /\ Present' = Present
<1>1. Present' = Present BY DEF wallVars, Present
<1>2. AnalysisIsOfFrame' BY <1>1 DEF wallVars, WallOK, AnalysisIsOfFrame, Shot
<1> QED BY <1>1, <1>2 DEF WallOK, wallVars, Walls

-----------------------------------------------------------------------------
(* What each step does to the publishers' tasks.                            *)
OnlyTask(c) ==
  \A d \in Cameras \ {c} : /\ publisher'[d] = publisher[d]
                           /\ cutCalls'[d] \subseteq cutCalls[d]
                           /\ d \in cut => d \in cut'

(* A step about one camera leaves the others as tidy as they were.          *)
LEMMA TidyElsewhere ==
  ASSUME MediaInv, NEW c \in Cameras, OnlyWall(c), OnlyTask(c),
         mediaFaults' \in Nat, mediaFaults' >= mediaFaults,
         LivesCounted(c)', Excused(c)'
  PROVE  Tidy'
<1> SUFFICES ASSUME NEW d \in Cameras, d # c
             PROVE  LivesCounted(d)' /\ Excused(d)'
  BY DEF Tidy
<1>1. LivesCounted(d) /\ Excused(d) BY DEF MediaInv, Tidy
<1>2. wall'[d] = wall[d] /\ lives'[d] = lives[d] BY DEF OnlyWall
<1>3. /\ publisher'[d] = publisher[d] /\ cutCalls'[d] \subseteq cutCalls[d]
      /\ d \in cut => d \in cut'
  BY DEF OnlyTask
<1>4. d \in Present' <=> d \in Present BY <1>2 DEF Present
<1>5. Here(d)' = Here(d) /\ Leaving(d)' = Leaving(d) BY <1>3, <1>4 DEF Here, Leaving
<1>6. /\ lives[d] \in Nat /\ mediaFaults \in Nat
      /\ Here(d) \in 0..1 /\ Leaving(d) \in 0..1
  BY MediaAssumption DEF MediaInv, WallOK, TasksOK, Here, Leaving
<1>7. LivesCounted(d)' BY <1>1, <1>2, <1>5, <1>6 DEF LivesCounted
<1>8. Excused(d)' BY <1>1, <1>2, <1>3, <1>4 DEF Excused, Answers
<1> QED BY <1>7, <1>8

LEMMA CameraOffEffect ==
  ASSUME PumpOK, NEW c, CameraOff(c)
  PROVE  PumpOK'
BY MediaAssumption DEF PumpOK, CameraOff, NoPump

(* A task that goes to another place of its loop.                           *)
LEMMA GoesEffect ==
  ASSUME TasksOK, NEW c \in Cameras, NEW place, Goes(c, place),
         place \in {"off", "rest", "register", "picture", "publish", "remove"}
  PROVE  /\ publisher' \in Tasks
         /\ publisher'[c] = [publisher[c] EXCEPT !.at = place]
         /\ \A d \in Cameras \ {c} : publisher'[d] = publisher[d]
BY DEF TasksOK, Tasks, Task, Goes

LEMMA ErrsEffect ==
  ASSUME TasksOK, PumpOK, NEW c \in Cameras, NEW missing \in BOOLEAN, Errs(c, missing)
  PROVE  /\ publisher' \in Tasks /\ PumpOK'
         /\ publisher'[c].at = "rest" /\ publisher'[c].ident = publisher[c].ident
         /\ publisher'[c].registered = (publisher[c].registered /\ ~missing)
         /\ \A d \in Cameras \ {c} : publisher'[d] = publisher[d]
<1>1. PumpOK' BY CameraOffEffect DEF Errs
<1>2. publisher' = [publisher EXCEPT ![c].at = "rest", ![c].started = FALSE,
                                     ![c].registered = @ /\ ~missing]
  BY DEF Errs
<1>3. publisher \in Tasks BY DEF TasksOK
<1>4. publisher' \in Tasks
  <2>1. CASE publisher[c].registered /\ ~missing
    <3>1. publisher' = [publisher EXCEPT ![c].at = "rest", ![c].started = FALSE,
                                         ![c].registered = TRUE]
      BY <1>2, <1>3, <2>1 DEF Tasks, Task
    <3>2. [publisher[c] EXCEPT !.at = "rest", !.started = FALSE, !.registered = TRUE] \in Task
      BY <1>3 DEF Tasks, Task
    <3>3. publisher' = [publisher EXCEPT ![c] = [publisher[c] EXCEPT
                           !.at = "rest", !.started = FALSE, !.registered = TRUE]]
      BY <1>3, <3>1 DEF Tasks, Task
    <3> QED BY <1>3, <3>2, <3>3 DEF Tasks, Task
  <2>2. CASE ~(publisher[c].registered /\ ~missing)
    <3>1. publisher' = [publisher EXCEPT ![c].at = "rest", ![c].started = FALSE,
                                         ![c].registered = FALSE]
      BY <1>2, <1>3, <2>2 DEF Tasks, Task
    <3>2. [publisher[c] EXCEPT !.at = "rest", !.started = FALSE, !.registered = FALSE] \in Task
      BY <1>3 DEF Tasks, Task
    <3>3. publisher' = [publisher EXCEPT ![c] = [publisher[c] EXCEPT
                           !.at = "rest", !.started = FALSE, !.registered = FALSE]]
      BY <1>3, <3>1 DEF Tasks, Task
    <3> QED BY <1>3, <3>2, <3>3 DEF Tasks, Task
  <2> QED BY <2>1, <2>2
<1> QED BY <1>1, <1>2, <1>3, <1>4 DEF Tasks, Task

(* A step that leaves the registry, the calls on their way and the history   *)
(* alone, of a task that goes on running as the same publisher and forgets   *)
(* its registration only when its source is gone.                           *)
LEMMA TaskStep ==
  ASSUME MediaInv, NEW c \in Cameras,
         UNCHANGED <<wallVars, cutCalls, cut, mediaFaults>>,
         publisher' \in Tasks, \A d \in Cameras \ {c} : publisher'[d] = publisher[d],
         publisher[c].at \notin {"off", "remove"},
         publisher'[c].at \notin {"off", "remove"},
         publisher'[c].ident = publisher[c].ident,
         c \in Present => (publisher[c].registered => publisher'[c].registered)
  PROVE  WallOK' /\ TasksOK' /\ Tidy'
<1>1. WallOK' /\ Present' = Present BY WallKept DEF MediaInv
<1>2. UNCHANGED <<wall, lives, cutCalls, cut, mediaFaults>> BY DEF wallVars
<1>3. TasksOK' BY <1>2 DEF MediaInv, TasksOK, Tasks, Task
<1>4. OnlyWall(c) /\ OnlyTask(c) BY <1>2 DEF OnlyWall, OnlyTask
<1>5. LivesCounted(c) /\ Excused(c) BY DEF MediaInv, Tidy
<1>6. LivesCounted(c)'
  <2>1. Here(c)' = Here(c) /\ Leaving(c)' = Leaving(c) BY <1>1 DEF Here, Leaving
  <2> QED BY <1>2, <1>5, <2>1 DEF LivesCounted
<1>7. Excused(c)' BY <1>1, <1>2, <1>5 DEF Excused, Answers
<1>8. mediaFaults \in Nat BY MediaAssumption DEF MediaInv, TasksOK
<1>9. Tidy' BY <1>2, <1>4, <1>6, <1>7, <1>8, TidyElsewhere
<1> QED BY <1>1, <1>3, <1>9

LEMMA RoundInv ==
  ASSUME MediaInv, NEW c \in Cameras, Round(c)
  PROVE  MediaInv'
<1>1. /\ publisher[c].at = "rest"
      /\ Goes(c, IF publisher[c].registered THEN "picture" ELSE "register")
      /\ UNCHANGED <<wall, pump, cutCalls, cut, detection, lesson, lives, mediaFaults>>
  BY DEF Round
<1>2. PICK place \in {"picture", "register"} : Goes(c, place) BY <1>1
<1>3. /\ publisher' \in Tasks /\ publisher'[c] = [publisher[c] EXCEPT !.at = place]
      /\ \A d \in Cameras \ {c} : publisher'[d] = publisher[d]
  BY <1>2, GoesEffect DEF MediaInv
<1>4. publisher[c] \in Task BY DEF MediaInv, TasksOK, Tasks
<1>5. /\ publisher'[c].at = place /\ publisher'[c].ident = publisher[c].ident
      /\ publisher'[c].registered = publisher[c].registered
  BY <1>3, <1>4 DEF Task
<1>6. WallOK' /\ TasksOK' /\ Tidy'
  BY <1>1, <1>2, <1>3, <1>5, TaskStep DEF wallVars
<1>7. PumpOK' /\ EyesOK' BY <1>1 DEF MediaInv, PumpOK, EyesOK
<1> QED BY <1>6, <1>7 DEF MediaInv

LEMMA StreamPictureInv ==
  ASSUME MediaInv, NEW c \in Cameras, StreamPicture(c)
  PROVE  MediaInv'
<1>1. /\ publisher[c].at = "picture" /\ Goes(c, "publish")
      /\ UNCHANGED <<wall, pump, cutCalls, cut, detection, lesson, lives, mediaFaults>>
  BY DEF StreamPicture
<1>2. /\ publisher' \in Tasks /\ publisher'[c] = [publisher[c] EXCEPT !.at = "publish"]
      /\ \A d \in Cameras \ {c} : publisher'[d] = publisher[d]
  BY <1>1, GoesEffect DEF MediaInv
<1>3. /\ publisher'[c].at = "publish" /\ publisher'[c].ident = publisher[c].ident
      /\ publisher'[c].registered = publisher[c].registered
  BY <1>2 DEF MediaInv, TasksOK, Tasks, Task
<1>4. WallOK' /\ TasksOK' /\ Tidy' BY <1>1, <1>2, <1>3, TaskStep DEF wallVars
<1>5. PumpOK' /\ EyesOK' BY <1>1 DEF MediaInv, PumpOK, EyesOK
<1> QED BY <1>4, <1>5 DEF MediaInv

LEMMA StartCameraInv ==
  ASSUME MediaInv, NEW c \in Cameras, StartCamera(c)
  PROVE  MediaInv'
<1>1. /\ publisher[c].at = "picture" /\ c \in Robots
      /\ publisher' = [publisher EXCEPT ![c].started = TRUE]
      /\ UNCHANGED <<wall, cutCalls, cut, detection, lesson, lives, mediaFaults>>
  BY DEF StartCamera
<1>2. publisher \in Tasks BY DEF MediaInv, TasksOK
<1>3. /\ publisher' \in Tasks /\ publisher'[c] = [publisher[c] EXCEPT !.started = TRUE]
      /\ \A d \in Cameras \ {c} : publisher'[d] = publisher[d]
  BY <1>1, <1>2 DEF Tasks, Task
<1>4. /\ publisher'[c].at = "picture" /\ publisher'[c].ident = publisher[c].ident
      /\ publisher'[c].registered = publisher[c].registered
  BY <1>1, <1>2, <1>3 DEF Tasks, Task
<1>5. WallOK' /\ TasksOK' /\ Tidy' BY <1>1, <1>3, <1>4, TaskStep DEF wallVars
<1>6. PICK debt \in IF publisher[c].read THEN 1..MaxDebt ELSE {0} :
        pump' = [pump EXCEPT ![c] = [on |-> TRUE, fresh |-> FALSE, debt |-> debt]]
  BY DEF StartCamera
<1>7. debt \in 0..MaxDebt
  <2>1. CASE publisher[c].read BY <1>6, <2>1, MediaAssumption
  <2>2. CASE ~publisher[c].read BY <1>6, <2>2, MediaAssumption
  <2> QED BY <2>1, <2>2
<1>8. PumpOK' BY <1>6, <1>7 DEF MediaInv, PumpOK
<1>9. EyesOK' BY <1>1 DEF MediaInv, EyesOK
<1> QED BY <1>5, <1>8, <1>9 DEF MediaInv

LEMMA RobotPictureInv ==
  ASSUME MediaInv, NEW c \in Cameras, RobotPicture(c)
  PROVE  MediaInv'
<1>1. /\ publisher[c].at = "picture"
      /\ UNCHANGED <<wall, cutCalls, cut, detection, lesson, lives, mediaFaults>>
  BY DEF RobotPicture
<1>2. publisher \in Tasks /\ PumpOK BY DEF MediaInv, TasksOK
<1>3. /\ publisher' \in Tasks /\ publisher'[c].at \in {"publish", "rest"}
      /\ publisher'[c].ident = publisher[c].ident
      /\ publisher'[c].registered = publisher[c].registered
      /\ \A d \in Cameras \ {c} : publisher'[d] = publisher[d]
  <2>1. CASE publisher' = [publisher EXCEPT ![c].read = TRUE, ![c].at = "publish"]
    <3> DEFINE task == [publisher[c] EXCEPT !.read = TRUE, !.at = "publish"]
    <3>1. publisher[c] \in Task BY <1>2 DEF Tasks
    <3>2. publisher' = [publisher EXCEPT ![c] = task] BY <2>1
    <3>3. /\ task \in Task /\ task.at = "publish"
          /\ task.ident = publisher[c].ident
          /\ task.registered = publisher[c].registered
      BY <3>1 DEF Task
    <3> HIDE DEF task
    <3> QED BY <1>2, <3>2, <3>3 DEF Tasks
  <2>2. CASE Goes(c, "rest") BY <1>2, <2>2 DEF Tasks, Task, Goes
  <2> QED BY <2>1, <2>2 DEF RobotPicture
<1>4. WallOK' /\ TasksOK' /\ Tidy' BY <1>1, <1>3, TaskStep DEF wallVars
<1>5. PumpOK' BY <1>2 DEF RobotPicture, PumpOK
<1>6. EyesOK' BY <1>1 DEF MediaInv, EyesOK
<1> QED BY <1>4, <1>5, <1>6 DEF MediaInv

LEMMA PictureRefusedInv ==
  ASSUME MediaInv, NEW c \in Cameras, PictureRefused(c)
  PROVE  MediaInv'
<1>1. /\ publisher[c].at = "picture" /\ Errs(c, FALSE)
      /\ UNCHANGED <<wall, cutCalls, cut, detection, lesson, lives, mediaFaults>>
  BY DEF PictureRefused
<1>2. TasksOK /\ PumpOK BY DEF MediaInv
<1>3. /\ publisher' \in Tasks /\ PumpOK'
      /\ publisher'[c].at = "rest" /\ publisher'[c].ident = publisher[c].ident
      /\ publisher'[c].registered = (publisher[c].registered /\ ~FALSE)
      /\ \A d \in Cameras \ {c} : publisher'[d] = publisher[d]
  BY <1>1, <1>2, ErrsEffect
<1>4. WallOK' /\ TasksOK' /\ Tidy' BY <1>1, <1>3, TaskStep DEF wallVars
<1>5. EyesOK' BY <1>1 DEF MediaInv, EyesOK
<1> QED BY <1>3, <1>4, <1>5 DEF MediaInv

LEMMA CaptureInv ==
  ASSUME MediaInv, NEW c \in Robots, Capture(c)
  PROVE  MediaInv'
<1>1. UNCHANGED <<wall, publisher, cutCalls, cut, detection, lesson, lives, mediaFaults>>
  BY DEF Capture
<1>2. WallOK' /\ Present' = Present BY <1>1, WallKept DEF MediaInv, wallVars
<1>3. TasksOK' /\ EyesOK' BY <1>1 DEF MediaInv, TasksOK, Tasks, Task, EyesOK
<1>4. Tidy'
  BY <1>1, <1>2 DEF MediaInv, Tidy, LivesCounted, Excused, Answers, Here, Leaving
<1>5. PumpOK'
  <2>1. pump[c] \in [on : BOOLEAN, fresh : BOOLEAN, debt : 0..MaxDebt]
    BY DEF MediaInv, PumpOK
  <2>2. Captured(c) \in [on : BOOLEAN, fresh : BOOLEAN, debt : 0..MaxDebt]
    <3>1. CASE pump[c].debt > 0
      <4>1. pump[c].debt - 1 \in 0..MaxDebt BY <2>1, <3>1, MediaAssumption
      <4> QED BY <2>1, <3>1, <4>1 DEF Captured
    <3>2. CASE ~(pump[c].debt > 0) BY <2>1, <3>2 DEF Captured
    <3> QED BY <3>1, <3>2
  <2> QED BY <2>2 DEF MediaInv, PumpOK, Capture
<1> QED BY <1>2, <1>3, <1>4, <1>5 DEF MediaInv

-----------------------------------------------------------------------------
(* The calls of a publisher.                                                *)
LEMMA Counts ==
  ASSUME MediaInv, NEW c \in Cameras
  PROVE  /\ lives[c] \in Nat /\ mediaFaults \in Nat
         /\ Here(c) \in 0..1 /\ Leaving(c) \in 0..1
         /\ LivesCounted(c) /\ Excused(c)
         /\ publisher \in Tasks /\ publisher[c] \in Task
         /\ WallOK /\ TasksOK /\ PumpOK /\ EyesOK
BY MediaAssumption DEF MediaInv, WallOK, TasksOK, Tasks, Here, Leaving, Tidy

(* A publisher whose source is taken up, or stays, under its own identity.   *)
LEMMA RegisterInv ==
  ASSUME MediaInv, NEW c \in Cameras, Register(c)
  PROVE  MediaInv'
<1>1. /\ publisher[c].at = "register"
      /\ UNCHANGED <<cutCalls, cut, detection, lesson, mediaFaults>>
  BY DEF Register
<1>2. EyesOK' BY <1>1 DEF MediaInv, EyesOK
<1>3. CASE Errs(c, FALSE) /\ UNCHANGED wallVars
  <2>1. /\ publisher' \in Tasks /\ PumpOK'
        /\ publisher'[c].at = "rest" /\ publisher'[c].ident = publisher[c].ident
        /\ publisher'[c].registered = (publisher[c].registered /\ ~FALSE)
        /\ \A d \in Cameras \ {c} : publisher'[d] = publisher[d]
    BY <1>3, ErrsEffect, Counts
  <2>2. WallOK' /\ TasksOK' /\ Tidy' BY <1>1, <1>3, <2>1, TaskStep
  <2> QED BY <1>2, <2>1, <2>2 DEF MediaInv
<1>4. CASE /\ ~RegisterRefused(c, publisher[c].ident)
           /\ Registered(c, publisher[c].ident)
           /\ publisher' = [publisher EXCEPT ![c].at = "picture", ![c].registered = TRUE]
           /\ UNCHANGED pump
  <2>1. publisher[c].ident \in Publishers BY <1>1 DEF MediaInv, TasksOK
  <2>2. /\ WallOK' /\ OnlyWall(c)
        /\ c \in Present' /\ wall'[c].owner = publisher[c].ident
        /\ lives'[c] = lives[c] + 1 - Here(c)
    BY <1>4, <2>1, RegisterEffect, Counts
  <2>3. /\ publisher' \in Tasks /\ publisher'[c].at = "picture"
        /\ publisher'[c].registered /\ publisher'[c].ident = publisher[c].ident
        /\ \A d \in Cameras \ {c} : publisher'[d] = publisher[d]
    <3> DEFINE task == [publisher[c] EXCEPT !.at = "picture", !.registered = TRUE]
    <3>1. publisher \in Tasks /\ publisher[c] \in Task BY Counts
    <3>2. publisher' = [publisher EXCEPT ![c] = task] BY <1>4
    <3>3. /\ task \in Task /\ task.at = "picture" /\ task.registered
          /\ task.ident = publisher[c].ident
      BY <3>1 DEF Task
    <3> HIDE DEF task
    <3> QED BY <3>1, <3>2, <3>3 DEF Tasks
  <2>4. TasksOK' BY <1>1, <2>1, <2>3, Counts DEF TasksOK
  <2>5. LivesCounted(c)'
    <3>1. Here(c)' = 1 /\ Leaving(c)' = 0 /\ Leaving(c) = 0
      BY <1>1, <2>2, <2>3 DEF Here, Leaving
    <3> QED BY <1>1, <2>2, <3>1, Counts DEF LivesCounted
  <2>6. Excused(c)'
    <3>1. Answers(c)' BY <2>2, <2>3 DEF Answers
    <3> QED BY <1>1, <3>1, Counts DEF Excused
  <2>7. Tidy' BY <1>1, <2>2, <2>3, <2>5, <2>6, TidyElsewhere, Counts DEF OnlyTask
  <2>8. PumpOK' BY <1>4, Counts DEF PumpOK
  <2> QED BY <1>2, <2>2, <2>4, <2>7, <2>8 DEF MediaInv
<1> QED BY <1>3, <1>4 DEF Register

LEMMA PublishInv ==
  ASSUME MediaInv, NEW c \in Cameras, Publish(c)
  PROVE  MediaInv'
<1>1. /\ publisher[c].at = "publish"
      /\ UNCHANGED <<cutCalls, cut, detection, lesson, mediaFaults>>
  BY DEF Publish
<1>2. EyesOK' BY <1>1 DEF MediaInv, EyesOK
<1>3. ASSUME NEW missing \in BOOLEAN, Errs(c, missing), UNCHANGED wallVars,
             missing => c \notin Present
      PROVE  MediaInv'
  <2>1. /\ publisher' \in Tasks /\ PumpOK'
        /\ publisher'[c].at = "rest" /\ publisher'[c].ident = publisher[c].ident
        /\ publisher'[c].registered = (publisher[c].registered /\ ~missing)
        /\ \A d \in Cameras \ {c} : publisher'[d] = publisher[d]
    BY <1>3, ErrsEffect, Counts
  <2>2. WallOK' /\ TasksOK' /\ Tidy' BY <1>1, <1>3, <2>1, TaskStep
  <2> QED BY <1>2, <2>1, <2>2 DEF MediaInv
<1>4. CASE c \in Present /\ Published(c) /\ Goes(c, "rest") /\ UNCHANGED pump
  <2>1. /\ WallOK' /\ OnlyWall(c) /\ Present' = Present /\ lives' = lives
        /\ wall'[c].owner = wall[c].owner
    BY <1>4, PublishEffect, Counts
  <2>2. /\ publisher' \in Tasks /\ publisher'[c] = [publisher[c] EXCEPT !.at = "rest"]
        /\ \A d \in Cameras \ {c} : publisher'[d] = publisher[d]
    BY <1>4, GoesEffect, Counts
  <2>3. /\ publisher'[c].at = "rest" /\ publisher'[c].ident = publisher[c].ident
        /\ publisher'[c].registered = publisher[c].registered
    BY <2>2, Counts DEF Task
  <2>4. TasksOK' BY <1>1, <2>2, <2>3, Counts DEF TasksOK
  <2>5. LivesCounted(c)'
    <3>1. Here(c)' = Here(c) /\ Leaving(c)' = 0 /\ Leaving(c) = 0
      BY <1>1, <2>1, <2>3 DEF Here, Leaving
    <3> QED BY <1>1, <2>1, <3>1, Counts DEF LivesCounted
  <2>6. Excused(c)'
    <3>1. Answers(c) => Answers(c)' BY <2>1, <2>3 DEF Answers
    <3> QED BY <1>1, <2>1, <3>1, Counts DEF Excused
  <2>7. Tidy' BY <1>1, <2>1, <2>2, <2>5, <2>6, TidyElsewhere, Counts DEF OnlyTask
  <2>8. PumpOK' BY <1>4, Counts DEF PumpOK
  <2> QED BY <1>2, <2>1, <2>4, <2>7, <2>8 DEF MediaInv
<1>5. CASE c \notin Present /\ Errs(c, TRUE) /\ UNCHANGED wallVars BY <1>3, <1>5
<1>6. CASE Errs(c, FALSE) /\ UNCHANGED wallVars BY <1>3, <1>6
<1> QED BY <1>4, <1>5, <1>6 DEF Publish

(* A call that raises leaves its task running; one inside its registration   *)
(* may leave a source that the task does not know it has.                   *)
LEMMA CallFailsInv ==
  ASSUME MediaInv, NEW c \in Cameras, CallFails(c)
  PROVE  MediaInv'
<1>1. /\ mediaFaults < MaxMediaFaults /\ mediaFaults' = mediaFaults + 1
      /\ publisher[c].at \in {"register", "picture", "publish"}
      /\ Errs(c, FALSE)
      /\ cut' = IF publisher[c].at = "register" THEN cut \cup {c} ELSE cut
      /\ UNCHANGED <<cutCalls, detection, lesson>>
  BY DEF CallFails
<1>2. /\ publisher' \in Tasks /\ PumpOK'
      /\ publisher'[c].at = "rest" /\ publisher'[c].ident = publisher[c].ident
      /\ publisher'[c].registered = (publisher[c].registered /\ ~FALSE)
      /\ \A d \in Cameras \ {c} : publisher'[d] = publisher[d]
  BY <1>1, ErrsEffect, Counts
<1>3. EyesOK' BY <1>1 DEF MediaInv, EyesOK
<1>4. mediaFaults' \in 0..MaxMediaFaults BY <1>1, Counts, MediaAssumption
<1>5. cut \subseteq cut' /\ cut' \subseteq Cameras BY <1>1, Counts DEF TasksOK
<1>6. TasksOK' BY <1>1, <1>2, <1>4, <1>5, Counts DEF TasksOK
<1>7. Leaving(c) = 0 /\ Leaving(c)' = 0 BY <1>1, <1>2 DEF Leaving
<1>8. /\ WallOK' /\ OnlyWall(c) /\ LivesCounted(c)'
      /\ c \in Present' /\ ~Answers(c)' => c \in cut'
  <2>1. CASE UNCHANGED wallVars
    <3>1. WallOK' /\ Present' = Present BY <2>1, WallKept, Counts
    <3>2. OnlyWall(c) /\ lives' = lives /\ wall' = wall BY <2>1 DEF wallVars, OnlyWall
    <3>3. Here(c)' = Here(c) BY <3>1 DEF Here
    <3>4. LivesCounted(c)' BY <1>1, <1>7, <3>2, <3>3, Counts DEF LivesCounted
    <3>5. Answers(c) => Answers(c)' BY <1>2, <3>2 DEF Answers
    <3> QED BY <1>5, <3>1, <3>2, <3>4, <3>5, Counts DEF Excused
  <2>2. CASE /\ publisher[c].at = "register"
             /\ ~RegisterRefused(c, publisher[c].ident)
             /\ Registered(c, publisher[c].ident)
    <3>1. publisher[c].ident \in Publishers BY <1>1 DEF MediaInv, TasksOK
    <3>2. /\ WallOK' /\ OnlyWall(c) /\ c \in Present'
          /\ lives'[c] = lives[c] + 1 - Here(c)
      BY <2>2, <3>1, RegisterEffect, Counts
    <3>3. LivesCounted(c)' BY <1>1, <1>7, <3>2, Counts DEF LivesCounted, Here
    <3>4. c \in cut' BY <1>1, <2>2
    <3> QED BY <3>2, <3>3, <3>4
  <2>3. CASE c \in Present /\ Published(c)
    <3>1. /\ WallOK' /\ OnlyWall(c) /\ Present' = Present /\ lives' = lives
          /\ wall'[c].owner = wall[c].owner
      BY <2>3, PublishEffect, Counts
    <3>2. Here(c)' = Here(c) BY <3>1 DEF Here
    <3>3. LivesCounted(c)' BY <1>1, <1>7, <3>1, <3>2, Counts DEF LivesCounted
    <3>4. Answers(c) => Answers(c)' BY <1>2, <3>1 DEF Answers
    <3> QED BY <1>5, <3>1, <3>3, <3>4, Counts DEF Excused
  <2> QED BY <2>1, <2>2, <2>3 DEF CallFails
<1>9. Excused(c)' BY <1>1, <1>5, <1>8, Counts DEF Excused
<1>10. Tidy' BY <1>1, <1>2, <1>4, <1>5, <1>8, <1>9, TidyElsewhere, Counts DEF OnlyTask
<1> QED BY <1>2, <1>3, <1>6, <1>8, <1>10 DEF MediaInv

-----------------------------------------------------------------------------
(* The beginning and the end of an adapter.                                 *)
LEMMA AdapterStartsInv ==
  ASSUME MediaInv, NEW c \in Cameras, NEW i \in Publishers, AdapterStarts(c, i)
  PROVE  MediaInv'
<1>1. /\ publisher[c].at = "off"
      /\ publisher' = [publisher EXCEPT ![c] = [Off EXCEPT !.at = "rest", !.ident = i]]
      /\ UNCHANGED <<wall, pump, cutCalls, cut, detection, lesson, lives, mediaFaults>>
  BY DEF AdapterStarts
<1>2. WallOK' /\ Present' = Present BY <1>1, WallKept, Counts DEF wallVars
<1>3. /\ publisher' \in Tasks /\ publisher'[c].at = "rest" /\ publisher'[c].ident = i
      /\ \A d \in Cameras \ {c} : publisher'[d] = publisher[d]
  BY <1>1, Counts DEF Tasks, Task, Off
<1>4. TasksOK' BY <1>1, <1>3, Counts DEF TasksOK
<1>5. PumpOK' /\ EyesOK' BY <1>1 DEF MediaInv, PumpOK, EyesOK
<1>6. LivesCounted(c)'
  <2>1. Here(c)' = Here(c) /\ Leaving(c)' = 0 /\ Leaving(c) = 0
    BY <1>1, <1>2, <1>3 DEF Here, Leaving
  <2> QED BY <1>1, <2>1, Counts DEF LivesCounted
<1>7. Excused(c)'
  <2>1. ~Answers(c) BY <1>1 DEF Answers
  <2> QED BY <1>1, <1>2, <2>1, Counts DEF Excused
<1>8. Tidy'
  BY <1>1, <1>3, <1>6, <1>7, TidyElsewhere, Counts DEF OnlyTask, OnlyWall
<1> QED BY <1>2, <1>4, <1>5, <1>8 DEF MediaInv

(* The call a cancelled task was in goes on without it.                     *)
LEMMA AdapterStopsInv ==
  ASSUME MediaInv, NEW c \in Cameras, AdapterStops(c)
  PROVE  MediaInv'
<1>1. /\ mediaFaults < MaxMediaFaults /\ mediaFaults' = mediaFaults + 1
      /\ publisher[c].at \notin {"off", "remove"}
      /\ cutCalls' = [cutCalls EXCEPT ![c] =
                        @ \cup {<<call, publisher[c].ident>> : call \in InFlight(c)}]
      /\ cut' = IF publisher[c].at = "register" THEN cut \cup {c} ELSE cut
      /\ publisher' = [publisher EXCEPT
                         ![c].at = IF Tidies(c) THEN "remove" ELSE "off",
                         ![c].started = FALSE]
      /\ CameraOff(c)
      /\ UNCHANGED <<wall, detection, lesson, lives>>
  BY DEF AdapterStops
<1>2. WallOK' /\ Present' = Present BY <1>1, WallKept, Counts DEF wallVars
<1>3. PumpOK' /\ EyesOK' BY <1>1, CameraOffEffect, Counts DEF EyesOK
<1>4. mediaFaults' \in 0..MaxMediaFaults BY <1>1, Counts, MediaAssumption
<1>5. cut \subseteq cut' /\ cut' \subseteq Cameras BY <1>1, Counts DEF TasksOK
<1>6. PICK place \in {"remove", "off"} :
        /\ place = IF Tidies(c) THEN "remove" ELSE "off"
        /\ publisher' = [publisher EXCEPT ![c].at = place, ![c].started = FALSE]
  BY <1>1
<1>7. /\ publisher' \in Tasks /\ publisher'[c].at = place
      /\ publisher'[c].ident = publisher[c].ident
      /\ publisher'[c].registered = publisher[c].registered
      /\ \A d \in Cameras \ {c} : publisher'[d] = publisher[d]
  <2>1. [publisher[c] EXCEPT !.at = place, !.started = FALSE] \in Task
    BY <1>6, Counts DEF Task
  <2>2. publisher' = [publisher EXCEPT ![c] =
                        [publisher[c] EXCEPT !.at = place, !.started = FALSE]]
    BY <1>6, Counts DEF Tasks
  <2> QED BY <2>1, <2>2, Counts DEF Tasks, Task
<1>8. publisher[c].ident \in Publishers BY <1>1 DEF MediaInv, TasksOK
<1>9. cutCalls \in [Cameras -> SUBSET ({"register", "publish"} \X Publishers)]
  BY Counts DEF TasksOK
<1>10. {<<call, publisher[c].ident>> : call \in InFlight(c)}
         \subseteq {"register", "publish"} \X Publishers
  BY <1>8 DEF InFlight
<1>11. /\ cutCalls' \in [Cameras -> SUBSET ({"register", "publish"} \X Publishers)]
       /\ cutCalls'[c] = cutCalls[c] \cup {<<call, publisher[c].ident>> : call \in InFlight(c)}
       /\ \A d \in Cameras \ {c} : cutCalls'[d] = cutCalls[d]
  BY <1>1, <1>9, <1>10
<1>12. TasksOK' BY <1>4, <1>5, <1>6, <1>7, <1>8, <1>11, Counts DEF TasksOK
<1>13. LivesCounted(c)'
  <2>1. /\ Here(c)' = Here(c) /\ Leaving(c) = 0
        /\ (Leaving(c)' = 0 \/ Leaving(c)' = 1)
    BY <1>1, <1>2 DEF Here, Leaving
  <2>2. lives' = lives /\ mediaFaults' = mediaFaults + 1 BY <1>1
  <2>3. lives[c] + 0 <= mediaFaults + Here(c) BY <2>1, Counts DEF LivesCounted
  <2> QED BY <2>1, <2>2, <2>3, Counts DEF LivesCounted
<1>14. Excused(c)'
  <2>1. c \in Present' /\ ~Answers(c)' => c \in cut'
    <3>1. Answers(c) => Answers(c)'
      BY <1>1, <1>6, <1>7 DEF Answers, Tidies
    <3> QED BY <1>2, <1>5, <3>1, Counts DEF Excused
  <2>2. ASSUME NEW i \in Publishers, <<"register", i>> \in cutCalls'[c]
        PROVE  c \in cut'
    <3>1. CASE <<"register", i>> \in cutCalls[c] BY <1>5, <3>1, Counts DEF Excused
    <3>2. CASE <<"register", i>> \notin cutCalls[c]
      <4>1. PICK call \in InFlight(c) : <<"register", i>> = <<call, publisher[c].ident>>
        BY <1>11, <2>2, <3>2
      <4>2. call = "register" BY <4>1
      <4>3. publisher[c].at = "register" BY <4>1, <4>2 DEF InFlight
      <4> QED BY <1>1, <4>3
    <3> QED BY <3>1, <3>2
  <2> QED BY <2>1, <2>2 DEF Excused
<1>15. OnlyWall(c) /\ OnlyTask(c) BY <1>1, <1>5, <1>7, <1>11 DEF OnlyWall, OnlyTask
<1>16. Tidy' BY <1>1, <1>4, <1>13, <1>14, <1>15, TidyElsewhere, Counts
<1> QED BY <1>2, <1>3, <1>12, <1>16 DEF MediaInv

(* The source it finds may be another publisher's, which it leaves alone.   *)
LEMMA RemoveSourceInv ==
  ASSUME MediaInv, NEW c \in Cameras, RemoveSource(c)
  PROVE  MediaInv'
<1>1. /\ publisher[c].at = "remove" /\ Goes(c, "off")
      /\ cut' = IF cutCalls[c] = {} /\ c \notin Present' THEN cut \ {c} ELSE cut
      /\ UNCHANGED <<pump, cutCalls, detection, lesson, mediaFaults>>
  BY DEF RemoveSource
<1>2. /\ publisher' \in Tasks /\ publisher'[c] = [publisher[c] EXCEPT !.at = "off"]
      /\ \A d \in Cameras \ {c} : publisher'[d] = publisher[d]
  BY <1>1, GoesEffect, Counts
<1>3. publisher'[c].at = "off" BY <1>2, Counts DEF Task
<1>4. cut' \subseteq Cameras /\ cut \ {c} \subseteq cut' BY <1>1, Counts DEF TasksOK
<1>5. TasksOK' BY <1>1, <1>2, <1>3, <1>4, Counts DEF TasksOK
<1>6. PumpOK' /\ EyesOK' BY <1>1, Counts DEF PumpOK, EyesOK
<1>7. Leaving(c) = 1 /\ Leaving(c)' = 0 BY <1>1, <1>3 DEF Leaving
<1>8. /\ WallOK' /\ OnlyWall(c) /\ lives' = lives
      /\ c \in Present' => c \in Present /\ ~Answers(c)
  <2>1. CASE wall[c].owner = publisher[c].ident /\ Removed(c)
    BY <2>1, RemoveEffect, Counts
  <2>2. CASE wall[c].owner # publisher[c].ident /\ UNCHANGED wallVars
    <3>1. WallOK' /\ Present' = Present BY <2>2, WallKept, Counts
    <3>2. OnlyWall(c) /\ lives' = lives BY <2>2 DEF wallVars, OnlyWall
    <3> QED BY <2>2, <3>1, <3>2 DEF Answers
  <2> QED BY <2>1, <2>2 DEF RemoveSource
<1>9. LivesCounted(c)'
  <2>1. Here(c)' \in 0..1 BY DEF Here
  <2>2. lives[c] <= mediaFaults BY <1>7, Counts DEF LivesCounted
  <2> QED BY <1>1, <1>7, <1>8, <2>1, <2>2, Counts DEF LivesCounted
<1>10. Excused(c)'
  <2>1. c \in Present' => c \in cut' BY <1>1, <1>8, Counts DEF Excused
  <2>2. ASSUME NEW i \in Publishers, <<"register", i>> \in cutCalls'[c]
        PROVE  c \in cut'
    <3>1. <<"register", i>> \in cutCalls[c] BY <1>1, <2>2
    <3> QED BY <1>1, <3>1, Counts DEF Excused
  <2> QED BY <2>1, <2>2 DEF Excused
<1>11. OnlyTask(c) BY <1>1, <1>2, <1>4 DEF OnlyTask
<1>12. Tidy' BY <1>1, <1>8, <1>9, <1>10, <1>11, TidyElsewhere, Counts
<1> QED BY <1>5, <1>6, <1>8, <1>12 DEF MediaInv

(* The two ends that take nothing off the wall, and are remembered for it.   *)
LEMMA EndsUntidyInv ==
  ASSUME MediaInv, NEW c \in Cameras,
         mediaFaults' \in mediaFaults..MaxMediaFaults,
         cut' = cut \cup {c}, publisher' \in Tasks, publisher'[c].at = "off",
         \A d \in Cameras \ {c} : publisher'[d] = publisher[d],
         PumpOK', UNCHANGED <<wall, cutCalls, detection, lesson, lives>>
  PROVE  MediaInv'
<1>1. WallOK' /\ Present' = Present BY WallKept, Counts DEF wallVars
<1>2. mediaFaults' \in 0..MaxMediaFaults BY Counts, MediaAssumption
<1>3. TasksOK' BY <1>2, Counts DEF TasksOK
<1>4. EyesOK' BY Counts DEF EyesOK
<1>5. LivesCounted(c)'
  <2>1. Here(c)' = Here(c) /\ Leaving(c)' = 0 BY <1>1 DEF Here, Leaving
  <2> QED BY <2>1, Counts DEF LivesCounted
<1>6. Excused(c)' BY Counts DEF Excused
<1>7. OnlyWall(c) /\ OnlyTask(c) BY DEF OnlyWall, OnlyTask
<1>8. Tidy' BY <1>2, <1>5, <1>6, <1>7, TidyElsewhere, Counts
<1> QED BY <1>1, <1>3, <1>4, <1>8 DEF MediaInv

LEMMA RemoveFailsInv ==
  ASSUME MediaInv, NEW c \in Cameras, RemoveFails(c)
  PROVE  MediaInv'
<1>1. /\ cut' = cut \cup {c} /\ Goes(c, "off")
      /\ UNCHANGED <<wall, pump, cutCalls, detection, lesson, lives, mediaFaults>>
  BY DEF RemoveFails
<1>2. /\ publisher' \in Tasks /\ publisher'[c] = [publisher[c] EXCEPT !.at = "off"]
      /\ \A d \in Cameras \ {c} : publisher'[d] = publisher[d]
  BY <1>1, GoesEffect, Counts
<1>3. publisher'[c].at = "off" BY <1>2, Counts DEF Task
<1>4. PumpOK' BY <1>1, Counts DEF PumpOK
<1>5. mediaFaults' \in mediaFaults..MaxMediaFaults
  BY <1>1, Counts, MediaAssumption DEF TasksOK
<1> QED BY <1>1, <1>2, <1>3, <1>4, <1>5, EndsUntidyInv

(* A worker that falls behind leaves the wall and the task as they are.      *)
LEMMA WorkerFallsBehindInv ==
  ASSUME MediaInv, NEW c \in Cameras, WorkerFallsBehind(c)
  PROVE  MediaInv'
<1>1. /\ mediaFaults < MaxMediaFaults /\ mediaFaults' = mediaFaults + 1
      /\ publisher' = [publisher EXCEPT ![c].behind = TRUE]
      /\ UNCHANGED <<wall, pump, cutCalls, cut, detection, lesson, lives>>
  BY DEF WorkerFallsBehind
<1>2. /\ publisher' \in Tasks
      /\ publisher'[c].at = publisher[c].at /\ publisher'[c].ident = publisher[c].ident
      /\ publisher'[c].registered = publisher[c].registered
      /\ \A d \in Cameras \ {c} : publisher'[d] = publisher[d]
  BY <1>1, Counts DEF Tasks, Task
<1>3. WallOK' /\ Present' = Present BY <1>1, WallKept, Counts DEF wallVars
<1>4. mediaFaults' \in 0..MaxMediaFaults BY <1>1, Counts, MediaAssumption
<1>5. TasksOK' BY <1>1, <1>2, <1>4, Counts DEF TasksOK
<1>6. PumpOK' /\ EyesOK' BY <1>1, Counts DEF PumpOK, EyesOK
<1>7. LivesCounted(c)'
  <2>1. Here(c)' = Here(c) /\ Leaving(c)' = Leaving(c) BY <1>2, <1>3 DEF Here, Leaving
  <2> QED BY <1>1, <2>1, Counts DEF LivesCounted
<1>8. Excused(c)' BY <1>1, <1>2, <1>3, Counts DEF Excused, Answers
<1>9. OnlyWall(c) /\ OnlyTask(c) BY <1>1, <1>2 DEF OnlyWall, OnlyTask
<1>10. mediaFaults' >= mediaFaults /\ mediaFaults' \in Nat BY <1>1, <1>4, Counts
<1>11. Tidy' BY <1>7, <1>8, <1>9, <1>10, TidyElsewhere
<1> QED BY <1>3, <1>5, <1>6, <1>11 DEF MediaInv

LEMMA AdapterKilledInv ==
  ASSUME MediaInv, NEW c \in Cameras, AdapterKilled(c)
  PROVE  MediaInv'
<1>1. /\ mediaFaults < MaxMediaFaults /\ mediaFaults' = mediaFaults + 1
      /\ cut' = cut \cup {c} /\ publisher' = [publisher EXCEPT ![c] = Off]
      /\ CameraOff(c)
      /\ UNCHANGED <<wall, cutCalls, detection, lesson, lives>>
  BY DEF AdapterKilled
<1>2. /\ publisher' \in Tasks /\ publisher'[c].at = "off"
      /\ \A d \in Cameras \ {c} : publisher'[d] = publisher[d]
  BY <1>1, Counts DEF Tasks, Task, Off
<1>3. PumpOK' BY <1>1, CameraOffEffect, Counts
<1>4. mediaFaults' \in mediaFaults..MaxMediaFaults
  BY <1>1, Counts, MediaAssumption DEF TasksOK
<1> QED BY <1>1, <1>2, <1>3, <1>4, EndsUntidyInv

(* A registration that comes late was cut short, and is excused by it.       *)
LEMMA CutCallInv ==
  ASSUME MediaInv, NEW c \in Cameras, CutCall(c)
  PROVE  MediaInv'
<1>1. PICK call \in cutCalls[c] :
        /\ cutCalls' = [cutCalls EXCEPT ![c] = @ \ {call}]
        /\ \/ UNCHANGED wallVars
           \/ /\ call[1] = "register" /\ ~RegisterRefused(c, call[2])
              /\ Registered(c, call[2])
           \/ /\ call[1] = "publish" /\ c \in Present /\ wall[c].owner = call[2]
              /\ Published(c)
        /\ UNCHANGED <<publisher, pump, cut, detection, lesson, mediaFaults>>
  BY DEF CutCall
<1>2. cutCalls \in [Cameras -> SUBSET ({"register", "publish"} \X Publishers)]
  BY Counts DEF TasksOK
<1>3. call \in {"register", "publish"} \X Publishers BY <1>1, <1>2
<1>4. call[2] \in Publishers /\ call = <<call[1], call[2]>> BY <1>3
<1>5. /\ cutCalls' \in [Cameras -> SUBSET ({"register", "publish"} \X Publishers)]
      /\ cutCalls'[c] = cutCalls[c] \ {call}
      /\ \A d \in Cameras \ {c} : cutCalls'[d] = cutCalls[d]
  BY <1>1, <1>2
<1>6. TasksOK' BY <1>1, <1>5, Counts DEF TasksOK
<1>7. PumpOK' /\ EyesOK' BY <1>1, Counts DEF PumpOK, EyesOK
<1>8. Leaving(c)' = Leaving(c) BY <1>1 DEF Leaving
<1>9. /\ WallOK' /\ OnlyWall(c) /\ LivesCounted(c)'
      /\ c \in Present' /\ ~Answers(c)' => c \in cut'
  <2>1. CASE UNCHANGED wallVars
    <3>1. WallOK' /\ Present' = Present BY <2>1, WallKept, Counts
    <3>2. OnlyWall(c) /\ lives' = lives /\ wall' = wall BY <2>1 DEF wallVars, OnlyWall
    <3>3. Here(c)' = Here(c) BY <3>1 DEF Here
    <3>4. LivesCounted(c)' BY <1>1, <1>8, <3>2, <3>3, Counts DEF LivesCounted
    <3>5. Answers(c) => Answers(c)' BY <1>1, <3>2 DEF Answers
    <3> QED BY <1>1, <3>1, <3>2, <3>4, <3>5, Counts DEF Excused
  <2>2. CASE /\ call[1] = "register" /\ ~RegisterRefused(c, call[2])
             /\ Registered(c, call[2])
    <3>1. /\ WallOK' /\ OnlyWall(c) /\ c \in Present'
          /\ lives'[c] = lives[c] + 1 - Here(c)
      BY <2>2, <1>4, RegisterEffect, Counts
    <3>2. Here(c)' = 1 BY <3>1 DEF Here
    <3>3. LivesCounted(c)' BY <1>1, <1>8, <3>1, <3>2, Counts DEF LivesCounted
    <3>4. <<"register", call[2]>> \in cutCalls[c] BY <1>1, <1>4, <2>2
    <3>5. c \in cut' BY <1>1, <1>4, <3>4, Counts DEF Excused
    <3> QED BY <3>1, <3>3, <3>5
  <2>3. CASE c \in Present /\ Published(c)
    <3>1. /\ WallOK' /\ OnlyWall(c) /\ Present' = Present /\ lives' = lives
          /\ wall'[c].owner = wall[c].owner
      BY <2>3, PublishEffect, Counts
    <3>2. Here(c)' = Here(c) BY <3>1 DEF Here
    <3>3. LivesCounted(c)' BY <1>1, <1>8, <3>1, <3>2, Counts DEF LivesCounted
    <3>4. Answers(c) => Answers(c)' BY <1>1, <3>1 DEF Answers
    <3> QED BY <1>1, <3>1, <3>3, <3>4, Counts DEF Excused
  <2> QED BY <1>1, <2>1, <2>2, <2>3
<1>10. Excused(c)' BY <1>1, <1>5, <1>9, Counts DEF Excused
<1>11. OnlyTask(c) BY <1>1, <1>5 DEF OnlyTask
<1>12. Tidy' BY <1>1, <1>9, <1>10, <1>11, TidyElsewhere, Counts
<1> QED BY <1>6, <1>7, <1>9, <1>12 DEF MediaInv

-----------------------------------------------------------------------------
(* The runtime's own steps.                                                 *)
LEMMA AnalyzeBeginsInv ==
  ASSUME MediaInv, NEW c \in Cameras, AnalyzeBegins(c)
  PROVE  MediaInv'
<1>1. /\ Shot(c) # NoShot /\ detection' = [detection EXCEPT ![c] = Shot(c)]
      /\ UNCHANGED <<wall, publisher, pump, cutCalls, cut, lesson, lives, mediaFaults>>
  BY DEF AnalyzeBegins
<1>2. WallOK' /\ Present' = Present BY <1>1, WallKept, Counts DEF wallVars
<1>3. TasksOK' /\ PumpOK' BY <1>1, Counts DEF TasksOK, PumpOK
<1>4. Tidy'
  BY <1>1, <1>2 DEF MediaInv, Tidy, LivesCounted, Excused, Answers, Here, Leaving
<1>5. Shot(c) \in Shots
  <2>1. wall[c].life \in Nat /\ wall[c].seq \in 0..MaxFrames /\ wall[c].life <= lives[c]
    BY Counts DEF WallOK, Walls
  <2>2. mediaFaults \in 0..MaxMediaFaults BY Counts DEF TasksOK
  <2>3. lives[c] <= mediaFaults + 1 BY Counts DEF LivesCounted
  <2>4. wall[c].life \in 0..MaxMediaFaults + 1
    BY <2>1, <2>2, <2>3, Counts, MediaAssumption
  <2>5. CASE wall[c].seq = 0 BY <2>5, NoShotIsShot DEF Shot
  <2>6. CASE wall[c].seq # 0 BY <2>1, <2>4, <2>6 DEF Shot, Shots
  <2> QED BY <2>5, <2>6
<1>6. EyesOK' BY <1>1, <1>5, Counts DEF EyesOK
<1> QED BY <1>2, <1>3, <1>4, <1>6 DEF MediaInv

(* The frame with the number that was analysed is the frame that was, unless *)
(* it is of another life of the source.                                     *)
LEMMA AnalyzeEndsInv ==
  ASSUME MediaInv, NEW c \in Cameras, AnalyzeEnds(c)
  PROVE  MediaInv'
<1>1. /\ wall' = IF StillLatest(c) THEN [wall EXCEPT ![c].analysis = detection[c]] ELSE wall
      /\ detection' = [detection EXCEPT ![c] = NoShot]
      /\ UNCHANGED <<publisher, pump, cutCalls, cut, lesson, lives, mediaFaults>>
  BY DEF AnalyzeEnds
<1>2. detection \in [Cameras -> Shots] BY Counts DEF EyesOK
<1>3. EyesOK' BY <1>1, <1>2, NoShotIsShot, Counts DEF EyesOK
<1>4. TasksOK' /\ PumpOK' BY <1>1, Counts DEF TasksOK, PumpOK
<1>5. WallOK' /\ Present' = Present /\ \A d \in Cameras : wall'[d].owner = wall[d].owner
  <2>1. CASE ~StillLatest(c)
    <3>1. UNCHANGED wallVars BY <1>1, <2>1 DEF wallVars
    <3>2. WallOK' /\ Present' = Present BY <3>1, WallKept, Counts
    <3> QED BY <3>1, <3>2 DEF wallVars
  <2>2. CASE StillLatest(c)
    <3>1. wall' = [wall EXCEPT ![c].analysis = detection[c]] BY <1>1, <2>2
    <3>2. wall \in Walls /\ lives \in [Cameras -> Nat] BY Counts DEF WallOK
    <3>3. wall[c] \in [owner : Publishers \cup {"nobody"}, life : Nat,
                       seq : 0..MaxFrames, analysis : Shots]
      BY <3>2 DEF Walls
    <3>4. /\ wall'[c].owner = wall[c].owner /\ wall'[c].life = wall[c].life
          /\ wall'[c].seq = wall[c].seq /\ wall'[c].analysis = detection[c]
          /\ \A d \in Cameras \ {c} : wall'[d] = wall[d]
          /\ wall' \in Walls
      BY <1>2, <3>1, <3>2, <3>3 DEF Walls
    <3>5. Shot(c) # NoShot /\ wall[c].seq = detection[c].seq BY <2>2 DEF StillLatest
    <3>6. wall[c].seq # 0 BY <3>5 DEF Shot
    <3>7. wall[c] # NoSource /\ wall'[c] # NoSource BY <3>4, <3>6 DEF NoSource
    <3>8. Present' = Present BY <3>4, <3>7 DEF Present
    <3>9. \A d \in Cameras : wall'[d].life <= lives'[d] /\ wall'[d].owner = wall[d].owner
      <4> TAKE d \in Cameras
      <4>1. CASE d = c BY <4>1, <1>1, <3>4, Counts DEF WallOK
      <4>2. CASE d # c BY <4>2, <1>1, <3>4, Counts DEF WallOK
      <4> QED BY <4>1, <4>2
    <3>10. AnalysisIsOfFrame'
      <4> SUFFICES ASSUME NEW d \in Present'
                   PROVE  LET a == wall'[d].analysis IN
                          a # NoShot /\ a.life = wall'[d].life => a = Shot(d)'
        BY DEF AnalysisIsOfFrame
      <4>1. CASE d = c
        <5>1. detection[c] \in Shots BY <1>2
        <5>2. detection[c].life = wall'[c].life =>
                 detection[c] = [life |-> wall'[c].life, seq |-> wall'[c].seq]
          BY <3>4, <3>5, <5>1 DEF Shots
        <5>3. Shot(c)' = [life |-> wall'[c].life, seq |-> wall'[c].seq]
          BY <3>4, <3>6 DEF Shot
        <5> QED BY <4>1, <3>4, <5>2, <5>3
      <4>2. CASE d # c
        <5>1. d \in Present /\ d \in Cameras BY <3>8 DEF Present
        <5>2. wall'[d] = wall[d] BY <4>2, <5>1, <3>4
        <5> QED BY <5>1, <5>2, Counts DEF WallOK, AnalysisIsOfFrame, Shot
      <4> QED BY <4>1, <4>2
    <3> QED BY <1>1, <3>2, <3>4, <3>8, <3>9, <3>10, Counts DEF WallOK
  <2> QED BY <2>1, <2>2
<1>6. Tidy'
  BY <1>1, <1>5 DEF MediaInv, Tidy, LivesCounted, Excused, Answers, Here, Leaving
<1> QED BY <1>3, <1>4, <1>5, <1>6 DEF MediaInv

LEMMA TutorRemovesInv ==
  ASSUME MediaInv, NEW c \in Cameras, TutorRemoves(c)
  PROVE  MediaInv'
<1>1. /\ mediaFaults < MaxMediaFaults /\ mediaFaults' = mediaFaults + 1
      /\ Removed(c)
      /\ UNCHANGED <<publisher, pump, cutCalls, cut, detection, lesson>>
  BY DEF TutorRemoves
<1>2. WallOK' /\ OnlyWall(c) /\ c \notin Present' /\ lives' = lives
  BY <1>1, RemoveEffect, Counts
<1>3. mediaFaults' \in 0..MaxMediaFaults BY <1>1, Counts, MediaAssumption
<1>4. TasksOK' /\ PumpOK' /\ EyesOK' BY <1>1, <1>3, Counts DEF TasksOK, PumpOK, EyesOK
<1>5. LivesCounted(c)'
  <2>1. Here(c)' = 0 /\ Leaving(c)' = Leaving(c) BY <1>1, <1>2 DEF Here, Leaving
  <2> QED BY <1>1, <1>2, <2>1, Counts DEF LivesCounted
<1>6. Excused(c)' BY <1>1, <1>2, Counts DEF Excused
<1>7. Tidy' BY <1>1, <1>2, <1>3, <1>5, <1>6, TidyElsewhere, Counts DEF OnlyTask
<1> QED BY <1>2, <1>4, <1>7 DEF MediaInv

LEMMA RuntimeRestartsInv ==
  ASSUME MediaInv, RuntimeRestarts
  PROVE  MediaInv'
<1>1. /\ mediaFaults < MaxMediaFaults /\ mediaFaults' = mediaFaults + 1
      /\ wall' = [c \in Cameras |-> NoSource]
      /\ detection' = [c \in Cameras |-> NoShot]
      /\ UNCHANGED <<publisher, pump, cutCalls, cut, lesson, lives>>
  BY DEF RuntimeRestarts
<1>2. WallOK /\ TasksOK /\ PumpOK /\ EyesOK /\ Tidy BY DEF MediaInv
<1>3. wall' = [d \in Cameras |-> IF d \in Cameras THEN NoSource ELSE wall[d]]
  BY <1>1
<1>4. WallOK' /\ Present' = {}
  <2>1. WallOK' /\ Present' = Present \ Cameras
    BY <1>1, <1>2, <1>3, TakenDownEffect
  <2> QED BY <2>1 DEF Present
<1>5. mediaFaults \in Nat /\ mediaFaults' \in 0..MaxMediaFaults
  BY <1>1, <1>2, MediaAssumption DEF TasksOK
<1>6. TasksOK' /\ PumpOK' BY <1>1, <1>2, <1>5 DEF TasksOK, PumpOK
<1>7. EyesOK' BY <1>1, <1>2, NoShotIsShot DEF EyesOK
<1>8. Tidy'
  <2> SUFFICES ASSUME NEW c \in Cameras PROVE LivesCounted(c)' /\ Excused(c)'
    BY DEF Tidy
  <2>1. Here(c)' = 0 /\ Leaving(c)' = Leaving(c) BY <1>1, <1>4 DEF Here, Leaving
  <2>2. LivesCounted(c)' BY <1>1, <2>1, Counts DEF LivesCounted
  <2>3. Excused(c)' BY <1>1, <1>4, Counts DEF Excused
  <2> QED BY <2>2, <2>3
<1> QED BY <1>4, <1>6, <1>7, <1>8 DEF MediaInv

LEMMA LessonInv ==
  ASSUME MediaInv, Lesson
  PROVE  MediaInv'
<1>1. /\ lesson' = ~lesson
      /\ UNCHANGED <<wall, publisher, pump, cutCalls, cut, detection, lives, mediaFaults>>
  BY DEF Lesson
<1>2. WallOK /\ TasksOK /\ PumpOK /\ EyesOK /\ Tidy BY DEF MediaInv
<1>3. WallOK' /\ Present' = Present BY <1>1, <1>2, WallKept DEF wallVars
<1>4. TasksOK' /\ PumpOK' /\ EyesOK' BY <1>1, <1>2 DEF TasksOK, PumpOK, EyesOK
<1>5. Tidy'
  BY <1>1, <1>2, <1>3 DEF Tidy, LivesCounted, Excused, Answers, Here, Leaving
<1> QED BY <1>3, <1>4, <1>5 DEF MediaInv

LEMMA MediaStep == MediaInv /\ [MediaNext]_mediaVars => MediaInv'
<1> SUFFICES ASSUME MediaInv, [MediaNext]_mediaVars PROVE MediaInv'
  OBVIOUS
<1>1. CASE Lesson BY <1>1, LessonInv
<1>2. CASE RuntimeRestarts BY <1>2, RuntimeRestartsInv
<1>3. ASSUME NEW c \in Robots, Capture(c) \/ WorkerFallsBehind(c) PROVE MediaInv'
  BY <1>3, CaptureInv, WorkerFallsBehindInv, MediaAssumption
<1>4. ASSUME NEW c \in Cameras, NEW i \in Publishers, AdapterStarts(c, i) PROVE MediaInv'
  BY <1>4, AdapterStartsInv
<1>5. ASSUME NEW c \in Cameras, PublisherStep(c) PROVE MediaInv'
  BY <1>5, RoundInv, RegisterInv, StreamPictureInv, StartCameraInv, RobotPictureInv,
     PictureRefusedInv, PublishInv, RemoveSourceInv DEF PublisherStep
<1>6. ASSUME NEW c \in Cameras,
             CallFails(c) \/ AdapterStops(c) \/ RemoveFails(c) \/ AdapterKilled(c)
      PROVE  MediaInv'
  BY <1>6, CallFailsInv, AdapterStopsInv, RemoveFailsInv, AdapterKilledInv
<1>7. ASSUME NEW c \in Cameras,
             CutCall(c) \/ AnalyzeBegins(c) \/ AnalyzeEnds(c) \/ TutorRemoves(c)
      PROVE  MediaInv'
  BY <1>7, CutCallInv, AnalyzeBeginsInv, AnalyzeEndsInv, TutorRemovesInv
<1>8. CASE UNCHANGED mediaVars
  <2>1. /\ UNCHANGED <<wall, publisher, pump, cutCalls, cut>>
        /\ UNCHANGED <<detection, lesson, lives, mediaFaults>>
    BY <1>8 DEF mediaVars
  <2>2. WallOK /\ TasksOK /\ PumpOK /\ EyesOK /\ Tidy BY DEF MediaInv
  <2>3. WallOK' /\ Present' = Present BY <2>1, <2>2, WallKept DEF wallVars
  <2>4. TasksOK' /\ PumpOK' /\ EyesOK' BY <2>1, <2>2 DEF TasksOK, PumpOK, EyesOK
  <2>5. Tidy'
    BY <2>1, <2>2, <2>3 DEF Tidy, LivesCounted, Excused, Answers, Here, Leaving
  <2> QED BY <2>3, <2>4, <2>5 DEF MediaInv
<1> QED BY <1>1, <1>2, <1>3, <1>4, <1>5, <1>6, <1>7, <1>8 DEF MediaNext

(* For every set of cameras and of identities: the analysis shown with a     *)
(* frame is that frame's, and a source still on the wall after its adapter   *)
(* ended by itself was left there by a kill, a failed call or a cancelled    *)
(* registration.                                                            *)
THEOREM WallSafety == MediaSpec => [](MediaTypeOK /\ AnalysisIsOfFrame /\ LeftOnlyIfCut)
<1>1. MediaInv => MediaTypeOK /\ AnalysisIsOfFrame /\ LeftOnlyIfCut BY MediaInvImplies
<1> QED BY <1>1, MediaInitInv, MediaStep, PTL DEF MediaSpec
==============================================================================
