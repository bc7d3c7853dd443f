--------------------------- MODULE ConfirmedStarts ---------------------------
(***************************************************************************)
(* What the printer service promises about its confirmations, without its  *)
(* requests, its lock, its files or the printer: a confirmation is issued  *)
(* once, taken at most once, and sends at most one start; between any two  *)
(* starts the printer has been seen standing by.                           *)
(***************************************************************************)
EXTENDS Naturals

CONSTANT Tokens          \* confirmations that can be issued

VARIABLES
    confirmation,        \* what became of each confirmation
    starts,              \* start requests sent with each
    seen                 \* the printer was seen idle since the last start

confirmVars == <<confirmation, starts, seen>>

ConfirmInit ==
    /\ confirmation = [t \in Tokens |-> "unissued"]
    /\ starts = [t \in Tokens |-> 0]
    /\ seen = FALSE

Becomes(t, state) == confirmation' = [confirmation EXCEPT ![t] = state]

\* The printer was idle, and a tutor is given a token.
Issue(t) ==
    /\ confirmation[t] = "unissued"
    /\ Becomes(t, "issued")
    /\ UNCHANGED <<starts, seen>>

\* The tutor starts the print with it: from now on nobody else can.
Accept(t) ==
    /\ confirmation[t] = "issued"
    /\ Becomes(t, "accepted")
    /\ UNCHANGED <<starts, seen>>

\* It expires, is refused, or the print it confirmed cannot be started.
Withdraw(t) ==
    /\ confirmation[t] \in {"issued", "accepted"}
    /\ Becomes(t, "spent")
    /\ UNCHANGED <<starts, seen>>

SeeStandby ==
    /\ seen' = TRUE
    /\ UNCHANGED <<confirmation, starts>>

Send(t) ==
    /\ seen /\ confirmation[t] = "accepted"
    /\ Becomes(t, "spent")
    /\ starts' = [starts EXCEPT ![t] = @ + 1]
    /\ seen' = FALSE

\* A new process has neither confirmations nor observations.
Forget ==
    /\ confirmation' = [t \in Tokens |-> IF confirmation[t] = "unissued" THEN "unissued"
                                         ELSE "spent"]
    /\ seen' = FALSE
    /\ UNCHANGED starts

ConfirmNext ==
    \/ SeeStandby \/ Forget
    \/ \E t \in Tokens : Issue(t) \/ Accept(t) \/ Withdraw(t) \/ Send(t)

ConfirmSpec == ConfirmInit /\ [][ConfirmNext]_confirmVars
=============================================================================
