----------------------------- MODULE OrderLedger -----------------------------
(***************************************************************************)
(* What the reference engine promises about orders, with no markets, no    *)
(* prices and no lists: an accepted order is open until it is closed once, *)
(* for one reason; orders expire only after trading has stopped; a run     *)
(* that is reported leaves none open; an aborted run changes nothing more. *)
(***************************************************************************)
EXTENDS Integers

VARIABLES stage,      \* "trading", "closing", "reported" or "aborted"
          accepted,   \* number of orders accepted; they are numbered from 1
          open,       \* the numbers of the open orders
          outcome     \* closed order -> why it was closed

ledgerVars == <<stage, accepted, open, outcome>>

LedgerInit ==
  /\ stage = "trading" /\ accepted = 0 /\ open = {}
  /\ outcome = [n \in {} |-> "none"]

AcceptOrder ==
  /\ stage = "trading"
  /\ accepted' = accepted + 1
  /\ open' = open \cup {accepted + 1}
  /\ UNCHANGED <<stage, outcome>>

CloseOrder(n, why) ==
  /\ n \in open
  /\ why = "expired" <=> stage = "closing"
  /\ stage \in {"trading", "closing"}
  /\ open' = open \ {n}
  /\ outcome' = [m \in DOMAIN outcome \cup {n} |-> IF m = n THEN why ELSE outcome[m]]
  /\ UNCHANGED <<stage, accepted>>

StopTrading ==
  /\ stage = "trading" /\ stage' = "closing"
  /\ UNCHANGED <<accepted, open, outcome>>

ReportLedger ==
  /\ stage = "closing" /\ open = {}
  /\ stage' = "reported"
  /\ UNCHANGED <<accepted, open, outcome>>

Abort ==
  /\ stage = "trading" /\ stage' = "aborted"
  /\ UNCHANGED <<accepted, open, outcome>>

LedgerNext ==
  \/ AcceptOrder \/ StopTrading \/ ReportLedger \/ Abort
  \/ \E n \in open, why \in {"filled", "satisfied", "canceled", "expired"} :
       CloseOrder(n, why)

LedgerSpec == LedgerInit /\ [][LedgerNext]_ledgerVars
=============================================================================
