------------------------------ MODULE ReplyLedger ------------------------------
(***************************************************************************)
(* What the chat promises for the replies of administrators, abstractly: a *)
(* reply is taken or refused at once, one that is taken is stored once, a  *)
(* refused one never is, and a reply is lost only when something disturbed *)
(* the server.                                                             *)
(***************************************************************************)
CONSTANT Reply

VARIABLES
  ledger,      \* what became of each reply
  calm         \* nothing has failed and nobody has stopped the server

ledgerVars == <<ledger, calm>>

Fate == {"none", "taken", "stored", "refused", "lost"}

LedgerInit ==
  /\ ledger = [r \in Reply |-> "none"]
  /\ calm = TRUE

Becomes(r, from, to) ==
  /\ ledger[r] \in from
  /\ ledger' = [ledger EXCEPT ![r] = to]
  /\ UNCHANGED calm

Take(r) == Becomes(r, {"none"}, "taken")
Store(r) == Becomes(r, {"none", "taken"}, "stored")

Disturb ==
  /\ calm' = FALSE
  /\ \E lost \in SUBSET {r \in Reply : ledger[r] = "taken"} :
       ledger' = [r \in Reply |-> IF r \in lost THEN "lost" ELSE ledger[r]]

Refuse(r) ==
  /\ ledger[r] = "none"
  /\ ledger' = [ledger EXCEPT ![r] = "refused"]
  /\ calm' = FALSE

LedgerNext == Disturb \/ \E r \in Reply : Take(r) \/ Store(r) \/ Refuse(r)

Ledger == LedgerInit /\ [][LedgerNext]_ledgerVars

===============================================================================
