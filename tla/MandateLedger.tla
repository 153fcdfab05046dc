----------------------------- MODULE MandateLedger -----------------------------
(***************************************************************************)
(* What a mandate registry promises, whatever machinery it has: a user     *)
(* grants a budget for one payee until an expiry, the budget is drawn on   *)
(* in amounts that never exceed what is left, and once the user withdraws  *)
(* consent or the mandate expires nothing is drawn any more.  Several      *)
(* mandates may be charged in one step; every unit used has moved, in the  *)
(* granted asset, from the user to the payee.                              *)
(***************************************************************************)
EXTENDS Integers, FiniteSetsExt

CONSTANTS Mandates, Grants, NoGrant, Assets, Users, Payees, LastInstant

VARIABLES time,      \* ledger time
          grant,     \* what the user of a mandate agreed to, or NoGrant
          used,      \* how much of the budget is gone
          consent,   \* FALSE once withdrawn
          drawn      \* what really moved, by asset, payer and payee

ledgerVars == <<time, grant, used, consent, drawn>>

Init ==
  /\ time = 0
  /\ grant = [m \in Mandates |-> NoGrant]
  /\ used = [m \in Mandates |-> 0]
  /\ consent = [m \in Mandates |-> TRUE]
  /\ drawn = [a \in Assets |-> [u \in Users |-> [w \in Payees |-> 0]]]

Granted(m) == grant[m] # NoGrant

Chargeable(m) == Granted(m) /\ consent[m] /\ time < grant[m].expiry

GrantMandate(m, g) ==
  /\ ~Granted(m)
  /\ g.maxAmount > 0
  /\ time < g.expiry
  /\ grant' = [grant EXCEPT ![m] = g]
  /\ UNCHANGED <<time, used, consent, drawn>>

\* What a charge of `amount' moves between one payer and one payee.
Moved(charged, amount, a, u, w) ==
  MapThenSumSet(LAMBDA m : amount[m],
                {m \in charged : /\ grant[m].asset = a
                                 /\ grant[m].user = u
                                 /\ grant[m].merchant = w})

Charge(charged, amount) ==
  /\ charged # {}
  /\ \A m \in charged : /\ Chargeable(m)
                        /\ amount[m] > 0
                        /\ used[m] + amount[m] <= grant[m].maxAmount
  /\ used' = [m \in Mandates |-> IF m \in charged THEN used[m] + amount[m]
                                                 ELSE used[m]]
  /\ drawn' = [a \in Assets |-> [u \in Users |-> [w \in Payees |->
                 drawn[a][u][w] + Moved(charged, amount, a, u, w)]]]
  /\ UNCHANGED <<time, grant, consent>>

Withdraw(m) ==
  /\ Granted(m)
  /\ consent' = [consent EXCEPT ![m] = FALSE]
  /\ UNCHANGED <<time, grant, used, drawn>>

Pass ==
  /\ time < LastInstant
  /\ time' = time + 1
  /\ UNCHANGED <<grant, used, consent, drawn>>

\* The amounts charged are whatever the step makes of `used'.
Next ==
  \/ \E m \in Mandates, g \in Grants : GrantMandate(m, g)
  \/ \E charged \in SUBSET Mandates :
        Charge(charged, [m \in Mandates |-> used'[m] - used[m]])
  \/ \E m \in Mandates : Withdraw(m)
  \/ Pass

Spec == Init /\ [][Next]_ledgerVars

================================================================================
