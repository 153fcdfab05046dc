---------------------------- MODULE GovernedRegistry ----------------------------
(***************************************************************************)
(* The Mainnet V2 registry in operation: its money path (MainnetV2Registry)*)
(* and the controllers and accounts that run it (TimelockController), over *)
(* one administration plane (V2Admin, a part of both).  Payments see what  *)
(* is decided there through pause, allow list and code; nothing else is    *)
(* shared.  The ledger's sequence number, by which operations wait, and    *)
(* its timestamp, by which mandates expire, advance each on its own.       *)
(***************************************************************************)
EXTENDS MainnetV2Properties

CONSTANTS Controllers, Accounts, Operations, ActionOf, PredecessorOf,
          NoOperation, Delay, MaxSequence, MaxLedger

VARIABLES ledger, deployed, governance, initialAdmin, pendingGovernance,
          adopted, readyLedger, announced

Control == INSTANCE TimelockController

\* What TimelockController asks of its constants.
ASSUME GovernedConstants ==
  /\ Principals = Controllers \union Accounts
  /\ Controllers \intersect Accounts = {}
  /\ ActionOf \in [Operations -> Control!Actions]
  /\ PredecessorOf \in [Operations -> Operations \union {NoOperation}]
  /\ NoOperation \notin Operations
  /\ Delay \in Nat \ {0}
  /\ MaxSequence \in Nat /\ MaxLedger \in 0..MaxSequence

controlVars == <<ledger, deployed, governance, initialAdmin, pendingGovernance,
                 adopted, readyLedger, announced>>
governedVars == <<adminVars, tokenVars, now, moneyVars, controlVars>>

\* Controllers and accounts.
ControlStep == Control!Next /\ UNCHANGED <<tokenVars, now, moneyVars>>

\* Users, agents, token holders and the clock: what the registry does but for
\* its own administration.
MoneyStep ==
  /\ \/ \E m \in MandateTerms :
          \/ RegisterMandate(m)
          \/ RegisterAndApprove(m)
          \/ RevokeMandate(m)
          \/ \E amount \in PaymentAmounts, expectedSeq \in 0..MaxSeq :
               ExecutePayment(m, amount, expectedSeq)
     \/ TokenStep
     \/ Tick
  /\ UNCHANGED controlVars

GovernedInit == Init /\ Control!Init

GovernedNext == ControlStep \/ MoneyStep

GovernedSpec == GovernedInit /\ [][GovernedNext]_governedVars

--------------------------------------------------------------------------------
\* What a stop is worth to a user, as long as a controller is in charge.

\* New code and a new administrator may do anything.
Handovers == {action \in Control!Actions : action.kind \in {"Upgrade", "TransferAdmin"}}

Resumption == {[kind |-> "Unpause"]}

Listing(asset) == {[kind |-> "AssetPolicy", asset |-> asset, permit |-> TRUE]}

\* Of the operations for these actions, none that stands is ready before `until'.
NoneReady(c, actions, until) ==
  \A op \in Operations :
    ActionOf[op] \in actions /\ Control!Pending(c, op) => readyLedger[c][op] >= until

\* Controller c is in charge and nobody is nominated to follow it; mandate m
\* cannot be charged, for the pause or for its asset; and nothing that was
\* announced so far can change any of this before `until'.
Barred(c, m, until) ==
  /\ admin = c /\ pendingAdmin = Nobody
  /\ NoneReady(c, Handovers, until)
  /\ \/ paused /\ NoneReady(c, Resumption, until)
     \/ m.asset \notin allowed /\ NoneReady(c, Listing(m.asset), until)

\* A stop can be relied on: whoever finds a mandate barred, in a registry that a
\* controller runs, knows that it will not be charged, nor the code change, until
\* the first operation already announced that could lift the bar is ready, or else
\* for the whole delay; whatever governance, agents and strangers do meanwhile.
\* Until then the user may still revoke (pause_now, schedule, execute of the
\* controller against execute_payment of the registry).
StopsHold ==
  \A c \in Controllers, m \in MandateTerms, until \in 1..MaxLedger + 1 :
    \A amount \in 0..m.maxAmount, hash \in WasmHashes :
      [](/\ Barred(c, m, until) /\ until <= ledger + Delay
         /\ spent[m] = amount /\ code = hash
         => [](ledger < until => spent[m] = amount /\ code = hash))

================================================================================
