------------------------------ MODULE Sep41Token -------------------------------
(***************************************************************************)
(* The SEP-41 tokens the registries draw on, as the registries see them:   *)
(* external contracts whose allowances (to the registry), balances and     *)
(* trustline authorisations change at any moment, by their owners' and     *)
(* issuer's doing, and whose transfer_from either moves the exact amount   *)
(* or reverts the whole transaction.  What a transfer goes by              *)
(* (`authorized', CanSettle) is the token's own business: whether a        *)
(* registry can read it beforehand is not assumed here.                    *)
(*                                                                         *)
(* `drawn' is the ledger's record of what the registry ever moved: by      *)
(* asset, payer and payee.  The registry has no such state; it is what its *)
(* own books (`spent') are compared with.                                  *)
(***************************************************************************)
EXTENDS Integers, FiniteSetsExt

CONSTANTS Assets, Users, Payees,
          InitialFunds,      \* allowance and balance of every user to begin with
          AllowanceValues,   \* what an approve may set an allowance to
          BalanceValues,     \* what a deposit or withdrawal may leave behind
          Freezable          \* accounts an issuer may freeze and unfreeze

ASSUME TokenConstants ==
  /\ InitialFunds \in Nat
  /\ AllowanceValues \subseteq Nat
  /\ BalanceValues \subseteq Nat
  /\ Freezable \subseteq Users \union Payees

VARIABLES allowance,    \* [Assets -> [Users -> Nat]], spender = the registry
          balance,      \* [Assets -> [Users -> Nat]]
          authorized,   \* [Assets -> [Users \union Payees -> BOOLEAN]]: not blocked
          drawn         \* [Assets -> [Users -> [Payees -> Nat]]]

tokenVars == <<allowance, balance, authorized, drawn>>

TokenTypeOK ==
  /\ allowance \in [Assets -> [Users -> Nat]]
  /\ balance \in [Assets -> [Users -> Nat]]
  /\ authorized \in [Assets -> [Users \union Payees -> BOOLEAN]]
  /\ drawn \in [Assets -> [Users -> [Payees -> Nat]]]

TokenInit ==
  /\ allowance = [a \in Assets |-> [u \in Users |-> InitialFunds]]
  /\ balance = [a \in Assets |-> [u \in Users |-> InitialFunds]]
  /\ authorized = [a \in Assets |-> [x \in Users \union Payees |-> TRUE]]
  /\ drawn = [a \in Assets |-> [u \in Users |-> [w \in Payees |-> 0]]]

\* A user approves the registry for v, or the allowance expires (v = 0).
Approve(a, u, v) ==
  /\ v \in AllowanceValues
  /\ allowance' = [allowance EXCEPT ![a][u] = v]
  /\ UNCHANGED <<balance, authorized, drawn>>

\* A transfer the registry has no part in, to or from a user.
MoveFunds(a, u, v) ==
  /\ v \in BalanceValues
  /\ balance' = [balance EXCEPT ![a][u] = v]
  /\ UNCHANGED <<allowance, authorized, drawn>>

\* The issuer blocks or unblocks an account (SAC set_authorized, or whatever the
\* token has in its place).
SetAuthorized(a, x) ==
  /\ x \in Freezable
  /\ authorized' = [authorized EXCEPT ![a][x] = ~@]
  /\ UNCHANGED <<allowance, balance, drawn>>

Environment ==
  \E a \in Assets :
    \/ \E u \in Users : \/ \E v \in AllowanceValues : Approve(a, u, v)
                        \/ \E v \in BalanceValues : MoveFunds(a, u, v)
    \/ \E x \in Freezable : SetAuthorized(a, x)

(***************************************************************************)
(* A batch is a function from ids to legs [asset, from, to, amount]: the   *)
(* transfer_from calls of one transaction.  They all succeed or none does. *)
(***************************************************************************)
Due(batch, a, u) ==
  MapThenSumSet(LAMBDA k : batch[k].amount,
                {k \in DOMAIN batch : batch[k].asset = a /\ batch[k].from = u})

Flow(batch, a, u, w) ==
  MapThenSumSet(LAMBDA k : batch[k].amount,
                {k \in DOMAIN batch : /\ batch[k].asset = a
                                      /\ batch[k].from = u
                                      /\ batch[k].to = w})

CanSettle(batch) ==
  /\ \A a \in Assets, u \in Users :
        /\ Due(batch, a, u) \in 0..balance[a][u]
        /\ Due(batch, a, u) \in 0..allowance[a][u]
  /\ \A k \in DOMAIN batch : /\ authorized[batch[k].asset][batch[k].from]
                             /\ authorized[batch[k].asset][batch[k].to]

Settle(batch) ==
  /\ CanSettle(batch)
  /\ allowance' = [a \in Assets |-> [u \in Users |->
                     allowance[a][u] - Due(batch, a, u)]]
  /\ balance' = [a \in Assets |-> [u \in Users |->
                     balance[a][u] - Due(batch, a, u)]]
  /\ drawn' = [a \in Assets |-> [u \in Users |-> [w \in Payees |->
                     drawn[a][u][w] + Flow(batch, a, u, w)]]]
  /\ UNCHANGED authorized

================================================================================
