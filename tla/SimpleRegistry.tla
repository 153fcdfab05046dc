----------------------------- MODULE SimpleRegistry -----------------------------
(***************************************************************************)
(* The simple mandate registry: standalone mandates, one money path and    *)
(* the emergency stop, over SEP-41 tokens.  (Rotation of the administrator *)
(* and upgrades are in AdminPlane.)                                        *)
(*                                                                         *)
(* Every action is one host transaction, reverted as a whole when a check  *)
(* or the token refuses.  `caller' is the agent that authorised a payment: *)
(* it is modelled because an agent may be a contract with rules of its     *)
(* own.  A vc_hash is a mandate's key and is not bound to its terms.       *)
(***************************************************************************)
EXTENDS Sep41Token

CONSTANTS
  Mandates,        \* mandate ids (vc_hash)
  MandateTerms,    \* the terms users sign
  NoTerms,
  Agents,          \* agent addresses, contracts included
  PaymentAmounts,  \* amounts agents ask to pay, bounded for TLC
  MaxSeq,          \* u32::MAX: at it `seq += 1' panics and reverts
  MaxTime          \* bound on ledger time, for TLC

MandateTermsType ==
  [user : Users, agent : Agents, merchant : Payees, asset : Assets,
   maxAmount : Int, expiry : Nat]

ASSUME RegistryConstants ==
  /\ MandateTerms \subseteq MandateTermsType
  /\ NoTerms \notin MandateTerms
  /\ IsFiniteSet(Mandates)      \* ids are 32 bytes long
  /\ PaymentAmounts \subseteq Int
  /\ MaxSeq \in Nat /\ MaxTime \in Nat

VARIABLES
  now,      \* ledger timestamp
  paused,   \* DataKey::Paused
  terms,    \* signed fields of the stored Mandate; NoTerms = no entry
  status,   \* Mandate.status
  spent,    \* Mandate.spent
  seq       \* Mandate.seq

mandateVars == <<terms, status, spent, seq>>
registryVars == <<tokenVars, now, paused, mandateVars>>

Registered(m) == terms[m] # NoTerms

RegistryInit ==
  /\ TokenInit
  /\ now = 0
  /\ paused = FALSE
  /\ terms = [m \in Mandates |-> NoTerms]
  /\ status = [m \in Mandates |-> "None"]
  /\ spent = [m \in Mandates |-> 0]
  /\ seq = [m \in Mandates |-> 0]

\* Mutant: a vc_hash on file is registered over.
IsFreshAlways(m) == TRUE

IsFresh(m) == ~Registered(m)

RegisterMandate(m, t) ==
  /\ t.maxAmount > 0
  /\ now < t.expiry
  /\ IsFresh(m)
  /\ terms' = [terms EXCEPT ![m] = t]
  /\ status' = [status EXCEPT ![m] = "Active"]
  /\ spent' = [spent EXCEPT ![m] = 0]
  /\ seq' = [seq EXCEPT ![m] = 0]
  /\ UNCHANGED <<tokenVars, now, paused>>

RevokeMandate(m) ==
  /\ Registered(m)
  /\ status' = [status EXCEPT ![m] = "Revoked"]
  /\ UNCHANGED <<tokenVars, now, paused, terms, spent, seq>>

\* Mutant: expiry is inclusive.
CheckLate(m, amount, merchant) ==
  /\ amount > 0
  /\ status[m] = "Active"
  /\ now <= terms[m].expiry
  /\ merchant = terms[m].merchant
  /\ spent[m] + amount <= terms[m].maxAmount

Check(m, amount, merchant) ==
  /\ amount > 0
  /\ status[m] = "Active"
  /\ now < terms[m].expiry
  /\ merchant = terms[m].merchant
  /\ spent[m] + amount <= terms[m].maxAmount

\* validate_mandate succeeds: the preflight anybody may ask for.
Preflight(m, amount, merchant) == Registered(m) /\ Check(m, amount, merchant)

SequenceLeft(m) == seq[m] < MaxSeq

StatusAfter(m, newSpent) ==
  IF newSpent = terms[m].maxAmount THEN "Exhausted" ELSE status[m]

Transfer(m, amount) ==
  [k \in {m} |-> [asset |-> terms[m].asset, from |-> terms[m].user,
                  to |-> terms[m].merchant, amount |-> amount]]

\* Mutant: whoever calls.
MayCallAny(caller, m) == TRUE

MayCall(caller, m) == caller = terms[m].agent

PaymentAccepted(caller, m, amount, expectedSeq) ==
  /\ ~paused
  /\ Registered(m)
  /\ MayCall(caller, m)
  /\ expectedSeq = seq[m]
  /\ Check(m, amount, terms[m].merchant)
  /\ SequenceLeft(m)

BookPayment(m, amount) ==
  /\ spent' = [spent EXCEPT ![m] = @ + amount]
  /\ seq' = [seq EXCEPT ![m] = @ + 1]
  /\ status' = [status EXCEPT ![m] = StatusAfter(m, spent[m] + amount)]

ExecutePayment(caller, m, amount, expectedSeq) ==
  /\ PaymentAccepted(caller, m, amount, expectedSeq)
  /\ BookPayment(m, amount)
  /\ Settle(Transfer(m, amount))
  /\ UNCHANGED <<now, paused, terms>>

Pause ==
  /\ ~paused
  /\ paused' = TRUE
  /\ UNCHANGED <<tokenVars, now, mandateVars>>

Unpause ==
  /\ paused
  /\ paused' = FALSE
  /\ UNCHANGED <<tokenVars, now, mandateVars>>

TokenStep == Environment /\ UNCHANGED <<now, paused, mandateVars>>

Tick ==
  /\ now < MaxTime
  /\ now' = now + 1
  /\ UNCHANGED <<tokenVars, paused, mandateVars>>

================================================================================
