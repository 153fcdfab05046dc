--------------------------- MODULE MainnetV2Registry ----------------------------
(***************************************************************************)
(* The Mainnet V2 registry as one contract: its administration plane       *)
(* (V2Admin) and its money path, over SEP-41 tokens, with the wallet-setup *)
(* helper that registers a mandate and approves its allowance in one call. *)
(*                                                                         *)
(* A mandate's id is the hash of its terms and credential (and of the      *)
(* network and the contract), so ids are distinct exactly when the terms   *)
(* are: the stored mandates are indexed by their terms.                    *)
(*                                                                         *)
(* Every action is one host transaction: it is reverted as a whole when a  *)
(* check or the token refuses, and nothing runs in between.  The user and  *)
(* the agent of a mandate never change and their require_auth is not       *)
(* modelled; who may administer changes, and is.  get_mandate, the         *)
(* derivation of an id and the extension of entry lifetimes change nothing *)
(* that is modelled.  The schema version is the constructor's at all times.*)
(***************************************************************************)
EXTENDS V2Admin, Sep41Token, Sequences

CONSTANTS
  MandateTerms,     \* what users sign: see MandateTermsType
  Credentials,      \* credential commitments (vc_hash)
  PaymentAmounts,   \* amounts agents ask to pay, bounded for TLC
  SetupAsset,       \* the asset the wallet-setup helper is deployed for
  MaxLifetime,      \* MAX_MANDATE_LIFETIME_SECONDS (30 days)
  MaxSeq,           \* u32::MAX
  MaxTime           \* bound on ledger time, for TLC

MandateTermsType ==
  [user : Users, merchant : Payees, asset : Assets, maxAmount : Int,
   expiry : Nat, credential : Credentials]

ASSUME RegistryConstants ==
  /\ Listable \subseteq Assets
  /\ MandateTerms \subseteq MandateTermsType
  /\ IsFiniteSet(MandateTerms)      \* as their ids are, 32 bytes long
  /\ PaymentAmounts \subseteq Int
  /\ SetupAsset \in Assets
  /\ MaxLifetime \in Nat
  /\ MaxSeq \in Nat /\ MaxTime \in Nat

VARIABLES
  now,               \* ledger timestamp
  status,            \* Mandate.status; "None" = no entry
  spent,             \* Mandate.spent
  seq,               \* Mandate.seq
  usedCredentials,   \* the DataKey::UsedCredential entries
  receipts           \* the payment_executed events of each mandate, in order

moneyVars == <<status, spent, seq, usedCredentials, receipts>>
vars == <<adminVars, tokenVars, now, moneyVars>>

Registered(m) == status[m] # "None"

Init ==
  /\ AdminInit
  /\ TokenInit
  /\ now = 0
  /\ status = [m \in MandateTerms |-> "None"]
  /\ spent = [m \in MandateTerms |-> 0]
  /\ seq = [m \in MandateTerms |-> 0]
  /\ usedCredentials = {}
  /\ receipts = [m \in MandateTerms |-> << >>]

--------------------------------------------------------------------------------
\* Registration and revocation; neither is stopped by a pause.

\* Mutant: only the mandate id is tested.
IsFreshId(m) == ~Registered(m)

\* A user signs a credential into one mandate only, whatever its terms.
IsFresh(m) ==
  /\ <<m.user, m.credential>> \notin usedCredentials
  /\ ~Registered(m)

IsTimely(m) ==
  /\ now < m.expiry
  /\ m.expiry - now <= MaxLifetime

Store(m) ==
  /\ m.maxAmount > 0
  /\ IsTimely(m)
  /\ m.asset \in allowed
  /\ IsFresh(m)
  /\ status' = [status EXCEPT ![m] = "Active"]
  /\ spent' = [spent EXCEPT ![m] = 0]
  /\ seq' = [seq EXCEPT ![m] = 0]
  /\ usedCredentials' = usedCredentials \union {<<m.user, m.credential>>}
  /\ UNCHANGED receipts

RegisterMandate(m) ==
  /\ Store(m)
  /\ UNCHANGED <<adminVars, tokenVars, now>>

\* The helper registers through the registry and then approves the registry
\* for the whole budget; the new allowance replaces the old one.  (Its bound
\* on the allowance's lifetime is an expiry like any other: see Approve.)
RegisterAndApprove(m) ==
  /\ m.asset = SetupAsset
  /\ Store(m)
  /\ allowance' = [allowance EXCEPT ![m.asset][m.user] = m.maxAmount]
  /\ UNCHANGED <<adminVars, balance, authorized, drawn, now>>

\* Revocation is unconditional: an exhausted or expired mandate too.
RevokeMandate(m) ==
  /\ Registered(m)
  /\ status' = [status EXCEPT ![m] = "Revoked"]
  /\ UNCHANGED <<adminVars, tokenVars, now, spent, seq, usedCredentials, receipts>>

--------------------------------------------------------------------------------
\* The money path.

\* The stored mandate is one the contract can have written; the code answers
\* InvalidState otherwise.
StoredStateIsValid(m) ==
  /\ m.maxAmount > 0
  /\ spent[m] \in 0..m.maxAmount
  /\ status[m] = "Active" => spent[m] # m.maxAmount
  /\ status[m] = "Exhausted" => spent[m] = m.maxAmount

\* Mutant: the allow list is consulted at registration only.
CheckedSpentOnRegistration(m, amount, merchant) ==
  /\ amount > 0
  /\ StoredStateIsValid(m)
  /\ status[m] = "Active"
  /\ now < m.expiry
  /\ merchant = m.merchant
  /\ spent[m] + amount <= m.maxAmount

\* Mutant: expiry is inclusive.
CheckedSpentLate(m, amount, merchant) ==
  /\ amount > 0
  /\ StoredStateIsValid(m)
  /\ status[m] = "Active"
  /\ now <= m.expiry
  /\ merchant = m.merchant
  /\ m.asset \in allowed
  /\ spent[m] + amount <= m.maxAmount

\* checked_spent succeeds.  (An overflow of the sum is over budget as well.)
CheckedSpent(m, amount, merchant) ==
  /\ amount > 0
  /\ StoredStateIsValid(m)
  /\ status[m] = "Active"
  /\ now < m.expiry
  /\ merchant = m.merchant
  /\ m.asset \in allowed
  /\ spent[m] + amount <= m.maxAmount

\* ensure_next_seq: the payment's successor number must exist.
SequenceLeft(m) == seq[m] < MaxSeq

\* Mutant: the preview does not look at the emergency stop.
PreviewWhilePaused(m, amount, expectedSeq, merchant, asset) ==
  /\ Registered(m)
  /\ expectedSeq = seq[m]
  /\ SequenceLeft(m)
  /\ asset = m.asset
  /\ CheckedSpent(m, amount, merchant)

\* validate_mandate succeeds: the preview anybody may ask for.
Preview(m, amount, expectedSeq, merchant, asset) ==
  /\ ~paused
  /\ Registered(m)
  /\ expectedSeq = seq[m]
  /\ SequenceLeft(m)
  /\ asset = m.asset
  /\ CheckedSpent(m, amount, merchant)

\* Mutant: a mandate used to the end stays active.
StatusAfterPayment(m, newSpent) == status[m]

StatusAfter(m, newSpent) == IF newSpent = m.maxAmount THEN "Exhausted" ELSE status[m]

\* Mutant: the receipt names the next sequence number.
ReceiptOfNext(m, amount) == [amount |-> amount, sequence |-> seq[m] + 1]

ReceiptOf(m, amount) == [amount |-> amount, sequence |-> seq[m]]

\* Mutant: twice the amount is drawn.
TransferTwice(m, amount) ==
  [k \in {m} |-> [asset |-> m.asset, from |-> m.user, to |-> m.merchant,
                  amount |-> 2 * amount]]

\* The transfer_from of one payment.
Transfer(m, amount) ==
  [k \in {m} |-> [asset |-> m.asset, from |-> m.user, to |-> m.merchant,
                  amount |-> amount]]

ExecutePayment(m, amount, expectedSeq) ==
  /\ ~paused
  /\ Registered(m)
  /\ expectedSeq = seq[m]
  /\ CheckedSpent(m, amount, m.merchant)
  /\ SequenceLeft(m)
  /\ spent' = [spent EXCEPT ![m] = @ + amount]
  /\ seq' = [seq EXCEPT ![m] = @ + 1]
  /\ status' = [status EXCEPT ![m] = StatusAfter(m, spent[m] + amount)]
  /\ Settle(Transfer(m, amount))
  /\ receipts' = [receipts EXCEPT ![m] = Append(@, ReceiptOf(m, amount))]
  /\ UNCHANGED <<adminVars, now, usedCredentials>>

Administer(caller) ==
  /\ AdminStep(caller)
  /\ UNCHANGED <<tokenVars, now, moneyVars>>

TokenStep ==
  /\ Environment
  /\ UNCHANGED <<adminVars, now, moneyVars>>

Tick ==
  /\ now < MaxTime
  /\ now' = now + 1
  /\ UNCHANGED <<adminVars, tokenVars, moneyVars>>

Next ==
  \/ \E m \in MandateTerms :
       \/ RegisterMandate(m)
       \/ RegisterAndApprove(m)
       \/ RevokeMandate(m)
       \/ \E amount \in PaymentAmounts, expectedSeq \in 0..MaxSeq :
            ExecutePayment(m, amount, expectedSeq)
  \/ \E caller \in Principals : Administer(caller)
  \/ TokenStep
  \/ Tick

Spec == Init /\ [][Next]_vars

================================================================================
