---------------------------- MODULE PolicyProperties ----------------------------
(***************************************************************************)
(* What the simple registry and the reference policy keep true together.   *)
(***************************************************************************)
EXTENDS ReferencePolicy, FiniteSets

CONSTANT NoGrant

ASSUME GrantConstants == NoGrant \notin MandateTerms

BooksTypeOK ==
  /\ now \in 0..MaxTime
  /\ paused \in BOOLEAN
  /\ terms \in [Mandates -> MandateTerms \union {NoTerms}]
  /\ status \in [Mandates -> {"None", "Active", "Revoked", "Exhausted"}]
  /\ spent \in [Mandates -> Nat]
  /\ seq \in [Mandates -> 0..MaxSeq]
  /\ policy \in [Mandates -> Policies \union {NoPolicy}]
  /\ consumed \subseteq Policies \X Nonces

TypeOK == TokenTypeOK /\ BooksTypeOK

UsesExtension(m) == Registered(m) /\ terms[m].agent = Extension

\* What a policy was bound to at installation is what the mandate says for
\* ever after: the agreement that execute tests again fails for nothing but a
\* mandate that is revoked or used up.
BindingStaysTrue ==
  \A m \in Mandates : Installed(m) =>
    /\ UsesExtension(m)
    /\ policy[m].mandate = m /\ policy[m].base = terms[m]
    /\ policy[m].cap \in 1..terms[m].maxAmount
    /\ policy[m].notBefore < terms[m].expiry

NoncesOf(m) == {c \in consumed : c[1].mandate = m}

\* A nonce is consumed exactly when a payment went through: payments refused
\* by the registry or the token leave no nonce behind, and no nonce pays twice.
NoncesMatchPayments ==
  \A m \in Mandates : UsesExtension(m) =>
    Cardinality(NoncesOf(m)) = seq[m]

\* Under the extension a mandate never spends more than its cap allows for the
\* number of payments made, nor more than its budget.
SpendWithinCaps ==
  \A m \in Mandates :
    /\ Installed(m) => spent[m] <= seq[m] * policy[m].cap
    /\ UsesExtension(m) /\ ~Installed(m) => spent[m] = 0
    /\ Registered(m) => spent[m] <= terms[m].maxAmount

\* Consumed nonces belong to policies in force.
NoncesAreInForce ==
  /\ IsFiniteSet(consumed)
  /\ \A c \in consumed : Installed(c[1].mandate) /\ c[1] = policy[c[1].mandate]

\* A mandate has a status exactly when it has terms.
StatusTracksTerms ==
  \A m \in Mandates : Registered(m) <=> status[m] # "None"

\* What every step keeps; the proofs' inductive invariant.
PolicyInv ==
  /\ BooksTypeOK
  /\ StatusTracksTerms
  /\ BindingStaysTrue
  /\ NoncesAreInForce
  /\ NoncesMatchPayments
  /\ SpendWithinCaps

PolicyStep ==
  \A m \in Mandates : UsesExtension(m) /\ spent'[m] # spent[m] =>
    /\ Installed(m)
    /\ now >= policy[m].notBefore
    /\ spent'[m] - spent[m] \in 1..policy[m].cap
    /\ \E nonce \in Nonces :
         /\ <<policy[m], nonce>> \notin consumed
         /\ consumed' = consumed \union {<<policy[m], nonce>>}

\* The policy is the only door to a mandate whose agent is the extension: all
\* that is ever spent was admitted by the policy in force, one fresh nonce for
\* each payment.
PolicyIsTheOnlyDoor == [][PolicyStep]_vars

FinalStep ==
  \A m \in Mandates :
    /\ Installed(m) => policy'[m] = policy[m]
    /\ status[m] = "Revoked" => status'[m] = "Revoked"
    /\ status[m] \in {"Revoked", "Exhausted"} => spent'[m] = spent[m]
    /\ Registered(m) => terms'[m] = terms[m] /\ seq'[m] >= seq[m]

\* An installed policy and the terms under it are immutable, and a mandate that
\* is revoked or used up stays so, whatever the executor was authorised for.
FinalityHolds == [][FinalStep]_vars

\* The registry as a mandate ledger; the policy can only narrow it.
Ledger == INSTANCE MandateLedger WITH
  Grants <- MandateTerms,
  LastInstant <- MaxTime,
  time <- now,
  grant <- [m \in Mandates |-> IF Registered(m) THEN terms[m] ELSE NoGrant],
  used <- spent,
  consent <- [m \in Mandates |-> status[m] # "Revoked"]

\* The registry with the extension as an agent is nothing but the ledger of
\* grants, charges and withdrawals.
ImplementsMandateLedger == Ledger!Spec

\* What the preflight says of itself: it answers whether the payment would be
\* permitted right now.  Whatever it admits, the registry then accepts from
\* the mandate's agent with the current sequence number, the token willing.
PreflightIsSound ==
  \A m \in Mandates, amount \in PaymentAmounts :
    /\ Registered(m) /\ seq[m] < MaxSeq
    /\ Preflight(m, amount, terms[m].merchant)
    /\ CanSettle(Transfer(m, amount))
    => ENABLED ExecutePayment(terms[m].agent, m, amount, seq[m])

================================================================================
