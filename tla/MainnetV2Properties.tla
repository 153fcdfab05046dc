-------------------------- MODULE MainnetV2Properties ---------------------------
(***************************************************************************)
(* What the Mainnet V2 registry keeps true, and that it implements the     *)
(* abstract MandateLedger.                                                 *)
(***************************************************************************)
EXTENDS MainnetV2Registry, FiniteSetsExt

CONSTANT NoGrant

ASSUME GrantConstants == NoGrant \notin MandateTerms

ReceiptType == [amount : Nat, sequence : Nat]

MoneyTypeOK ==
  /\ now \in 0..MaxTime
  /\ status \in [MandateTerms -> {"None", "Active", "Revoked", "Exhausted"}]
  /\ spent \in [MandateTerms -> Nat]
  /\ seq \in [MandateTerms -> 0..MaxSeq]
  /\ usedCredentials \subseteq Users \X Credentials
  /\ receipts \in [MandateTerms -> Seq(ReceiptType)]

TypeOK == AdminTypeOK /\ TokenTypeOK /\ MoneyTypeOK

\* The checks of checked_spent that answer InvalidState never fail: whatever is
\* called in whatever order, a stored mandate is one the contract wrote.
InvalidStateUnreachable ==
  \A m \in MandateTerms : Registered(m) => StoredStateIsValid(m)

\* A credential commitment of a user backs one mandate: signing it into other
\* terms (more budget, another shop) gets a second mandate from nobody.
OneMandatePerCredential ==
  \A m, n \in MandateTerms :
    /\ Registered(m) /\ Registered(n)
    /\ m.user = n.user /\ m.credential = n.credential
    => m = n

\* Whatever is stored has used up its credential.
CredentialsRecorded ==
  \A m \in MandateTerms : Registered(m) => <<m.user, m.credential>> \in usedCredentials

\* What every step keeps; the proofs' inductive invariant.
MandatesInv ==
  /\ MoneyTypeOK
  /\ InvalidStateUnreachable
  /\ CredentialsRecorded
  /\ OneMandatePerCredential

\* The receipts tell the whole story: an observer who adds up the payment
\* events of a mandate gets what it has spent, and sees every sequence number
\* from 0 on exactly once, in order.
ReceiptsTellAll ==
  \A m \in MandateTerms :
    /\ Len(receipts[m]) = seq[m]
    /\ \A i \in 1..Len(receipts[m]) : receipts[m][i].sequence = i - 1
    /\ MapThenSumSet(LAMBDA i : receipts[m][i].amount, 1..Len(receipts[m])) = spent[m]

\* The books and the tokens agree: for every asset, payer and payee what was
\* ever drawn is the sum of `spent' over the mandates that name them.
BooksMatchLedger ==
  \A a \in Assets, u \in Users, w \in Payees :
    drawn[a][u][w] =
      MapThenSumSet(LAMBDA m : spent[m],
                    {m \in MandateTerms : m.asset = a /\ m.user = u /\ m.merchant = w})

\* validate_mandate promises neither too much nor too little: it answers yes
\* exactly when the same payment would go through, the tokens permitting.
PreviewIsExact ==
  \A m \in MandateTerms, amount \in PaymentAmounts, expectedSeq \in 0..MaxSeq :
    (/\ Preview(m, amount, expectedSeq, m.merchant, m.asset)
     /\ CanSettle(Transfer(m, amount)))
    <=> ENABLED ExecutePayment(m, amount, expectedSeq)

SpendStep ==
  \A m \in MandateTerms : spent'[m] # spent[m] =>
    /\ ~paused /\ m.asset \in allowed
    /\ status[m] = "Active" /\ now < m.expiry
    /\ spent'[m] > spent[m]
    /\ drawn'[m.asset][m.user][m.merchant] - drawn[m.asset][m.user][m.merchant]
         = spent'[m] - spent[m]
    /\ \A n \in MandateTerms \ {m} : spent'[n] = spent[n]

\* Money moves only under a live mandate, while the registry is running and the
\* asset is on the allow list now (not when the mandate was registered), and as
\* much of it as one mandate is charged.
SpendingIsAdmitted == [][SpendStep]_vars

FinalStep ==
  \A m \in MandateTerms :
    /\ status[m] = "Revoked" => status'[m] = "Revoked"
    /\ status[m] \in {"Revoked", "Exhausted"} \/ (Registered(m) /\ now >= m.expiry)
         => spent'[m] = spent[m]
    /\ Registered(m) => Registered(m)' /\ spent'[m] >= spent[m] /\ seq'[m] >= seq[m]

\* Revoked, used up or expired is final, and no mandate starts again from zero,
\* whatever upgrade, handoff, pause or registration comes after.
FinalityHolds == [][FinalStep]_vars

\* The registry as a mandate ledger: a stored mandate is a grant, and consent
\* stands until it is revoked.
Ledger == INSTANCE MandateLedger WITH
  Mandates <- MandateTerms,
  Grants <- MandateTerms,
  LastInstant <- MaxTime,
  time <- now,
  grant <- [m \in MandateTerms |-> IF Registered(m) THEN m ELSE NoGrant],
  used <- spent,
  consent <- [m \in MandateTerms |-> status[m] # "Revoked"]

\* Seen from the user and the token, the registry is nothing but the ledger of
\* grants, charges and withdrawals, for all its administration.
ImplementsMandateLedger == Ledger!Spec

================================================================================
